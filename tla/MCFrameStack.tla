---------------------------- MODULE MCFrameStack ----------------------------
(***************************************************************************)
(* Two activations on top of the initial one, on the smallest stack they   *)
(* fit in.                                                                 *)
(***************************************************************************)
EXTENDS FrameRefinement, TLC

CONSTANTS v1, s1

MCLiterals == {v1}
MCSites == {s1}

=============================================================================
