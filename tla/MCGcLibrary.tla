----------------------------- MODULE MCGcLibrary -----------------------------
(***************************************************************************)
(* A program without global variables that calls the library, and starts   *)
(* with an empty heap.                                                     *)
(***************************************************************************)
EXTENDS GcLibrary, TLC

MCWords == 3..8 \cup {12, 13, 14, 15}

MCImages ==
  {[mem |-> << >>, heap |-> [begin |-> 40, current |-> 40, size |-> MinCapacity],
    word |-> [a \in MCWords |-> Number], top |-> StackBottom - 1,
    extra |-> << >>, need |-> 1]}

=============================================================================
