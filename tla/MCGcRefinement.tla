--------------------------- MODULE MCGcRefinement ---------------------------
(***************************************************************************)
(* A program with one global variable that starts with an empty heap.      *)
(***************************************************************************)
EXTENDS GcRefinement, TLC

MCStackBottom == 8
MCGlobalStart == 10
MCGlobalStop  == 11
MCLocalP      == 12
MCLocalQ      == 13
MCWords       == 3..8 \cup {10, 12, 13}

\* INIT_HEAP_SIZE is MINIMUM_HEAP_CAPACITY.
MCImages ==
  {[mem |-> << >>, heap |-> [begin |-> 40, current |-> 40, size |-> MinCapacity],
    word |-> [a \in MCWords |-> Number], top |-> MCStackBottom - 1,
    extra |-> << >>, need |-> 1]}

=============================================================================
