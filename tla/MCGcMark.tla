------------------------------ MODULE MCGcMark ------------------------------
(***************************************************************************)
(* Small heaps for GcMark: every graph over three adjacent objects, for    *)
(* two choices of kinds, with one word of each kind of root.               *)
(***************************************************************************)
EXTENDS GcMark, TLC

MCStackBottom == 4
MCGlobalStart == 6
MCGlobalStop  == 7
MCWords       == {3, 4, 6, 9}

New(kind, len, fields, id) ==
  [kind |-> kind, len |-> len, fields |-> fields, fwd |-> 0,
   mark |-> FALSE, enq |-> FALSE, id |-> id]

\* The objects are at 60, 64 and 68; the last one is an empty array, whose
\* content address is heap.current.
Pointers == {-1, 62, 66, 70}

Heaps ==
  {(60 :> New("ARRAY", 2, <<a, b>>, 1)) @@ (64 :> New("SEXP", 1, <<c>>, 2))
     @@ (68 :> New("ARRAY", 0, <<>>, 3)) : a, b, c \in Pointers}
  \cup
  {(60 :> New("STRING", 4, <<>>, 1)) @@ (64 :> New("CLOSURE", 2, <<a>>, 2))
     @@ (68 :> New("ARRAY", 0, <<>>, 3)) : a \in Pointers}

\* Of the registered words one is on the virtual stack and one, like a local of
\* a runtime function, is outside both the stack and the global area.
Image(m, p, q, r) ==
  [mem |-> m, heap |-> [begin |-> 60, current |-> 70, size |-> 12],
   word |-> (3 :> p) @@ (4 :> -1) @@ (6 :> q) @@ (9 :> r),
   top |-> 2, extra |-> <<9, 3>>, need |-> 3]

MCImages == {Image(m, p, q, r) : m \in Heaps, p, q, r \in Pointers}

=============================================================================
