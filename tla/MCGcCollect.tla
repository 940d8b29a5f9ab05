----------------------------- MODULE MCGcCollect -----------------------------
(***************************************************************************)
(* Whole collections of the heaps of MCGcMark, on a kernel that may move   *)
(* the heap below or above the place it is at.                             *)
(***************************************************************************)
EXTENDS GcCollect, TLC

MCStackBottom == 4
MCGlobalStart == 6
MCGlobalStop  == 7
MCWords       == {3, 4, 6, 9}
MCBases       == {20, 90}

New(kind, len, fields, id) ==
  [kind |-> kind, len |-> len, fields |-> fields, fwd |-> 0,
   mark |-> FALSE, enq |-> FALSE, id |-> id]

\* The objects are at 60, 63 and 67: when the first is garbage the second moves
\* to memory that overlaps its own.
Pointers == {-1, 62, 65, 69}

\* An address outside the heap, at a place the heap cannot be moved to because of it.
Foreign == 92

Heaps ==
  {(60 :> New("ARRAY", 1, <<a>>, 1)) @@ (63 :> New("ARRAY", 2, <<b, c>>, 2))
     @@ (67 :> New("ARRAY", 0, <<>>, 3)) : a, b, c \in Pointers}
  \cup
  {(60 :> New("CLOSURE", 1, <<>>, 1)) @@ (63 :> New("STRING", 4, <<>>, 2))
     @@ (67 :> New("SEXP", 0, <<>>, 3))}

Image(m, p, q, r, n) ==
  [mem |-> m, heap |-> [begin |-> 60, current |-> 69, size |-> 12],
   word |-> (3 :> p) @@ (4 :> -1) @@ (6 :> q) @@ (9 :> r),
   top |-> 2, extra |-> <<9, 3>>, need |-> n]

\* The sexp without fields is one word longer than the array without fields.  The
\* smaller request can be served without extending the heap, the larger cannot.
MCImages ==
  {[Image(m, p, q, r, n) EXCEPT !.heap.current =
      IF m[67].kind = "SEXP" THEN 70 ELSE 69] :
     m \in Heaps, p, q \in Pointers, r \in Pointers \cup {Foreign}, n \in {4, 9}}

=============================================================================
