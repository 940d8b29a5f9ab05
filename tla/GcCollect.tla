------------------------------ MODULE GcCollect ------------------------------
(***************************************************************************)
(* A whole collection: gc_alloc of runtime/gc.c up to its last statement,  *)
(* that is mark_phase followed by compact_phase, from every well-formed    *)
(* heap in Images.                                                         *)
(*                                                                         *)
(* gc_alloc, compiled with FULL_INVARIANT_CHECKS, dumps the stack before   *)
(* the collection and the marked objects after mark_phase, and compares    *)
(* both with what it dumps after compact_phase.  The variable snapshot     *)
(* holds the dump taken after mark_phase.                                  *)
(***************************************************************************)
EXTENDS GcMark, GcCompact

VARIABLE snapshot

collectVars == <<gcVars, snapshot>>

-----------------------------------------------------------------------------
(* Dumps name objects by their id, never by their address.                  *)
\* print_objects_traversal lists objects in the order of the heap.
DumpObject(S, h) ==
  [rank |-> Cardinality({g \in S : g < h}),
   id |-> mem[h].id, kind |-> mem[h].kind, len |-> mem[h].len,
   fields |-> [i \in DOMAIN mem[h].fields |-> Denotes(mem[h].fields[i])]]

Dump(S) ==
  [objects |-> {DumpObject(S, h) : h \in S},
   roots |-> [a \in RootWords(top, extra) |-> Denotes(word[a])],
   others |-> [a \in Words \ RootWords(top, extra) |-> word[a]]]

CollectInit == MarkInit /\ snapshot = <<>>

\* The dump after a step of a collection.
DumpAfterMarking ==
  IF phase = "scanGlobals" /\ phase' = "compute" THEN Dump(Marked) ELSE snapshot

CollectNext == (MarkNext \/ CompactNext) /\ snapshot' = DumpAfterMarking

CollectSpec == CollectInit /\ [][CollectNext]_collectVars /\ WF_collectVars(CollectNext)

-----------------------------------------------------------------------------
(* Properties                                                               *)

\* Every variable has a value of its type in each phase of a collection, and no
\* phase has given back memory that objects are still in: the chunk is extended
\* before they are moved and never shrunk (gc.c:264-268).
CollectTypeOK ==
  /\ mem \in [DOMAIN mem -> Object]
  /\ {heap, old} \subseteq [begin : Nat, current : Nat, size : Nat]
  /\ word \in [Words -> Int]
  /\ phase \in Scanning \cup Compacting \cup {"alloc", "exit", "crash"}
  /\ it \in Nat /\ live \in Nat
  /\ \A h \in DOMAIN mem :
       heap.begin <= h /\ NextObj(mem, h) <= heap.begin + heap.size

\* No loop of a collection reads a header where there is none, whether the
\* objects are at their old places or at their new ones.
CollectNoCrash == phase # "crash"

\* What FULL_INVARIANT_CHECKS compares (gc.c:203-216): the words of the stack
\* and the other roots denote after the collection what they denoted before it,
\* each fixed exactly once, no other word is touched, and the objects, in the
\* same order and with the same contents, are those that were marked.
CollectPreservesGraph ==
  phase = "alloc" => snapshot = Dump(DOMAIN mem)

\* A collection leaves a heap that the next one may start from: walkable, clean,
\* every word that looks like a heap pointer being the address of an object.
CollectLeavesWellFormed ==
  phase = "alloc" =>
    WellFormed([mem |-> mem, heap |-> heap, word |-> word, top |-> top,
                extra |-> extra, need |-> need])

\* The heap that compact_phase leaves has room for the request, so that the
\* last statement of gc_alloc does not return NULL, which no caller expects.
CollectMakesRoom ==
  phase = "alloc" => heap.current + need <= heap.begin + heap.size

\* A collection ends: with a heap to allocate from, or because the kernel
\* refused to extend it.
CollectEnds == <>(phase \in {"alloc", "exit"})

-----------------------------------------------------------------------------
(* The inductive invariant from which the safety properties follow.         *)

\* What never changes, or only as the phases say, from the first turn to the last.
StandingInv ==
  /\ CollectTypeOK /\ CollectNoCrash
  /\ IsFiniteSet(DOMAIN mem) /\ DOMAIN mem \subseteq Nat
  /\ \A h \in DOMAIN mem : /\ SizeWords(mem[h].kind, mem[h].len) > 0
                           /\ NextObj(mem, h) <= heap.current
  /\ heap.current <= heap.begin + heap.size
  /\ top \in Nat /\ top < StackBottom /\ extra \in Seq(Words) /\ need \in Nat \ {0}
  /\ RootWords(top, extra) \subseteq Words
  /\ \A i, j \in DOMAIN extra : extra[i] = extra[j] => i = j
  /\ \A i \in DOMAIN extra : extra[i] \notin {top, GlobalStop}
  /\ phase \in Scanning \/ \A h \in DOMAIN mem : ~mem[h].enq

ScanInv ==
  /\ MarkInv
  /\ old = heap /\ live = 0 /\ ~IsValidHeapPointer(word[StackBottom])

\* The objects of m in S, each put at the address that at gives, follow each other
\* in their order from b to e.
Packs(m, S, at, b, e) ==
  /\ b \in {at[g] : g \in S} \cup {e}
  /\ \A h \in S : /\ b <= at[h] /\ at[h] + ObjWords(m[h]) <= e
                  /\ at[h] + ObjWords(m[h]) \in {at[g] : g \in S} \cup {e}
  /\ \A g, h \in S : g < h => at[g] + ObjWords(m[g]) <= at[h]

\* compute_locations has placed the marked objects below it, none of them higher
\* than it is.
Placed == {h \in Marked : h < it}

ComputeInv ==
  /\ old = heap /\ ~IsValidHeapPointer(word[StackBottom])
  /\ Walkable(mem, heap.begin, heap.current)
  /\ Closed(Marked)
  /\ it \in DOMAIN mem \cup {heap.current} /\ (phase = "resize" => it = heap.current)
  /\ live <= it - heap.begin
  /\ \A h \in Placed : mem[h].fwd <= h
  /\ Packs(mem, Placed, [h \in Placed |-> mem[h].fwd], heap.begin, heap.begin + live)
  /\ snapshot = Dump(Marked)

\* After mremap: physically_relocate has moved the objects below an address f to
\* their final places; those that it will move still are where they were.
Settled(f) == {h \in DOMAIN mem : h < f}
Pending == {h \in DOMAIN mem : mem[h].mark /\ (phase = "move" => it <= h)}
Items(f) == Settled(f) \cup Pending
FinalPlace(f) == [h \in Items(f) |-> IF h < f THEN h ELSE Moved(mem[h].fwd)]

NewEnd == heap.begin + live

LayoutInv(f) ==
  /\ heap.begin <= f
  /\ f \in {FinalPlace(f)[h] : h \in Items(f)} \cup {NewEnd}
  /\ \A h \in Pending : f <= Moved(mem[h].fwd) /\ Moved(mem[h].fwd) <= h
  /\ Packs(mem, Items(f), FinalPlace(f), heap.begin, NewEnd)

\* A word that looks like a pointer into the compacted heap.
InCompacted(v) == ~IsUnboxed(v) /\ heap.begin <= v /\ v <= NewEnd

\* v, a word that is not fixed yet, or one that is, stands for what d denotes.
DenotedBefore(v, d) ==
  IF InChunk(old, v)
    THEN Referent(v) \in Pending /\ d = <<"object", mem[Referent(v)].id>>
    ELSE ~InCompacted(v) /\ d = <<"word", v>>

DenotedAfter(f, v, d) ==
  IF InCompacted(v)
    THEN \E h \in Items(f) : FinalPlace(f)[h] = HeaderOf(v) /\ d = <<"object", mem[h].id>>
    ELSE d = <<"word", v>>

FieldsFixed(h) == phase # "fixFields" \/ h < it

\* The object at h is the one that the dump describes in r.
Described(f, h, r) ==
  /\ DOMAIN r.fields = DOMAIN mem[h].fields
  /\ r = [rank |-> Cardinality({x \in {FinalPlace(f)[g] : g \in Items(f)} : x < FinalPlace(f)[h]}),
          id |-> mem[h].id, kind |-> mem[h].kind, len |-> mem[h].len,
          fields |-> [i \in DOMAIN mem[h].fields |-> r.fields[i]]]
  /\ \A i \in DOMAIN mem[h].fields :
       IF FieldsFixed(h) THEN DenotedAfter(f, mem[h].fields[i], r.fields[i])
                         ELSE DenotedBefore(mem[h].fields[i], r.fields[i])

ObjectsKept(f) ==
  /\ \A h \in Items(f) : \E r \in snapshot.objects : Described(f, h, r)
  /\ \A r \in snapshot.objects : \E h \in Items(f) : Described(f, h, r)

\* The root words that a loop of update_references still has to fix.
StackWord(a) == top < a /\ a < StackBottom
GlobalWord(a) == GlobalStart <= a /\ a < GlobalStop

ToFix(a) ==
  \/ phase = "fixFields"
  \/ phase = "fixStack" /\ ~(StackWord(a) /\ a < it)
  \/ phase = "fixExtra" /\ ~StackWord(a) /\ \A j \in DOMAIN extra : j < it /\ extra[j] = a => GlobalWord(a)
  \/ phase = "fixGlobals" /\ GlobalWord(a) /\ it <= a

RootsKept(f) ==
  /\ \A a \in RootWords(top, extra) :
       IF ToFix(a) THEN DenotedBefore(word[a], snapshot.roots[a])
                   ELSE DenotedAfter(f, word[a], snapshot.roots[a])
  /\ ~InChunk(old, word[StackBottom]) /\ ~InCompacted(word[StackBottom])
  /\ snapshot = [objects |-> snapshot.objects,
                 roots |-> [a \in RootWords(top, extra) |-> snapshot.roots[a]],
                 others |-> [a \in Words \ RootWords(top, extra) |-> word[a]]]

ResizedInv(f) ==
  /\ heap.current - heap.begin = old.current - old.begin
  /\ live <= heap.current - heap.begin /\ 2 * live + need <= heap.size
  /\ LayoutInv(f) /\ ObjectsKept(f) /\ RootsKept(f)

FixInv ==
  /\ Walkable(mem, heap.begin, heap.current)
  /\ \E f \in {heap.begin} : ResizedInv(f)
  /\ phase = "fixFields" => it \in DOMAIN mem \cup {heap.current}
  /\ phase = "fixStack" => it >= top + 1
  /\ phase = "fixExtra" => it >= 1
  /\ phase = "fixGlobals" => it >= GlobalStart

\* The rest of the heap, which physically_relocate has not come to.
Rest == [h \in {g \in DOMAIN mem : it <= g} |-> mem[h]]

MoveInv ==
  /\ Walkable(Rest, it, heap.current)
  /\ \E f \in heap.begin .. it : ResizedInv(f) /\ \A h \in Settled(f) : ~mem[h].mark

CollectInv ==
  /\ StandingInv
  /\ phase \in Scanning => ScanInv
  /\ phase \in {"compute", "resize"} => ComputeInv
  /\ phase \in {"fixFields", "fixStack", "fixExtra", "fixGlobals"} => FixInv
  /\ phase = "move" => MoveInv
  /\ CollectPreservesGraph /\ CollectLeavesWellFormed /\ CollectMakesRoom

=============================================================================
