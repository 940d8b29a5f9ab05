---------------------------- MODULE GcMarkProofs ----------------------------
(***************************************************************************)
(* Mark_phase marks exactly what is reachable and never leaves the heap,   *)
(* for every well-formed heap of any size.                                 *)
(***************************************************************************)
EXTENDS GcMark, TLAPS, FiniteSetTheorems

-----------------------------------------------------------------------------
(* The heap                                                                 *)

\* The parts of an object that marking leaves alone.
SameShape(m, n) ==
  /\ DOMAIN n = DOMAIN m
  /\ \A h \in DOMAIN m : /\ n[h].kind = m[h].kind
                         /\ n[h].len = m[h].len
                         /\ n[h].fields = m[h].fields

\* What a consistent heap satisfies depends on the shape of its objects only:
\* setting forward addresses and flags keeps it walkable and free of dangling
\* pointers.
LEMMA ShapeKeepsHeap ==
  ASSUME NEW m, NEW n, NEW b, NEW c, SameShape(m, n),
         Walkable(m, b, c), FieldsPointToObjects(m, b, c)
  PROVE  Walkable(n, b, c) /\ FieldsPointToObjects(n, b, c)
<1>1. \A h \in DOMAIN m : NextObj(n, h) = NextObj(m, h)
  BY DEF SameShape, NextObj, ObjWords
<1>2. Walkable(n, b, c)
  BY <1>1 DEF SameShape, Walkable
<1>3. FieldsPointToObjects(n, b, c)
  BY DEF SameShape, FieldsPointToObjects, PointsToObject
<1> QED BY <1>2, <1>3

\* Objects are adjacent: those before the next one are those before this one,
\* and this one.  It is what makes heap_next_obj_iterator count objects.
LEMMA NextObject ==
  ASSUME MarkTypeOK, HeapInv, NEW h \in DOMAIN mem
  PROVE  /\ NextObj(mem, h) \in DOMAIN mem \cup {heap.current}
         /\ NextObj(mem, h) \in Nat
         /\ h < NextObj(mem, h) /\ NextObj(mem, h) <= heap.current
         /\ {g \in DOMAIN mem : g < NextObj(mem, h)} = {g \in DOMAIN mem : g < h} \cup {h}
<1>1. /\ h \in Nat /\ heap.current \in Nat /\ DOMAIN mem \subseteq Nat
      /\ mem[h] \in Object
  BY DEF MarkTypeOK
<1>2. ObjWords(mem[h]) \in Nat /\ ObjWords(mem[h]) > 0
  BY <1>1 DEF HeapInv, ObjWords, SizeWords, Object, HeaderWords
<1>3. NextObj(mem, h) \in Nat /\ h < NextObj(mem, h)
  BY <1>1, <1>2 DEF NextObj
<1>4. NextObj(mem, h) \in DOMAIN mem \cup {heap.current} /\ NextObj(mem, h) <= heap.current
  BY DEF HeapInv, Walkable
<1>5. \A g \in DOMAIN mem : g < NextObj(mem, h) <=> g < h \/ g = h
  <2> SUFFICES ASSUME NEW g \in DOMAIN mem
               PROVE  g < NextObj(mem, h) <=> g < h \/ g = h
    OBVIOUS
  <2>1. h < g => NextObj(mem, h) <= g
    BY DEF HeapInv, Walkable
  <2> QED BY <2>1, <1>1, <1>3
<1> QED BY <1>3, <1>4, <1>5

\* As long as one object was not enqueued the tail is at an object.
LEMMA TailInHeap ==
  ASSUME MarkTypeOK, HeapInv,
         NEW tail \in DOMAIN mem \cup {heap.current},
         Cardinality({h \in DOMAIN mem : h < tail}) <= Cardinality(Touched),
         NEW x \in DOMAIN mem, x \notin Touched
  PROVE  tail \in DOMAIN mem
<1> SUFFICES ASSUME tail = heap.current
             PROVE  FALSE
  OBVIOUS
<1>1. {h \in DOMAIN mem : h < tail} = DOMAIN mem
  <2>1. ASSUME NEW h \in DOMAIN mem PROVE h < heap.current
    <3>1. h < NextObj(mem, h) /\ NextObj(mem, h) <= heap.current /\ NextObj(mem, h) \in Nat
      BY NextObject
    <3>2. h \in Nat /\ heap.current \in Nat
      BY DEF MarkTypeOK
    <3> QED BY <3>1, <3>2
  <2> QED BY <2>1
<1>2. IsFiniteSet(DOMAIN mem) /\ Cardinality(DOMAIN mem) \in Nat
  BY FS_CardinalityType DEF MarkTypeOK
<1>3. /\ IsFiniteSet(DOMAIN mem \ {x})
      /\ Cardinality(DOMAIN mem \ {x}) = Cardinality(DOMAIN mem) - 1
  BY <1>2, FS_RemoveElement
<1>4. Touched \subseteq DOMAIN mem \ {x}
  BY DEF Touched
<1>5. Cardinality(Touched) <= Cardinality(DOMAIN mem \ {x}) /\ Cardinality(Touched) \in Nat
  BY <1>3, <1>4, FS_Subset, FS_CardinalityType
<1> QED BY <1>1, <1>2, <1>3, <1>5

-----------------------------------------------------------------------------
(* Steps                                                                    *)

\* What marking never writes.
Untouched == UNCHANGED <<heap, word, top, extra, old, live, need>>

\* A step that writes forward addresses and flags only keeps the heap
\* consistent, and an object that is enqueued or marked stays so or becomes so.
LEMMA ShapeStep ==
  ASSUME MarkTypeOK, HeapInv, Untouched, SameShape(mem, mem'),
         mem' \in [DOMAIN mem -> Object]
  PROVE  /\ HeapInv'
         /\ \A S : Closed(S)' /\ S \subseteq DOMAIN mem => Closed(S)
<1>1. RootWords(top, extra)' = RootWords(top, extra)
  BY DEF RootWords, Untouched
<1>2. (\A h \in DOMAIN mem : SizeWords(mem[h].kind, mem[h].len) > 0)'
  BY DEF HeapInv, SameShape
<1>3. Walkable(mem, heap.begin, heap.current)' /\ FieldsPointToObjects(mem, heap.begin, heap.current)'
  <2>1. /\ Walkable(mem', heap.begin, heap.current)
        /\ FieldsPointToObjects(mem', heap.begin, heap.current)
    BY ShapeKeepsHeap DEF HeapInv
  <2> QED BY <2>1 DEF Untouched
<1>4. RootsPointToObjects(mem, heap.begin, heap.current, word, top, extra)'
  BY <1>1 DEF HeapInv, RootsPointToObjects, PointsToObject, SameShape, Untouched
<1>5. ASSUME NEW S, Closed(S)', S \subseteq DOMAIN mem
      PROVE  Closed(S)
  BY <1>1, <1>5 DEF Closed, IsValidHeapPointer, InChunk, SameShape, Untouched
<1> QED BY <1>1, <1>2, <1>3, <1>4, <1>5 DEF HeapInv, Untouched

\* queue_enqueue writes one forward address and sets one flag.
LEMMA EnqueuedEffect ==
  ASSUME MarkTypeOK, NEW tail \in DOMAIN mem, NEW v \in Int, HeaderOf(v) \in DOMAIN mem,
         mem' = Enqueued(tail, v)
  PROVE  /\ SameShape(mem, mem')
         /\ mem' \in [DOMAIN mem -> Object]
         /\ \A h \in DOMAIN mem :
               /\ mem'[h].mark = mem[h].mark
               /\ mem'[h].enq = (mem[h].enq \/ h = HeaderOf(v))
               /\ mem'[h].fwd = IF h = tail THEN v ELSE mem[h].fwd
         /\ Touched' = Touched \cup {HeaderOf(v)}
<1>1. \A h \in DOMAIN mem : mem[h] \in Object
  BY DEF MarkTypeOK
<1>2. DOMAIN mem' = DOMAIN mem
  BY DEF Enqueued
<1>3. ASSUME NEW h \in DOMAIN mem
      PROVE  /\ mem'[h] \in Object
             /\ mem'[h].kind = mem[h].kind /\ mem'[h].len = mem[h].len
             /\ mem'[h].fields = mem[h].fields
             /\ mem'[h].mark = mem[h].mark
             /\ mem'[h].enq = (mem[h].enq \/ h = HeaderOf(v))
             /\ mem'[h].fwd = IF h = tail THEN v ELSE mem[h].fwd
  BY <1>1 DEF Enqueued, Object
<1>4. mem' \in [DOMAIN mem -> Object]
  BY <1>2, <1>3 DEF Enqueued
<1> QED BY <1>2, <1>3, <1>4 DEF SameShape, Touched

\* The heap begins with an object if there is one.
LEMMA HeapBegins ==
  ASSUME MarkTypeOK, HeapInv, NEW x \in DOMAIN mem
  PROVE  heap.begin \in DOMAIN mem /\ {h \in DOMAIN mem : h < heap.begin} = {}
<1>1. heap.begin \in DOMAIN mem \cup {heap.current} /\ \A h \in DOMAIN mem : heap.begin <= h
  BY DEF HeapInv, Walkable
<1>2. x < NextObj(mem, x) /\ NextObj(mem, x) <= heap.current /\ NextObj(mem, x) \in Nat
  BY NextObject
<1>3. heap.begin \in Nat /\ heap.current \in Nat /\ DOMAIN mem \subseteq Nat
  BY DEF MarkTypeOK
<1>4. {h \in DOMAIN mem : h < heap.begin} = {}
  BY <1>1, <1>3
<1> QED BY <1>1, <1>2, <1>3, <1>4

\* Enqueueing an object that was not keeps the queue within the heap.
LEMMA EnqueueKeepsQueue ==
  ASSUME MarkTypeOK, HeapInv, Untouched,
         NEW tail \in DOMAIN mem \cup {heap.current},
         Cardinality({h \in DOMAIN mem : h < tail}) <= Cardinality(Touched),
         NEW v \in Int, HeaderOf(v) \in DOMAIN mem, HeaderOf(v) \notin Touched,
         mem' = Enqueued(tail, v), qTail' = NextObj(mem, tail)
  PROVE  /\ tail \in DOMAIN mem
         /\ qTail' \in DOMAIN mem \cup {heap.current} /\ qTail' \in Nat /\ tail < qTail'
         /\ Cardinality({h \in DOMAIN mem : h < qTail})' <= Cardinality(Touched)'
         /\ \A h \in DOMAIN mem : h < qTail' <=> h < tail \/ h = tail
<1>1. tail \in DOMAIN mem
  BY TailInHeap
<1>2. Touched' = Touched \cup {HeaderOf(v)} /\ DOMAIN mem' = DOMAIN mem
  BY <1>1, EnqueuedEffect DEF SameShape
<1>3. IsFiniteSet(Touched) /\ IsFiniteSet({h \in DOMAIN mem : h < tail})
  BY FS_Subset DEF MarkTypeOK, Touched
<1>4. Cardinality(Touched') = Cardinality(Touched) + 1
  BY <1>2, <1>3, FS_AddElement
<1>5. /\ qTail' \in DOMAIN mem \cup {heap.current} /\ qTail' \in Nat /\ tail < qTail'
      /\ {h \in DOMAIN mem : h < qTail'} = {h \in DOMAIN mem : h < tail} \cup {tail}
  BY <1>1, NextObject
<1>6. tail \notin {h \in DOMAIN mem : h < tail}
  BY <1>1 DEF MarkTypeOK
<1>7. Cardinality({h \in DOMAIN mem : h < qTail'}) = Cardinality({h \in DOMAIN mem : h < tail}) + 1
  BY <1>3, <1>5, <1>6, FS_AddElement
<1>8. /\ Cardinality(Touched) \in Nat
      /\ Cardinality({h \in DOMAIN mem : h < tail}) \in Nat
  BY <1>3, FS_CardinalityType
<1>9. Cardinality({h \in DOMAIN mem : h < qTail})' <= Cardinality(Touched)'
  BY <1>2, <1>4, <1>7, <1>8
<1>10. \A h \in DOMAIN mem : h < qTail' <=> h < tail \/ h = tail
  BY <1>5
<1> QED BY <1>1, <1>5, <1>9, <1>10

\* A whole step that enqueues v at tail, in a queue that starts at head.
LEMMA EnqueueStep ==
  ASSUME MarkTypeOK, HeapInv, LiveInv, Untouched,
         NEW head, NEW tail, QueueOK(head, tail),
         NEW v \in Int, HeaderOf(v) \in DOMAIN mem, HeaderOf(v) \notin Touched,
         \A S \in SUBSET DOMAIN mem : Closed(S) => HeaderOf(v) \in S,
         mem' = Enqueued(tail, v), qHead' = head, qTail' = NextObj(mem, tail)
  PROVE  /\ tail \in DOMAIN mem /\ qHead' \in Nat /\ qTail' \in Nat
         /\ SameShape(mem, mem') /\ mem' \in [DOMAIN mem -> Object]
         /\ \A h \in DOMAIN mem : mem'[h].mark = mem[h].mark
         /\ Touched' = Touched \cup {HeaderOf(v)}
         /\ HeapInv' /\ LiveInv' /\ QueueOK(qHead, qTail)'
<1> DEFINE Q == {h \in DOMAIN mem : head <= h /\ h < tail}
<1>1. /\ {head, tail} \subseteq DOMAIN mem \cup {heap.current} /\ head <= tail
      /\ Cardinality({h \in DOMAIN mem : h < tail}) <= Cardinality(Touched)
      /\ \A a \in Q : HeaderOf(mem[a].fwd) \in DOMAIN mem /\ mem[HeaderOf(mem[a].fwd)].enq
      /\ \A a, b \in Q : mem[a].fwd = mem[b].fwd => a = b
      /\ \A h \in DOMAIN mem : mem[h].enq =>
            ~mem[h].mark /\ \E a \in Q : HeaderOf(mem[a].fwd) = h
  BY DEF QueueOK, IsEnqueued
<1>2. /\ tail \in DOMAIN mem
      /\ qTail' \in DOMAIN mem \cup {heap.current} /\ qTail' \in Nat /\ tail < qTail'
      /\ Cardinality({h \in DOMAIN mem : h < qTail})' <= Cardinality(Touched)'
      /\ \A h \in DOMAIN mem : h < qTail' <=> h < tail \/ h = tail
  BY <1>1, EnqueueKeepsQueue
<1>3. /\ SameShape(mem, mem') /\ mem' \in [DOMAIN mem -> Object]
      /\ \A h \in DOMAIN mem :
            /\ mem'[h].mark = mem[h].mark
            /\ mem'[h].enq = (mem[h].enq \/ h = HeaderOf(v))
            /\ mem'[h].fwd = IF h = tail THEN v ELSE mem[h].fwd
      /\ Touched' = Touched \cup {HeaderOf(v)}
  BY <1>2, EnqueuedEffect
<1>4. HeapInv' /\ \A S : Closed(S)' /\ S \subseteq DOMAIN mem => Closed(S)
  BY <1>3, ShapeStep
<1>5. DOMAIN mem' = DOMAIN mem /\ heap' = heap
  BY <1>3 DEF SameShape, Untouched
<1>6. LiveInv'
  BY <1>3, <1>4, <1>5 DEF LiveInv
<1>7. head \in Nat /\ tail \in Nat /\ DOMAIN mem \subseteq Nat
  BY <1>1 DEF MarkTypeOK
<1> DEFINE R == {h \in DOMAIN mem' : qHead' <= h /\ h < qTail'}
<1>8. R = Q \cup {tail} /\ tail \notin Q
  BY <1>1, <1>2, <1>5, <1>7
<1>9. ~mem[HeaderOf(v)].enq /\ ~mem[HeaderOf(v)].mark
  BY DEF Touched
<1>10. /\ {qHead', qTail'} \subseteq DOMAIN mem' \cup {heap'.current}
       /\ qHead' <= qTail'
  BY <1>1, <1>2, <1>5, <1>7
<1>11. \A a \in R : HeaderOf(mem'[a].fwd) \in DOMAIN mem' /\ mem'[HeaderOf(mem'[a].fwd)].enq
  BY ZenonT(30), <1>1, <1>3, <1>5, <1>8
<1>12. \A a, b \in R : mem'[a].fwd = mem'[b].fwd => a = b
  <2>1. \A a \in Q : mem'[a].fwd = mem[a].fwd /\ mem[a].fwd # v
    BY <1>1, <1>3, <1>8, <1>9
  <2>2. mem'[tail].fwd = v
    BY <1>2, <1>3
  <2> QED BY <1>1, <1>8, <2>1, <2>2
<1>13. \A h \in DOMAIN mem' : mem'[h].enq =>
         ~mem'[h].mark /\ \E a \in R : HeaderOf(mem'[a].fwd) = h
  <2> SUFFICES ASSUME NEW h \in DOMAIN mem, mem'[h].enq
               PROVE  ~mem'[h].mark /\ \E a \in R : HeaderOf(mem'[a].fwd) = h
    BY <1>5
  <2>1. CASE h = HeaderOf(v)
    BY <2>1, <1>2, <1>3, <1>8, <1>9
  <2>2. CASE mem[h].enq
    <3>1. PICK a \in Q : HeaderOf(mem[a].fwd) = h
      BY <1>1, <2>2
    <3>2. a \in R /\ mem'[a].fwd = mem[a].fwd
      BY <1>3, <1>8
    <3> QED BY <1>1, <1>3, <2>2, <3>1, <3>2
  <2> QED BY <1>3, <2>1, <2>2
<1>14. QueueOK(qHead, qTail)'
  BY <1>2, <1>10, <1>11, <1>12, <1>13 DEF QueueOK, IsEnqueued
<1> QED BY <1>2, <1>3, <1>4, <1>6, <1>7, <1>14

\* What was enqueued or marked stays so.
LEMMA TouchedGrows ==
  ASSUME Untouched, Touched \subseteq Touched', NEW u, TouchedValue(u)
  PROVE  TouchedValue(u)'
BY DEF TouchedValue, IsValidHeapPointer, InChunk, Untouched

\* A call of mark() for a root: v is enqueued unless it is no heap pointer or
\* already marked.
LEMMA MarkRoot ==
  ASSUME MarkInv, phase \in Scanning, Idle, NEW v \in Int,
         IsValidHeapPointer(v) => HeaderOf(v) \in DOMAIN mem,
         \A S \in SUBSET DOMAIN mem : Closed(S) /\ IsValidHeapPointer(v) => HeaderOf(v) \in S,
         Mark(v)
  PROVE  /\ Untouched /\ UNCHANGED <<obj, phase, fld>> /\ it' = it + 1
         /\ MarkTypeOK' /\ HeapInv' /\ QueueOK(qHead, qTail)' /\ FieldsScanned' /\ LiveInv'
         /\ Touched \subseteq Touched' /\ TouchedValue(v)'
<1>1. CASE UNCHANGED <<mem, heap, word, top, extra, qHead, qTail, obj, old, live, phase, fld, need>>
           /\ it' = it + 1 /\ TouchedValue(v)
  <2>1. MarkTypeOK'
    BY <1>1 DEF MarkInv, MarkTypeOK
  <2>2. HeapInv' /\ QueueOK(qHead, qTail)' /\ FieldsScanned' /\ LiveInv' /\ Touched = Touched'
    BY <1>1 DEF MarkInv, HeapInv, QueueOK, FieldsScanned, LiveInv, Touched, TouchedValue,
                IsEnqueued, IsValidHeapPointer, InChunk, RootWords, Closed
  <2>3. TouchedValue(v)'
    BY <1>1, <2>2 DEF TouchedValue, IsValidHeapPointer, InChunk
  <2> QED BY <1>1, <2>1, <2>2, <2>3 DEF Untouched
<1>2. CASE ~IsValidHeapPointer(v)
  <2>1. /\ UNCHANGED <<mem, heap, word, top, extra, qHead, qTail, obj, old, live, phase, fld, need>>
        /\ it' = it + 1 /\ TouchedValue(v)
    BY <1>2 DEF Mark, heapVars, markVars, compactVars, TouchedValue
  <2> QED BY <1>1, <2>1
<1>3. CASE IsValidHeapPointer(v)
  <2>1. /\ HeaderOf(v) \in DOMAIN mem /\ heap.begin \in DOMAIN mem
        /\ {h \in DOMAIN mem : h < heap.begin} = {}
    BY <1>3, HeapBegins DEF MarkInv
  <2>2. /\ it' = it + 1 /\ Untouched /\ UNCHANGED <<obj, phase, fld>>
        /\ IF mem[HeaderOf(v)].mark
             THEN UNCHANGED <<mem, qHead, qTail>>
             ELSE /\ mem' = Enqueued(heap.begin, v)
                  /\ qHead' = heap.begin
                  /\ qTail' = NextObj(mem, heap.begin)
    BY <1>3, <2>1 DEF Mark, Reading, IsMarked, compactVars, Untouched
  <2>3. CASE mem[HeaderOf(v)].mark
    <3>1. TouchedValue(v)
      BY <2>1, <2>3 DEF TouchedValue, Touched
    <3> QED BY <1>1, <2>2, <2>3, <3>1 DEF Untouched
  <2>4. CASE ~mem[HeaderOf(v)].mark
    <3>1. \A h \in DOMAIN mem : ~mem[h].enq
      <4>1. {h \in DOMAIN mem : qHead <= h /\ h < qTail} = {}
        BY DEF Idle, MarkInv, MarkTypeOK
      <4> QED BY <4>1 DEF MarkInv, QueueOK
    <3>2. HeaderOf(v) \notin Touched
      BY <2>1, <2>4, <3>1 DEF Touched
    <3>3. QueueOK(heap.begin, heap.begin)
      <4>1. {h \in DOMAIN mem : heap.begin <= h /\ h < heap.begin} = {}
        BY DEF MarkInv, MarkTypeOK
      <4>2. Cardinality({h \in DOMAIN mem : h < heap.begin}) <= Cardinality(Touched)
        BY <2>1, FS_EmptySet, FS_Subset, FS_CardinalityType DEF MarkInv, MarkTypeOK, Touched
      <4>3. heap.begin <= heap.begin
        BY DEF MarkInv, MarkTypeOK
      <4> QED BY <2>1, <3>1, <4>1, <4>2, <4>3 DEF QueueOK
    <3>4. /\ qHead' \in Nat /\ qTail' \in Nat
          /\ SameShape(mem, mem') /\ mem' \in [DOMAIN mem -> Object]
          /\ \A h \in DOMAIN mem : mem'[h].mark = mem[h].mark
          /\ Touched' = Touched \cup {HeaderOf(v)}
          /\ HeapInv' /\ LiveInv' /\ QueueOK(qHead, qTail)'
      <4>1. mem' = Enqueued(heap.begin, v) /\ qHead' = heap.begin /\ qTail' = NextObj(mem, heap.begin)
        BY <2>2, <2>4
      <4>2. \A S \in SUBSET DOMAIN mem : Closed(S) => HeaderOf(v) \in S
        BY <1>3
      <4> QED BY <2>1, <2>2, <3>2, <3>3, <4>1, <4>2, EnqueueStep DEF MarkInv
    <3>5. MarkTypeOK'
      BY SMTT(30), <2>2, <3>4 DEF MarkInv, MarkTypeOK, SameShape, Untouched
    <3>6. FieldsScanned'
      BY <2>2, <3>4 DEF MarkInv, FieldsScanned, SameShape, TouchedValue, IsValidHeapPointer,
                        InChunk, Untouched
    <3>7. Touched \subseteq Touched' /\ TouchedValue(v)'
      BY <3>4 DEF TouchedValue
    <3> QED BY <2>2, <3>4, <3>5, <3>6, <3>7
  <2> QED BY <2>3, <2>4
<1> QED BY <1>2, <1>3

\* queue_dequeue and mark_object: the flag becomes a mark, and no other element
\* of the queue is the same object.
LEMMA DequeueStep ==
  ASSUME MarkInv, Dequeue
  PROVE  MarkInv'
<1> DEFINE Q == {h \in DOMAIN mem : qHead <= h /\ h < qTail}
           v == mem[qHead].fwd
           x == HeaderOf(v)
<1>1. /\ MarkTypeOK /\ HeapInv /\ QueueOK(qHead, qTail)
      /\ DOMAIN mem \subseteq Nat /\ qHead \in Nat /\ qTail \in Nat /\ heap.current \in Nat
      /\ \A h \in DOMAIN mem : mem[h] \in Object
  BY DEF MarkInv, MarkTypeOK
<1>2. /\ {qHead, qTail} \subseteq DOMAIN mem \cup {heap.current} /\ qHead <= qTail
      /\ Cardinality({h \in DOMAIN mem : h < qTail}) <= Cardinality(Touched)
      /\ \A a \in Q : HeaderOf(mem[a].fwd) \in DOMAIN mem /\ mem[HeaderOf(mem[a].fwd)].enq
      /\ \A a, b \in Q : mem[a].fwd = mem[b].fwd => a = b
      /\ \A h \in DOMAIN mem : mem[h].enq =>
            ~mem[h].mark /\ \E a \in Q : HeaderOf(mem[a].fwd) = h
  BY <1>1 DEF QueueOK, IsEnqueued
<1>3. qHead \in Q
  <2>1. \A h \in DOMAIN mem : h <= heap.current
    BY <1>1, NextObject
  <2> QED BY <1>1, <1>2, <2>1 DEF Dequeue
<1>4. x \in DOMAIN mem /\ mem[x].enq /\ ~mem[x].mark /\ v \in Int
  BY <1>1, <1>2, <1>3 DEF Object
<1>5. /\ mem' = Dequeued(x) /\ qHead' = NextObj(mem, qHead) /\ obj' = x /\ fld' = 1
      /\ UNCHANGED <<heap, word, top, extra, qTail, old, live, phase, it, need>>
  BY <1>3, <1>4 DEF Dequeue, Reading, HeaderPtr, compactVars, FirstField
<1>6. /\ DOMAIN mem' = DOMAIN mem /\ mem' \in [DOMAIN mem -> Object] /\ SameShape(mem, mem')
      /\ \A h \in DOMAIN mem : /\ mem'[h].fwd = mem[h].fwd
                              /\ mem'[h].mark = (mem[h].mark \/ h = x)
                              /\ mem'[h].enq = (mem[h].enq /\ h # x)
  <2>1. DOMAIN mem' = DOMAIN mem
    BY <1>5 DEF Dequeued
  <2>2. ASSUME NEW h \in DOMAIN mem
        PROVE  /\ mem'[h] \in Object /\ mem'[h].fwd = mem[h].fwd
               /\ mem'[h].kind = mem[h].kind /\ mem'[h].len = mem[h].len
               /\ mem'[h].fields = mem[h].fields
               /\ mem'[h].mark = (mem[h].mark \/ h = x)
               /\ mem'[h].enq = (mem[h].enq /\ h # x)
    BY <1>1, <1>4, <1>5 DEF Dequeued, Object
  <2>3. mem' = [h \in DOMAIN mem |-> mem'[h]]
    BY <1>5 DEF Dequeued
  <2> QED BY <2>1, <2>2, <2>3 DEF SameShape
<1>7. Touched' = Touched
  BY <1>4, <1>6 DEF Touched
<1>8. Untouched /\ HeapInv' /\ \A S : Closed(S)' /\ S \subseteq DOMAIN mem => Closed(S)
  BY <1>1, <1>5, <1>6, ShapeStep DEF Untouched
<1>9. LiveInv'
  BY <1>6, <1>7, <1>8 DEF MarkInv, LiveInv
<1>10. MarkTypeOK'
  <2>1. qHead' \in Nat
    BY <1>1, <1>3, <1>5, NextObject
  <2> QED BY <1>4, <1>5, <1>6, <2>1 DEF MarkInv, MarkTypeOK
<1>11. QueueOK(qHead, qTail)'
  <2> DEFINE R == {h \in DOMAIN mem' : qHead' <= h /\ h < qTail'}
  <2>1. /\ qHead' \in DOMAIN mem \cup {heap.current} /\ qHead' \in Nat /\ qHead < qHead'
        /\ {g \in DOMAIN mem : g < qHead'} = {g \in DOMAIN mem : g < qHead} \cup {qHead}
        /\ qHead' <= heap.current
    BY <1>1, <1>3, <1>5, NextObject
  <2>2. \A g \in DOMAIN mem : g < qHead' <=> g < qHead \/ g = qHead
    BY <2>1
  <2>3. qHead' <= qTail
    BY <1>1, <1>2, <1>3, <2>1, <2>2
  <2>4. R = Q \ {qHead}
    BY <1>1, <1>3, <1>5, <1>6, <2>1, <2>2
  <2>5. ASSUME NEW a \in R PROVE mem'[a].fwd = mem[a].fwd /\ HeaderOf(mem[a].fwd) # x
    <3>1. a \in Q /\ a # qHead /\ a \in DOMAIN mem
      BY <2>4
    <3>2. mem[a].fwd \in Int /\ mem[a].fwd # v
      BY <1>1, <1>2, <1>3, <3>1 DEF Object
    <3>3. HeaderOf(mem[a].fwd) # HeaderOf(v)
      BY <1>4, <3>2 DEF HeaderOf, HeaderWords
    <3> QED BY <1>6, <3>1, <3>3
  <2>6. \A a \in R : HeaderOf(mem'[a].fwd) \in DOMAIN mem' /\ mem'[HeaderOf(mem'[a].fwd)].enq
    BY <1>2, <1>6, <2>4, <2>5
  <2>7. \A a, b \in R : mem'[a].fwd = mem'[b].fwd => a = b
    BY <1>2, <2>4, <2>5
  <2>8. \A h \in DOMAIN mem' : mem'[h].enq =>
          ~mem'[h].mark /\ \E a \in R : HeaderOf(mem'[a].fwd) = h
    <3> SUFFICES ASSUME NEW h \in DOMAIN mem, mem[h].enq, h # x
                 PROVE  ~mem'[h].mark /\ \E a \in R : HeaderOf(mem'[a].fwd) = h
      BY <1>6
    <3>1. PICK a \in Q : HeaderOf(mem[a].fwd) = h
      BY <1>2
    <3>2. a \in R
      BY <2>4, <3>1
    <3> QED BY <1>2, <1>6, <2>5, <3>1, <3>2
  <2>9. Cardinality({h \in DOMAIN mem : h < qTail})' <= Cardinality(Touched)'
    BY <1>2, <1>5, <1>6, <1>7
  <2> QED BY <1>2, <1>5, <1>6, <2>1, <2>3, <2>6, <2>7, <2>8, <2>9 DEF QueueOK, IsEnqueued
<1>12. FieldsScanned'
  <2> SUFFICES ASSUME NEW h \in DOMAIN mem, mem'[h].mark,
                      NEW i \in DOMAIN mem[h].fields, h # x
               PROVE  TouchedValue(mem[h].fields[i])'
    <3>1. ASSUME NEW i \in DOMAIN mem[x].fields PROVE i >= 1
      BY <1>4, <1>1 DEF Object
    <3> QED BY <1>5, <1>6, <3>1 DEF FieldsScanned, SameShape
  <2>1. mem[h].mark /\ h # obj
    <3>1. obj = NoObj
      BY DEF Dequeue
    <3>2. h # obj
      BY <1>1, <3>1 DEF NoObj
    <3>3. mem[h].mark
      BY <1>6, Zenon
    <3> QED BY <3>2, <3>3
  <2>2. TouchedValue(mem[h].fields[i])
    BY <2>1 DEF MarkInv, FieldsScanned
  <2> QED BY <1>5, <1>6, <1>7, <2>2 DEF TouchedValue, IsValidHeapPointer, InChunk, SameShape
<1>13. mem'[obj'].mark
  BY <1>4, <1>5, <1>6
<1>14. RootsScanned' /\ LoopInv'
  BY <1>5, <1>7, <1>13 DEF MarkInv, RootsScanned, LoopInv, Idle, TouchedValue, IsValidHeapPointer,
                    InChunk, Dequeue, Scanning
<1> QED BY <1>8, <1>9, <1>10, <1>11, <1>12, <1>14 DEF MarkInv

\* A turn of the loop over the fields of cur_obj.
LEMMA ScanFieldStep ==
  ASSUME MarkInv, ScanField
  PROVE  MarkInv'
<1> DEFINE v == mem[obj].fields[fld]
<1>1. /\ phase \in Scanning /\ obj # NoObj /\ obj \in DOMAIN mem /\ fld \in DOMAIN mem[obj].fields
      /\ mem[obj].mark
  BY DEF ScanField, MarkInv, MarkTypeOK, LoopInv
<1>2. mem[obj] \in Object /\ v \in Int /\ fld \in Nat \ {0} /\ DOMAIN mem[obj].fields \subseteq Nat
  <2>1. mem[obj] \in Object
    BY <1>1 DEF MarkInv, MarkTypeOK
  <2> QED BY <1>1, <2>1 DEF Object
<1>3. IsValidHeapPointer(v) => HeaderOf(v) \in DOMAIN mem
  BY <1>1 DEF MarkInv, HeapInv, FieldsPointToObjects, PointsToObject, IsValidHeapPointer, InChunk
<1>4. CASE /\ fld' = fld + 1
           /\ UNCHANGED <<mem, heap, word, top, extra, qHead, qTail, obj, old, live, phase, it, need>>
           /\ TouchedValue(v)
  <2>1. MarkTypeOK'
    BY <1>2, <1>4 DEF MarkInv, MarkTypeOK
  <2>2. RootsScanned' /\ LoopInv'
    BY <1>4 DEF MarkInv, RootsScanned, LoopInv, Idle, TouchedValue, IsValidHeapPointer, InChunk,
                Touched
  <2>3. HeapInv' /\ QueueOK(qHead, qTail)' /\ LiveInv'
    BY <1>4 DEF MarkInv, HeapInv, QueueOK, LiveInv, Touched, IsEnqueued, IsValidHeapPointer,
                InChunk, RootWords, Closed
  <2>4. FieldsScanned'
    <3> SUFFICES ASSUME NEW h \in DOMAIN mem, mem[h].mark, NEW i \in DOMAIN mem[h].fields,
                        ~(h = obj /\ i >= fld + 1)
                 PROVE  TouchedValue(mem[h].fields[i])
      BY <1>4 DEF FieldsScanned, TouchedValue, IsValidHeapPointer, InChunk, Touched
    <3>1. CASE h = obj /\ i = fld
      BY <1>4, <3>1
    <3>2. CASE ~(h = obj /\ i = fld)
      <4>1. ~(h = obj /\ i >= fld)
        BY <1>2, <3>2
      <4> QED BY <4>1 DEF MarkInv, FieldsScanned
    <3> QED BY <3>1, <3>2
  <2> QED BY <2>1, <2>2, <2>3, <2>4 DEF MarkInv
<1>5. CASE ~IsValidHeapPointer(v) \/ ~Wanted(v)
  <2>1. /\ fld' = fld + 1
        /\ UNCHANGED <<mem, heap, word, top, extra, qHead, qTail, obj, old, live, phase, it, need>>
    BY <1>3, <1>5 DEF ScanField, Reading, heapVars, markVars, compactVars
  <2>2. TouchedValue(v)
    BY <1>3, <1>5 DEF TouchedValue, Wanted, IsMarked, IsEnqueued, Touched
  <2> QED BY <1>4, <2>1, <2>2
<1>6. CASE IsValidHeapPointer(v) /\ Wanted(v)
  <2>1. HeaderOf(v) \in DOMAIN mem /\ HeaderOf(v) \notin Touched
    BY <1>3, <1>6 DEF Wanted, IsMarked, IsEnqueued, Touched
  <2>2. qTail \in DOMAIN mem
    BY <2>1, TailInHeap DEF MarkInv, QueueOK
  <2>3. /\ mem' = Enqueued(qTail, v) /\ qTail' = NextObj(mem, qTail) /\ fld' = fld + 1
        /\ UNCHANGED <<heap, word, top, extra, qHead, obj, old, live, phase, it, need>>
    BY <1>6, <2>1, <2>2 DEF ScanField, Reading, compactVars
  <2>4. \A S \in SUBSET DOMAIN mem : Closed(S) => HeaderOf(v) \in S
    <3> SUFFICES ASSUME NEW S \in SUBSET DOMAIN mem, Closed(S)
                 PROVE  HeaderOf(v) \in S
      OBVIOUS
    <3>1. obj \in S
      BY <1>1 DEF MarkInv, LiveInv, Touched
    <3> QED BY <1>1, <1>6, <3>1 DEF Closed
  <2>5. /\ qHead' \in Nat /\ qTail' \in Nat
        /\ SameShape(mem, mem') /\ mem' \in [DOMAIN mem -> Object]
        /\ \A h \in DOMAIN mem : mem'[h].mark = mem[h].mark
        /\ Touched' = Touched \cup {HeaderOf(v)}
        /\ HeapInv' /\ LiveInv' /\ QueueOK(qHead, qTail)'
    <3>1. Untouched
      BY <2>3 DEF Untouched
    <3> QED BY <1>2, <2>1, <2>3, <2>4, <3>1, EnqueueStep DEF MarkInv
  <2>6. MarkTypeOK'
    BY SMTT(30), <1>2, <2>3, <2>5 DEF MarkInv, MarkTypeOK, SameShape
  <2>7. FieldsScanned'
    <3> SUFFICES ASSUME NEW h \in DOMAIN mem, mem[h].mark, NEW i \in DOMAIN mem[h].fields,
                        ~(h = obj /\ i >= fld + 1)
                 PROVE  IsValidHeapPointer(mem[h].fields[i]) => HeaderOf(mem[h].fields[i]) \in Touched'
      BY <2>3, <2>5 DEF FieldsScanned, TouchedValue, IsValidHeapPointer, InChunk, SameShape
    <3>1. CASE h = obj /\ i = fld
      BY <2>5, <3>1
    <3>2. CASE ~(h = obj /\ i = fld)
      <4>1. ~(h = obj /\ i >= fld)
        BY <1>2, <3>2
      <4> QED BY <2>5, <4>1 DEF MarkInv, FieldsScanned, TouchedValue
    <3> QED BY <3>1, <3>2
  <2>8. RootsScanned'
    BY <2>3, <2>5 DEF MarkInv, RootsScanned, TouchedValue, IsValidHeapPointer, InChunk
  <2>9. LoopInv'
    BY <1>1, <2>3, <2>5 DEF MarkInv, LoopInv, Scanning
  <2> QED BY <2>5, <2>6, <2>7, <2>8, <2>9 DEF MarkInv
<1> QED BY <1>5, <1>6

\* All fields of cur_obj have been scanned.
LEMMA FinishObjectStep ==
  ASSUME MarkInv, FinishObject
  PROVE  MarkInv'
<1>1. /\ UNCHANGED <<mem, heap, word, top, extra, qHead, qTail, old, live, phase, it, fld, need>>
      /\ obj' = NoObj /\ obj # NoObj /\ fld \notin DOMAIN mem[obj].fields
      /\ phase \in Scanning
  BY DEF FinishObject, heapVars, compactVars
<1>2. ASSUME NEW i \in DOMAIN mem[obj].fields PROVE ~(i >= fld)
  <2>1. obj \in DOMAIN mem /\ mem[obj] \in Object /\ fld \in Nat \ {0}
    BY <1>1 DEF MarkInv, MarkTypeOK
  <2>2. DOMAIN mem[obj].fields = 1 .. Len(mem[obj].fields) /\ Len(mem[obj].fields) \in Nat
    BY <2>1 DEF Object
  <2> QED BY <1>1, <2>1, <2>2
<1>3. MarkTypeOK'
  BY <1>1 DEF MarkInv, MarkTypeOK
<1>4. HeapInv' /\ QueueOK(qHead, qTail)' /\ LiveInv'
  BY <1>1 DEF MarkInv, HeapInv, QueueOK, LiveInv, Touched, IsEnqueued, IsValidHeapPointer,
              InChunk, RootWords, Closed
<1>5. RootsScanned' /\ LoopInv'
  BY <1>1 DEF MarkInv, RootsScanned, LoopInv, TouchedValue, IsValidHeapPointer, InChunk,
              Touched, Scanning
<1>6. FieldsScanned'
  BY <1>1, <1>2 DEF MarkInv, FieldsScanned, TouchedValue, IsValidHeapPointer, InChunk, Touched
<1> QED BY <1>3, <1>4, <1>5, <1>6 DEF MarkInv

\* A turn of a loop over the roots, whichever loop it is.
LEMMA ScanRootStep ==
  ASSUME MarkInv, NEW p \in Scanning, NEW a \in RootWords(top, extra), ScanRoot(p, a)
  PROVE  /\ Untouched /\ phase = p /\ phase' = p /\ it' = it + 1
         /\ MarkTypeOK' /\ HeapInv' /\ QueueOK(qHead, qTail)' /\ FieldsScanned' /\ LiveInv'
         /\ LoopInv'
         /\ \A b \in Words : b = a \/ TouchedValue(word[b]) => TouchedValue(word[b])'
<1> DEFINE v == word[a]
<1>1. phase = p /\ Idle /\ Mark(v) /\ v \in Int
  BY DEF ScanRoot, MarkInv, MarkTypeOK, HeapInv
<1>2. IsValidHeapPointer(v) => HeaderOf(v) \in DOMAIN mem
  BY DEF MarkInv, HeapInv, RootsPointToObjects, PointsToObject, IsValidHeapPointer, InChunk
<1>3. \A S \in SUBSET DOMAIN mem : Closed(S) /\ IsValidHeapPointer(v) => HeaderOf(v) \in S
  BY DEF Closed
<1>4. PICK u : u = v
  OBVIOUS
<1>5. /\ Untouched /\ UNCHANGED <<obj, phase, fld>> /\ it' = it + 1
      /\ MarkTypeOK' /\ HeapInv' /\ QueueOK(qHead, qTail)' /\ FieldsScanned' /\ LiveInv'
      /\ Touched \subseteq Touched' /\ TouchedValue(u)'
  <2> HIDE DEF v
  <2> QED BY <1>1, <1>2, <1>3, <1>4, MarkRoot
<1>6. LoopInv'
  <2>1. obj' = NoObj /\ phase' = p /\ phase' \notin {"crash", "compute"}
    BY <1>1, <1>5 DEF Idle, Scanning
  <2>2. it \in Nat /\ it' = it + 1 /\ top \in Nat /\ top' = top /\ GlobalStart \in Nat
    BY <1>5, WordsAssumption DEF MarkInv, MarkTypeOK, Untouched
  <2>3. LoopInv
    BY DEF MarkInv
  <2> QED BY <1>1, <2>1, <2>2, <2>3 DEF LoopInv
<1>7. ASSUME NEW b \in Words, b = a \/ TouchedValue(word[b])
      PROVE  TouchedValue(word[b])'
  <2>1. word'[b] = word[b]
    BY <1>5 DEF Untouched
  <2> QED BY <1>4, <1>5, <1>7, <2>1
             DEF TouchedValue, IsValidHeapPointer, InChunk, Untouched
<1> QED BY <1>1, <1>5, <1>6, <1>7

LEMMA RootsStep ==
  ASSUME MarkInv, ScanStack \/ ScanExtra \/ ScanGlobals
  PROVE  MarkInv'
<1>1. /\ RootWords(top, extra) \subseteq Words
      /\ it \in Nat /\ top \in Nat /\ extra \in Seq(Words)
      /\ StackBottom \in Nat /\ GlobalStart \in Nat /\ GlobalStop \in Nat
  BY WordsAssumption DEF MarkInv, MarkTypeOK, HeapInv
<1>2. DOMAIN extra = 1 .. Len(extra) /\ Len(extra) \in Nat
  BY <1>1
<1>3. /\ (top + 1) .. (StackBottom - 1) \subseteq RootWords(top, extra)
      /\ \A i \in DOMAIN extra : extra[i] \in RootWords(top, extra)
      /\ GlobalStart .. (GlobalStop - 1) \subseteq RootWords(top, extra)
  BY DEF RootWords
<1>4. CASE ScanStack
  <2>1. it \in (top + 1) .. (StackBottom - 1) /\ it \in RootWords(top, extra)
    BY <1>1, <1>3, <1>4 DEF ScanStack, ScanRoot, MarkInv, LoopInv
  <2>2. PICK a : a = it
    OBVIOUS
  <2>3. /\ Untouched /\ phase = "scanStack" /\ phase' = "scanStack" /\ it' = it + 1
        /\ MarkTypeOK' /\ HeapInv' /\ QueueOK(qHead, qTail)' /\ FieldsScanned' /\ LiveInv'
        /\ LoopInv'
        /\ \A b \in Words : b = a \/ TouchedValue(word[b]) => TouchedValue(word[b])'
    <3>1. ScanRoot("scanStack", a)
      BY <1>4, <2>2 DEF ScanStack
    <3>2. a \in RootWords(top, extra) /\ "scanStack" \in Scanning
      BY <2>1, <2>2 DEF Scanning
    <3> QED BY <3>1, <3>2, ScanRootStep
  <2>4. RootsScanned'
    BY <1>1, <1>3, <2>2, <2>3 DEF MarkInv, RootsScanned, Untouched
  <2> QED BY <2>3, <2>4 DEF MarkInv
<1>5. CASE ScanExtra
  <2>1. it \in DOMAIN extra
    BY <1>1, <1>2, <1>5 DEF ScanExtra, ScanRoot, MarkInv, LoopInv
  <2>2. PICK a : a = extra[it]
    OBVIOUS
  <2>3. /\ Untouched /\ phase = "scanExtra" /\ phase' = "scanExtra" /\ it' = it + 1
        /\ MarkTypeOK' /\ HeapInv' /\ QueueOK(qHead, qTail)' /\ FieldsScanned' /\ LiveInv'
        /\ LoopInv'
        /\ \A b \in Words : b = a \/ TouchedValue(word[b]) => TouchedValue(word[b])'
    <3>1. ScanRoot("scanExtra", a)
      BY <1>5, <2>2 DEF ScanExtra
    <3>2. a \in RootWords(top, extra) /\ "scanExtra" \in Scanning
      BY <1>3, <2>1, <2>2 DEF Scanning
    <3> QED BY <3>1, <3>2, ScanRootStep
  <2>4. RootsScanned'
    BY <1>1, <1>2, <1>3, <2>2, <2>3 DEF MarkInv, RootsScanned, Untouched
  <2> QED BY <2>3, <2>4 DEF MarkInv
<1>6. CASE ScanGlobals
  <2>1. it \in GlobalStart .. (GlobalStop - 1) /\ it \in RootWords(top, extra)
    BY <1>1, <1>3, <1>6 DEF ScanGlobals, ScanRoot, MarkInv, LoopInv
  <2>2. PICK a : a = it
    OBVIOUS
  <2>3. /\ Untouched /\ phase = "scanGlobals" /\ phase' = "scanGlobals" /\ it' = it + 1
        /\ MarkTypeOK' /\ HeapInv' /\ QueueOK(qHead, qTail)' /\ FieldsScanned' /\ LiveInv'
        /\ LoopInv'
        /\ \A b \in Words : b = a \/ TouchedValue(word[b]) => TouchedValue(word[b])'
    <3>1. ScanRoot("scanGlobals", a)
      BY <1>6, <2>2 DEF ScanGlobals
    <3>2. a \in RootWords(top, extra) /\ "scanGlobals" \in Scanning
      BY <2>1, <2>2 DEF Scanning
    <3> QED BY <3>1, <3>2, ScanRootStep
  <2>4. RootsScanned'
    BY <1>1, <1>3, <2>2, <2>3 DEF MarkInv, RootsScanned, Untouched
  <2> QED BY <2>3, <2>4 DEF MarkInv
<1> QED BY <1>4, <1>5, <1>6

LEMMA EndScanStep ==
  ASSUME MarkInv, EndScanStack \/ EndScanExtra \/ EndScanGlobals
  PROVE  MarkInv'
<1>1. /\ UNCHANGED <<mem, heap, word, top, extra, qHead, qTail, obj, old, live, fld, need>>
      /\ Idle
  BY DEF EndScanStack, EndScanExtra, EndScanGlobals, EndScan, heapVars, markVars, compactVars
<1>2. HeapInv' /\ QueueOK(qHead, qTail)' /\ FieldsScanned' /\ LiveInv'
  BY <1>1 DEF MarkInv, HeapInv, QueueOK, FieldsScanned, LiveInv, Touched, TouchedValue,
              IsEnqueued, IsValidHeapPointer, InChunk, RootWords, Closed
<1>3. /\ it \in Nat /\ top \in Nat /\ extra \in Seq(Words) /\ heap.begin \in Nat
      /\ StackBottom \in Nat /\ GlobalStart \in Nat /\ GlobalStop \in Nat
      /\ DOMAIN extra = 1 .. Len(extra) /\ Len(extra) \in Nat
  BY WordsAssumption DEF MarkInv, MarkTypeOK
<1>4. CASE EndScanStack
  <2>1. phase = "scanStack" /\ phase' = "scanExtra" /\ it' = 1 /\ it >= StackBottom
    BY <1>4 DEF EndScanStack, EndScan
  <2>2. MarkTypeOK' /\ LoopInv'
    BY <1>1, <2>1 DEF MarkInv, MarkTypeOK, LoopInv, Scanning
  <2>3. RootsScanned'
    BY <1>1, <1>3, <2>1 DEF MarkInv, RootsScanned, TouchedValue, IsValidHeapPointer, InChunk, Touched
  <2> QED BY <1>2, <2>2, <2>3 DEF MarkInv
<1>5. CASE EndScanExtra
  <2>1. phase = "scanExtra" /\ phase' = "scanGlobals" /\ it' = GlobalStart /\ it > Len(extra)
    BY <1>5 DEF EndScanExtra, EndScan
  <2>2. MarkTypeOK' /\ LoopInv'
    BY <1>1, <1>3, <2>1 DEF MarkInv, MarkTypeOK, LoopInv, Scanning
  <2>3. RootsScanned'
    BY <1>1, <1>3, <2>1 DEF MarkInv, RootsScanned, TouchedValue, IsValidHeapPointer, InChunk, Touched
  <2> QED BY <1>2, <2>2, <2>3 DEF MarkInv
<1>6. CASE EndScanGlobals
  <2>1. phase = "scanGlobals" /\ phase' = "compute" /\ it' = heap.begin /\ it >= GlobalStop
    BY <1>6 DEF EndScanGlobals, EndScan
  <2>2. MarkTypeOK'
    BY <1>1, <1>3, <2>1 DEF MarkInv, MarkTypeOK
  <2>3. LoopInv'
    BY <1>1, <2>1 DEF MarkInv, LoopInv, Idle
  <2>4. RootsScanned'
    BY <1>1, <1>3, <2>1 DEF MarkInv, RootsScanned, TouchedValue, IsValidHeapPointer, InChunk, Touched
  <2> QED BY <1>2, <2>2, <2>3, <2>4 DEF MarkInv
<1> QED BY <1>4, <1>5, <1>6

-----------------------------------------------------------------------------
(* The theorems                                                             *)

\* A well-formed heap, with mark_phase about to begin.
MarkReady ==
  /\ WellFormed([mem |-> mem, heap |-> heap, word |-> word, top |-> top, extra |-> extra,
                 need |-> need])
  /\ phase = "scanStack" /\ it = top + 1 /\ qHead = heap.begin /\ qTail = heap.begin
  /\ obj = NoObj /\ fld = 1 /\ live = 0

LEMMA MarkBegins == MarkReady => MarkInv
<1> SUFFICES ASSUME MarkReady
             PROVE  MarkInv
  OBVIOUS
<1>2. /\ IsFiniteSet(DOMAIN mem) /\ DOMAIN mem \subseteq Nat
      /\ mem \in [DOMAIN mem -> Object]
      /\ \A h \in DOMAIN mem : SizeWords(mem[h].kind, mem[h].len) > 0
      /\ heap \in [begin : Nat, current : Nat, size : Nat]
      /\ word \in [Words -> Int] /\ top \in Nat /\ top < StackBottom
      /\ extra \in Seq(Words) /\ need \in Nat \ {0}
      /\ RootWords(top, extra) \subseteq Words
      /\ Walkable(mem, heap.begin, heap.current)
      /\ FieldsPointToObjects(mem, heap.begin, heap.current)
      /\ RootsPointToObjects(mem, heap.begin, heap.current, word, top, extra)
      /\ Clean(mem)
  BY DEF MarkReady, WellFormed
<1>3. /\ phase = "scanStack" /\ it = top + 1 /\ qHead = heap.begin /\ qTail = heap.begin
      /\ obj = NoObj /\ fld = 1 /\ live = 0
  BY DEF MarkReady
<1>4. MarkTypeOK
  BY <1>2, <1>3 DEF MarkTypeOK, Scanning
<1>5. HeapInv
  BY <1>2 DEF HeapInv
<1>6. Touched = {}
  BY <1>2 DEF Clean, Touched
<1>7. QueueOK(qHead, qTail)
  <2>1. /\ heap.begin \in DOMAIN mem \cup {heap.current}
        /\ \A h \in DOMAIN mem : heap.begin <= h
    BY <1>5 DEF HeapInv, Walkable
  <2>2. heap.begin \in Nat /\ DOMAIN mem \subseteq Nat
    BY <1>4 DEF MarkTypeOK
  <2>3. {h \in DOMAIN mem : h < heap.begin} = {}
    BY <2>1, <2>2
  <2>4. Cardinality({h \in DOMAIN mem : h < heap.begin}) <= Cardinality(Touched)
    BY <1>6, <2>3, FS_EmptySet
  <2>5. {h \in DOMAIN mem : heap.begin <= h /\ h < heap.begin} = {}
    BY <2>3
  <2>6. \A h \in DOMAIN mem : ~mem[h].enq
    BY <1>6 DEF Touched
  <2> QED BY <1>3, <2>1, <2>2, <2>4, <2>5, <2>6 DEF QueueOK
<1>8. FieldsScanned /\ LiveInv
  BY <1>6 DEF FieldsScanned, LiveInv, Touched
<1>9. RootsScanned
  BY <1>3, <1>4 DEF RootsScanned, MarkTypeOK
<1>10. LoopInv
  BY <1>3, <1>4 DEF LoopInv, MarkTypeOK
<1> QED BY <1>4, <1>5, <1>7, <1>8, <1>9, <1>10 DEF MarkInv

LEMMA MarkInitially == MarkInit => MarkInv
<1> SUFFICES ASSUME MarkInit
             PROVE  MarkInv
  OBVIOUS
<1>1. PICK i \in Images : /\ mem = i.mem /\ heap = i.heap /\ word = i.word
                         /\ top = i.top /\ extra = i.extra /\ need = i.need
  BY DEF MarkInit
<1>2. WellFormed(i)
  BY ImagesAssumption
<1>3. WellFormed([mem |-> mem, heap |-> heap, word |-> word, top |-> top, extra |-> extra,
                  need |-> need])
  BY <1>1, <1>2 DEF WellFormed
<1> QED BY <1>3, MarkBegins DEF MarkInit, MarkReady

LEMMA MarkStep == MarkInv /\ [MarkNext]_gcVars => MarkInv'
<1> SUFFICES ASSUME MarkInv, [MarkNext]_gcVars
             PROVE  MarkInv'
  OBVIOUS
<1>1. CASE UNCHANGED gcVars
  <2>1. UNCHANGED <<mem, heap, word, top, extra, qHead, qTail, obj, old, live, phase, it, fld, need>>
    BY <1>1 DEF gcVars, heapVars, markVars, compactVars
  <2>2. MarkTypeOK'
    BY <2>1 DEF MarkInv, MarkTypeOK
  <2>3. HeapInv' /\ QueueOK(qHead, qTail)' /\ FieldsScanned' /\ LiveInv'
    BY <2>1 DEF MarkInv, HeapInv, QueueOK, FieldsScanned, LiveInv, Touched, TouchedValue,
                IsEnqueued, IsValidHeapPointer, InChunk, RootWords, Closed
  <2>4. RootsScanned' /\ LoopInv'
    BY <2>1 DEF MarkInv, RootsScanned, LoopInv, Idle, TouchedValue, IsValidHeapPointer, InChunk,
                Touched
  <2> QED BY <2>2, <2>3, <2>4 DEF MarkInv
<1>2. CASE ScanStack \/ ScanExtra \/ ScanGlobals
  BY <1>2, RootsStep
<1>3. CASE EndScanStack \/ EndScanExtra \/ EndScanGlobals
  BY <1>3, EndScanStep
<1>4. CASE Dequeue
  BY <1>4, DequeueStep
<1>5. CASE ScanField
  BY <1>5, ScanFieldStep
<1>6. CASE FinishObject
  BY <1>6, FinishObjectStep
<1> QED BY <1>1, <1>2, <1>3, <1>4, <1>5, <1>6 DEF MarkNext

\* The invariant of the marking holds in every state of every collection.
THEOREM MarkInvariant == MarkSpec => []MarkInv
<1>1. MarkInit => MarkInv
  BY MarkInitially
<1>2. MarkInv /\ [MarkNext]_gcVars => MarkInv'
  BY MarkStep
<1> QED BY <1>1, <1>2, PTL DEF MarkSpec

\* Every variable of a marking collector keeps its type.
THEOREM MarkTypeCorrect == MarkSpec => []MarkTypeOK
<1>1. MarkInv => MarkTypeOK
  BY DEF MarkInv
<1> QED BY <1>1, MarkInvariant, PTL

\* mark_phase reads no header where there is none: its queue fits in any heap.
THEOREM MarkSafe == MarkSpec => []MarkNoCrash
<1>1. MarkInv => MarkNoCrash
  BY DEF MarkInv, LoopInv, MarkNoCrash
<1> QED BY <1>1, MarkInvariant, PTL

\* The comment at gc.c:512 is right: the queue holds unmarked objects, each once.
THEOREM QueueCorrect == MarkSpec => []QueueInvariant
<1>1. MarkInv => QueueInvariant
  <2> SUFFICES ASSUME MarkInv
               PROVE  QueueInvariant
    OBVIOUS
  <2>1. /\ \A a \in Queue : /\ HeaderOf(mem[a].fwd) \in DOMAIN mem
                            /\ mem[HeaderOf(mem[a].fwd)].enq
        /\ \A a, b \in Queue : mem[a].fwd = mem[b].fwd => a = b
        /\ \A h \in DOMAIN mem : mem[h].enq =>
              ~mem[h].mark /\ \E a \in Queue : HeaderOf(mem[a].fwd) = h
    BY DEF MarkInv, QueueOK, Queue, IsEnqueued
  <2> QED BY <2>1 DEF QueueInvariant, IsMarked
<1> QED BY <1>1, MarkInvariant, PTL

\* When mark_phase returns the queue is empty, and the marked objects contain what
\* the roots and their own fields point to.
LEMMA MarkedIsClosed ==
  MarkInv /\ phase = "compute" =>
    (\A h \in DOMAIN mem : ~mem[h].enq) /\ Touched = Marked /\ Closed(Marked)
<1> SUFFICES ASSUME MarkInv, phase = "compute"
             PROVE  (\A h \in DOMAIN mem : ~mem[h].enq) /\ Touched = Marked /\ Closed(Marked)
  OBVIOUS
<1>1. \A h \in DOMAIN mem : ~mem[h].enq
  <2>1. {h \in DOMAIN mem : qHead <= h /\ h < qTail} = {}
    BY DEF MarkInv, LoopInv, Idle, MarkTypeOK
  <2> QED BY <2>1 DEF MarkInv, QueueOK
<1>2. Touched = Marked
  BY <1>1 DEF Touched, Marked
<1>3. Closed(Marked)
  <2>1. \A r \in RootWords(top, extra) : TouchedValue(word[r])
    BY DEF MarkInv, RootsScanned, RootWords
  <2>2. obj = NoObj /\ NoObj \notin DOMAIN mem
    BY DEF MarkInv, LoopInv, Idle, MarkTypeOK, NoObj
  <2>3. \A h \in Marked : \A i \in DOMAIN mem[h].fields : TouchedValue(mem[h].fields[i])
    BY <2>2 DEF MarkInv, FieldsScanned, Marked
  <2> QED BY <1>2, <2>1, <2>3 DEF Closed, TouchedValue
<1> QED BY <1>1, <1>2, <1>3

\* When mark_phase returns, exactly what the roots reach is marked.
THEOREM MarkExact == MarkSpec => []MarkedIsReachable
<1>1. MarkInv => MarkedIsReachable
  <2> SUFFICES ASSUME MarkInv, phase = "compute"
               PROVE  Marked = Reachable /\ \A h \in DOMAIN mem : ~mem[h].enq
    BY DEF MarkedIsReachable
  <2>1. \A S \in SUBSET DOMAIN mem : Closed(S) => Marked \subseteq S
    BY MarkedIsClosed DEF MarkInv, LiveInv
  <2>2. Marked \in SUBSET DOMAIN mem
    BY DEF Marked
  <2> QED BY <2>1, <2>2, MarkedIsClosed DEF Reachable
<1> QED BY <1>1, MarkInvariant, PTL

=============================================================================
