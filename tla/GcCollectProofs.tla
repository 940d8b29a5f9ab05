-------------------------- MODULE GcCollectProofs --------------------------
(***************************************************************************)
(* A collection never reads a header where there is none, keeps the graph  *)
(* that it was given, and leaves a heap that the program and the next      *)
(* collection can use: for heaps of any size and objects of any number,    *)
(* wherever the kernel moves the heap.                                     *)
(***************************************************************************)
EXTENDS GcCollect, GcMarkProofs

-----------------------------------------------------------------------------
(* Objects in memory                                                        *)

\* Sizes are positive and headers are followed by the next object.
LEMMA ObjectSizes ==
  ASSUME StandingInv, NEW h \in DOMAIN mem
  PROVE  /\ h \in Nat /\ mem[h] \in Object /\ mem[h].fwd \in Int
         /\ ObjWords(mem[h]) \in Nat /\ ObjWords(mem[h]) > 0
         /\ NextObj(mem, h) = h + ObjWords(mem[h])
         /\ NextObj(mem, h) <= heap.current /\ heap.begin <= h
<1>1. h \in Nat /\ mem[h] \in Object
  BY DEF StandingInv, CollectTypeOK
<1>2. ObjWords(mem[h]) \in Nat /\ ObjWords(mem[h]) > 0
  BY SMTT(30), <1>1 DEF StandingInv, ObjWords, SizeWords, Object, HeaderWords
<1>3. mem[h].fwd \in Int
  BY <1>1 DEF Object
<1> QED BY <1>1, <1>2, <1>3 DEF StandingInv, CollectTypeOK, NextObj

\* The rank of an element does not change when a set of numbers is mapped to another
\* one in the same order.
LEMMA RankKept ==
  ASSUME NEW S, IsFiniteSet(S), S \subseteq Int, NEW f \in [S -> Int],
         \A g, h \in S : g < h => f[g] < f[h],
         NEW h \in S
  PROVE  Cardinality({x \in {f[g] : g \in S} : x < f[h]}) = Cardinality({g \in S : g < h})
<1> DEFINE A == {g \in S : g < h}
           B == {x \in {f[g] : g \in S} : x < f[h]}
           e == [g \in A |-> f[g]]
<1>1. IsFiniteSet(A)
  BY FS_Subset
<1>2. e \in [A -> B]
  OBVIOUS
<1>3. \A g, k \in A : e[g] = e[k] => g = k
  <2> SUFFICES ASSUME NEW g \in A, NEW k \in A, f[g] = f[k] PROVE g = k
    OBVIOUS
  <2>1. g \in Int /\ k \in Int /\ f[g] \in Int /\ f[k] \in Int
    OBVIOUS
  <2> QED BY <2>1
<1>4. \A x \in B : \E g \in A : e[g] = x
  <2> SUFFICES ASSUME NEW x \in B PROVE \E g \in A : e[g] = x
    OBVIOUS
  <2>1. PICK g \in S : f[g] = x
    OBVIOUS
  <2>2. g \in Int /\ h \in Int /\ f[g] \in Int /\ f[h] \in Int /\ f[g] < f[h]
    BY <2>1
  <2>3. g < h
    BY <2>2
  <2> QED BY <2>1, <2>3
<1>5. e \in Bijection(A, B)
  <2> HIDE DEF e, A, B
  <2> QED BY <1>2, <1>3, <1>4 DEF Bijection, Injection, Surjection, IsInjective
<1>6. ExistsBijection(A, B)
  BY <1>5 DEF ExistsBijection
<1> QED BY <1>1, <1>6, FS_Bijection

-----------------------------------------------------------------------------
(* Marking                                                                  *)

\* What no turn of mark_phase changes.
LEMMA MarkingLeavesWords ==
  ASSUME MarkNext
  PROVE  /\ UNCHANGED <<heap, word, top, extra, old, live, need>>
         /\ phase \in Scanning
         /\ phase' = "compute" =>
              phase = "scanGlobals" /\ mem' = mem /\ it' = heap.begin /\ phase' \notin Scanning
<1> USE DEF heapVars, markVars, compactVars, Scanning
<1>1. CASE ScanStack \/ ScanExtra \/ ScanGlobals
  BY <1>1 DEF ScanStack, ScanExtra, ScanGlobals, ScanRoot, Mark, Reading
<1>2. CASE EndScanStack \/ EndScanExtra \/ EndScanGlobals
  BY <1>2 DEF EndScanStack, EndScanExtra, EndScanGlobals, EndScan
<1>3. CASE Dequeue
  BY <1>3 DEF Dequeue, Reading
<1>4. CASE ScanField
  BY <1>4 DEF ScanField, Reading
<1>5. CASE FinishObject
  BY <1>5 DEF FinishObject
<1> QED BY <1>1, <1>2, <1>3, <1>4, <1>5 DEF MarkNext

\* What a collection is given besides a heap to mark.
Given ==
  /\ old = heap /\ heap.current <= heap.begin + heap.size /\ need \in Nat \ {0}
  /\ \A i, j \in DOMAIN extra : extra[i] = extra[j] => i = j
  /\ \A i \in DOMAIN extra : extra[i] \notin {top, GlobalStop}

\* What the two phases say of types is the same.
LEMMA MarkingStands == MarkInv /\ Given => StandingInv
<1> SUFFICES ASSUME MarkInv, Given PROVE StandingInv
  OBVIOUS
<1> USE DEF Given
<1>1. /\ MarkTypeOK /\ HeapInv /\ LoopInv
  BY DEF MarkInv
<1>2. \A h \in DOMAIN mem : /\ heap.begin <= h
                            /\ NextObj(mem, h) <= heap.current
                            /\ NextObj(mem, h) <= heap.begin + heap.size
  <2> SUFFICES ASSUME NEW h \in DOMAIN mem
               PROVE  /\ heap.begin <= h /\ NextObj(mem, h) <= heap.current
                      /\ NextObj(mem, h) <= heap.begin + heap.size
    OBVIOUS
  <2>1. heap.begin <= h /\ NextObj(mem, h) <= heap.current /\ NextObj(mem, h) \in Nat
    BY <1>1, NextObject DEF HeapInv, Walkable
  <2> QED BY <1>1, <2>1 DEF MarkTypeOK
<1>3. phase \in Scanning \cup {"compute"}
  BY <1>1 DEF MarkTypeOK, LoopInv
<1>4. CollectTypeOK
  BY <1>1, <1>2, <1>3 DEF MarkTypeOK, CollectTypeOK, Scanning, Compacting
<1>5. phase \in Scanning \/ \A h \in DOMAIN mem : ~mem[h].enq
  BY <1>3, MarkedIsClosed
<1> QED BY <1>1, <1>2, <1>3, <1>4, <1>5 DEF StandingInv, CollectNoCrash, Scanning, MarkTypeOK, HeapInv

\* A dump depends on the heap and the roots.
LEMMA DumpUnchanged ==
  ASSUME UNCHANGED <<mem, heap, word, top, extra>>
  PROVE  Dump(Marked)' = Dump(Marked) /\ Dump(DOMAIN mem)' = Dump(DOMAIN mem)
BY DEF Dump, DumpObject, Marked, Denotes, IsValidHeapPointer, InChunk, RootWords

\* A turn of a loop of mark_phase; when it is over the heap is as compute_locations
\* needs it, and the dump describes it.
LEMMA ScanStep ==
  ASSUME CollectInv, MarkNext,
         snapshot' = DumpAfterMarking
  PROVE  CollectInv'
<1>1. /\ UNCHANGED <<heap, word, top, extra, old, live, need>> /\ phase \in Scanning
      /\ phase' = "compute" =>
           phase = "scanGlobals" /\ mem' = mem /\ it' = heap.begin /\ phase' \notin Scanning
  BY MarkingLeavesWords
<1>2. ScanInv /\ StandingInv
  BY <1>1 DEF CollectInv
<1>3. MarkInv'
  BY <1>2, MarkStep DEF ScanInv
<1>4. Given'
  BY <1>1, <1>2 DEF ScanInv, StandingInv, Given
<1>5. StandingInv'
  BY <1>3, <1>4, MarkingStands, PTL
<1>6. phase' \in Scanning \cup {"compute"} /\ phase' \notin Compacting \ {"compute"} /\ phase' # "alloc"
  BY <1>3 DEF MarkInv, MarkTypeOK, LoopInv, Scanning, Compacting
<1>7. ~IsValidHeapPointer(word[StackBottom])'
  BY <1>1, <1>2 DEF ScanInv, IsValidHeapPointer, InChunk
<1>8. CASE phase' \in Scanning
  BY <1>1, <1>2, <1>3, <1>5, <1>6, <1>7, <1>8
     DEF CollectInv, ScanInv, Scanning, Compacting, CollectPreservesGraph, CollectLeavesWellFormed,
         CollectMakesRoom
<1>9. CASE phase' = "compute"
  <2>1. Closed(Marked)'
    <3>1. (phase = "compute")'
      BY <1>9
    <3> QED BY <1>3, <3>1, MarkedIsClosed, PTL
  <2>2. Walkable(mem, heap.begin, heap.current)'
    BY <1>3 DEF MarkInv, HeapInv
  <2>3. it' = heap'.begin /\ live' = 0 /\ heap'.begin \in Nat
    BY <1>1, <1>2, <1>9 DEF ScanInv, StandingInv, CollectTypeOK
  <2>4. Placed' = {}
    <3>1. \A h \in DOMAIN mem' : h \in Nat /\ heap'.begin <= h
      BY <1>5, <2>2 DEF Walkable, StandingInv
    <3> QED BY <2>3, <3>1 DEF Placed, Marked
  <2>5. Packs(mem, Placed, [h \in Placed |-> mem[h].fwd], heap.begin, heap.begin + live)'
    BY <2>3, <2>4 DEF Packs
  <2>6. snapshot' = Dump(Marked)'
    BY <1>1, <1>9, DumpUnchanged DEF DumpAfterMarking
  <2>7. it' \in DOMAIN mem' \cup {heap'.current}
    BY <2>2, <2>3 DEF Walkable
  <2>8. old' = heap'
    BY <1>1, <1>2 DEF ScanInv
  <2>9. ComputeInv'
    BY <1>7, <1>9, <2>1, <2>2, <2>3, <2>4, <2>5, <2>6, <2>7, <2>8 DEF ComputeInv
  <2> QED BY <1>5, <1>6, <1>9, <2>9
          DEF CollectInv, Scanning, Compacting, CollectPreservesGraph, CollectLeavesWellFormed,
              CollectMakesRoom
<1> QED BY <1>6, <1>8, <1>9

-----------------------------------------------------------------------------
(* compute_locations                                                        *)

\* Nor does a step that leaves every object as large as it is.
LEMMA StandingKept ==
  ASSUME StandingInv, UNCHANGED <<heap, old, top, extra, need>>, phase \notin Scanning,
         DOMAIN mem' = DOMAIN mem, mem' \in [DOMAIN mem -> Object],
         \A h \in DOMAIN mem : /\ mem'[h].kind = mem[h].kind /\ mem'[h].len = mem[h].len
                               /\ mem'[h].enq = mem[h].enq,
         word' \in [Words -> Int], phase' \in Compacting \cup {"alloc", "exit"}, it' \in Nat, live' \in Nat
  PROVE  StandingInv' /\ (Walkable(mem, heap.begin, heap.current) => Walkable(mem, heap.begin, heap.current)')
<1>1. phase' # "crash" /\ RootWords(top, extra)' = RootWords(top, extra)
  BY DEF Compacting, RootWords
<1>2. \A h \in DOMAIN mem : NextObj(mem', h) = NextObj(mem, h)
  BY DEF NextObj, ObjWords
<1>3. CollectTypeOK'
  BY <1>2 DEF StandingInv, CollectTypeOK
<1>4. \A h \in DOMAIN mem' : ~mem'[h].enq
  BY DEF StandingInv
<1>5. \A h \in DOMAIN mem' : SizeWords(mem'[h].kind, mem'[h].len) > 0 /\ NextObj(mem', h) <= heap.current
  BY <1>2 DEF StandingInv
<1>6. Walkable(mem, heap.begin, heap.current) => Walkable(mem, heap.begin, heap.current)'
  BY <1>2 DEF Walkable
<1> QED BY <1>1, <1>3, <1>4, <1>5, <1>6 DEF StandingInv, CollectNoCrash

LEMMA StandingUnchanged ==
  ASSUME StandingInv, UNCHANGED <<mem, heap, old, top, extra, live, need>>,
         word' \in [Words -> Int], phase \notin Scanning,
         phase' \in Compacting \cup {"alloc", "exit"}, it' \in Nat
  PROVE  StandingInv'
BY StandingKept DEF StandingInv, CollectTypeOK

\* Setting a forward address changes nothing else.
LEMMA ForwardingKeeps ==
  ASSUME StandingInv, UNCHANGED <<heap, word, top, extra, old, need, snapshot>>,
         NEW a \in DOMAIN mem, NEW v \in Int, mem' = [mem EXCEPT ![a].fwd = v],
         phase \in Compacting, phase' = phase, it' \in Nat, live' \in Nat
  PROVE  /\ StandingInv'
         /\ DOMAIN mem' = DOMAIN mem /\ Marked' = Marked
         /\ \A h \in DOMAIN mem : /\ mem'[h] = [mem[h] EXCEPT !.fwd = mem'[h].fwd]
                                  /\ mem'[h].fwd = IF h = a THEN v ELSE mem[h].fwd
                                  /\ ObjWords(mem'[h]) = ObjWords(mem[h])
         /\ Walkable(mem, heap.begin, heap.current) => Walkable(mem, heap.begin, heap.current)'
         /\ Closed(Marked) => Closed(Marked)'
         /\ Closed(Marked) => Dump(Marked)' = Dump(Marked)
<1>1. mem \in [DOMAIN mem -> Object]
  BY DEF StandingInv, CollectTypeOK
<1>2. \A h \in DOMAIN mem : mem[h] \in Object
  BY <1>1
<1>3. DOMAIN mem' = DOMAIN mem /\ mem' = [h \in DOMAIN mem |-> mem'[h]]
  OBVIOUS
<1>4. \A h \in DOMAIN mem : /\ mem'[h] = [mem[h] EXCEPT !.fwd = mem'[h].fwd]
                            /\ mem'[h].fwd = IF h = a THEN v ELSE mem[h].fwd
                            /\ mem'[h].kind = mem[h].kind /\ mem'[h].len = mem[h].len
                            /\ mem'[h].fields = mem[h].fields /\ mem'[h].id = mem[h].id
                            /\ mem'[h].mark = mem[h].mark /\ mem'[h].enq = mem[h].enq
                            /\ mem'[h] \in Object
  BY <1>2 DEF Object
<1>5. Marked' = Marked
  BY <1>3, <1>4 DEF Marked
<1>6. \A h \in DOMAIN mem : /\ ObjWords(mem'[h]) = ObjWords(mem[h])
                            /\ NextObj(mem', h) = NextObj(mem, h)
  BY <1>4 DEF ObjWords, NextObj
<1>7. Walkable(mem, heap.begin, heap.current) => Walkable(mem, heap.begin, heap.current)'
  BY <1>3, <1>6 DEF Walkable
<1>8. Closed(Marked) => Closed(Marked)'
  BY <1>3, <1>4, <1>5 DEF Closed, IsValidHeapPointer, InChunk, RootWords, Marked
<1>9. ASSUME Closed(Marked) PROVE Dump(Marked)' = Dump(Marked)
  <2>1. \A w : (IsValidHeapPointer(w) => HeaderOf(w) \in DOMAIN mem) => Denotes(w)' = Denotes(w)
    BY <1>4 DEF Denotes, IsValidHeapPointer, InChunk
  <2>2. \A h \in Marked : \A i \in DOMAIN mem[h].fields :
          Denotes(mem[h].fields[i])' = Denotes(mem[h].fields[i])
    BY <1>4, <1>9, <2>1 DEF Closed, Marked
  <2>3. \A h \in Marked : DumpObject(Marked, h)' = DumpObject(Marked, h)
    <3> SUFFICES ASSUME NEW h \in Marked PROVE DumpObject(Marked, h)' = DumpObject(Marked, h)
      OBVIOUS
    <3>1. /\ mem'[h].kind = mem[h].kind /\ mem'[h].len = mem[h].len
          /\ mem'[h].fields = mem[h].fields /\ mem'[h].id = mem[h].id
      BY <1>4 DEF Marked
    <3>2. [i \in DOMAIN mem[h].fields |-> Denotes(mem[h].fields[i])]' =
            [i \in DOMAIN mem[h].fields |-> Denotes(mem[h].fields[i])]
      BY <2>2, <3>1
    <3>3. {g \in Marked : g < h}' = {g \in Marked : g < h}
      BY <1>5
    <3> QED BY <3>1, <3>2, <3>3 DEF DumpObject
  <2>4. \A r \in RootWords(top, extra) : Denotes(word[r])' = Denotes(word[r])
    BY <1>9, <2>1 DEF Closed, Marked
  <2>5. RootWords(top, extra)' = RootWords(top, extra)
    BY DEF RootWords
  <2> QED BY <1>5, <2>3, <2>4, <2>5 DEF Dump
<1>10. StandingInv'
  <2>1. mem' \in [DOMAIN mem -> Object]
    BY <1>3, <1>4
  <2>2. phase \notin Scanning
    BY DEF Scanning, Compacting
  <2> QED BY <1>3, <1>4, <2>1, <2>2, StandingKept DEF StandingInv, CollectTypeOK
<1> QED BY <1>3, <1>4, <1>5, <1>6, <1>7, <1>8, <1>9, <1>10

\* Where an iterator over the heap goes next.
LEMMA NextInHeap ==
  ASSUME StandingInv, Walkable(mem, heap.begin, heap.current),
         it \in DOMAIN mem \cup {heap.current}
  PROVE  /\ it < heap.current <=> it \in DOMAIN mem
         /\ it \in DOMAIN mem =>
              /\ NextObj(mem, it) \in DOMAIN mem \cup {heap.current}
              /\ NextObj(mem, it) \in Nat /\ it < NextObj(mem, it)
              /\ \A h \in DOMAIN mem : h < NextObj(mem, it) <=> h < it \/ h = it
         /\ it >= heap.current => it = heap.current
<1>1. \A h \in DOMAIN mem : /\ h \in Nat /\ h < NextObj(mem, h) /\ NextObj(mem, h) \in Nat
                            /\ NextObj(mem, h) <= heap.current
  BY ObjectSizes
<1>2. heap.current \in Nat
  BY DEF StandingInv, CollectTypeOK
<1> QED BY <1>1, <1>2 DEF Walkable

\* compute_locations passes an object, which it places behind those it has placed if
\* the object is marked.
LEMMA ComputeLocationStep ==
  ASSUME CollectInv, ComputeLocation, snapshot' = snapshot
  PROVE  CollectInv'
<1> USE DEF heapVars, markVars, compactVars
<1>1. /\ phase = "compute" /\ it < heap.current
      /\ ComputeInv /\ StandingInv
  BY DEF ComputeLocation, CollectInv
<1>2. it \in DOMAIN mem /\ Walkable(mem, heap.begin, heap.current)
  BY <1>1, NextInHeap DEF ComputeInv
<1>3. /\ it \in Nat /\ NextObj(mem, it) \in DOMAIN mem \cup {heap.current}
      /\ NextObj(mem, it) \in Nat /\ NextObj(mem, it) = it + ObjWords(mem[it])
      /\ ObjWords(mem[it]) \in Nat
      /\ \A h \in DOMAIN mem : h < NextObj(mem, it) <=> h < it \/ h = it
  BY <1>1, <1>2, NextInHeap, ObjectSizes
<1>4. /\ IF Survives(it)
           THEN /\ mem' = [mem EXCEPT ![it].fwd = heap.begin + live]
                /\ live' = live + ObjWords(mem[it])
           ELSE UNCHANGED <<mem, live>>
      /\ it' = NextObj(mem, it)
      /\ UNCHANGED <<heap, word, top, extra, markVars, old, phase, fld, need>>
  BY <1>2 DEF ComputeLocation, Reading
<1>5. live \in Nat /\ heap.begin \in Nat /\ live <= it - heap.begin /\ heap = [heap EXCEPT !.begin = @]
  BY <1>1 DEF ComputeInv, StandingInv, CollectTypeOK
<1>6. ComputeInv' /\ StandingInv'
  <2>1. CASE ~Survives(it)
    <3>1. UNCHANGED <<mem, heap, old, top, extra, live, need, word>>
      BY <1>4, <2>1
    <3>2. StandingInv'
      BY <1>1, <1>3, <1>4, <3>1, StandingUnchanged
         DEF Compacting, Scanning, StandingInv, CollectTypeOK
    <3>3. Placed' = Placed /\ Marked' = Marked
      BY <1>3, <1>4, <2>1, <3>1 DEF Placed, Marked, Survives
    <3>4. /\ Walkable(mem, heap.begin, heap.current)'
          /\ Closed(Marked)' /\ Dump(Marked)' = Dump(Marked)
      BY <1>1, <3>1, <3>3, DumpUnchanged
         DEF ComputeInv, Walkable, NextObj, ObjWords, Closed, IsValidHeapPointer, InChunk, RootWords
    <3>5. Packs(mem, Placed, [h \in Placed |-> mem[h].fwd], heap.begin, heap.begin + live)'
      BY <1>1, <3>1, <3>3 DEF ComputeInv, Packs, ObjWords
    <3>6. live' <= it' - heap'.begin
      BY <1>3, <1>4, <1>5, <3>1
    <3> QED BY <1>1, <1>3, <1>4, <3>1, <3>2, <3>3, <3>4, <3>5, <3>6
            DEF ComputeInv, IsValidHeapPointer, InChunk
  <2>2. CASE Survives(it)
    <3>0. PICK a, v : a = it /\ v = heap.begin + live
      OBVIOUS
    <3>1. /\ mem' = [mem EXCEPT ![a].fwd = v] /\ a \in DOMAIN mem /\ v \in Int
          /\ live' = live + ObjWords(mem[it]) /\ live' \in Nat
      BY <1>2, <1>3, <1>4, <1>5, <2>2, <3>0
    <3>2. /\ StandingInv' /\ DOMAIN mem' = DOMAIN mem /\ Marked' = Marked
          /\ \A h \in DOMAIN mem : /\ mem'[h].fwd = IF h = a THEN v ELSE mem[h].fwd
                                   /\ ObjWords(mem'[h]) = ObjWords(mem[h])
          /\ Walkable(mem, heap.begin, heap.current)'
          /\ Closed(Marked)' /\ Dump(Marked)' = Dump(Marked)
      BY <1>1, <1>3, <1>4, <3>1, ForwardingKeeps DEF ComputeInv, Compacting
    <3>3. it \in Marked /\ Placed' = Placed \cup {it} /\ it \notin Placed
      BY <1>2, <1>3, <1>4, <2>2, <3>2 DEF Placed, Marked, Survives
    <3>4. \A h \in Placed : /\ h \in DOMAIN mem /\ h < it /\ h \in Int /\ mem[h].fwd \in Int
                            /\ ObjWords(mem[h]) \in Nat /\ mem[h].fwd <= h
      BY <1>1, ObjectSizes DEF Placed, Marked, ComputeInv
    <3>5. \A h \in Placed' : mem'[h].fwd <= h
      <4>1. v <= a
        BY <1>3, <1>5, <3>0
      <4> QED BY <1>2, <3>0, <3>2, <3>3, <3>4, <4>1
    <3>6. Packs(mem, Placed, [h \in Placed |-> mem[h].fwd], heap.begin, heap.begin + live)'
      <4> DEFINE e == heap.begin + live
                 at == [h \in Placed' |-> mem'[h].fwd]
      <4>1. /\ heap.begin \in {mem[g].fwd : g \in Placed} \cup {e}
            /\ \A h \in Placed : /\ heap.begin <= mem[h].fwd /\ mem[h].fwd + ObjWords(mem[h]) <= e
                                 /\ mem[h].fwd + ObjWords(mem[h]) \in {mem[g].fwd : g \in Placed} \cup {e}
            /\ \A g, h \in Placed : g < h => mem[g].fwd + ObjWords(mem[g]) <= mem[h].fwd
        BY <1>1 DEF ComputeInv, Packs
      <4>2. /\ at[it] = e /\ \A h \in Placed : at[h] = mem[h].fwd /\ h # it
            /\ \A h \in Placed' : ObjWords(mem'[h]) = ObjWords(mem[h]) /\ at[h] = mem'[h].fwd
            /\ heap' = heap /\ heap'.begin + live' = e + ObjWords(mem[it])
        <5>1. mem'[it].fwd = e /\ \A h \in Placed : h # it /\ mem'[h].fwd = mem[h].fwd
          BY <1>2, <3>0, <3>2, <3>3, <3>4
        <5>2. \A h \in Placed' : ObjWords(mem'[h]) = ObjWords(mem[h])
          BY <1>2, <3>2, <3>3, <3>4
        <5>3. heap' = heap /\ heap'.begin + live' = e + ObjWords(mem[it])
          BY <1>3, <1>4, <1>5, <3>1
        <5> QED BY <3>3, <5>1, <5>2, <5>3
      <4>3. {at[g] : g \in Placed'} = {mem[g].fwd : g \in Placed} \cup {e}
        BY ZenonT(30), <3>3, <4>2
      <4>4. \A h \in Placed' : /\ heap.begin <= at[h]
                               /\ at[h] + ObjWords(mem[h]) <= e + ObjWords(mem[it])
                               /\ at[h] + ObjWords(mem[h]) \in {at[g] : g \in Placed'} \cup {e + ObjWords(mem[it])}
        <5> HIDE DEF at
        <5> QED BY <1>3, <1>5, <3>3, <3>4, <4>1, <4>2, <4>3
      <4>5. \A g, h \in Placed' : g < h => at[g] + ObjWords(mem[g]) <= at[h]
        <5> HIDE DEF at
        <5> QED BY <1>3, <1>5, <3>3, <3>4, <4>1, <4>2
      <4> HIDE DEF at, e
      <4>6. Packs(mem', Placed', at, heap'.begin, heap'.begin + live')
        BY <4>1, <4>2, <4>3, <4>4, <4>5 DEF Packs
      <4> QED BY <4>6 DEF at
    <3>7. live' <= it' - heap'.begin
      BY <1>3, <1>4, <1>5, <3>1
    <3> QED BY <1>1, <1>3, <1>4, <3>2, <3>5, <3>6, <3>7 DEF ComputeInv, IsValidHeapPointer, InChunk
  <2> QED BY <2>1, <2>2
<1> QED BY <1>1, <1>4, <1>6
        DEF CollectInv, Scanning, Compacting, CollectPreservesGraph, CollectLeavesWellFormed,
            CollectMakesRoom

\* compute_locations is over when every marked object has its place.
LEMMA EndComputeStep ==
  ASSUME CollectInv, EndCompute, snapshot' = snapshot
  PROVE  CollectInv'
<1> USE DEF heapVars, markVars, compactVars
<1>1. /\ phase = "compute" /\ it >= heap.current /\ phase' = "resize"
      /\ UNCHANGED <<mem, heap, word, top, extra, old, live, it, need>>
      /\ ComputeInv /\ StandingInv
  BY DEF EndCompute, CollectInv
<1>2. it = heap.current
  BY <1>1, NextInHeap DEF ComputeInv
<1>3. StandingInv'
  BY <1>1, StandingUnchanged DEF Compacting, Scanning, StandingInv, CollectTypeOK
<1>4. Dump(Marked)' = Dump(Marked)
  BY <1>1, DumpUnchanged
<1>5. Marked' = Marked /\ Placed' = Placed
  BY <1>1 DEF Placed, Marked
<1>6. /\ Walkable(mem, heap.begin, heap.current)' /\ Closed(Marked)'
      /\ ~IsValidHeapPointer(word[StackBottom])'
  BY <1>1, <1>5 DEF ComputeInv, Walkable, NextObj, ObjWords, Closed, IsValidHeapPointer, InChunk, RootWords
<1>7. Packs(mem, Placed, [h \in Placed |-> mem[h].fwd], heap.begin, heap.begin + live)'
  BY <1>1, <1>5 DEF ComputeInv, Packs, ObjWords
<1>8. ComputeInv'
  BY <1>1, <1>2, <1>4, <1>5, <1>6, <1>7 DEF ComputeInv
<1> QED BY <1>1, <1>3, <1>8
        DEF CollectInv, Scanning, Compacting, CollectPreservesGraph, CollectLeavesWellFormed,
            CollectMakesRoom


-----------------------------------------------------------------------------
(* mremap                                                                   *)

\* The chunk that the objects are in from now on.
LEMMA NewChunk ==
  ASSUME StandingInv, ComputeInv, phase = "resize", Resize
  PROVE  \E b \in Nat :
           /\ heap' = [begin |-> b, size |-> PseudoSize(NextHeapSize),
                       current |-> b + (heap.current - heap.begin)]
           /\ mem' = [h \in {b + (g - heap.begin) : g \in DOMAIN mem} |-> mem[heap.begin + (h - b)]]
           /\ it' = b /\ old' = heap /\ phase' = "fixFields"
           /\ UNCHANGED <<word, top, extra, live, need>>
           /\ heap'.size \in Nat /\ heap.size <= heap'.size /\ 2 * live + need <= heap'.size
           /\ \A v \in KeptWords \cap Int : ~IsValidHeapPointer(v) => v < b \/ b + live < v
<1> USE DEF markVars
<1>1. /\ live \in Nat /\ need \in Nat \ {0} /\ MinCapacity \in Nat
      /\ heap.begin \in Nat /\ heap.current \in Nat /\ heap.size \in Nat
      /\ it = heap.current /\ live <= it - heap.begin
  BY CompactAssumption DEF StandingInv, CollectTypeOK, ComputeInv
<1> DEFINE size == PseudoSize(NextHeapSize)
<1>2. size \in Nat /\ heap.size <= size /\ 2 * live + need <= size
  BY <1>1 DEF PseudoSize, NextHeapSize, Larger, ExtraRoomCoefficient
<1>3. PICK b \in {heap.begin} \cup Bases :
        /\ Remaps(b, size)
        /\ heap' = [begin |-> b, size |-> size, current |-> b + (heap.current - heap.begin)]
        /\ mem' = [h \in {b + (g - heap.begin) : g \in DOMAIN mem} |-> mem[heap.begin + (h - b)]]
        /\ it' = b
  BY DEF Resize
<1>4. b \in Nat
  BY <1>1, <1>3, CompactAssumption
<1> HIDE DEF size
<1>5. ASSUME NEW v \in KeptWords \cap Int, ~IsValidHeapPointer(v) PROVE v < b \/ b + live < v
  <2>1. CASE b = heap.begin
    BY <1>1, <1>5, <2>1 DEF IsValidHeapPointer, InChunk, IsUnboxed
  <2>2. CASE b # heap.begin
    <3>1. v \notin b .. (b + size - 1)
      BY <1>3, <1>5, <2>2 DEF Remaps, Chunk
    <3> QED BY <1>1, <1>2, <1>4, <3>1
  <2> QED BY <2>1, <2>2
<1>6. heap'.size = size
  BY <1>3
<1>7. old' = heap /\ phase' = "fixFields" /\ UNCHANGED <<word, top, extra, live, need>>
  BY DEF Resize
<1> QED BY <1>2, <1>3, <1>4, <1>5, <1>6, <1>7 DEF size

\* mremap moves every object, and what the forward addresses will be taken for, by the
\* same distance, and no other word.
LEMMA ResizeStep ==
  ASSUME CollectInv, Resize, snapshot' = snapshot
  PROVE  CollectInv'
<1>1. phase = "resize" /\ StandingInv /\ ComputeInv
  BY DEF Resize, CollectInv
<1>2. PICK b \in Nat :
           /\ heap' = [begin |-> b, size |-> PseudoSize(NextHeapSize),
                       current |-> b + (heap.current - heap.begin)]
           /\ mem' = [h \in {b + (g - heap.begin) : g \in DOMAIN mem} |-> mem[heap.begin + (h - b)]]
           /\ it' = b /\ old' = heap /\ phase' = "fixFields"
           /\ UNCHANGED <<word, top, extra, live, need>>
           /\ heap'.size \in Nat /\ heap.size <= heap'.size /\ 2 * live + need <= heap'.size
           /\ \A v \in KeptWords \cap Int : ~IsValidHeapPointer(v) => v < b \/ b + live < v
  BY <1>1, NewChunk
<1>3. /\ live \in Nat /\ need \in Nat \ {0}
      /\ heap.begin \in Nat /\ heap.current \in Nat /\ heap.size \in Nat
      /\ it = heap.current /\ live <= it - heap.begin /\ heap.current <= heap.begin + heap.size
  BY <1>1 DEF StandingInv, CollectTypeOK, ComputeInv
<1>4. /\ heap'.begin = b /\ heap'.current = b + (heap.current - heap.begin)
      /\ heap'.current \in Nat /\ NewEnd' = b + live
      /\ heap' \in [begin : Nat, current : Nat, size : Nat]
      /\ heap'.current <= heap'.begin + heap'.size
  <2>1. heap'.begin = b /\ heap'.current = b + (heap.current - heap.begin) /\ live' = live
    BY <1>2
  <2>2. b + (heap.current - heap.begin) \in Nat
    BY <1>3
  <2>3. heap' \in [begin : Nat, current : Nat, size : Nat]
    BY <1>2, <2>2
  <2> QED BY <1>2, <1>3, <2>1, <2>2, <2>3 DEF NewEnd
<1> DEFINE to == [g \in DOMAIN mem |-> b + (g - heap.begin)]
<1>5. \A h \in DOMAIN mem : /\ h \in Nat /\ mem[h] \in Object /\ mem[h].fwd \in Int
                            /\ ObjWords(mem[h]) \in Nat /\ ObjWords(mem[h]) > 0
                            /\ NextObj(mem, h) = h + ObjWords(mem[h])
                            /\ NextObj(mem, h) <= heap.current /\ heap.begin <= h
  BY <1>1, ObjectSizes
<1>6. /\ DOMAIN mem' = {to[g] : g \in DOMAIN mem}
      /\ \A g \in DOMAIN mem : /\ to[g] = b + (g - heap.begin) /\ to[g] \in Nat
                               /\ mem'[to[g]] = mem[g]
  <2>1. DOMAIN mem' = {to[g] : g \in DOMAIN mem}
    BY <1>2
  <2>2. \A g \in DOMAIN mem : to[g] = b + (g - heap.begin) /\ to[g] \in Nat /\ heap.begin + (to[g] - b) = g
    BY <1>3, <1>5
  <2> QED BY <1>2, <2>1, <2>2
<1> HIDE DEF to
<1>7. \A g \in DOMAIN mem : NextObj(mem', to[g]) = b + (NextObj(mem, g) - heap.begin)
  BY <1>3, <1>5, <1>6 DEF NextObj
<1>8. StandingInv'
  <2>1. IsFiniteSet(DOMAIN mem')
    <3>1. to \in [DOMAIN mem -> DOMAIN mem']
      BY <1>6 DEF to
    <3>2. to \in Surjection(DOMAIN mem, DOMAIN mem')
      BY <1>6, <3>1 DEF Surjection
    <3>3. IsFiniteSet(DOMAIN mem)
      BY <1>1 DEF StandingInv
    <3> QED BY <3>2, <3>3, FS_Surjection
  <2>2. mem' \in [DOMAIN mem' -> Object]
    <3>1. mem' = [h \in DOMAIN mem' |-> mem'[h]]
      BY <1>2
    <3>2. \A h \in DOMAIN mem' : mem'[h] \in Object
      BY <1>5, <1>6
    <3> QED BY <3>1, <3>2
  <2>3. \A h \in DOMAIN mem' : /\ h \in Nat /\ b <= h /\ NextObj(mem', h) <= heap'.current
                               /\ NextObj(mem', h) <= heap'.begin + heap'.size
                               /\ SizeWords(mem'[h].kind, mem'[h].len) > 0 /\ ~mem'[h].enq
    <3> SUFFICES ASSUME NEW g \in DOMAIN mem
                 PROVE  /\ to[g] \in Nat /\ b <= to[g] /\ NextObj(mem', to[g]) <= heap'.current
                        /\ NextObj(mem', to[g]) <= heap'.begin + heap'.size
                        /\ SizeWords(mem[g].kind, mem[g].len) > 0 /\ ~mem[g].enq
      BY <1>6
    <3>1. SizeWords(mem[g].kind, mem[g].len) > 0 /\ ~mem[g].enq
      BY <1>1 DEF StandingInv, Scanning
    <3>2. /\ to[g] = b + (g - heap.begin) /\ to[g] \in Nat /\ g \in Nat /\ heap.begin <= g
          /\ NextObj(mem', to[g]) = b + (NextObj(mem, g) - heap.begin)
          /\ NextObj(mem, g) \in Nat /\ NextObj(mem, g) <= heap.current
      BY <1>5, <1>6, <1>7
    <3> QED BY <1>2, <1>3, <1>4, <3>1, <3>2
  <2>4. CollectTypeOK'
    BY <1>1, <1>2, <1>4, <2>2, <2>3 DEF StandingInv, CollectTypeOK, Compacting
  <2>5. RootWords(top, extra)' = RootWords(top, extra)
    BY <1>2 DEF RootWords
  <2> QED BY <1>1, <1>2, <1>4, <2>1, <2>3, <2>4, <2>5 DEF StandingInv, CollectNoCrash, Scanning
<1>9. Walkable(mem, heap.begin, heap.current)'
  <2>1. Walkable(mem, heap.begin, heap.current)
    BY <1>1 DEF ComputeInv
  <2>2. \A g \in DOMAIN mem : NextObj(mem, g) \in Nat
    BY <1>5
  <2>3. b \in DOMAIN mem' \cup {heap'.current}
    BY <1>3, <1>4, <1>6, <2>1 DEF Walkable
  <2>4. \A h \in DOMAIN mem' : b <= h /\ NextObj(mem', h) \in DOMAIN mem' \cup {heap'.current}
    BY <1>3, <1>4, <1>5, <1>6, <1>7, <2>1 DEF Walkable
  <2>5. \A g, h \in DOMAIN mem' : g < h => NextObj(mem', g) <= h
    BY <1>3, <1>5, <1>6, <1>7, <2>1, <2>2 DEF Walkable
  <2>6. \A h \in DOMAIN mem' : NextObj(mem', h) <= heap'.current
    BY <1>8 DEF StandingInv
  <2> QED BY <1>3, <1>4, <2>1, <2>3, <2>4, <2>5, <2>6 DEF Walkable
<1> DEFINE place == [g \in Marked |-> b + (mem[g].fwd - heap.begin)]
<1>10. Marked \subseteq DOMAIN mem /\ Placed = Marked
  BY <1>3, <1>5 DEF Marked, Placed, NextObj
<1>11. /\ Items(b)' = {to[g] : g \in Marked} /\ Pending' = {to[g] : g \in Marked}
       /\ \A g \in Marked : FinalPlace(b)'[to[g]] = place[g]
  <2>1. Settled(b)' = {}
    BY <1>3, <1>5, <1>6 DEF Settled
  <2>2. Pending' = {to[g] : g \in Marked}
    <3>1. Pending' = {h \in DOMAIN mem' : mem'[h].mark}
      BY <1>2 DEF Pending
    <3> QED BY <1>6, <3>1 DEF Marked
  <2>3. Items(b)' = {to[g] : g \in Marked}
    BY <2>1, <2>2 DEF Items
  <2>4. \A g \in Marked : ~(to[g] < b)
    BY <1>3, <1>5, <1>6, <1>10
  <2> QED BY <1>2, <1>4, <1>6, <1>10, <2>2, <2>3, <2>4 DEF FinalPlace, Moved
<1>12. /\ b \in {place[g] : g \in Marked} \cup {b + live}
       /\ \A g \in Marked : /\ place[g] \in Int /\ b <= place[g] /\ place[g] <= to[g]
                            /\ place[g] + ObjWords(mem[g]) <= b + live
                            /\ place[g] + ObjWords(mem[g]) \in {place[k] : k \in Marked} \cup {b + live}
       /\ \A g, h \in Marked : g < h => place[g] + ObjWords(mem[g]) <= place[h] /\ place[g] < place[h]
  <2>1. /\ heap.begin \in {mem[g].fwd : g \in Marked} \cup {heap.begin + live}
        /\ \A g \in Marked : /\ heap.begin <= mem[g].fwd /\ mem[g].fwd <= g
                             /\ mem[g].fwd + ObjWords(mem[g]) <= heap.begin + live
                             /\ mem[g].fwd + ObjWords(mem[g]) \in {mem[k].fwd : k \in Marked} \cup {heap.begin + live}
        /\ \A g, h \in Marked : g < h => mem[g].fwd + ObjWords(mem[g]) <= mem[h].fwd
    BY <1>1, <1>10 DEF ComputeInv, Packs
  <2>2. \A g \in Marked : /\ place[g] = b + (mem[g].fwd - heap.begin) /\ place[g] \in Int
                          /\ mem[g].fwd \in Int /\ to[g] = b + (g - heap.begin) /\ g \in Nat
                          /\ ObjWords(mem[g]) \in Nat /\ ObjWords(mem[g]) > 0
    BY <1>3, <1>5, <1>6, <1>10
  <2> HIDE DEF place
  <2>3. b \in {place[g] : g \in Marked} \cup {b + live}
    BY <1>3, <2>1, <2>2
  <2>4. ASSUME NEW g \in Marked
        PROVE  /\ b <= place[g] /\ place[g] <= to[g] /\ place[g] + ObjWords(mem[g]) <= b + live
               /\ place[g] + ObjWords(mem[g]) \in {place[k] : k \in Marked} \cup {b + live}
    BY <1>3, <2>1, <2>2
  <2>5. ASSUME NEW g \in Marked, NEW h \in Marked, g < h
        PROVE  place[g] + ObjWords(mem[g]) <= place[h] /\ place[g] < place[h]
    BY <1>3, <2>1, <2>2, <2>5
  <2> QED BY <2>2, <2>3, <2>4, <2>5
<1> HIDE DEF place
<1>13. {FinalPlace(b)'[h] : h \in Items(b)'} = {place[g] : g \in Marked}
  BY <1>11
<1>14. \A g, h \in Marked : to[g] < to[h] => g < h
  BY <1>3, <1>5, <1>6, <1>10
<1>15. LayoutInv(b)'
  <2>1. Packs(mem, Items(b), FinalPlace(b), heap.begin, NewEnd)'
    BY <1>4, <1>6, <1>10, <1>11, <1>12, <1>13, <1>14 DEF Packs
  <2>2. \A h \in Pending' : b <= Moved(mem[h].fwd)' /\ Moved(mem[h].fwd)' <= h
    <3>1. \A g \in Marked : \A h : h = to[g] => Moved(mem[h].fwd)' = place[g]
      BY <1>2, <1>4, <1>6, <1>10 DEF Moved, place
    <3> QED BY <1>11, <1>12, <3>1
  <2> QED BY <1>4, <1>12, <1>13, <2>1, <2>2 DEF LayoutInv
<1>16. ASSUME NEW v \in KeptWords \cap Int, NEW d, d = Denotes(v),
              IsValidHeapPointer(v) => HeaderOf(v) \in Marked
       PROVE  DenotedBefore(v, d)'
  <2>1. InChunk(old, v)' <=> IsValidHeapPointer(v)
    BY <1>2 DEF InChunk, IsValidHeapPointer
  <2>2. CASE IsValidHeapPointer(v)
    <3>1. HeaderOf(v) \in DOMAIN mem /\ Referent(v)' = to[HeaderOf(v)]
      BY <1>2, <1>4, <1>6, <1>10, <1>16, <2>2 DEF Referent, Moved
    <3>2. mem'[to[HeaderOf(v)]] = mem[HeaderOf(v)] /\ to[HeaderOf(v)] \in Pending'
      BY <1>6, <1>11, <1>16, <2>2, <3>1
    <3> QED BY <1>16, <2>1, <2>2, <3>1, <3>2 DEF DenotedBefore, Denotes
  <2>3. CASE ~IsValidHeapPointer(v)
    <3>1. v < b \/ b + live < v
      BY <1>2, <1>16, <2>3
    <3>2. ~InCompacted(v)'
      BY <1>3, <1>4, <3>1 DEF InCompacted
    <3> QED BY <1>16, <2>1, <2>3, <3>2 DEF DenotedBefore, Denotes
  <2> QED BY <2>2, <2>3
<1>17. \A g \in Marked : \A h, r : h = to[g] /\ r = DumpObject(Marked, g) => Described(b, h, r)'
  <2> SUFFICES ASSUME NEW g \in Marked, NEW h, h = to[g], NEW r, r = DumpObject(Marked, g)
               PROVE  Described(b, h, r)'
    OBVIOUS
  <2>1. g \in DOMAIN mem /\ mem'[h] = mem[g] /\ mem[g].fields \in Seq(Int) /\ mem[g].mark
    BY <1>5, <1>6, <1>10 DEF Object, Marked
  <2>2. ~FieldsFixed(h)'
    <3>1. g \in Nat /\ heap.begin <= g /\ h = b + (g - heap.begin)
      BY <1>5, <1>6, <2>1
    <3>2. ~(h < b)
      BY <1>3, <3>1
    <3> QED BY <1>2, <3>2 DEF FieldsFixed
  <2>3. \A i \in DOMAIN mem[g].fields : \A v, d :
           v = mem[g].fields[i] /\ d = r.fields[i] => DenotedBefore(v, d)'
    <3> SUFFICES ASSUME NEW i \in DOMAIN mem[g].fields, NEW v, v = mem[g].fields[i],
                        NEW d, d = r.fields[i]
                 PROVE  DenotedBefore(v, d)'
      OBVIOUS
    <3>1. v \in Int /\ v \in KeptWords
      BY <2>1 DEF KeptWords, Survives
    <3>2. d = Denotes(v)
      BY <2>1 DEF DumpObject
    <3>3. IsValidHeapPointer(v) => HeaderOf(v) \in Marked
      BY <1>1 DEF ComputeInv, Closed
    <3> QED BY <1>16, <3>1, <3>2, <3>3
  <2>4. Cardinality({x \in {place[k] : k \in Marked} : x < place[g]}) = Cardinality({k \in Marked : k < g})
    <3>1. IsFiniteSet(Marked) /\ Marked \subseteq Int
      BY <1>1, <1>10, FS_Subset DEF StandingInv
    <3>2. place \in [Marked -> Int]
      BY <1>12 DEF place
    <3> QED BY <1>12, <3>1, <3>2, RankKept
  <2>5. FinalPlace(b)'[h] = place[g]
    BY <1>11
  <2>6. r = [rank |-> Cardinality({x \in {FinalPlace(b)'[k] : k \in Items(b)'} : x < FinalPlace(b)'[h]}),
             id |-> mem'[h].id, kind |-> mem'[h].kind, len |-> mem'[h].len,
             fields |-> [i \in DOMAIN mem'[h].fields |-> r.fields[i]]]
    BY <1>13, <2>1, <2>4, <2>5 DEF DumpObject
  <2>7. DOMAIN r.fields = DOMAIN mem'[h].fields
    BY <2>1 DEF DumpObject
  <2> QED BY ZenonT(30), <2>1, <2>2, <2>3, <2>6, <2>7 DEF Described, DenotedBefore
<1>18. ObjectsKept(b)'
  <2>1. snapshot'.objects = {DumpObject(Marked, g) : g \in Marked}
    BY <1>1 DEF ComputeInv, Dump
  <2>2. \A h \in Items(b)' : \E r \in snapshot'.objects : Described(b, h, r)'
    BY <1>11, <1>17, <2>1
  <2>3. \A r \in snapshot'.objects : \E h \in Items(b)' : Described(b, h, r)'
    BY <1>11, <1>17, <2>1
  <2> QED BY <2>2, <2>3 DEF ObjectsKept
<1>19. RootsKept(b)'
  <2>1. /\ snapshot = Dump(Marked) /\ snapshot' = snapshot /\ word' = word /\ word \in [Words -> Int]
        /\ RootWords(top, extra)' = RootWords(top, extra) /\ RootWords(top, extra) \subseteq Words
    BY SMTT(30), <1>1, <1>2 DEF ComputeInv, StandingInv, CollectTypeOK, RootWords
  <2>2. \A a \in RootWords(top, extra) : ToFix(a)'
    BY <1>2 DEF ToFix
  <2>3. \A a \in RootWords(top, extra) : \A v, d :
          v = word[a] /\ d = snapshot.roots[a] => DenotedBefore(v, d)'
    <3> SUFFICES ASSUME NEW a \in RootWords(top, extra), NEW v, v = word[a], NEW d, d = snapshot.roots[a]
                 PROVE  DenotedBefore(v, d)'
      OBVIOUS
    <3>1. v \in KeptWords \cap Int
      BY <2>1 DEF KeptWords
    <3>2. d = Denotes(v)
      BY <2>1 DEF Dump
    <3>3. IsValidHeapPointer(v) => HeaderOf(v) \in Marked
      BY <1>1 DEF ComputeInv, Closed
    <3> QED BY <1>16, <3>1, <3>2, <3>3
  <2>4. ~InChunk(old, word[StackBottom])' /\ ~InCompacted(word[StackBottom])'
    <3>1. ~InChunk(heap, word[StackBottom])
      BY <1>1 DEF ComputeInv, IsValidHeapPointer
    <3>2. word[StackBottom] \in KeptWords \cap Int
      BY <2>1, WordsAssumption DEF KeptWords
    <3>3. word[StackBottom] < b \/ b + live < word[StackBottom]
      BY <1>2, <3>1, <3>2 DEF IsValidHeapPointer
    <3> QED BY <1>2, <1>3, <1>4, <3>1, <3>2, <3>3 DEF InChunk, InCompacted
  <2>5. snapshot = [objects |-> snapshot.objects,
                    roots |-> [a \in RootWords(top, extra) |-> snapshot.roots[a]],
                    others |-> [a \in Words \ RootWords(top, extra) |-> word[a]]]
    BY <2>1 DEF Dump
  <2>6. \A a \in RootWords(top, extra) : DenotedBefore(word[a], snapshot.roots[a])'
    BY <2>1, <2>3 DEF DenotedBefore
  <2> QED BY <2>1, <2>2, <2>4, <2>5, <2>6 DEF RootsKept
<1>20. FixInv'
  <2>1. ResizedInv(b)'
    BY <1>2, <1>3, <1>4, <1>15, <1>18, <1>19 DEF ResizedInv
  <2>2. it' \in DOMAIN mem' \cup {heap'.current}
    BY <1>2, <1>4, <1>9 DEF Walkable
  <2> QED BY <1>2, <1>4, <1>9, <2>1, <2>2 DEF FixInv
<1> QED BY <1>2, <1>8, <1>20
        DEF CollectInv, Scanning, CollectPreservesGraph, CollectLeavesWellFormed, CollectMakesRoom

\* The kernel refuses: the process is over.
LEMMA ResizeFailsStep ==
  ASSUME CollectInv, ResizeFails, snapshot' = snapshot
  PROVE  CollectInv'
<1> USE DEF heapVars, markVars, compactVars
<1>1. /\ StandingInv /\ phase = "resize" /\ phase' = "exit"
      /\ UNCHANGED <<mem, heap, old, word, top, extra, live, it, need>>
  BY DEF ResizeFails, CollectInv
<1>2. StandingInv'
  BY <1>1, StandingUnchanged DEF StandingInv, CollectTypeOK, Scanning
<1> QED BY <1>1, <1>2
        DEF CollectInv, Scanning, CollectPreservesGraph, CollectLeavesWellFormed, CollectMakesRoom

-----------------------------------------------------------------------------
(* update_references                                                        *)

\* A step that moves no object and writes no forward address changes neither the
\* places of objects nor what a word stands for.
LEMMA PlacesKept ==
  ASSUME NEW f, UNCHANGED <<heap, old, live>>, DOMAIN mem' = DOMAIN mem, Pending' = Pending,
         \A h \in DOMAIN mem : /\ mem'[h].kind = mem[h].kind /\ mem'[h].len = mem[h].len
                               /\ mem'[h].fwd = mem[h].fwd /\ mem'[h].id = mem[h].id
  PROVE  /\ Items(f)' = Items(f) /\ FinalPlace(f)' = FinalPlace(f)
         /\ LayoutInv(f) => LayoutInv(f)'
         /\ \A v, d : DenotedBefore(v, d) => DenotedBefore(v, d)'
         /\ \A v, d : DenotedAfter(f, v, d) => DenotedAfter(f, v, d)'
<1>1. \A h \in DOMAIN mem : ObjWords(mem'[h]) = ObjWords(mem[h])
  BY DEF ObjWords
<1>2. Settled(f)' = Settled(f) /\ Items(f)' = Items(f) /\ Items(f) \subseteq DOMAIN mem
  BY DEF Settled, Items, Pending
<1>3. \A a : Moved(a)' = Moved(a)
  BY DEF Moved
<1>4. FinalPlace(f)' = FinalPlace(f)
  BY <1>2, <1>3 DEF FinalPlace, Moved
<1>5. NewEnd' = NewEnd
  BY DEF NewEnd
<1>6. LayoutInv(f) => LayoutInv(f)'
  <2>1. Packs(mem, Items(f), FinalPlace(f), heap.begin, NewEnd)
          => Packs(mem, Items(f), FinalPlace(f), heap.begin, NewEnd)'
    BY <1>1, <1>2, <1>4, <1>5 DEF Packs
  <2>2. \A h \in Pending : Moved(mem[h].fwd)' = Moved(mem[h].fwd)
    BY DEF Moved, Pending
  <2> QED BY <1>2, <1>4, <1>5, <2>1, <2>2 DEF LayoutInv
<1>7. \A v : InCompacted(v)' = InCompacted(v) /\ InChunk(old, v)' = InChunk(old, v) /\ Referent(v)' = Referent(v)
  BY <1>5 DEF InCompacted, InChunk, Referent, Moved
<1>8. \A v, d : DenotedBefore(v, d) => DenotedBefore(v, d)'
  BY <1>7 DEF DenotedBefore, Pending
<1>9. \A v, d : DenotedAfter(f, v, d) => DenotedAfter(f, v, d)'
  BY <1>2, <1>4, <1>7 DEF DenotedAfter
<1> QED BY <1>2, <1>4, <1>6, <1>8, <1>9

\* Before physically_relocate every live object is still to be moved.
LEMMA AllPending ==
  ASSUME StandingInv, phase # "move"
  PROVE  /\ Items(heap.begin) = Pending /\ Pending = {h \in DOMAIN mem : mem[h].mark}
         /\ \A h \in Pending : FinalPlace(heap.begin)[h] = Moved(mem[h].fwd)
<1>1. \A h \in DOMAIN mem : ~(h < heap.begin)
  BY DEF StandingInv, CollectTypeOK
<1> QED BY <1>1 DEF Items, Settled, Pending, FinalPlace

\* Updating a word reads the header of a live object, and the new word stands in the
\* new heap for what the old one stood for.
LEMMA UpdatedDenotes ==
  ASSUME StandingInv, phase # "move", NEW f, f = heap.begin, LayoutInv(f),
         NEW v \in Int, NEW d, DenotedBefore(v, d)
  PROVE  /\ Referents({v}) \subseteq DOMAIN mem
         /\ Updated(v) \in Int /\ DenotedAfter(f, Updated(v), d)
<1>1. CASE ~InChunk(old, v)
  BY <1>1 DEF Referents, Updated, DenotedBefore, DenotedAfter
<1>2. CASE InChunk(old, v)
  <2> DEFINE h == Referent(v)
  <2>1. h \in Pending /\ d = <<"object", mem[h].id>>
    BY <1>2 DEF DenotedBefore
  <2>2. /\ h \in DOMAIN mem /\ h \in Items(f) /\ FinalPlace(f)[h] = Moved(mem[h].fwd)
        /\ Updated(v) = ContentOf(Moved(mem[h].fwd))
    BY <1>2, <2>1, AllPending DEF Pending, Updated
  <2> HIDE DEF h
  <2>3. mem[h] \in Object /\ mem[h].fwd \in Int /\ ObjWords(mem[h]) \in Nat /\ ObjWords(mem[h]) >= 2
    BY <2>2, ObjectSizes DEF ObjWords, SizeWords, HeaderWords, Object
  <2>4. heap.begin \in Nat /\ live \in Nat /\ old.begin \in Nat
    BY DEF StandingInv, CollectTypeOK
  <2>5. Moved(mem[h].fwd) \in Int
    BY <2>3, <2>4 DEF Moved
  <2>6. heap.begin <= Moved(mem[h].fwd) /\ Moved(mem[h].fwd) + ObjWords(mem[h]) <= NewEnd
    BY <2>2 DEF LayoutInv, Packs
  <2>7. InCompacted(Updated(v)) /\ HeaderOf(Updated(v)) = Moved(mem[h].fwd) /\ Updated(v) \in Int
    BY <2>2, <2>3, <2>4, <2>5, <2>6 DEF InCompacted, IsUnboxed, ContentOf, HeaderOf, HeaderWords, NewEnd
  <2>8. Referents({v}) \subseteq DOMAIN mem
    BY <2>2 DEF Referents, h
  <2> QED BY <2>1, <2>2, <2>7, <2>8 DEF DenotedAfter
<1> QED BY <1>1, <1>2


\* The dump still describes an object whose fields stand for what they stood for.
LEMMA DescribedKept ==
  ASSUME NEW f, UNCHANGED <<heap, old, live>>, DOMAIN mem' = DOMAIN mem, Pending' = Pending,
         \A g \in DOMAIN mem : /\ mem'[g].kind = mem[g].kind /\ mem'[g].len = mem[g].len
                               /\ mem'[g].fwd = mem[g].fwd /\ mem'[g].id = mem[g].id,
         NEW h \in DOMAIN mem, NEW r, Described(f, h, r), DOMAIN mem'[h].fields = DOMAIN mem[h].fields,
         \A i \in DOMAIN mem[h].fields : \A v, d :
           v = mem'[h].fields[i] /\ d = r.fields[i] =>
             IF FieldsFixed(h)' THEN DenotedAfter(f, v, d)' ELSE DenotedBefore(v, d)'
  PROVE  Described(f, h, r)'
<1>1. Items(f)' = Items(f) /\ FinalPlace(f)' = FinalPlace(f)
  BY PlacesKept
<1>2. /\ DOMAIN r.fields = DOMAIN mem'[h].fields
      /\ r = [rank |-> Cardinality({x \in {FinalPlace(f)'[g] : g \in Items(f)'} : x < FinalPlace(f)'[h]}),
              id |-> mem'[h].id, kind |-> mem'[h].kind, len |-> mem'[h].len,
              fields |-> [i \in DOMAIN mem'[h].fields |-> r.fields[i]]]
  BY <1>1 DEF Described
<1>3. \A i \in DOMAIN mem'[h].fields :
        IF FieldsFixed(h)' THEN DenotedAfter(f, mem[h].fields[i], r.fields[i])'
                           ELSE DenotedBefore(mem[h].fields[i], r.fields[i])'
  BY DEF DenotedAfter, DenotedBefore
<1> QED BY <1>2, <1>3 DEF Described

\* A step of a loop over words, or the end of a loop, keeps the objects.
LEMMA ObjectsStay ==
  ASSUME StandingInv, phase \notin Scanning, NEW f, ResizedInv(f),
         UNCHANGED <<mem, heap, old, top, extra, live, need, snapshot>>,
         Pending' = Pending, \A h \in DOMAIN mem : FieldsFixed(h)' = FieldsFixed(h),
         phase' \in Compacting, it' \in Nat, word' \in [Words -> Int], RootsKept(f)'
  PROVE  StandingInv' /\ ResizedInv(f)'
<1>1. StandingInv'
  BY StandingUnchanged
<1>2. /\ Items(f)' = Items(f) /\ LayoutInv(f)'
      /\ \A v, d : DenotedBefore(v, d) => DenotedBefore(v, d)'
      /\ \A v, d : DenotedAfter(f, v, d) => DenotedAfter(f, v, d)'
  BY PlacesKept DEF ResizedInv
<1>3. \A h \in DOMAIN mem : \A r : Described(f, h, r) => Described(f, h, r)'
  <2> SUFFICES ASSUME NEW h \in DOMAIN mem, NEW r, Described(f, h, r) PROVE Described(f, h, r)'
    OBVIOUS
  <2>1. \A i \in DOMAIN mem[h].fields : \A v, d :
          v = mem'[h].fields[i] /\ d = r.fields[i] =>
            IF FieldsFixed(h)' THEN DenotedAfter(f, v, d)' ELSE DenotedBefore(v, d)'
    <3>1. \A i \in DOMAIN mem[h].fields : \A v, d :
            v = mem[h].fields[i] /\ d = r.fields[i] =>
              IF FieldsFixed(h) THEN DenotedAfter(f, v, d) ELSE DenotedBefore(v, d)
      BY DEF Described
    <3> QED BY <1>2, <3>1
  <2> QED BY <2>1, DescribedKept
<1>4. Items(f) \subseteq DOMAIN mem
  BY DEF Items, Settled, Pending
<1>5. ObjectsKept(f)'
  BY <1>2, <1>3, <1>4 DEF ObjectsKept, ResizedInv
<1> QED BY <1>1, <1>2, <1>5 DEF ResizedInv

\* The end of a loop, and a turn that has nothing to do.
LEMMA WordsStay ==
  ASSUME StandingInv, phase \notin Scanning, NEW f, ResizedInv(f),
         UNCHANGED <<mem, heap, old, word, top, extra, live, need, snapshot>>,
         Pending' = Pending, \A h \in DOMAIN mem : FieldsFixed(h)' = FieldsFixed(h),
         phase' \in Compacting, it' \in Nat,
         \A a \in RootWords(top, extra) : ToFix(a)' = ToFix(a)
  PROVE  StandingInv' /\ ResizedInv(f)'
<1>1. /\ \A v, d : DenotedBefore(v, d) => DenotedBefore(v, d)'
      /\ \A v, d : DenotedAfter(f, v, d) => DenotedAfter(f, v, d)'
  BY PlacesKept
<1>2. RootWords(top, extra)' = RootWords(top, extra) /\ RootsKept(f)
  BY DEF RootWords, ResizedInv
<1>3. \A a \in RootWords(top, extra) : \A v, d :
        v = word[a] /\ d = snapshot.roots[a] =>
          IF ToFix(a)' THEN DenotedBefore(v, d)' ELSE DenotedAfter(f, v, d)'
  <2>1. \A a \in RootWords(top, extra) : \A v, d :
          v = word[a] /\ d = snapshot.roots[a] =>
            IF ToFix(a) THEN DenotedBefore(v, d) ELSE DenotedAfter(f, v, d)
    BY <1>2 DEF RootsKept
  <2> QED BY <1>1, <2>1
<1>4. \A a \in RootWords(top, extra)' :
        IF ToFix(a)' THEN DenotedBefore(word[a], snapshot.roots[a])'
                     ELSE DenotedAfter(f, word[a], snapshot.roots[a])'
  BY <1>2, <1>3 DEF DenotedBefore, DenotedAfter
<1>5. ~InChunk(old, word[StackBottom])' /\ ~InCompacted(word[StackBottom])'
  BY <1>2 DEF RootsKept, InChunk, InCompacted, NewEnd
<1>6. RootsKept(f)'
  BY <1>2, <1>4, <1>5 DEF RootsKept
<1>7. word' \in [Words -> Int]
  BY DEF StandingInv, CollectTypeOK
<1> QED BY <1>6, <1>7, ObjectsStay


\* A turn that updates word a.
LEMMA WordFixed ==
  ASSUME StandingInv, phase \in {"fixStack", "fixExtra", "fixGlobals"}, NEW f, f = heap.begin, ResizedInv(f),
         UNCHANGED <<mem, heap, old, top, extra, live, need, snapshot, phase>>, it' \in Nat,
         NEW a \in Words, word' = [word EXCEPT ![a] = Updated(word[a])],
         \/ a = StackBottom /\ \A r \in RootWords(top, extra) : ToFix(r)' = ToFix(r)
         \/ /\ a \in RootWords(top, extra) /\ ToFix(a) /\ ~ToFix(a)'
            /\ \A r \in RootWords(top, extra) \ {a} : ToFix(r)' = ToFix(r)
  PROVE  StandingInv' /\ ResizedInv(f)'
<1>1. /\ phase' \notin Scanning /\ phase \notin Scanning /\ phase' \in Compacting
      /\ phase # "move" /\ phase # "fixFields" /\ Pending' = Pending
  BY DEF Scanning, Compacting, Pending
<1>2. /\ \A v, d : DenotedBefore(v, d) => DenotedBefore(v, d)'
      /\ \A v, d : DenotedAfter(f, v, d) => DenotedAfter(f, v, d)'
  BY <1>1, PlacesKept
<1>3. /\ RootWords(top, extra)' = RootWords(top, extra) /\ RootWords(top, extra) \subseteq Words
      /\ RootsKept(f) /\ LayoutInv(f) /\ word \in [Words -> Int] /\ StackBottom \in Words
  BY WordsAssumption DEF RootWords, ResizedInv, StandingInv, CollectTypeOK
<1>4. \A r \in RootWords(top, extra) : \A v, d :
        v = word[r] /\ d = snapshot.roots[r] =>
          IF ToFix(r) THEN DenotedBefore(v, d) ELSE DenotedAfter(f, v, d)
  BY <1>3 DEF RootsKept
<1>5. word[StackBottom] = Updated(word[StackBottom])
  BY <1>3 DEF RootsKept, Updated
<1>6. word'[StackBottom] = word[StackBottom] /\ \A r \in Words : r # a => word'[r] = word[r]
  BY <1>3, <1>5
<1>7. CASE a = StackBottom /\ \A r \in RootWords(top, extra) : ToFix(r)' = ToFix(r)
  <2>1. word' = word
    BY <1>3, <1>5, <1>7
  <2>2. \A h \in DOMAIN mem : FieldsFixed(h)' = FieldsFixed(h)
    BY <1>1 DEF FieldsFixed
  <2> QED BY <1>1, <1>7, <2>1, <2>2, WordsStay
<1>8. CASE /\ a \in RootWords(top, extra) /\ ToFix(a) /\ ~ToFix(a)'
           /\ \A r \in RootWords(top, extra) \ {a} : ToFix(r)' = ToFix(r)
  <2>1. \A v, d : v = word[a] /\ d = snapshot.roots[a] =>
          Updated(v) \in Int /\ DenotedAfter(f, Updated(v), d)
    BY <1>1, <1>3, <1>4, <1>8, UpdatedDenotes
  <2>2. word' \in [Words -> Int] /\ word'[a] = Updated(word[a])
    BY <1>3, <2>1
  <2>3. \A r \in RootWords(top, extra) : \A v, d :
          v = word'[r] /\ d = snapshot.roots[r] =>
            IF ToFix(r)' THEN DenotedBefore(v, d)' ELSE DenotedAfter(f, v, d)'
    <3> SUFFICES ASSUME NEW r \in RootWords(top, extra), NEW v, NEW d,
                        v = word'[r], d = snapshot.roots[r]
                 PROVE  IF ToFix(r)' THEN DenotedBefore(v, d)' ELSE DenotedAfter(f, v, d)'
      OBVIOUS
    <3>1. CASE r = a
      <4>1. \A w, e : w = word[a] /\ e = snapshot.roots[a] => DenotedAfter(f, Updated(w), e)
        BY <2>1
      <4>2. \A w, e : w = word'[a] /\ e = snapshot.roots[a] => DenotedAfter(f, w, e)
        BY <2>2, <4>1
      <4>3. DenotedAfter(f, v, d)
        BY <3>1, <4>2
      <4> QED BY <1>2, <1>8, <3>1, <4>3
    <3>2. CASE r # a
      <4>1. v = word[r] /\ ToFix(r)' = ToFix(r)
        BY <1>3, <1>6, <1>8, <3>2
      <4> QED BY <1>2, <1>4, <4>1
    <3> QED BY <3>1, <3>2
  <2>4. \A r \in RootWords(top, extra)' :
          IF ToFix(r)' THEN DenotedBefore(word[r], snapshot.roots[r])'
                       ELSE DenotedAfter(f, word[r], snapshot.roots[r])'
    BY <1>3, <2>3 DEF DenotedBefore, DenotedAfter
  <2>5. ~InChunk(old, word[StackBottom])' /\ ~InCompacted(word[StackBottom])'
    BY <1>3, <1>6 DEF RootsKept, InChunk, InCompacted, NewEnd
  <2>6. snapshot' = [objects |-> snapshot'.objects,
                     roots |-> [r \in RootWords(top, extra)' |-> snapshot'.roots[r]],
                     others |-> [r \in Words \ RootWords(top, extra)' |-> word'[r]]]
    <3>1. [r \in Words \ RootWords(top, extra) |-> word'[r]] = [r \in Words \ RootWords(top, extra) |-> word[r]]
      BY <1>6, <1>8
    <3> QED BY <1>3, <3>1 DEF RootsKept
  <2>7. RootsKept(f)'
    BY <2>4, <2>5, <2>6 DEF RootsKept
  <2>8. \A h \in DOMAIN mem : FieldsFixed(h)' = FieldsFixed(h)
    BY <1>1 DEF FieldsFixed
  <2> QED BY <1>1, <2>2, <2>7, <2>8, ObjectsStay
<1> QED BY <1>7, <1>8

\* No turn of update_references over words reads where there is no header.
LEMMA WordIsRead ==
  ASSUME StandingInv, phase # "move", NEW f, f = heap.begin, ResizedInv(f), NEW a,
         \/ a = StackBottom
         \/ a \in RootWords(top, extra) /\ ToFix(a)
  PROVE  Referents({word[a]}) \subseteq DOMAIN mem
<1>1. /\ RootWords(top, extra) \subseteq Words /\ RootsKept(f) /\ LayoutInv(f)
      /\ word \in [Words -> Int] /\ StackBottom \in Words
  BY WordsAssumption DEF ResizedInv, StandingInv, CollectTypeOK
<1>2. CASE a = StackBottom
  BY <1>1, <1>2 DEF Referents, RootsKept
<1>3. CASE a \in RootWords(top, extra) /\ ToFix(a)
  <2>1. \A v, d : v = word[a] /\ d = snapshot.roots[a] => DenotedBefore(v, d)
    BY <1>1, <1>3 DEF RootsKept
  <2> QED BY <1>1, <1>3, <2>1, UpdatedDenotes
<1> QED BY <1>2, <1>3


\* What the loops of update_references start a turn with.
LEMMA FixingBegins ==
  ASSUME CollectInv, phase \in {"fixFields", "fixStack", "fixExtra", "fixGlobals"}
  PROVE  /\ StandingInv /\ FixInv /\ ResizedInv(heap.begin)
         /\ phase \notin Scanning /\ phase # "move" /\ it \in Nat /\ heap.begin \in Nat
         /\ top \in Nat /\ extra \in Seq(Words) /\ word \in [Words -> Int] /\ StackBottom \in Words
         /\ \A a \in Words : a \in Nat
BY WordsAssumption DEF CollectInv, FixInv, Scanning, StandingInv, CollectTypeOK

\* The turn for one object: all of its fields, if it is live.
LEMMA FixFieldsStep ==
  ASSUME CollectInv, FixFields, snapshot' = snapshot
  PROVE  CollectInv'
<1> USE DEF markVars, compactVars
<1>1. phase = "fixFields" /\ it < heap.current /\ phase \notin Scanning /\ phase # "move"
  BY DEF FixFields, Scanning
<1>2. StandingInv /\ FixInv
  BY <1>1, FixingBegins
<1>3. PICK f : f = heap.begin /\ ResizedInv(f)
  BY <1>2 DEF FixInv
<1>4. /\ it \in DOMAIN mem /\ NextObj(mem, it) \in DOMAIN mem \cup {heap.current}
      /\ NextObj(mem, it) \in Nat /\ \A h \in DOMAIN mem : h < NextObj(mem, it) <=> h < it \/ h = it
  BY <1>1, <1>2, NextInHeap DEF FixInv
<1>5. /\ mem \in [DOMAIN mem -> Object] /\ \A h \in DOMAIN mem : h \in Nat /\ mem[h] \in Object
      /\ \A h \in DOMAIN mem : mem[h].fields \in Seq(Int)
  BY <1>2, ObjectSizes DEF StandingInv, CollectTypeOK, Object
<1>6. Items(f) = Pending /\ Pending = {h \in DOMAIN mem : mem[h].mark}
  BY <1>1, <1>2, <1>3, AllPending
<1>7. ObjectsKept(f) /\ LayoutInv(f)
  BY <1>3 DEF ResizedInv
<1>8. PICK o, F : o = it /\ F = mem[o].fields
  OBVIOUS
<1>9. ASSUME mem[o].mark, NEW r, Described(f, o, r), NEW i \in DOMAIN F
      PROVE  /\ Referents({F[i]}) \subseteq DOMAIN mem /\ Updated(F[i]) \in Int
             /\ \A v, d : v = Updated(F[i]) /\ d = r.fields[i] => DenotedAfter(f, v, d)
  <2>1. F[i] \in Int
    BY <1>4, <1>5, <1>8
  <2>2. ~FieldsFixed(o)
    BY <1>1, <1>4, <1>5, <1>8 DEF FieldsFixed
  <2>3. \A v, d : v = F[i] /\ d = r.fields[i] => DenotedBefore(v, d)
    BY <1>8, <1>9, <2>2 DEF Described
  <2>4. \A v, d : v = F[i] /\ d = r.fields[i] =>
          Referents({v}) \subseteq DOMAIN mem /\ Updated(v) \in Int /\ DenotedAfter(f, Updated(v), d)
    BY <1>1, <1>2, <1>3, <1>7, <2>1, <2>3, UpdatedDenotes
  <2> QED BY <2>4
<1>10. mem[o].mark => /\ Referents({F[i] : i \in DOMAIN F}) \subseteq DOMAIN mem
                      /\ \A i \in DOMAIN F : Updated(F[i]) \in Int
  <2> SUFFICES ASSUME mem[o].mark
               PROVE  /\ Referents({F[i] : i \in DOMAIN F}) \subseteq DOMAIN mem
                      /\ \A i \in DOMAIN F : Updated(F[i]) \in Int
    OBVIOUS
  <2>1. PICK r \in snapshot.objects : Described(f, o, r)
    BY <1>4, <1>6, <1>7, <1>8 DEF ObjectsKept
  <2>2. \A i \in DOMAIN F : Referents({F[i]}) \subseteq DOMAIN mem /\ Updated(F[i]) \in Int
    BY <1>9, <2>1
  <2> QED BY <2>2 DEF Referents
<1>11. /\ mem' = IF mem[o].mark
                   THEN [mem EXCEPT ![o].fields = [i \in DOMAIN F |-> Updated(F[i])]]
                   ELSE mem
       /\ it' = NextObj(mem, o)
       /\ UNCHANGED <<heap, word, top, extra, old, live, phase, need>>
  BY <1>4, <1>8, <1>10 DEF FixFields, Reading
<1>12. /\ DOMAIN mem' = DOMAIN mem
       /\ \A h \in DOMAIN mem : /\ mem'[h].kind = mem[h].kind /\ mem'[h].len = mem[h].len
                                /\ mem'[h].fwd = mem[h].fwd /\ mem'[h].id = mem[h].id
                                /\ mem'[h].mark = mem[h].mark /\ mem'[h].enq = mem[h].enq
                                /\ h # o \/ ~mem[o].mark => mem'[h] = mem[h]
       /\ mem[o].mark => mem'[o].fields = [i \in DOMAIN F |-> Updated(F[i])]
  <2>1. CASE mem[o].mark
    <3>1. mem' = [mem EXCEPT ![o].fields = [i \in DOMAIN F |-> Updated(F[i])]]
      BY <1>11, <2>1
    <3>2. mem[o] \in Object /\ o \in DOMAIN mem
      BY <1>4, <1>5, <1>8
    <3> QED BY <1>5, <2>1, <3>1, <3>2 DEF Object
  <2>2. CASE ~mem[o].mark
    BY <1>11, <2>2
  <2> QED BY <2>1, <2>2
<1>13. mem' \in [DOMAIN mem -> Object]
  <2>1. CASE mem[o].mark
    <3>1. [i \in DOMAIN F |-> Updated(F[i])] \in Seq(Int)
      <4>1. F \in Seq(Int)
        BY <1>4, <1>5, <1>8
      <4> QED BY <1>10, <2>1, <4>1
    <3>2. mem[o] \in Object /\ o \in DOMAIN mem
      BY <1>4, <1>5, <1>8
    <3>3. [mem[o] EXCEPT !.fields = [i \in DOMAIN F |-> Updated(F[i])]] \in Object
      BY <3>1, <3>2 DEF Object
    <3> QED BY <1>5, <1>11, <2>1, <3>2, <3>3
  <2>2. CASE ~mem[o].mark
    BY <1>5, <1>11, <2>2
  <2> QED BY <2>1, <2>2
<1>14. Pending' = Pending
  BY <1>1, <1>11, <1>12 DEF Pending
<1>15. /\ Items(f)' = Items(f) /\ LayoutInv(f)'
       /\ \A v, d : DenotedBefore(v, d) => DenotedBefore(v, d)'
       /\ \A v, d : DenotedAfter(f, v, d) => DenotedAfter(f, v, d)'
  BY <1>7, <1>11, <1>12, <1>14, PlacesKept
<1>16. StandingInv' /\ Walkable(mem, heap.begin, heap.current)'
  <2>1. word' \in [Words -> Int] /\ it' \in Nat /\ live' \in Nat /\ phase' \in Compacting
    BY <1>1, <1>2, <1>4, <1>8, <1>11 DEF StandingInv, CollectTypeOK, Compacting
  <2> QED BY <1>1, <1>2, <1>11, <1>12, <1>13, <2>1, StandingKept DEF FixInv
<1>17. \A h \in Items(f) : \A r : Described(f, h, r) => Described(f, h, r)'
  <2> SUFFICES ASSUME NEW h \in Items(f), NEW r, Described(f, h, r) PROVE Described(f, h, r)'
    OBVIOUS
  <2>1. h \in DOMAIN mem /\ h \in Nat /\ o \in Nat /\ mem[h].mark
    BY <1>4, <1>5, <1>6, <1>8
  <2>2. FieldsFixed(h)' <=> FieldsFixed(h) \/ h = o
    BY <1>1, <1>4, <1>8, <1>11, <2>1 DEF FieldsFixed
  <2>3. \A i \in DOMAIN mem[h].fields : \A v, d : v = mem[h].fields[i] /\ d = r.fields[i] =>
          IF FieldsFixed(h) THEN DenotedAfter(f, v, d) ELSE DenotedBefore(v, d)
    BY DEF Described
  <2>4. CASE h # o
    <3>1. mem'[h] = mem[h] /\ (FieldsFixed(h)' <=> FieldsFixed(h))
      BY <1>12, <2>1, <2>2, <2>4
    <3>2. \A i \in DOMAIN mem[h].fields : \A v, d : v = mem'[h].fields[i] /\ d = r.fields[i] =>
            IF FieldsFixed(h)' THEN DenotedAfter(f, v, d)' ELSE DenotedBefore(v, d)'
      BY <1>15, <2>3, <3>1
    <3> QED BY <1>11, <1>12, <1>14, <2>1, <3>1, <3>2, DescribedKept
  <2>5. CASE h = o
    <3>1. \A i \in DOMAIN F : \A v, d : v = Updated(F[i]) /\ d = r.fields[i] => DenotedAfter(f, v, d)
      BY <1>9, <2>1, <2>5
    <3>2. mem'[h].fields = [i \in DOMAIN F |-> Updated(F[i])] /\ DOMAIN F = DOMAIN mem[h].fields
      BY <1>8, <1>12, <2>1, <2>5
    <3>3. \A i \in DOMAIN mem[h].fields : \A v, d : v = mem'[h].fields[i] /\ d = r.fields[i] =>
            DenotedAfter(f, v, d)'
      BY <1>15, <3>1, <3>2
    <3>4. DOMAIN mem'[h].fields = DOMAIN mem[h].fields
      BY <3>2
    <3> QED BY <1>11, <1>12, <1>14, <2>1, <2>2, <2>5, <3>3, <3>4, DescribedKept
  <2> QED BY <2>4, <2>5
<1>18. ObjectsKept(f)'
  BY <1>7, <1>15, <1>17 DEF ObjectsKept
<1>19. RootsKept(f)'
  <2>1. /\ RootsKept(f) /\ \A a : ToFix(a) /\ ToFix(a)'
        /\ RootWords(top, extra)' = RootWords(top, extra)
    BY <1>1, <1>3, <1>11 DEF ResizedInv, ToFix, RootWords
  <2>2. \A a \in RootWords(top, extra) : \A v, d :
          v = word'[a] /\ d = snapshot'.roots[a] => DenotedBefore(v, d)'
    BY <1>11, <1>15, <2>1 DEF RootsKept
  <2>3. \A a \in RootWords(top, extra)' : DenotedBefore(word[a], snapshot.roots[a])'
    BY <2>1, <2>2 DEF DenotedBefore
  <2>4. ~InChunk(old, word[StackBottom])' /\ ~InCompacted(word[StackBottom])'
    BY <1>11, <2>1 DEF RootsKept, InChunk, InCompacted, NewEnd
  <2> QED BY <1>11, <2>1, <2>3, <2>4 DEF RootsKept
<1>20. FixInv'
  <2>1. ResizedInv(f)'
    BY <1>3, <1>11, <1>15, <1>18, <1>19 DEF ResizedInv
  <2>2. f \in {heap.begin}' /\ it' \in DOMAIN mem' \cup {heap'.current} /\ phase' = "fixFields"
    BY <1>1, <1>3, <1>4, <1>8, <1>11, <1>12
  <2> QED BY <1>16, <2>1, <2>2 DEF FixInv
<1> QED BY <1>1, <1>11, <1>16, <1>20
        DEF CollectInv, Scanning, CollectPreservesGraph, CollectLeavesWellFormed, CollectMakesRoom


\* The loop over the heap goes on to the loop over the stack, which fixes every root
\* that it comes to first.
LEMMA EndFixFieldsStep ==
  ASSUME CollectInv, EndFixFields, snapshot' = snapshot
  PROVE  CollectInv'
<1> USE DEF heapVars, markVars, compactVars
<1>1. /\ phase = "fixFields" /\ it >= heap.current /\ phase' = "fixStack" /\ it' = top + 1
      /\ UNCHANGED <<mem, heap, word, top, extra, old, live, need>>
  BY DEF EndFixFields, EndFix
<1>2. StandingInv /\ FixInv /\ top \in Nat /\ phase \notin Scanning /\ \A a \in Words : a \in Nat
  BY <1>1, FixingBegins
<1>3. PICK f : f = heap.begin /\ ResizedInv(f)
  BY <1>2 DEF FixInv
<1>4. it = heap.current /\ \A h \in DOMAIN mem : h < it
  <2>1. it = heap.current
    BY <1>1, <1>2, NextInHeap DEF FixInv
  <2>2. \A h \in DOMAIN mem : /\ h \in Nat /\ NextObj(mem, h) = h + ObjWords(mem[h])
                              /\ ObjWords(mem[h]) \in Nat /\ ObjWords(mem[h]) > 0
                              /\ NextObj(mem, h) <= heap.current
    BY <1>2, ObjectSizes
  <2>3. heap.current \in Nat
    BY <1>2 DEF StandingInv, CollectTypeOK
  <2> QED BY <2>1, <2>2, <2>3
<1>5. /\ \A h \in DOMAIN mem : FieldsFixed(h)' = FieldsFixed(h)
      /\ Pending' = Pending /\ phase' \in Compacting /\ it' \in Nat
  BY <1>1, <1>2, <1>4 DEF FieldsFixed, Pending, Compacting
<1>6. \A a \in RootWords(top, extra) : ToFix(a)' = ToFix(a)
  <2>1. \A a \in RootWords(top, extra) : a \in Nat
    BY <1>2 DEF StandingInv
  <2> QED BY <1>1, <1>2, <2>1 DEF ToFix, StackWord
<1>7. StandingInv' /\ ResizedInv(f)'
  BY <1>1, <1>2, <1>3, <1>5, <1>6, WordsStay
<1>8. FixInv'
  BY <1>1, <1>2, <1>3, <1>7 DEF FixInv, Walkable, NextObj, ObjWords
<1> QED BY <1>1, <1>7, <1>8
        DEF CollectInv, Scanning, CollectPreservesGraph, CollectLeavesWellFormed, CollectMakesRoom

\* What a turn of a loop over words does to word a.
LEMMA WordTurn ==
  ASSUME CollectInv, phase \in {"fixStack", "fixExtra", "fixGlobals"}, NEW a \in Words,
         FixWord(a) \/ (SkipWord /\ IsUnboxed(word[a])),
         a = StackBottom \/ (a \in RootWords(top, extra) /\ ToFix(a))
  PROVE  /\ UNCHANGED <<mem, heap, old, top, extra, live, need, phase>> /\ it' = it + 1
         /\ word' = [word EXCEPT ![a] = Updated(word[a])]
<1> USE DEF heapVars, markVars, compactVars
<1>1. StandingInv /\ FixInv /\ phase # "move" /\ word \in [Words -> Int]
  BY FixingBegins
<1>2. Referents({word[a]}) \subseteq DOMAIN mem
  BY <1>1, WordIsRead DEF FixInv
<1>3. CASE FixWord(a)
  BY <1>2, <1>3 DEF FixWord, Reading
<1>4. CASE SkipWord /\ IsUnboxed(word[a])
  <2>1. Updated(word[a]) = word[a]
    BY <1>4 DEF Updated, InChunk
  <2> QED BY <1>1, <1>4, <2>1 DEF SkipWord
<1> QED BY <1>3, <1>4

\* After a turn of a loop over words, or at its end before the objects are moved.
LEMMA FixingGoesOn ==
  ASSUME CollectInv, phase \in {"fixStack", "fixExtra", "fixGlobals"},
         UNCHANGED <<mem, heap, old, top, extra, live, need, snapshot>>,
         NEW f, f = heap.begin, StandingInv', ResizedInv(f)',
         phase' \in {"fixStack", "fixExtra", "fixGlobals"},
         phase' = "fixStack" => it' >= top + 1,
         phase' = "fixExtra" => it' >= 1,
         phase' = "fixGlobals" => it' >= GlobalStart
  PROVE  CollectInv'
<1>1. Walkable(mem, heap.begin, heap.current)'
  BY FixingBegins DEF FixInv, Walkable, NextObj, ObjWords
<1>2. FixInv'
  BY <1>1 DEF FixInv
<1> QED BY <1>2 DEF CollectInv, Scanning, CollectPreservesGraph, CollectLeavesWellFormed, CollectMakesRoom

\* The loop over the stack ends with the word at its bottom, which is no root of it.
LEMMA FixStackStep ==
  ASSUME CollectInv, FixStack \/ EndFixStack, snapshot' = snapshot
  PROVE  CollectInv'
<1> USE DEF heapVars, markVars, compactVars
<1>1. /\ phase = "fixStack" /\ StandingInv /\ FixInv /\ phase \notin Scanning /\ it \in Nat
      /\ top \in Nat /\ StackBottom \in Words /\ it >= top + 1
  BY FixingBegins DEF FixStack, EndFixStack, EndFix, FixInv
<1>2. PICK f : f = heap.begin /\ ResizedInv(f)
  BY <1>1 DEF FixInv
<1>3. /\ RootWords(top, extra) \subseteq Words /\ \A a \in RootWords(top, extra) : a \in Nat
      /\ StackBottom \in Nat /\ GlobalStart \in Nat /\ \A a : StackWord(a) /\ a \in Nat => a \in RootWords(top, extra)
  BY <1>1, WordsAssumption DEF StandingInv, StackWord, RootWords
<1>4. CASE FixStack
  <2>1. PICK a : a = it
    OBVIOUS
  <2>2. it <= StackBottom /\ FixWord(a) /\ (a = StackBottom \/ a < StackBottom)
    BY <1>1, <1>3, <1>4, <2>1 DEF FixStack
  <2>3. a \in Words /\ (a = StackBottom \/ (a \in RootWords(top, extra) /\ ToFix(a) /\ StackWord(a)))
    BY <1>1, <1>3, <2>1, <2>2 DEF StackWord, ToFix
  <2>4. /\ UNCHANGED <<mem, heap, old, top, extra, live, need, phase>> /\ it' = it + 1
        /\ word' = [word EXCEPT ![a] = Updated(word[a])]
    BY <1>1, <2>2, <2>3, WordTurn
  <2>5. \A r \in RootWords(top, extra) : r # a \/ a = StackBottom => ToFix(r)' = ToFix(r)
    BY <1>1, <1>3, <2>1, <2>4 DEF ToFix, StackWord
  <2>6. a # StackBottom => ~ToFix(a)'
    BY <1>1, <1>3, <2>1, <2>3, <2>4 DEF ToFix, StackWord
  <2>7. it' \in Nat
    BY <1>1, <2>4
  <2>8. StandingInv' /\ ResizedInv(f)'
    BY <1>1, <1>2, <2>3, <2>4, <2>5, <2>6, <2>7, WordFixed
  <2> QED BY <1>1, <1>2, <2>4, <2>8, FixingGoesOn
<1>5. CASE EndFixStack
  <2>1. /\ it > StackBottom /\ phase' = "fixExtra" /\ it' = 1
        /\ UNCHANGED <<mem, heap, old, word, top, extra, live, need>>
    BY <1>5 DEF EndFixStack, EndFix
  <2>2. \A r \in RootWords(top, extra) : ToFix(r)' = ToFix(r)
    <3>1. extra \in Seq(Words) /\ \A j \in DOMAIN extra : ~(j < 1)
      BY <1>1 DEF StandingInv
    <3> QED BY <1>1, <1>3, <2>1, <3>1 DEF ToFix, StackWord
  <2>3. /\ \A h \in DOMAIN mem : FieldsFixed(h)' = FieldsFixed(h)
        /\ Pending' = Pending /\ phase' \in Compacting /\ it' \in Nat
    BY <1>1, <2>1 DEF FieldsFixed, Pending, Compacting
  <2>4. StandingInv' /\ ResizedInv(f)'
    BY <1>1, <1>2, <2>1, <2>2, <2>3, WordsStay
  <2> QED BY <1>1, <1>2, <2>1, <2>4, FixingGoesOn
<1> QED BY <1>4, <1>5

\* The loop over the extra roots fixes those that neither of the other loops fixes.
LEMMA FixExtraStep ==
  ASSUME CollectInv, FixExtra \/ EndFixExtra, snapshot' = snapshot
  PROVE  CollectInv'
<1> USE DEF heapVars, markVars, compactVars
<1>1. /\ phase = "fixExtra" /\ StandingInv /\ FixInv /\ phase \notin Scanning /\ it \in Nat
      /\ top \in Nat /\ extra \in Seq(Words) /\ it >= 1
  BY FixingBegins DEF FixExtra, EndFixExtra, EndFix, FixInv
<1>2. PICK f : f = heap.begin /\ ResizedInv(f)
  BY <1>1 DEF FixInv
<1>3. /\ RootWords(top, extra) \subseteq Words /\ \A a \in Words : a \in Nat
      /\ StackBottom \in Nat /\ GlobalStart \in Nat /\ GlobalStop \in Nat /\ StackBottom < GlobalStart
      /\ \A r \in RootWords(top, extra) : StackWord(r) \/ GlobalWord(r) \/ \E j \in DOMAIN extra : extra[j] = r
      /\ \A j \in DOMAIN extra : extra[j] \in RootWords(top, extra) /\ j \in Nat /\ 1 <= j /\ j <= Len(extra)
  BY <1>1, WordsAssumption DEF StandingInv, StackWord, GlobalWord, RootWords
<1>4. CASE FixExtra
  <2>1. PICK i, a : i = it /\ a = extra[i]
    OBVIOUS
  <2>2. /\ i \in DOMAIN extra /\ a \in RootWords(top, extra) /\ a \in Words /\ a \in Nat
        /\ \A j \in DOMAIN extra : j # i => extra[j] # a
        /\ a # top /\ a # GlobalStop
    BY <1>1, <1>3, <1>4, <2>1 DEF FixExtra, StandingInv
  <2>3. FixedElsewhere(a) <=> StackWord(a) \/ GlobalWord(a)
    BY <1>1, <1>3, <2>2 DEF FixedElsewhere, StackWord, GlobalWord
  <2>4. CASE FixedElsewhere(a)
    <3>1. /\ UNCHANGED <<mem, heap, old, word, top, extra, live, need, phase>> /\ it' = it + 1
      BY <1>4, <2>1, <2>4 DEF FixExtra, SkipWord
    <3>2. \A r \in RootWords(top, extra) : ToFix(r)' = ToFix(r)
      BY <1>1, <1>3, <2>1, <2>2, <2>3, <2>4, <3>1 DEF ToFix, StackWord, GlobalWord
    <3>3. /\ \A h \in DOMAIN mem : FieldsFixed(h)' = FieldsFixed(h)
          /\ Pending' = Pending /\ phase' \in Compacting /\ it' \in Nat
      BY <1>1, <3>1 DEF FieldsFixed, Pending, Compacting
    <3>4. StandingInv' /\ ResizedInv(f)'
      BY <1>1, <1>2, <3>1, <3>2, <3>3, WordsStay
    <3> QED BY <1>1, <1>2, <3>1, <3>4, FixingGoesOn
  <2>5. CASE ~FixedElsewhere(a)
    <3>1. FixWord(a) \/ (SkipWord /\ IsUnboxed(word[a]))
      BY <1>4, <2>1, <2>5 DEF FixExtra
    <3>2. ToFix(a)
      BY <1>1, <1>3, <2>1, <2>2, <2>3, <2>5 DEF ToFix
    <3>3. /\ UNCHANGED <<mem, heap, old, top, extra, live, need, phase>> /\ it' = it + 1
          /\ word' = [word EXCEPT ![a] = Updated(word[a])]
      BY <1>1, <2>2, <3>1, <3>2, WordTurn
    <3>4. \A r \in RootWords(top, extra) \ {a} : ToFix(r)' = ToFix(r)
      BY <1>1, <1>3, <2>1, <2>2, <3>3 DEF ToFix, StackWord, GlobalWord
    <3>5. ~ToFix(a)'
      BY <1>1, <1>3, <2>1, <2>2, <2>3, <2>5, <3>3 DEF ToFix, StackWord, GlobalWord
    <3>6. it' \in Nat
      BY <1>1, <3>3
    <3>7. StandingInv' /\ ResizedInv(f)'
      BY <1>1, <1>2, <2>2, <3>2, <3>3, <3>4, <3>5, <3>6, WordFixed
    <3> QED BY <1>1, <1>2, <3>3, <3>7, FixingGoesOn
  <2> QED BY <2>4, <2>5
<1>5. CASE EndFixExtra
  <2>1. /\ it > Len(extra) /\ phase' = "fixGlobals" /\ it' = GlobalStart
        /\ UNCHANGED <<mem, heap, old, word, top, extra, live, need>>
    BY <1>5 DEF EndFixExtra, EndFix
  <2>2. \A r \in RootWords(top, extra) : ToFix(r)' = ToFix(r)
    <3>1. \A j \in DOMAIN extra : j < it
      BY <1>1, <1>3, <2>1
    <3> QED BY <1>1, <1>3, <2>1, <3>1 DEF ToFix, StackWord, GlobalWord
  <2>3. /\ \A h \in DOMAIN mem : FieldsFixed(h)' = FieldsFixed(h)
        /\ Pending' = Pending /\ phase' \in Compacting /\ it' \in Nat
    BY <1>1, <1>3, <2>1 DEF FieldsFixed, Pending, Compacting
  <2>4. StandingInv' /\ ResizedInv(f)'
    BY <1>1, <1>2, <2>1, <2>2, <2>3, WordsStay
  <2> QED BY <1>1, <1>2, <1>3, <2>1, <2>4, FixingGoesOn
<1> QED BY <1>4, <1>5

\* The loop over the global area fixes the words that are left; then none is.
LEMMA FixGlobalsStep ==
  ASSUME CollectInv, FixGlobals \/ EndFixGlobals, snapshot' = snapshot
  PROVE  CollectInv'
<1> USE DEF heapVars, markVars, compactVars
<1>1. /\ phase = "fixGlobals" /\ StandingInv /\ FixInv /\ phase \notin Scanning /\ it \in Nat
      /\ it >= GlobalStart /\ heap.begin \in Nat
  BY FixingBegins DEF FixGlobals, EndFixGlobals, EndFix, FixInv
<1>2. PICK f : f = heap.begin /\ ResizedInv(f)
  BY <1>1 DEF FixInv
<1>3. /\ RootWords(top, extra) \subseteq Words /\ \A a \in Words : a \in Nat
      /\ GlobalStart \in Nat /\ GlobalStop \in Nat
      /\ \A a : GlobalWord(a) /\ a \in Nat => a \in RootWords(top, extra)
  BY <1>1, WordsAssumption DEF StandingInv, GlobalWord, RootWords
<1>4. CASE FixGlobals
  <2>1. PICK a : a = it
    OBVIOUS
  <2>2. FixWord(a) /\ a \in RootWords(top, extra) /\ a \in Words /\ GlobalWord(a) /\ ToFix(a)
    BY <1>1, <1>3, <1>4, <2>1 DEF FixGlobals, GlobalWord, ToFix
  <2>3. /\ UNCHANGED <<mem, heap, old, top, extra, live, need, phase>> /\ it' = it + 1
        /\ word' = [word EXCEPT ![a] = Updated(word[a])]
    BY <1>1, <2>2, WordTurn
  <2>4. ~ToFix(a)' /\ \A r \in RootWords(top, extra) \ {a} : ToFix(r)' = ToFix(r)
    BY <1>1, <1>3, <2>1, <2>3 DEF ToFix, GlobalWord
  <2>5. it' \in Nat /\ it' >= GlobalStart
    BY <1>1, <1>3, <2>3
  <2>6. StandingInv' /\ ResizedInv(f)'
    BY <1>1, <1>2, <2>2, <2>3, <2>4, <2>5, WordFixed
  <2> QED BY <1>1, <1>2, <2>3, <2>5, <2>6, FixingGoesOn
<1>5. CASE EndFixGlobals
  <2>1. /\ it >= GlobalStop /\ phase' = "move" /\ it' = heap.begin
        /\ UNCHANGED <<mem, heap, old, word, top, extra, live, need>>
    BY <1>5 DEF EndFixGlobals, EndFix
  <2>2. \A r \in RootWords(top, extra) : ToFix(r)' = ToFix(r)
    BY <1>1, <1>3, <2>1 DEF ToFix, GlobalWord
  <2>3. \A h \in DOMAIN mem : heap.begin <= h
    BY <1>1 DEF FixInv, Walkable
  <2>4. /\ \A h \in DOMAIN mem : FieldsFixed(h)' = FieldsFixed(h)
        /\ Pending' = Pending /\ phase' \in Compacting /\ it' \in Nat
    BY <1>1, <2>1, <2>3 DEF FieldsFixed, Pending, Compacting
  <2>5. StandingInv' /\ ResizedInv(f)'
    BY <1>1, <1>2, <2>1, <2>2, <2>4, WordsStay
  <2>6. Rest' = mem
    BY <1>1, <2>1, <2>3 DEF Rest, StandingInv, CollectTypeOK
  <2>7. Walkable(Rest', heap.begin, heap.current)
    BY <1>1, <2>6 DEF FixInv
  <2>8. MoveInv'
    <3>1. f \in heap'.begin .. it'
      BY <1>1, <1>2, <2>1
    <3>2. Walkable(Rest, it, heap.current)'
      BY <2>1, <2>7 DEF Walkable, NextObj, ObjWords
    <3>3. Settled(f)' = {}
      BY <1>1, <1>2, <2>1, <2>3 DEF Settled, StandingInv, CollectTypeOK
    <3> QED BY <2>5, <3>1, <3>2, <3>3 DEF MoveInv
  <2> QED BY <2>1, <2>5, <2>8
          DEF CollectInv, Scanning, CollectPreservesGraph, CollectLeavesWellFormed, CollectMakesRoom
<1> QED BY <1>4, <1>5


-----------------------------------------------------------------------------
(* physically_relocate                                                      *)

\* The loop is at an object of the rest of the heap, or at its end.
LEMMA MoveBegins ==
  ASSUME CollectInv, phase = "move"
  PROVE  /\ StandingInv /\ MoveInv /\ phase \notin Scanning
         /\ heap.begin \in Nat /\ heap.current \in Nat /\ live \in Nat /\ it \in Nat
         /\ it <= heap.current
         /\ it < heap.current => it \in DOMAIN mem
         /\ \A h \in DOMAIN mem : it < h => it \in DOMAIN mem /\ NextObj(mem, it) <= h
         /\ it \in DOMAIN mem =>
              /\ NextObj(mem, it) \in Nat /\ NextObj(mem, it) = it + ObjWords(mem[it])
              /\ ObjWords(mem[it]) \in Nat /\ ObjWords(mem[it]) > 0
              /\ NextObj(mem, it) <= heap.current
<1>1. StandingInv /\ MoveInv /\ phase \notin Scanning
  BY DEF CollectInv, Scanning
<1>2. heap.begin \in Nat /\ heap.current \in Nat /\ live \in Nat /\ it \in Nat
  BY <1>1 DEF StandingInv, CollectTypeOK
<1>3. Walkable(Rest, it, heap.current)
  BY <1>1 DEF MoveInv
<1>4. /\ DOMAIN Rest = {g \in DOMAIN mem : it <= g}
      /\ \A h \in DOMAIN Rest : Rest[h] = mem[h] /\ NextObj(Rest, h) = NextObj(mem, h)
  BY DEF Rest, NextObj
<1>5. it <= heap.current /\ (it < heap.current => it \in DOMAIN mem)
  BY <1>2, <1>3, <1>4 DEF Walkable
<1>6. it \in DOMAIN mem =>
              /\ NextObj(mem, it) \in Nat /\ NextObj(mem, it) = it + ObjWords(mem[it])
              /\ ObjWords(mem[it]) \in Nat /\ ObjWords(mem[it]) > 0
              /\ NextObj(mem, it) <= heap.current
  BY <1>1, <1>2, ObjectSizes
<1>7. ASSUME NEW h \in DOMAIN mem, it < h PROVE it \in DOMAIN mem /\ NextObj(mem, it) <= h
  <2>1. h \in Nat /\ h \in DOMAIN Rest /\ h < heap.current
    <3>1. h \in Nat /\ NextObj(mem, h) = h + ObjWords(mem[h]) /\ ObjWords(mem[h]) \in Nat
          /\ ObjWords(mem[h]) > 0 /\ NextObj(mem, h) <= heap.current
      BY <1>1, ObjectSizes
    <3> QED BY <1>2, <1>4, <1>7, <3>1
  <2>2. it \in DOMAIN mem /\ it \in DOMAIN Rest
    BY <1>2, <1>3, <1>4, <1>7, <2>1 DEF Walkable
  <2> QED BY <1>3, <1>4, <1>7, <2>1, <2>2 DEF Walkable
<1> QED BY <1>1, <1>2, <1>5, <1>6, <1>7

\* The live object that the loop comes to goes where the settled ones end.
LEMMA FirstPending ==
  ASSUME CollectInv, phase = "move", NEW f \in heap.begin .. it, ResizedInv(f),
         it \in DOMAIN mem, mem[it].mark
  PROVE  /\ it \in Pending /\ it \in Items(f)
         /\ FinalPlace(f)[it] = f /\ Moved(mem[it].fwd) = f
         /\ \A h \in Settled(f) : /\ h \in Items(f) /\ h \in Nat /\ h < f /\ FinalPlace(f)[h] = h
                                  /\ h + ObjWords(mem[h]) <= f
         /\ \A h \in Pending : /\ h \in Items(f) /\ h \in Nat /\ f <= h
                               /\ FinalPlace(f)[h] = Moved(mem[h].fwd)
         /\ \A h \in Pending \ {it} : it < h /\ NextObj(mem, it) <= h
<1>1. /\ StandingInv /\ heap.begin \in Nat /\ it \in Nat /\ f \in Nat /\ f <= it
      /\ live \in Nat
      /\ \A h \in DOMAIN mem : it < h => NextObj(mem, it) <= h
  BY MoveBegins
<1>2. /\ it \in Pending /\ Pending \subseteq Items(f) /\ Settled(f) \subseteq Items(f)
      /\ Items(f) \subseteq DOMAIN mem /\ \A h \in Pending : it <= h
  BY <1>1 DEF Pending, Items, Settled
<1>3. \A h \in DOMAIN mem : /\ h \in Nat /\ mem[h].fwd \in Int /\ ObjWords(mem[h]) \in Nat
                            /\ ObjWords(mem[h]) > 0
  BY <1>1, ObjectSizes
<1>4. \A h \in Pending : h \in Nat /\ f <= h /\ FinalPlace(f)[h] = Moved(mem[h].fwd)
  BY <1>1, <1>2, <1>3 DEF FinalPlace
<1>5. \A h \in Settled(f) : h \in Nat /\ h < f /\ FinalPlace(f)[h] = h
  BY <1>1, <1>2, <1>3 DEF FinalPlace, Settled
<1>6. \A h \in Items(f) : h \in Settled(f) \/ h \in Pending
  BY DEF Items
<1>7. old.begin \in Nat
  BY <1>1 DEF StandingInv, CollectTypeOK
<1>8. \A h \in Items(f) : FinalPlace(f)[h] \in Int
  BY <1>1, <1>2, <1>3, <1>4, <1>5, <1>6, <1>7 DEF Moved
<1>9. LayoutInv(f)
  BY DEF ResizedInv
<1>10. \A h \in Pending \ {it} : it < h /\ NextObj(mem, it) <= h
  BY <1>1, <1>2, <1>3
<1>11. FinalPlace(f)[it] = f
  <2>1. /\ f \in {FinalPlace(f)[h] : h \in Items(f)} \cup {NewEnd}
        /\ f <= FinalPlace(f)[it]
        /\ FinalPlace(f)[it] + ObjWords(mem[it]) <= NewEnd
        /\ \A h \in Pending \ {it} : FinalPlace(f)[it] + ObjWords(mem[it]) <= FinalPlace(f)[h]
    BY <1>2, <1>4, <1>9, <1>10 DEF LayoutInv, Packs
  <2>2. NewEnd \in Int
    BY <1>1 DEF NewEnd
  <2> QED BY <1>1, <1>2, <1>3, <1>5, <1>6, <1>8, <2>1, <2>2
<1>12. \A h \in Settled(f) : h + ObjWords(mem[h]) <= f
  <2>1. \A h \in Settled(f) : h < it
    BY <1>1, <1>5
  <2> QED BY <1>2, <1>5, <1>9, <1>11, <2>1 DEF LayoutInv, Packs
<1> QED BY <1>2, <1>4, <1>5, <1>10, <1>11, <1>12

\* What memmove does to memory.
LEMMA Relocates ==
  ASSUME CollectInv, Relocate, NEW f \in heap.begin .. it, ResizedInv(f),
         NEW i, i = it, mem[i].mark, NEW n, n = ObjWords(mem[i])
  PROVE  /\ it' = i + n /\ UNCHANGED <<heap, word, top, extra, old, live, phase, need>>
         /\ DOMAIN mem' \subseteq DOMAIN mem \cup {f} /\ f \in DOMAIN mem'
         /\ mem'[f] = [mem[i] EXCEPT !.mark = FALSE]
         /\ \A h \in DOMAIN mem' : h # f => mem'[h] = mem[h]
         /\ Settled(f + n)' = Settled(f) \cup {f} /\ Pending' = Pending \ {i}
         /\ {h \in DOMAIN mem' : i + n <= h} = {h \in DOMAIN mem : i + n <= h}
         /\ mem' = [h \in DOMAIN mem' |-> mem'[h]]
<1> USE DEF markVars, compactVars
<1>1. phase = "move" /\ it < heap.current
  BY DEF Relocate
<1>2. /\ StandingInv /\ i \in DOMAIN mem /\ i \in Nat /\ f \in Nat /\ f <= i
      /\ n \in Nat /\ n > 0 /\ NextObj(mem, i) = i + n
      /\ \A h \in DOMAIN mem : i < h => i + n <= h
  BY <1>1, MoveBegins
<1>3. /\ i \in Pending /\ Moved(mem[i].fwd) = f
      /\ \A h \in Settled(f) : h \in Nat /\ h < f /\ h + ObjWords(mem[h]) <= f
      /\ \A h \in Pending : f <= h
      /\ \A h \in Pending \ {i} : i < h /\ i + n <= h
  BY <1>1, <1>2, FirstPending
<1>4. /\ mem' = Relocated(mem[i], f) /\ it' = i + n
      /\ UNCHANGED <<heap, word, top, extra, old, live, phase, need>>
  BY <1>1, <1>2, <1>3 DEF Relocate, Reading, Survives, NextBeforeMove
<1> DEFINE O == Overwritten(mem[i], f)
<1>5. /\ DOMAIN mem' = (DOMAIN mem \ O) \cup {f}
      /\ mem'[f] = [mem[i] EXCEPT !.mark = FALSE]
      /\ \A h \in DOMAIN mem \ O : h # f => mem'[h] = mem[h]
      /\ mem' = [h \in DOMAIN mem' |-> mem'[h]]
  BY <1>4 DEF Relocated, Landed
<1>6. \A h \in DOMAIN mem : /\ h \in Nat /\ ObjWords(mem[h]) \in Nat /\ ObjWords(mem[h]) > 0
                            /\ NextObj(mem, h) = h + ObjWords(mem[h])
  BY <1>2, ObjectSizes
<1>7. \A h \in DOMAIN mem : h \in O <=> h < f + n /\ f < h + ObjWords(mem[h])
  BY <1>6 DEF Overwritten
<1> HIDE DEF O
<1>8. \A h \in DOMAIN mem : /\ h < f => h \notin O
                            /\ f <= h /\ h < f + n => h \in O
                            /\ i + n <= h => h \notin O
  BY <1>2, <1>3, <1>6, <1>7 DEF Settled
<1>9. Settled(f + n)' = Settled(f) \cup {f}
  <2>1. \A h : h \in DOMAIN mem' /\ h < f + n <=> (h \in DOMAIN mem /\ h < f) \/ h = f
    BY <1>2, <1>5, <1>6, <1>8
  <2> QED BY <2>1 DEF Settled
<1>10. {h \in DOMAIN mem' : i + n <= h} = {h \in DOMAIN mem : i + n <= h}
  BY <1>2, <1>5, <1>6, <1>8
<1>11. Pending' = Pending \ {i}
  <2>1. \A h : h \in Pending' <=> h \in DOMAIN mem' /\ i + n <= h /\ mem'[h].mark
    BY <1>1, <1>4 DEF Pending
  <2>2. \A h : h \in Pending \ {i} <=> h \in DOMAIN mem /\ i + n <= h /\ mem[h].mark
    <3>1. \A h \in DOMAIN mem : i + n <= h => i <= h /\ h # i
      BY <1>2, <1>6
    <3> QED BY <1>1, <1>3, <3>1 DEF Pending
  <2>3. \A h \in DOMAIN mem' : i + n <= h => mem'[h] = mem[h] /\ h \in DOMAIN mem
    BY <1>2, <1>5, <1>10
  <2> QED BY <1>10, <2>1, <2>2, <2>3
<1> QED BY <1>4, <1>5, <1>9, <1>10, <1>11


\* The loop passes garbage.
LEMMA RelocateGarbage ==
  ASSUME CollectInv, Relocate, ~mem[it].mark, snapshot' = snapshot
  PROVE  CollectInv'
<1> USE DEF markVars, compactVars
<1>1. /\ phase = "move" /\ it < heap.current
  BY DEF Relocate
<1>2. /\ StandingInv /\ MoveInv /\ phase \notin Scanning /\ it \in Nat /\ it \in DOMAIN mem
      /\ \A h \in DOMAIN mem : it < h => NextObj(mem, it) <= h
      /\ NextObj(mem, it) \in Nat /\ it < NextObj(mem, it)
      /\ heap.begin \in Nat
  BY <1>1, MoveBegins
<1>3. /\ UNCHANGED <<mem, heap, word, top, extra, old, live, phase, need>>
      /\ it' = NextObj(mem, it)
  BY <1>1, <1>2 DEF Relocate, Reading, Survives, NextBeforeMove
<1>4. PICK f \in heap.begin .. it : ResizedInv(f) /\ \A h \in Settled(f) : ~mem[h].mark
  BY <1>2 DEF MoveInv
<1>5. \A h \in DOMAIN mem : h \in Nat /\ (it <= h <=> h = it \/ it' <= h)
  BY <1>2, <1>3, ObjectSizes
<1>6. Pending' = Pending
  BY <1>1, <1>3, <1>5 DEF Pending
<1>7. /\ \A h \in DOMAIN mem : FieldsFixed(h)' = FieldsFixed(h)
      /\ \A a \in RootWords(top, extra) : ToFix(a)' = ToFix(a)
      /\ phase' \in Compacting /\ it' \in Nat
  BY <1>1, <1>2, <1>3 DEF FieldsFixed, ToFix, Compacting
<1>8. StandingInv' /\ ResizedInv(f)'
  BY <1>2, <1>3, <1>4, <1>6, <1>7, WordsStay
<1>9. Walkable(Rest, it, heap.current)'
  <2>1. Walkable(Rest, it, heap.current)
    BY <1>2 DEF MoveInv
  <2>2. /\ DOMAIN Rest = {g \in DOMAIN mem : it <= g} /\ DOMAIN Rest' = {g \in DOMAIN mem : it' <= g}
        /\ \A h \in DOMAIN Rest : NextObj(Rest, h) = NextObj(mem, h)
        /\ \A h \in DOMAIN Rest' : NextObj(Rest', h) = NextObj(mem, h)
    BY <1>3 DEF Rest, NextObj
  <2>3. it \in DOMAIN Rest /\ DOMAIN Rest' = DOMAIN Rest \ {it}
    BY <1>2, <1>3, <1>5, <2>2
  <2>4. /\ it' \in DOMAIN Rest \cup {heap.current} /\ it' # it /\ it' <= heap.current
        /\ \A h \in DOMAIN Rest : NextObj(mem, h) \in DOMAIN Rest \cup {heap.current}
        /\ \A g, h \in DOMAIN Rest : g < h => NextObj(mem, g) <= h
        /\ \A h \in DOMAIN Rest : NextObj(mem, h) <= heap.current
    BY <1>2, <1>3, <2>1, <2>2, <2>3 DEF Walkable
  <2>5. \A h \in DOMAIN Rest' : NextObj(mem, h) # it /\ it' <= h
    <3>1. \A h \in DOMAIN mem : h < NextObj(mem, h) /\ h \in Nat /\ NextObj(mem, h) \in Nat
      BY <1>2, ObjectSizes
    <3> QED BY <1>2, <1>3, <2>2, <3>1
  <2> QED BY <1>3, <2>2, <2>3, <2>4, <2>5 DEF Walkable
<1>10. MoveInv'
  <2>1. f \in heap'.begin .. it' /\ \A h \in Settled(f)' : ~mem'[h].mark
    BY <1>2, <1>3, <1>4 DEF Settled
  <2> QED BY <1>8, <1>9, <2>1 DEF MoveInv
<1> QED BY <1>1, <1>3, <1>8, <1>10
        DEF CollectInv, Scanning, CollectPreservesGraph, CollectLeavesWellFormed, CollectMakesRoom

\* The loop moves a live object to the end of the settled ones; nothing that is still
\* needed is overwritten, although the two places may overlap.
LEMMA RelocateLive ==
  ASSUME CollectInv, Relocate, mem[it].mark, snapshot' = snapshot
  PROVE  CollectInv'
<1>1. /\ phase = "move" /\ it < heap.current
  BY DEF Relocate
<1>2. /\ StandingInv /\ MoveInv /\ phase \notin Scanning /\ it \in Nat /\ it \in DOMAIN mem
      /\ heap.begin \in Nat /\ live \in Nat /\ heap.current \in Nat
  BY <1>1, MoveBegins
<1>3. PICK f \in heap.begin .. it : ResizedInv(f) /\ \A h \in Settled(f) : ~mem[h].mark
  BY <1>2 DEF MoveInv
<1>4. PICK i, n : i = it /\ n = ObjWords(mem[i])
  OBVIOUS
<1>5. /\ i \in DOMAIN mem /\ n \in Nat /\ n > 0 /\ NextObj(mem, i) = i + n /\ i + n <= heap.current
      /\ i \in Nat /\ f \in Nat /\ f <= i /\ heap.begin <= f
      /\ \A h \in DOMAIN mem : i < h => i + n <= h
  BY <1>1, <1>2, <1>4, MoveBegins
<1>6. /\ i \in Pending /\ i \in Items(f) /\ FinalPlace(f)[i] = f
      /\ \A h \in Settled(f) : /\ h \in Items(f) /\ h \in Nat /\ h < f /\ FinalPlace(f)[h] = h
                               /\ h + ObjWords(mem[h]) <= f
      /\ \A h \in Pending : /\ h \in Items(f) /\ h \in Nat /\ f <= h
                            /\ FinalPlace(f)[h] = Moved(mem[h].fwd)
      /\ \A h \in Pending \ {i} : i < h /\ i + n <= h
  BY <1>1, <1>2, <1>3, <1>4, <1>5, FirstPending
<1>7. /\ it' = i + n /\ UNCHANGED <<heap, word, top, extra, old, live, phase, need>>
      /\ DOMAIN mem' \subseteq DOMAIN mem \cup {f} /\ f \in DOMAIN mem'
      /\ mem'[f] = [mem[i] EXCEPT !.mark = FALSE]
      /\ \A h \in DOMAIN mem' : h # f => mem'[h] = mem[h]
      /\ Settled(f + n)' = Settled(f) \cup {f} /\ Pending' = Pending \ {i}
      /\ {h \in DOMAIN mem' : i + n <= h} = {h \in DOMAIN mem : i + n <= h}
      /\ mem' = [h \in DOMAIN mem' |-> mem'[h]]
  BY <1>3, <1>4, Relocates
<1>8. \A h \in DOMAIN mem : /\ h \in Nat /\ mem[h] \in Object /\ mem[h].fwd \in Int
                            /\ ObjWords(mem[h]) \in Nat /\ ObjWords(mem[h]) > 0
  BY <1>2, ObjectSizes
<1>9. /\ mem'[f] \in Object /\ mem'[f].kind = mem[i].kind /\ mem'[f].len = mem[i].len
      /\ mem'[f].id = mem[i].id /\ mem'[f].fields = mem[i].fields /\ mem'[f].enq = mem[i].enq
      /\ mem'[f].mark = FALSE /\ ObjWords(mem'[f]) = n
  <2>1. PICK o \in Object : o = mem[i]
    BY <1>5, <1>8
  <2>2. PICK p : p = [o EXCEPT !.mark = FALSE]
    OBVIOUS
  <2>3. /\ p \in Object /\ p.kind = o.kind /\ p.len = o.len /\ p.id = o.id
        /\ p.fields = o.fields /\ p.enq = o.enq /\ p.mark = FALSE
    BY <2>1, <2>2 DEF Object
  <2> QED BY <1>4, <1>7, <2>1, <2>2, <2>3 DEF ObjWords
<1> DEFINE to == [h \in Items(f) |-> IF h = i THEN f ELSE h]
<1>10. \A h \in Items(f) : /\ h \in DOMAIN mem /\ h \in Nat
                           /\ h = i \/ h \in Settled(f) \/ h \in Pending \ {i}
  BY <1>8 DEF Items, Settled, Pending
<1>11. /\ Items(f + n)' = {to[h] : h \in Items(f)}
       /\ \A h \in Items(f) : to[h] = (IF h = i THEN f ELSE h) /\ to[h] \in DOMAIN mem'
       /\ \A h \in Items(f) \ {i} : mem'[h] = mem[h]
  <2>1. Items(f + n)' = Settled(f) \cup {f} \cup (Pending \ {i})
    BY <1>7 DEF Items
  <2>2. Items(f + n)' \subseteq DOMAIN mem'
    BY DEF Items, Settled, Pending
  <2>3. f \notin Settled(f) /\ f \notin Pending \ {i}
    BY <1>5, <1>6
  <2> QED BY <1>6, <1>7, <1>10, <2>1, <2>2, <2>3
<1> HIDE DEF to
<1>12. \A h \in Items(f) : /\ mem'[to[h]].kind = mem[h].kind /\ mem'[to[h]].len = mem[h].len
                           /\ mem'[to[h]].id = mem[h].id /\ mem'[to[h]].fields = mem[h].fields
                           /\ ObjWords(mem'[to[h]]) = ObjWords(mem[h])
  BY <1>4, <1>9, <1>11 DEF ObjWords
<1>13. \A h \in Items(f) : FinalPlace(f + n)'[to[h]] = FinalPlace(f)[h]
  <2> SUFFICES ASSUME NEW h \in Items(f) PROVE FinalPlace(f + n)'[to[h]] = FinalPlace(f)[h]
    OBVIOUS
  <2>1. \A k \in Items(f + n)' : FinalPlace(f + n)'[k] = IF k < f + n THEN k ELSE Moved(mem[k].fwd)'
    BY DEF FinalPlace
  <2>2. \A k : Moved(k)' = Moved(k)
    BY <1>7 DEF Moved
  <2>3. CASE h = i
    BY <1>5, <1>6, <1>11, <2>1, <2>3
  <2>4. CASE h \in Settled(f)
    BY <1>5, <1>6, <1>11, <2>1, <2>4
  <2>5. CASE h \in Pending \ {i}
    <3>1. ~(h < f + n) /\ to[h] = h /\ mem'[h] = mem[h]
      BY <1>5, <1>6, <1>11, <2>5
    <3> QED BY <1>6, <1>7, <1>11, <2>1, <2>5, <3>1 DEF Moved
  <2> QED BY <1>10, <2>3, <2>4, <2>5
<1>14. {FinalPlace(f + n)'[h] : h \in Items(f + n)'} = {FinalPlace(f)[h] : h \in Items(f)}
  BY <1>11, <1>13
<1>15. NewEnd' = NewEnd /\ NewEnd \in Nat
  BY <1>2, <1>7 DEF NewEnd
<1>16. \A h \in DOMAIN mem' : /\ h \in Nat /\ mem'[h] \in Object /\ heap.begin <= h /\ ~mem'[h].enq
                             /\ SizeWords(mem'[h].kind, mem'[h].len) > 0
                             /\ NextObj(mem', h) = h + ObjWords(mem'[h])
                             /\ NextObj(mem', h) <= heap.current
  <2> SUFFICES ASSUME NEW h \in DOMAIN mem'
               PROVE  /\ h \in Nat /\ mem'[h] \in Object /\ heap.begin <= h /\ ~mem'[h].enq
                      /\ SizeWords(mem'[h].kind, mem'[h].len) > 0
                      /\ NextObj(mem', h) = h + ObjWords(mem'[h])
                      /\ NextObj(mem', h) <= heap.current
    OBVIOUS
  <2>1. \A g \in DOMAIN mem : /\ SizeWords(mem[g].kind, mem[g].len) > 0 /\ ~mem[g].enq
                              /\ heap.begin <= g /\ g + ObjWords(mem[g]) <= heap.current
    BY <1>2, ObjectSizes DEF StandingInv
  <2>2. NextObj(mem', h) = h + ObjWords(mem'[h])
    BY DEF NextObj
  <2>3. CASE h = f
    <3>1. f + n <= heap.current
      BY <1>2, <1>5
    <3>2. ~mem[i].enq /\ SizeWords(mem[i].kind, mem[i].len) > 0
      BY <1>5, <2>1
    <3> QED BY <1>5, <1>9, <2>2, <2>3, <3>1, <3>2
  <2>4. CASE h # f
    <3>1. h \in DOMAIN mem /\ mem'[h] = mem[h]
      BY <1>7, <2>4
    <3> QED BY <1>8, <2>1, <2>2, <3>1
  <2> QED BY <2>3, <2>4
<1>17. StandingInv'
  <2>1. IsFiniteSet(DOMAIN mem')
    <3>1. IsFiniteSet(DOMAIN mem \cup {f})
      BY <1>2, FS_AddElement DEF StandingInv
    <3> QED BY <1>7, <3>1, FS_Subset
  <2>2. mem' \in [DOMAIN mem' -> Object]
    BY <1>7, <1>16
  <2>3. heap.current \in Nat /\ heap.current <= heap.begin + heap.size /\ heap.size \in Nat
    BY <1>2 DEF StandingInv, CollectTypeOK
  <2>4. \A h \in DOMAIN mem' : heap.begin <= h /\ NextObj(mem', h) <= heap.begin + heap.size
    <3>1. \A h \in DOMAIN mem' : NextObj(mem', h) \in Nat
      BY SMTT(30), <1>16 DEF ObjWords, SizeWords, HeaderWords, Object
    <3> QED BY <1>2, <1>16, <2>3, <3>1
  <2>5. CollectTypeOK'
    BY <1>2, <1>5, <1>7, <2>2, <2>4 DEF StandingInv, CollectTypeOK
  <2>6. RootWords(top, extra)' = RootWords(top, extra)
    BY <1>7 DEF RootWords
  <2> QED BY <1>1, <1>2, <1>7, <1>16, <2>1, <2>3, <2>5, <2>6 DEF StandingInv, CollectNoCrash
<1>18. LayoutInv(f + n)'
  <2>1. /\ heap.begin \in {FinalPlace(f)[g] : g \in Items(f)} \cup {NewEnd}
        /\ \A h \in Items(f) : /\ heap.begin <= FinalPlace(f)[h] /\ FinalPlace(f)[h] + ObjWords(mem[h]) <= NewEnd
                               /\ FinalPlace(f)[h] + ObjWords(mem[h]) \in {FinalPlace(f)[g] : g \in Items(f)} \cup {NewEnd}
        /\ \A g, h \in Items(f) : g < h => FinalPlace(f)[g] + ObjWords(mem[g]) <= FinalPlace(f)[h]
        /\ \A h \in Pending : f <= Moved(mem[h].fwd) /\ Moved(mem[h].fwd) <= h
    BY <1>3 DEF ResizedInv, LayoutInv, Packs
  <2>2. \A g, h \in Items(f) : to[g] < to[h] => g < h
    <3> SUFFICES ASSUME NEW g \in Items(f), NEW h \in Items(f), to[g] < to[h] PROVE g < h
      OBVIOUS
    <3>1. CASE g = i /\ h # i
      <4>1. h \in Pending \ {i}
        BY <1>5, <1>6, <1>10, <1>11, <3>1
      <4> QED BY <1>6, <3>1, <4>1
    <3>2. CASE h = i /\ g # i
      <4>1. g \in Settled(f)
        BY <1>5, <1>6, <1>10, <1>11, <3>2
      <4> QED BY <1>5, <1>6, <3>2, <4>1
    <3>3. CASE g = i /\ h = i
      BY <1>5, <1>11, <3>3
    <3>4. CASE g # i /\ h # i
      BY <1>11, <3>4
    <3> QED BY <3>1, <3>2, <3>3, <3>4
  <2>3. Packs(mem, Items(f + n), FinalPlace(f + n), heap.begin, NewEnd)'
    BY <1>7, <1>11, <1>12, <1>13, <1>14, <1>15, <2>1, <2>2 DEF Packs
  <2>4. f + n \in {FinalPlace(f + n)'[h] : h \in Items(f + n)'} \cup {NewEnd'}
    BY <1>4, <1>6, <1>14, <1>15, <2>1
  <2>5. \A h \in Pending' : f + n <= Moved(mem[h].fwd)' /\ Moved(mem[h].fwd)' <= h
    <3> SUFFICES ASSUME NEW h \in Pending \ {i}
                 PROVE  f + n <= Moved(mem[h].fwd)' /\ Moved(mem[h].fwd)' <= h
      BY <1>7
    <3>1. Moved(mem[h].fwd)' = Moved(mem[h].fwd)
      BY <1>6, <1>7, <1>11 DEF Moved
    <3>2. f + n <= FinalPlace(f)[h]
      BY <1>4, <1>6, <2>1
    <3> QED BY <1>6, <2>1, <3>1, <3>2
  <2>6. heap'.begin <= f + n
    BY <1>2, <1>5, <1>7
  <2> QED BY <2>3, <2>4, <2>5, <2>6 DEF LayoutInv
<1>19. \A v, d : DenotedAfter(f, v, d) => DenotedAfter(f + n, v, d)'
  <2> SUFFICES ASSUME NEW v, NEW d, DenotedAfter(f, v, d) PROVE DenotedAfter(f + n, v, d)'
    OBVIOUS
  <2>1. InCompacted(v)' <=> InCompacted(v)
    BY <1>7, <1>15 DEF InCompacted
  <2>2. CASE InCompacted(v)
    <3>1. PICK h \in Items(f) : FinalPlace(f)[h] = HeaderOf(v) /\ d = <<"object", mem[h].id>>
      BY <2>2 DEF DenotedAfter
    <3>2. PICK k : k = to[h]
      OBVIOUS
    <3>3. k \in Items(f + n)' /\ FinalPlace(f + n)'[k] = HeaderOf(v) /\ d = <<"object", mem'[k].id>>
      BY <1>11, <1>12, <1>13, <3>1, <3>2
    <3> QED BY <2>1, <2>2, <3>3 DEF DenotedAfter
  <2>3. CASE ~InCompacted(v)
    BY <2>1, <2>3 DEF DenotedAfter
  <2> QED BY <2>2, <2>3
<1>20. \A h \in Items(f) : \A k, r : k = to[h] /\ Described(f, h, r) => Described(f + n, k, r)'
  <2> SUFFICES ASSUME NEW h \in Items(f), NEW k, NEW r, k = to[h], Described(f, h, r)
               PROVE  Described(f + n, k, r)'
    OBVIOUS
  <2>1. /\ mem'[k].kind = mem[h].kind /\ mem'[k].len = mem[h].len
        /\ mem'[k].id = mem[h].id /\ mem'[k].fields = mem[h].fields
        /\ FinalPlace(f + n)'[k] = FinalPlace(f)[h]
    BY <1>12, <1>13
  <2>2. FieldsFixed(h) /\ FieldsFixed(k)'
    BY <1>1, <1>7 DEF FieldsFixed
  <2>3. \A i1 \in DOMAIN mem[h].fields : \A v, d :
          v = mem[h].fields[i1] /\ d = r.fields[i1] => DenotedAfter(f + n, v, d)'
    BY <1>19, <2>2 DEF Described
  <2>4. \A i1 \in DOMAIN mem'[k].fields : DenotedAfter(f + n, mem[k].fields[i1], r.fields[i1])'
    BY <2>1, <2>3 DEF DenotedAfter
  <2>5. /\ DOMAIN r.fields = DOMAIN mem'[k].fields
        /\ r = [rank |-> Cardinality({x \in {FinalPlace(f + n)'[g] : g \in Items(f + n)'} : x < FinalPlace(f + n)'[k]}),
                id |-> mem'[k].id, kind |-> mem'[k].kind, len |-> mem'[k].len,
                fields |-> [j \in DOMAIN mem'[k].fields |-> r.fields[j]]]
    BY <1>14, <2>1 DEF Described
  <2> QED BY <2>2, <2>4, <2>5 DEF Described
<1>21. ObjectsKept(f + n)'
  <2>1. ObjectsKept(f)
    BY <1>3 DEF ResizedInv
  <2>2. \A h \in Items(f + n)' : \E r \in snapshot'.objects : Described(f + n, h, r)'
    BY <1>11, <1>20, <2>1 DEF ObjectsKept
  <2>3. \A r \in snapshot'.objects : \E h \in Items(f + n)' : Described(f + n, h, r)'
    BY <1>11, <1>20, <2>1 DEF ObjectsKept
  <2> QED BY <2>2, <2>3 DEF ObjectsKept
<1>22. RootsKept(f + n)'
  <2>1. /\ RootsKept(f) /\ \A a : ~ToFix(a) /\ ~ToFix(a)'
        /\ RootWords(top, extra)' = RootWords(top, extra)
    BY <1>1, <1>3, <1>7 DEF ResizedInv, ToFix, RootWords
  <2>2. \A a \in RootWords(top, extra) : \A v, d :
          v = word'[a] /\ d = snapshot'.roots[a] => DenotedAfter(f + n, v, d)'
    BY <1>7, <1>19, <2>1 DEF RootsKept
  <2>3. \A a \in RootWords(top, extra)' : DenotedAfter(f + n, word[a], snapshot.roots[a])'
    BY <2>1, <2>2 DEF DenotedAfter
  <2>4. ~InChunk(old, word[StackBottom])' /\ ~InCompacted(word[StackBottom])'
    BY <1>7, <2>1 DEF RootsKept, InChunk, InCompacted, NewEnd
  <2> QED BY <1>7, <2>1, <2>3, <2>4 DEF RootsKept
<1>23. Walkable(Rest, it, heap.current)'
  <2>1. Walkable(Rest, it, heap.current)
    BY <1>2 DEF MoveInv
  <2>2. /\ DOMAIN Rest = {g \in DOMAIN mem : i <= g} /\ DOMAIN Rest' = {g \in DOMAIN mem : i + n <= g}
        /\ \A h \in DOMAIN Rest : NextObj(Rest, h) = NextObj(mem, h)
    BY <1>4, <1>7 DEF Rest, NextObj
  <2>3. \A h \in DOMAIN Rest' : NextObj(Rest', h) = NextObj(mem, h)
    <3>1. \A h \in DOMAIN Rest' : h \in DOMAIN mem' /\ mem'[h] = mem[h] /\ Rest'[h] = mem'[h]
      BY <1>5, <1>7, <1>8, <2>2 DEF Rest
    <3> QED BY <3>1 DEF NextObj, ObjWords
  <2>4. i \in DOMAIN Rest /\ DOMAIN Rest' = DOMAIN Rest \ {i}
    BY <1>5, <1>8, <2>2
  <2>5. /\ i + n \in DOMAIN Rest \cup {heap.current} /\ i + n # i
        /\ \A h \in DOMAIN Rest : NextObj(mem, h) \in DOMAIN Rest \cup {heap.current}
        /\ \A g, h \in DOMAIN Rest : g < h => NextObj(mem, g) <= h
        /\ \A h \in DOMAIN Rest : NextObj(mem, h) <= heap.current
    BY <1>4, <1>5, <2>1, <2>2, <2>4 DEF Walkable
  <2>6. \A h \in DOMAIN Rest' : NextObj(mem, h) # i /\ i + n <= h
    <3>1. \A h \in DOMAIN mem : NextObj(mem, h) = h + ObjWords(mem[h])
      BY DEF NextObj
    <3> QED BY <1>5, <1>8, <2>2, <3>1
  <2> QED BY <1>5, <1>7, <2>2, <2>3, <2>4, <2>5, <2>6 DEF Walkable
<1>24. MoveInv'
  <2>1. ResizedInv(f + n)'
    BY <1>3, <1>7, <1>18, <1>21, <1>22 DEF ResizedInv
  <2>2. f + n \in heap'.begin .. it'
    BY <1>2, <1>5, <1>7
  <2>3. \A h \in Settled(f + n)' : ~mem'[h].mark
    <3>1. \A h \in Settled(f) : mem'[h] = mem[h]
      BY <1>5, <1>6, <1>11
    <3> QED BY <1>3, <1>7, <1>9, <3>1
  <2> QED BY <1>23, <2>1, <2>2, <2>3 DEF MoveInv
<1> QED BY <1>1, <1>7, <1>17, <1>24
        DEF CollectInv, Scanning, CollectPreservesGraph, CollectLeavesWellFormed, CollectMakesRoom

-----------------------------------------------------------------------------
(* The end of a collection                                                  *)

\* When the loop is over there is nothing but the settled objects, and they fill the
\* heap up to the address that heap.current is set to.
LEMMA AllSettled ==
  ASSUME CollectInv, phase = "move", it >= heap.current, NEW f \in heap.begin .. it, ResizedInv(f)
  PROVE  /\ f = heap.begin + live /\ NewEnd = f /\ f \in Nat
         /\ Items(f) = {h \in DOMAIN mem : h < f}
         /\ \A h \in Items(f) : /\ FinalPlace(f)[h] = h /\ h \in Nat
                                /\ NextObj(mem, h) \in Items(f) \cup {f} /\ NextObj(mem, h) <= f
                                /\ heap.begin <= h
         /\ heap.begin \in Items(f) \cup {f}
         /\ \A g, h \in Items(f) : g < h => NextObj(mem, g) <= h
         /\ heap.begin <= f
<1>1. /\ StandingInv /\ heap.begin \in Nat /\ heap.current \in Nat /\ live \in Nat /\ it \in Nat
      /\ it = heap.current
  BY MoveBegins
<1>2. \A h \in DOMAIN mem : /\ h \in Nat /\ ObjWords(mem[h]) \in Nat /\ ObjWords(mem[h]) > 0
                            /\ NextObj(mem, h) = h + ObjWords(mem[h]) /\ NextObj(mem, h) <= heap.current
  BY <1>1, ObjectSizes
<1>3. Pending = {}
  BY <1>1, <1>2 DEF Pending
<1>4. Items(f) = {h \in DOMAIN mem : h < f}
  BY <1>3 DEF Items, Settled
<1>5. \A h \in Items(f) : FinalPlace(f)[h] = h
  BY <1>4 DEF FinalPlace
<1>6. /\ f \in Items(f) \cup {NewEnd} /\ heap.begin \in Items(f) \cup {NewEnd} /\ heap.begin <= f
      /\ \A h \in Items(f) : /\ heap.begin <= h /\ h + ObjWords(mem[h]) <= NewEnd
                             /\ h + ObjWords(mem[h]) \in Items(f) \cup {NewEnd}
      /\ \A g, h \in Items(f) : g < h => g + ObjWords(mem[g]) <= h
  BY <1>5 DEF ResizedInv, LayoutInv, Packs
<1>7. f \in Nat /\ f \notin Items(f)
  BY <1>1, <1>4
<1> QED BY <1>1, <1>2, <1>4, <1>5, <1>6, <1>7 DEF NewEnd

\* compact_phase returns: the next collection could start here, and the dump of what
\* is in the heap is the dump of what was marked.
LEMMA EndRelocateStep ==
  ASSUME CollectInv, EndRelocate, snapshot' = snapshot
  PROVE  CollectInv'
<1> USE DEF markVars, compactVars
<1>1. /\ phase = "move" /\ it >= heap.current /\ phase' = "alloc"
      /\ heap' = [heap EXCEPT !.current = heap.begin + live]
      /\ mem' = [h \in {g \in DOMAIN mem : g < heap.begin + live} |-> mem[h]]
      /\ UNCHANGED <<word, top, extra, old, live, it, need>>
  BY DEF EndRelocate
<1>2. StandingInv /\ MoveInv
  BY <1>1, MoveBegins
<1>3. PICK f \in heap.begin .. it : ResizedInv(f) /\ \A h \in Settled(f) : ~mem[h].mark
  BY <1>2 DEF MoveInv
<1>4. /\ f = heap.begin + live /\ NewEnd = f /\ f \in Nat
      /\ Items(f) = {h \in DOMAIN mem : h < f}
      /\ \A h \in Items(f) : /\ FinalPlace(f)[h] = h /\ h \in Nat
                             /\ NextObj(mem, h) \in Items(f) \cup {f} /\ NextObj(mem, h) <= f
                             /\ heap.begin <= h
      /\ heap.begin \in Items(f) \cup {f}
      /\ \A g, h \in Items(f) : g < h => NextObj(mem, g) <= h
      /\ heap.begin <= f
  BY <1>1, <1>3, AllSettled
<1>5. /\ DOMAIN mem' = Items(f) /\ \A h \in Items(f) : h \in DOMAIN mem /\ mem'[h] = mem[h]
      /\ \A h \in Items(f) : NextObj(mem', h) = NextObj(mem, h)
  BY <1>1, <1>4 DEF NextObj
<1>6. /\ heap \in [begin : Nat, current : Nat, size : Nat] /\ live \in Nat /\ need \in Nat \ {0}
      /\ mem \in [DOMAIN mem -> Object] /\ word \in [Words -> Int]
      /\ 2 * live + need <= heap.size
  BY <1>2, <1>3 DEF StandingInv, CollectTypeOK, ResizedInv
<1>7. /\ heap'.begin = heap.begin /\ heap'.size = heap.size /\ heap'.current = f
      /\ heap' \in [begin : Nat, current : Nat, size : Nat]
      /\ heap'.current + need <= heap'.begin + heap'.size
      /\ heap'.current <= heap'.begin + heap'.size
  <2>1. heap' = [begin |-> heap.begin, current |-> f, size |-> heap.size]
    BY <1>1, <1>4, <1>6
  <2>2. f + need <= heap.begin + heap.size
    BY <1>4, <1>6
  <2>3. f <= heap.begin + heap.size
    BY <1>4, <1>6, <2>2
  <2> QED BY <1>4, <1>6, <2>1, <2>2, <2>3
<1>8. CollectMakesRoom'
  BY <1>1, <1>7 DEF CollectMakesRoom
<1>9. Walkable(mem', heap'.begin, heap'.current)
  BY <1>4, <1>5, <1>7 DEF Walkable
<1>10. RootWords(top, extra)' = RootWords(top, extra) /\ RootWords(top', extra') = RootWords(top, extra)
  BY <1>1 DEF RootWords
<1>11. IsFiniteSet(DOMAIN mem')
  BY <1>2, <1>4, <1>5, FS_Subset DEF StandingInv
<1>12. mem' \in [DOMAIN mem' -> Object]
  <2>1. mem' = [h \in DOMAIN mem' |-> mem'[h]]
    BY <1>1
  <2> QED BY <1>5, <1>6, <2>1
<1>13. \A h \in DOMAIN mem' : /\ SizeWords(mem'[h].kind, mem'[h].len) > 0
                              /\ ~mem'[h].enq /\ ~mem'[h].mark
  BY <1>1, <1>2, <1>3, <1>4, <1>5 DEF StandingInv, Settled, Scanning
<1>14. StandingInv'
  <2>1. \A h \in DOMAIN mem' : /\ heap'.begin <= h /\ NextObj(mem', h) <= heap'.current
                               /\ NextObj(mem', h) <= heap'.begin + heap'.size
    <3>1. \A h \in Items(f) : NextObj(mem, h) \in Nat
      BY <1>4
    <3> QED BY <1>4, <1>5, <1>6, <1>7, <3>1
  <2>2. CollectTypeOK'
    BY <1>1, <1>2, <1>6, <1>7, <1>12, <2>1 DEF StandingInv, CollectTypeOK
  <2>3. DOMAIN mem' \subseteq Nat
    BY <1>4, <1>5
  <2> QED BY <1>1, <1>2, <1>7, <1>10, <1>11, <1>13, <2>1, <2>2, <2>3 DEF StandingInv, CollectNoCrash
<1>15. \A v, d : DenotedAfter(f, v, d) =>
          /\ InChunk(heap', v) <=> InCompacted(v)
          /\ InCompacted(v) => HeaderOf(v) \in DOMAIN mem' /\ d = <<"object", mem'[HeaderOf(v)].id>>
          /\ ~InCompacted(v) => d = <<"word", v>>
  BY <1>4, <1>5, <1>7 DEF DenotedAfter, InChunk, InCompacted
<1>16. \A v, d : DenotedAfter(f, v, d) => d = Denotes(v)'
  BY <1>15 DEF Denotes, IsValidHeapPointer, InChunk
<1>17. \A v, d : v \in Int /\ DenotedAfter(f, v, d) => PointsToObject(mem', heap'.begin, heap'.current, v)
  BY <1>6, <1>7, <1>15 DEF PointsToObject, InChunk, IsUnboxed
<1>18. \A h \in Items(f) : \A r : Described(f, h, r) =>
          \A i \in DOMAIN mem[h].fields : \A v, d :
            v = mem[h].fields[i] /\ d = r.fields[i] => DenotedAfter(f, v, d)
  BY <1>1 DEF Described, FieldsFixed
<1>19. \A a \in RootWords(top, extra) : \A v, d :
          v = word[a] /\ d = snapshot.roots[a] => DenotedAfter(f, v, d)
  BY <1>1, <1>3 DEF ResizedInv, RootsKept, ToFix
<1>20. CollectLeavesWellFormed'
  <2>1. FieldsPointToObjects(mem', heap'.begin, heap'.current)
    <3> SUFFICES ASSUME NEW h \in Items(f), NEW i \in DOMAIN mem[h].fields
                 PROVE  PointsToObject(mem', heap'.begin, heap'.current, mem[h].fields[i])
      BY <1>5 DEF FieldsPointToObjects
    <3>1. PICK r \in snapshot.objects : Described(f, h, r)
      BY <1>3 DEF ResizedInv, ObjectsKept
    <3>2. mem[h].fields[i] \in Int
      BY <1>5, <1>6 DEF Object
    <3> QED BY <1>17, <1>18, <3>1, <3>2
  <2>2. RootsPointToObjects(mem', heap'.begin, heap'.current, word', top', extra')
    <3>1. \A a \in RootWords(top, extra) : word[a] \in Int
      BY <1>2, <1>6 DEF StandingInv
    <3> QED BY <1>1, <1>10, <1>17, <1>19, <3>1 DEF RootsPointToObjects
  <2>3. FixedOnce(heap', word', top', extra')
    <3>1. ~InCompacted(word[StackBottom])
      BY <1>3 DEF ResizedInv, RootsKept
    <3>2. ~InChunk(heap', word'[StackBottom])
      BY <1>1, <1>4, <1>7, <3>1 DEF InChunk, InCompacted
    <3> QED BY <1>1, <1>2, <3>2 DEF StandingInv, FixedOnce
  <2>4. Clean(mem')
    BY <1>13 DEF Clean
  <2>5. /\ DOMAIN mem' \subseteq Nat /\ word' \in [Words -> Int] /\ top' \in Nat /\ top' < StackBottom
        /\ extra' \in Seq(Words) /\ need' \in Nat \ {0} /\ RootWords(top', extra') \subseteq Words
    BY <1>1, <1>2, <1>4, <1>5, <1>6, <1>10 DEF StandingInv
  <2> DEFINE i == [mem |-> mem', heap |-> heap', word |-> word', top |-> top', extra |-> extra',
                   need |-> need']
  <2>6. /\ i.mem = mem' /\ i.heap = heap' /\ i.word = word' /\ i.top = top' /\ i.extra = extra'
        /\ i.need = need'
    OBVIOUS
  <2> HIDE DEF i
  <2>7. WellFormed(i)
    BY <1>7, <1>9, <1>11, <1>12, <1>13, <2>1, <2>2, <2>3, <2>4, <2>5, <2>6 DEF WellFormed
  <2> QED BY <2>7 DEF CollectLeavesWellFormed, i
<1>21. \A h \in Items(f) : \A r : Described(f, h, r) => r = DumpObject(DOMAIN mem, h)'
  <2> SUFFICES ASSUME NEW h \in Items(f), NEW r, Described(f, h, r)
               PROVE  r = DumpObject(DOMAIN mem, h)'
    OBVIOUS
  <2>1. {x \in {FinalPlace(f)[g] : g \in Items(f)} : x < FinalPlace(f)[h]} = {g \in DOMAIN mem' : g < h}
    BY <1>4, <1>5
  <2>2. [i \in DOMAIN mem[h].fields |-> r.fields[i]] = [i \in DOMAIN mem'[h].fields |-> Denotes(mem[h].fields[i])']
    <3>1. \A i \in DOMAIN mem[h].fields : \A v : v = mem[h].fields[i] => r.fields[i] = Denotes(v)'
      BY <1>16, <1>18
    <3>2. \A i \in DOMAIN mem[h].fields : r.fields[i] = Denotes(mem[h].fields[i])'
      BY <1>5, <3>1 DEF Denotes
    <3> QED BY <1>5, <3>2
  <2>3. r = [rank |-> Cardinality({x \in {FinalPlace(f)[g] : g \in Items(f)} : x < FinalPlace(f)[h]}),
             id |-> mem[h].id, kind |-> mem[h].kind, len |-> mem[h].len,
             fields |-> [i \in DOMAIN mem[h].fields |-> r.fields[i]]]
    BY DEF Described
  <2> QED BY <1>5, <2>1, <2>2, <2>3 DEF DumpObject
<1>22. CollectPreservesGraph'
  <2>1. snapshot.objects = {DumpObject(DOMAIN mem, h)' : h \in DOMAIN mem'}
    BY <1>3, <1>5, <1>21 DEF ResizedInv, ObjectsKept
  <2>2. [a \in RootWords(top, extra) |-> snapshot.roots[a]] =
          [a \in RootWords(top, extra)' |-> Denotes(word[a])']
    <3>1. \A a \in RootWords(top, extra) : \A v : v = word[a] => snapshot.roots[a] = Denotes(v)'
      BY <1>16, <1>19
    <3>2. \A a \in RootWords(top, extra) : snapshot.roots[a] = Denotes(word[a])'
      BY <1>1, <3>1 DEF Denotes
    <3> QED BY <1>10, <3>2
  <2>3. snapshot = [objects |-> snapshot.objects,
                    roots |-> [a \in RootWords(top, extra) |-> snapshot.roots[a]],
                    others |-> [a \in Words \ RootWords(top, extra) |-> word[a]]]
    BY <1>3 DEF ResizedInv, RootsKept
  <2>4. snapshot = Dump(DOMAIN mem)'
    BY <1>1, <1>10, <2>1, <2>2, <2>3 DEF Dump
  <2> QED BY <2>4 DEF CollectPreservesGraph
<1> QED BY <1>1, <1>8, <1>14, <1>20, <1>22 DEF CollectInv, Scanning

-----------------------------------------------------------------------------
(* The theorems                                                             *)

\* gc_alloc is called.
CollectReady == MarkReady /\ old = heap

\* A collection starts from a well-formed heap, all of which is to be marked.
LEMMA CollectBegins == CollectReady => CollectInv
<1> SUFFICES ASSUME CollectReady PROVE CollectInv
  OBVIOUS
<1>1. MarkInv /\ phase = "scanStack" /\ old = heap /\ live = 0
  BY MarkBegins DEF CollectReady, MarkReady
<1>2. FixedOnce(heap, word, top, extra) /\ heap.current <= heap.begin + heap.size /\ need \in Nat \ {0}
  BY DEF CollectReady, MarkReady, WellFormed
<1>3. Given
  BY <1>1, <1>2 DEF Given, FixedOnce
<1>4. StandingInv
  BY <1>1, <1>3, MarkingStands
<1>5. ScanInv
  BY <1>1, <1>2 DEF ScanInv, FixedOnce, IsValidHeapPointer
<1> QED BY <1>1, <1>4, <1>5
        DEF CollectInv, CollectPreservesGraph, CollectLeavesWellFormed, CollectMakesRoom

LEMMA CollectInitially == CollectInit => CollectInv
<1> SUFFICES ASSUME CollectInit PROVE CollectInv
  OBVIOUS
<1>1. PICK i \in Images :
        /\ mem = i.mem /\ heap = i.heap /\ word = i.word
        /\ top = i.top /\ extra = i.extra /\ old = i.heap /\ need = i.need
  BY DEF CollectInit, MarkInit
<1>2. WellFormed(i)
  BY ImagesAssumption
<1>3. WellFormed([mem |-> mem, heap |-> heap, word |-> word, top |-> top, extra |-> extra,
                  need |-> need])
  BY <1>1, <1>2 DEF WellFormed
<1>4. MarkReady /\ old = heap
  BY <1>1, <1>3 DEF CollectInit, MarkInit, MarkReady
<1> QED BY <1>4, CollectBegins DEF CollectReady

\* The invariant is about the variables of a collection only.
LEMMA CollectStutters ==
  ASSUME CollectInv, UNCHANGED collectVars
  PROVE  CollectInv'
<1>1. UNCHANGED <<mem, heap, word, top, extra, old, live, phase, it, need, snapshot>> /\ UNCHANGED gcVars
  BY DEF collectVars, gcVars, heapVars, markVars, compactVars
<1>2. StandingInv
  BY DEF CollectInv
<1>3. CollectPreservesGraph' /\ CollectLeavesWellFormed' /\ CollectMakesRoom'
  <2>1. CollectPreservesGraph'
    BY <1>1, DumpUnchanged DEF CollectInv, CollectPreservesGraph
  <2> QED BY <1>1, <2>1 DEF CollectInv, CollectLeavesWellFormed, CollectMakesRoom
<1>4. CASE phase \in Scanning
  <2>1. ScanInv
    BY <1>4 DEF CollectInv
  <2>2. MarkInv'
    BY <1>1, <2>1, MarkStep DEF ScanInv
  <2>3. Given'
    BY <1>1, <1>2, <2>1 DEF ScanInv, StandingInv, Given
  <2>4. StandingInv'
    BY <2>2, <2>3, MarkingStands, PTL
  <2>5. ScanInv'
    BY <1>1, <2>1, <2>2 DEF ScanInv, IsValidHeapPointer, InChunk
  <2> QED BY <1>1, <1>3, <1>4, <2>4, <2>5 DEF CollectInv, Scanning
<1>5. CASE phase \notin Scanning
  <2>1. phase \in Compacting \cup {"alloc", "exit"} /\ word \in [Words -> Int] /\ it \in Nat
    BY <1>2, <1>5 DEF StandingInv, CollectTypeOK, CollectNoCrash
  <2>2. StandingInv'
    BY <1>1, <1>2, <1>5, <2>1, StandingUnchanged
  <2>3. Walkable(mem, heap.begin, heap.current) => Walkable(mem, heap.begin, heap.current)'
    BY <1>1 DEF Walkable, NextObj, ObjWords
  <2>4. phase \in {"compute", "resize"} => ComputeInv'
    <3> SUFFICES ASSUME phase \in {"compute", "resize"} PROVE ComputeInv'
      OBVIOUS
    <3>1. Dump(Marked)' = Dump(Marked) /\ Marked' = Marked /\ Placed' = Placed
      BY <1>1, DumpUnchanged DEF Marked, Placed
    <3>2. Closed(Marked)' /\ ~IsValidHeapPointer(word[StackBottom])'
      BY <1>1, <3>1 DEF CollectInv, ComputeInv, Closed, IsValidHeapPointer, InChunk, RootWords
    <3>3. Packs(mem, Placed, [h \in Placed |-> mem[h].fwd], heap.begin, heap.begin + live)'
      BY <1>1, <3>1 DEF CollectInv, ComputeInv, Packs, ObjWords
    <3> QED BY <1>1, <2>3, <3>1, <3>2, <3>3 DEF CollectInv, ComputeInv
  <2>5. ASSUME NEW f, ResizedInv(f), phase \in Compacting PROVE ResizedInv(f)'
    <3>1. Pending' = Pending
      BY <1>1 DEF Pending
    <3>2. /\ \A h \in DOMAIN mem : FieldsFixed(h)' = FieldsFixed(h)
          /\ \A a \in RootWords(top, extra) : ToFix(a)' = ToFix(a)
      BY <1>1 DEF FieldsFixed, ToFix, StackWord, GlobalWord
    <3> QED BY <1>1, <1>2, <1>5, <2>1, <2>5, <3>1, <3>2, WordsStay
  <2>6. phase \in {"fixFields", "fixStack", "fixExtra", "fixGlobals"} => FixInv'
    <3> SUFFICES ASSUME phase \in {"fixFields", "fixStack", "fixExtra", "fixGlobals"} PROVE FixInv'
      OBVIOUS
    <3>1. FixInv
      BY DEF CollectInv
    <3>2. PICK f \in {heap.begin} : ResizedInv(f)
      BY <3>1 DEF FixInv
    <3>3. ResizedInv(f)'
      BY <2>5, <3>2 DEF Compacting
    <3> QED BY <1>1, <2>3, <3>1, <3>2, <3>3 DEF FixInv
  <2>7. phase = "move" => MoveInv'
    <3> SUFFICES ASSUME phase = "move" PROVE MoveInv'
      OBVIOUS
    <3>1. MoveInv
      BY DEF CollectInv
    <3>2. PICK f \in heap.begin .. it : ResizedInv(f) /\ \A h \in Settled(f) : ~mem[h].mark
      BY <3>1 DEF MoveInv
    <3>3. ResizedInv(f)' /\ Settled(f)' = Settled(f)
      BY <1>1, <2>5, <3>2 DEF Compacting, Settled
    <3>4. Walkable(Rest, it, heap.current)'
      BY <1>1, <3>1 DEF MoveInv, Walkable, Rest, NextObj, ObjWords
    <3> QED BY <1>1, <3>2, <3>3, <3>4 DEF MoveInv
  <2> QED BY <1>1, <1>3, <1>5, <2>2, <2>4, <2>6, <2>7 DEF CollectInv
<1> QED BY <1>4, <1>5

\* Every turn of every loop keeps the invariant.
LEMMA CollectStep == CollectInv /\ [CollectNext]_collectVars => CollectInv'
<1> SUFFICES ASSUME CollectInv, [CollectNext]_collectVars PROVE CollectInv'
  OBVIOUS
<1>1. CASE UNCHANGED collectVars
  BY <1>1, CollectStutters
<1>2. CASE MarkNext /\ CollectNext
  BY <1>2, ScanStep DEF CollectNext
<1>3. CASE CompactNext /\ CollectNext
  <2>1. snapshot' = snapshot
    BY <1>3 DEF CollectNext, DumpAfterMarking, CompactNext, ComputeLocation, EndCompute, Resize, ResizeFails, FixFields,
       EndFixFields, FixStack, EndFixStack, FixExtra, EndFixExtra, FixGlobals, EndFixGlobals,
       EndFix, Relocate, EndRelocate
  <2>2. CASE ComputeLocation
    BY <2>1, <2>2, ComputeLocationStep
  <2>3. CASE EndCompute
    BY <2>1, <2>3, EndComputeStep
  <2>4. CASE Resize
    BY <2>1, <2>4, ResizeStep
  <2>5. CASE ResizeFails
    BY <2>1, <2>5, ResizeFailsStep
  <2>6. CASE FixFields
    BY <2>1, <2>6, FixFieldsStep
  <2>7. CASE EndFixFields
    BY <2>1, <2>7, EndFixFieldsStep
  <2>8. CASE FixStack \/ EndFixStack
    BY <2>1, <2>8, FixStackStep
  <2>9. CASE FixExtra \/ EndFixExtra
    BY <2>1, <2>9, FixExtraStep
  <2>10. CASE FixGlobals \/ EndFixGlobals
    BY <2>1, <2>10, FixGlobalsStep
  <2>11. CASE Relocate
    BY <2>1, <2>11, RelocateGarbage, RelocateLive
  <2>12. CASE EndRelocate
    BY <2>1, <2>12, EndRelocateStep
  <2> QED BY <1>3, <2>2, <2>3, <2>4, <2>5, <2>6, <2>7, <2>8, <2>9, <2>10, <2>11, <2>12
          DEF CompactNext
<1> QED BY <1>1, <1>2, <1>3 DEF CollectNext

\* The state of a collection is always one that the loops can go on from.
THEOREM CollectInvariant == CollectSpec => []CollectInv
<1> QED BY CollectInitially, CollectStep, PTL DEF CollectSpec

\* Variables keep their types, and objects stay inside the chunk (gc.c:264-268).
THEOREM CollectTypeCorrect == CollectSpec => []CollectTypeOK
<1>1. CollectInv => CollectTypeOK
  BY DEF CollectInv, StandingInv
<1> QED BY <1>1, CollectInvariant, PTL

\* No loop of mark_phase or compact_phase takes a word for a header that is not one.
THEOREM CollectSafe == CollectSpec => []CollectNoCrash
<1>1. CollectInv => CollectNoCrash
  BY DEF CollectInv, StandingInv
<1> QED BY <1>1, CollectInvariant, PTL

\* The collector preserves the graph of the objects it marked, their order and every
\* other word: what FULL_INVARIANT_CHECKS compares at run time (gc.c:203-216).
THEOREM GraphPreserved == CollectSpec => []CollectPreservesGraph
<1>1. CollectInv => CollectPreservesGraph
  BY DEF CollectInv
<1> QED BY <1>1, CollectInvariant, PTL

\* What a collection leaves, the program and the next collection can use.
THEOREM LeavesWellFormed == CollectSpec => []CollectLeavesWellFormed
<1>1. CollectInv => CollectLeavesWellFormed
  BY DEF CollectInv
<1> QED BY <1>1, CollectInvariant, PTL

\* The request that made gc_alloc collect fits afterwards.
THEOREM MakesRoom == CollectSpec => []CollectMakesRoom
<1>1. CollectInv => CollectMakesRoom
  BY DEF CollectInv
<1> QED BY <1>1, CollectInvariant, PTL

=============================================================================
