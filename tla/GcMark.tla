------------------------------- MODULE GcMark -------------------------------
(***************************************************************************)
(* mark_phase of runtime/gc.c, one action per turn of one of its loops.    *)
(*                                                                         *)
(* The roots are the words of the virtual stack, the registered words of   *)
(* runtime functions, and the global area.  Each is given to mark(), which *)
(* walks the graph breadth first.  Its queue needs no memory of its own:   *)
(* the k-th element enqueued by a call is kept in the forward address of   *)
(* the k-th object of the heap, whatever object that is.                   *)
(*                                                                         *)
(* Reading a header where there is no object ends in "crash".              *)
(***************************************************************************)
EXTENDS GcMemory

CONSTANT Images   \* the heaps, and roots, that a collection may find

ASSUME ImagesAssumption == \A i \in Images : WellFormed(i)

Scanning == {"scanStack", "scanExtra", "scanGlobals"}

\* No call of mark() is running.
Idle == qHead = qTail /\ obj = NoObj

\* queue_enqueue: v goes to the forward address of the tail object.
Enqueued(tail, v) ==
  [h \in DOMAIN mem |->
     [mem[h] EXCEPT !.fwd = IF h = tail THEN v ELSE @,
                    !.enq = @ \/ h = HeaderOf(v)]]

-----------------------------------------------------------------------------
(* mark()                                                                   *)

\* The call that the turn of a root loop makes, up to the loop of mark().
Mark(v) ==
  IF ~IsValidHeapPointer(v)
    THEN /\ it' = it + 1
         /\ UNCHANGED <<heapVars, markVars, compactVars, phase, fld, need>>
    ELSE Reading({HeaderOf(v), heap.begin},
           /\ it' = it + 1
           /\ IF IsMarked(v)
                THEN UNCHANGED <<mem, qHead, qTail>>
                ELSE /\ mem' = Enqueued(heap.begin, v)
                     /\ qHead' = heap.begin
                     /\ qTail' = NextObj(mem, heap.begin)
           /\ UNCHANGED <<heap, word, top, extra, obj, compactVars, phase, fld, need>>)

\* queue_dequeue and mark_object.
DequeuedStillFlagged(h) == [mem EXCEPT ![h] = [@ EXCEPT !.mark = TRUE]]

DequeuedUnmarked(h) == [mem EXCEPT ![h] = [@ EXCEPT !.enq = FALSE]]

Dequeued(h) == [mem EXCEPT ![h] = [@ EXCEPT !.enq = FALSE, !.mark = TRUE]]

\* The index of the field that ptr_field_begin_iterator gives: field_begin_iterator
\* has already skipped the tag of a sexp and the code address of a closure.
FirstFieldSkippedAgain == 2

FirstField == 1

\* get_obj_header_ptr
ContentForHeader(p) == p

HeaderPtr(p) == HeaderOf(p)

Dequeue ==
  /\ phase \in Scanning /\ obj = NoObj /\ qHead # qTail
  /\ Reading({qHead},
       LET v == mem[qHead].fwd IN
         Reading({HeaderOf(v)},
           /\ mem' = Dequeued(HeaderOf(v))
           /\ qHead' = NextObj(mem, qHead)
           /\ obj' = HeaderPtr(v)
           /\ fld' = FirstField
           /\ UNCHANGED <<heap, word, top, extra, qTail, compactVars, phase, it, need>>))

WantedUnlessMarked(v) == ~IsMarked(v)

Wanted(v) == ~IsMarked(v) /\ ~IsEnqueued(v)

\* One turn of the loop over the pointer fields of cur_obj.
ScanField ==
  /\ phase \in Scanning /\ obj # NoObj /\ fld \in DOMAIN mem[obj].fields
  /\ LET v == mem[obj].fields[fld]
         SkipField ==
           /\ fld' = fld + 1
           /\ UNCHANGED <<heapVars, markVars, compactVars, phase, it, need>>
         EnqueueField ==
           /\ mem' = Enqueued(qTail, v)
           /\ qTail' = NextObj(mem, qTail)
           /\ fld' = fld + 1
           /\ UNCHANGED <<heap, word, top, extra, qHead, obj, compactVars, phase, it, need>>
     IN IF ~IsValidHeapPointer(v)
          THEN SkipField
          ELSE Reading({HeaderOf(v)},
                 IF Wanted(v) THEN Reading({qTail}, EnqueueField) ELSE SkipField)

FinishObject ==
  /\ phase \in Scanning /\ obj # NoObj /\ fld \notin DOMAIN mem[obj].fields
  /\ obj' = NoObj
  /\ UNCHANGED <<heapVars, qHead, qTail, compactVars, phase, it, fld, need>>

-----------------------------------------------------------------------------
(* The loops over the roots                                                 *)

\* One turn of the loop of phase p, which gives word a to mark().
ScanRoot(p, a) ==
  phase = p /\ Idle /\ Mark(word[a])

EndScan(p, next, start) ==
  /\ phase = p /\ Idle
  /\ phase' = next /\ it' = start
  /\ UNCHANGED <<heapVars, markVars, compactVars, fld, need>>

\* gc_root_scan_stack
ScanStack    == it < StackBottom  /\ ScanRoot("scanStack", it)
EndScanStack == it >= StackBottom /\ EndScan("scanStack", "scanExtra", 1)

\* scan_extra_roots
ScanExtra    == it <= Len(extra) /\ ScanRoot("scanExtra", extra[it])
EndScanExtra == it > Len(extra)  /\ EndScan("scanExtra", "scanGlobals", GlobalStart)

\* scan_global_area
ScanGlobals    == it < GlobalStop  /\ ScanRoot("scanGlobals", it)
EndScanGlobals == it >= GlobalStop /\ EndScan("scanGlobals", "compute", heap.begin)

MarkNext ==
  \/ ScanStack \/ EndScanStack
  \/ ScanExtra \/ EndScanExtra
  \/ ScanGlobals \/ EndScanGlobals
  \/ Dequeue \/ ScanField \/ FinishObject

\* gc_alloc calls mark_phase.
MarkInit ==
  /\ \E i \in Images :
       /\ mem = i.mem /\ heap = i.heap /\ word = i.word
       /\ top = i.top /\ extra = i.extra /\ old = i.heap
       /\ need = i.need
  /\ phase = "scanStack" /\ it = top + 1
  /\ qHead = heap.begin /\ qTail = heap.begin /\ obj = NoObj /\ fld = 1
  /\ live = 0

MarkSpec == MarkInit /\ [][MarkNext]_gcVars

\* The collector runs on the only thread: what it can do next it does.
FairMarkSpec == MarkSpec /\ WF_gcVars(MarkNext)

-----------------------------------------------------------------------------
(* Properties                                                               *)

\* Every variable of a marking collector has a value of its type.
MarkTypeOK ==
  /\ IsFiniteSet(DOMAIN mem) /\ DOMAIN mem \subseteq Nat
  /\ mem \in [DOMAIN mem -> Object]
  /\ heap \in [begin : Nat, current : Nat, size : Nat]
  /\ word \in [Words -> Int]
  /\ top \in Nat /\ top < StackBottom
  /\ extra \in Seq(Words)
  /\ phase \in Scanning \cup {"compute", "crash"}
  /\ it \in Nat
  /\ qHead \in Nat /\ qTail \in Nat
  /\ obj \in {NoObj} \cup DOMAIN mem
  /\ fld \in Nat \ {0}
  /\ live \in Nat /\ need \in Nat

\* The marking never reads a header where there is none.  In particular its
\* queue fits in the heap: queue_enqueue (gc.c:485) writes at the tail without
\* looking at heap.current, and holds one more object than it has dequeued.
MarkNoCrash == phase # "crash"

Queue == {h \in DOMAIN mem : qHead <= h /\ h < qTail}

\* The invariant that the comment at gc.c:512 states of the loop of mark(): the
\* queue holds unmarked objects only, and each only once; and an object carries
\* the enqueued flag exactly as long as the queue holds it.
QueueInvariant ==
  /\ \A a \in Queue : /\ HeaderOf(mem[a].fwd) \in DOMAIN mem
                      /\ ~IsMarked(mem[a].fwd)
  /\ \A a, b \in Queue : mem[a].fwd = mem[b].fwd => a = b
  /\ {h \in DOMAIN mem : mem[h].enq} = {HeaderOf(mem[a].fwd) : a \in Queue}

Marked == {h \in DOMAIN mem : mem[h].mark}

\* Mark_phase leaves marked what the roots reach, nothing less (compact_phase
\* would drop a live object) and nothing more (it would keep garbage), and no
\* enqueued flag that the next collection would take for its own.
MarkedIsReachable ==
  phase = "compute" => /\ Marked = Reachable
                       /\ \A h \in DOMAIN mem : ~mem[h].enq

\* Marking ends, whatever cycles there are in the graph.
MarkingEnds == <>(phase = "compute")

-----------------------------------------------------------------------------
(* The inductive invariant from which the properties above follow.          *)

Touched == {h \in DOMAIN mem : mem[h].mark \/ mem[h].enq}

TouchedValue(v) == IsValidHeapPointer(v) => HeaderOf(v) \in Touched

\* Marking writes forward addresses and flags only.
HeapInv ==
  /\ \A h \in DOMAIN mem : SizeWords(mem[h].kind, mem[h].len) > 0
  /\ RootWords(top, extra) \subseteq Words
  /\ Walkable(mem, heap.begin, heap.current)
  /\ FieldsPointToObjects(mem, heap.begin, heap.current)
  /\ RootsPointToObjects(mem, heap.begin, heap.current, word, top, extra)

\* The tail is never further in the heap than the number of objects that have
\* ever been enqueued: one that was not is still to come.
QueueOK(head, tail) ==
  LET Q == {h \in DOMAIN mem : head <= h /\ h < tail} IN
    /\ {head, tail} \subseteq DOMAIN mem \cup {heap.current}
    /\ head <= tail
    /\ Cardinality({h \in DOMAIN mem : h < tail}) <= Cardinality(Touched)
    /\ \A a \in Q : HeaderOf(mem[a].fwd) \in DOMAIN mem /\ IsEnqueued(mem[a].fwd)
    /\ \A a, b \in Q : mem[a].fwd = mem[b].fwd => a = b
    /\ \A h \in DOMAIN mem : mem[h].enq =>
          ~mem[h].mark /\ \E a \in Q : HeaderOf(mem[a].fwd) = h

\* The fields that have been scanned point to objects that are marked or will
\* be, and so do the roots that have been scanned.
FieldsScanned ==
  \A h \in DOMAIN mem : mem[h].mark =>
    \A i \in DOMAIN mem[h].fields :
      (h = obj /\ i >= fld) \/ TouchedValue(mem[h].fields[i])

RootsScanned ==
  /\ \A a \in (top + 1) .. (StackBottom - 1) :
        (phase = "scanStack" /\ a >= it) \/ TouchedValue(word[a])
  /\ \A i \in DOMAIN extra :
        phase = "scanStack" \/ (phase = "scanExtra" /\ i >= it) \/ TouchedValue(word[extra[i]])
  /\ \A a \in GlobalStart .. (GlobalStop - 1) :
        phase \in {"scanStack", "scanExtra"} \/ (phase = "scanGlobals" /\ a >= it)
          \/ TouchedValue(word[a])

\* What has been enqueued is reachable.
LiveInv == \A S \in SUBSET DOMAIN mem : Closed(S) => Touched \subseteq S

\* Where the loops are.
LoopInv ==
  /\ phase # "crash"
  /\ phase = "compute" => Idle
  /\ obj # NoObj => mem[obj].mark
  /\ phase = "scanStack" => it >= top + 1
  /\ phase = "scanExtra" => it >= 1
  /\ phase = "scanGlobals" => it >= GlobalStart

MarkInv ==
  /\ MarkTypeOK
  /\ HeapInv
  /\ QueueOK(qHead, qTail)
  /\ FieldsScanned
  /\ RootsScanned
  /\ LiveInv
  /\ LoopInv

=============================================================================
