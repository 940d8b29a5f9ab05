------------------------------ MODULE GcCompact ------------------------------
(***************************************************************************)
(* compact_phase of runtime/gc.c, the LISP-2 sliding compaction, one       *)
(* action per turn of one of its loops: compute_locations, mremap,         *)
(* update_references (fields of objects, virtual stack, extra roots,       *)
(* global area), physically_relocate.                                      *)
(*                                                                         *)
(* Between mremap and the end the heap is in two address spaces: the       *)
(* objects are where the new chunk is, and the words not fixed yet, and    *)
(* every forward address, are addresses of the old one.                    *)
(***************************************************************************)
EXTENDS GcMemory

CONSTANTS
  MinCapacity,  \* MINIMUM_HEAP_CAPACITY
  Bases         \* where mremap may move the heap

ASSUME CompactAssumption ==
  /\ MinCapacity \in Nat \ {0}
  /\ Bases \subseteq Nat

ExtraRoomCoefficient == 2

Larger(a, b) == IF a >= b THEN a ELSE b

Compacting ==
  {"compute", "resize", "fixFields", "fixStack", "fixExtra", "fixGlobals", "move"}

\* From an address of the old chunk to the address of the same word now.
Moved(a) == heap.begin + (a - old.begin)

-----------------------------------------------------------------------------
(* compute_locations                                                        *)

Survives(h) == mem[h].mark

\* set_forward_address of a live object: where it will be, had the heap not
\* been moved.
ComputeLocation ==
  /\ phase = "compute" /\ it < heap.current
  /\ Reading({it},
       /\ IF Survives(it)
            THEN /\ mem' = [mem EXCEPT ![it].fwd = heap.begin + live]
                 /\ live' = live + ObjWords(mem[it])
            ELSE UNCHANGED <<mem, live>>
       /\ it' = NextObj(mem, it)
       /\ UNCHANGED <<heap, word, top, extra, markVars, old, phase, fld, need>>)

EndCompute ==
  /\ phase = "compute" /\ it >= heap.current
  /\ phase' = "resize"
  /\ UNCHANGED <<heapVars, markVars, compactVars, it, fld, need>>

-----------------------------------------------------------------------------
(* mremap                                                                   *)

NextHeapSizeForgettingRequest == Larger(live * ExtraRoomCoefficient, MinCapacity)

NextHeapSize == Larger(live * ExtraRoomCoefficient + need, MinCapacity)

\* The heap does not shrink: its objects are still where they were.
PseudoSizeShrinking(next) == next

PseudoSize(next) == Larger(next, heap.size)

Chunk(b, size) == b .. (b + size - 1)

\* The words that the collector keeps: roots, fields of live objects, and the word
\* at the bottom of the stack.
KeptWords ==
  {word[a] : a \in RootWords(top, extra) \cup {StackBottom}}
    \cup UNION {{mem[h].fields[i] : i \in DOMAIN mem[h].fields} : h \in {g \in DOMAIN mem : Survives(g)}}

\* The kernel leaves a mapping that does not grow where it is, and may move one
\* that grows to any free addresses.  What is no number and no pointer into the
\* heap is the address of something else that the process has mapped.
Remaps(b, size) ==
  /\ \/ b = heap.begin
     \/ /\ size > heap.size
        /\ Chunk(b, size) \cap Chunk(heap.begin, heap.size) = {}
        /\ Chunk(b, size) \cap {v \in KeptWords : ~IsValidHeapPointer(v)} = {}
  /\ Chunk(b, size) \cap Words = {}

Resize ==
  /\ phase = "resize"
  /\ LET size == PseudoSize(NextHeapSize) IN
       \E b \in {heap.begin} \cup Bases :
         /\ Remaps(b, size)
         /\ heap' = [begin |-> b, size |-> size,
                     current |-> b + (heap.current - heap.begin)]
         /\ mem' = [h \in {b + (g - heap.begin) : g \in DOMAIN mem} |->
                      mem[heap.begin + (h - b)]]
         /\ it' = b
  /\ old' = heap
  /\ phase' = "fixFields"
  /\ UNCHANGED <<word, top, extra, markVars, live, fld, need>>

\* mremap failed: perror and exit(1).
ResizeFails ==
  /\ phase = "resize" /\ PseudoSize(NextHeapSize) > heap.size
  /\ phase' = "exit"
  /\ UNCHANGED <<heapVars, markVars, compactVars, it, fld, need>>

-----------------------------------------------------------------------------
(* update_references                                                        *)

\* The header of the object that v, a content address of the old chunk, is
\* the address of; the headers that fixing the values in V reads.
Referent(v) == Moved(HeaderOf(v))
Referents(V) == {Referent(v) : v \in {w \in V : InChunk(old, w)}}

\* new_addr forgetting that the heap may have moved, and new_addr.
UpdatedInPlace(v) ==
  IF InChunk(old, v) THEN ContentOf(mem[Referent(v)].fwd) ELSE v

Updated(v) ==
  IF InChunk(old, v) THEN ContentOf(Moved(mem[Referent(v)].fwd)) ELSE v

\* The loop over the heap; the fields of one object, if it is live, in one turn.
FixFields ==
  /\ phase = "fixFields" /\ it < heap.current
  /\ Reading({it},
       LET F == mem[it].fields IN
         Reading(IF mem[it].mark THEN Referents({F[i] : i \in DOMAIN F}) ELSE {},
           /\ mem' = IF mem[it].mark
                       THEN [mem EXCEPT ![it].fields =
                               [i \in DOMAIN F |-> Updated(F[i])]]
                       ELSE mem
           /\ it' = NextObj(mem, it)
           /\ UNCHANGED <<heap, word, top, extra, markVars, compactVars, phase, fld, need>>))

\* The turn of a loop over words that fixes word a.
FixWord(a) ==
  Reading(Referents({word[a]}),
    /\ word' = [word EXCEPT ![a] = Updated(@)]
    /\ it' = it + 1
    /\ UNCHANGED <<mem, heap, top, extra, markVars, compactVars, phase, fld, need>>)

SkipWord ==
  /\ it' = it + 1
  /\ UNCHANGED <<heapVars, markVars, compactVars, phase, fld, need>>

EndFix(p, next, start) ==
  /\ phase = p
  /\ phase' = next /\ it' = start
  /\ UNCHANGED <<heapVars, markVars, compactVars, fld, need>>

EndFixFields == it >= heap.current /\ EndFix("fixFields", "fixStack", top + 1)

\* scan_and_fix_region over the virtual stack.  The region it is given ends one
\* word after the one that gc_root_scan_stack scans.
FixStack    == phase = "fixStack" /\ it <= StackBottom /\ FixWord(it)
EndFixStack == it > StackBottom /\ EndFix("fixStack", "fixExtra", 1)

\* scan_and_fix_region_roots, which leaves to the other two loops the words
\* they fix.
FixedElsewhereNever(a) == FALSE

FixedElsewhere(a) ==
  \/ top <= a /\ a < StackBottom
  \/ GlobalStart <= a /\ a <= GlobalStop

FixExtra ==
  /\ phase = "fixExtra" /\ it <= Len(extra)
  /\ IF IsUnboxed(word[extra[it]]) \/ FixedElsewhere(extra[it])
       THEN SkipWord
       ELSE FixWord(extra[it])
EndFixExtra == it > Len(extra) /\ EndFix("fixExtra", "fixGlobals", GlobalStart)

\* scan_and_fix_region over the global area.
FixGlobals    == phase = "fixGlobals" /\ it < GlobalStop /\ FixWord(it)
EndFixGlobals == it >= GlobalStop /\ EndFix("fixGlobals", "move", heap.begin)

-----------------------------------------------------------------------------
(* physically_relocate                                                      *)

\* memmove of object o to address to: what it overwrites is no object any more.
Overwritten(o, to) ==
  {h \in DOMAIN mem : h < to + ObjWords(o) /\ to < NextObj(mem, h)}

\* The copy of object o, whose mark unmark_object clears.
LandedStillMarked(o) == o

Landed(o) == [o EXCEPT !.mark = FALSE]

Relocated(o, to) ==
  [h \in (DOMAIN mem \ Overwritten(o, to)) \cup {to} |->
     IF h = to THEN Landed(o) ELSE mem[h]]

\* The object that the loop steps to: read from the header of the object at it
\* before, or after, that object is moved.
NextAfterMove(h) == IF h \in DOMAIN mem' THEN NextObj(mem', h) ELSE h + 1

NextBeforeMove(h) == NextObj(mem, h)

Relocate ==
  /\ phase = "move" /\ it < heap.current
  /\ Reading({it},
       /\ mem' = IF Survives(it) THEN Relocated(mem[it], Moved(mem[it].fwd)) ELSE mem
       /\ it' = NextBeforeMove(it)
       /\ UNCHANGED <<heap, word, top, extra, markVars, compactVars, phase, fld, need>>)

\* The loop is over and compact_phase sets heap.current; memory past it is free.
EndRelocate ==
  /\ phase = "move" /\ it >= heap.current
  /\ heap' = [heap EXCEPT !.current = heap.begin + live]
  /\ mem' = [h \in {g \in DOMAIN mem : g < heap.begin + live} |-> mem[h]]
  /\ phase' = "alloc"
  /\ UNCHANGED <<word, top, extra, markVars, compactVars, it, fld, need>>

CompactNext ==
  \/ ComputeLocation \/ EndCompute
  \/ Resize \/ ResizeFails
  \/ FixFields \/ EndFixFields
  \/ FixStack \/ EndFixStack
  \/ FixExtra \/ EndFixExtra
  \/ FixGlobals \/ EndFixGlobals
  \/ Relocate \/ EndRelocate

=============================================================================
