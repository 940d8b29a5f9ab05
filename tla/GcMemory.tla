------------------------------ MODULE GcMemory ------------------------------
(***************************************************************************)
(* The memory the collector of runtime/gc.c works on: the heap, the words  *)
(* outside the heap that can hold Lama values, the extra roots, and the    *)
(* iterators of a collection cycle.  The modules GcMark and GcCompact      *)
(* extend this one and share its variables.                                *)
(*                                                                         *)
(* Units.  Addresses are counted in machine words; sizes that gc.c keeps   *)
(* in bytes are rounded up the way BYTES_TO_WORDS does.                    *)
(*                                                                         *)
(* Values.  A machine word that holds a Lama value is an integer.  A       *)
(* negative one stands for an unboxed number (lowest bit set in the code), *)
(* any other is the address it would be taken for: the address of an       *)
(* object's content, or a word the collector must leave alone.             *)
(***************************************************************************)
EXTENDS Integers, Sequences, FiniteSets

CONSTANTS
  StackBottom,   \* __gc_stack_bottom: the first word past the virtual stack
  GlobalStart,   \* &__start_custom_data
  GlobalStop,    \* &__stop_custom_data: the first word past the global area
  Words          \* the addresses, outside the heap, of words a root may be in

ASSUME WordsAssumption ==
  /\ StackBottom \in Nat /\ GlobalStart \in Nat /\ GlobalStop \in Nat
  /\ StackBottom < GlobalStart /\ GlobalStart <= GlobalStop
  /\ Words \subseteq Nat
  /\ {StackBottom} \cup GlobalStart .. (GlobalStop - 1) \subseteq Words

VARIABLES
  mem,     \* header address |-> object, for every object in the heap
  heap,    \* memory_chunk heap: [begin, current, size]; end is begin + size
  old,     \* the old_heap that compact_phase keeps while it moves objects
  word,    \* [Words -> Int]: stack, global area, locals of runtime functions
  top,     \* __gc_stack_top: the first free word of the virtual stack
  extra,   \* extra_roots: the addresses of registered words, oldest first
  phase,   \* which loop of which function is running
  it,      \* that loop's iterator
  qHead,   \* q_head_iter of mark()
  qTail,   \* q_tail_iter of mark()
  obj,     \* header of the object whose fields mark() is scanning, or NoObj
  fld,     \* index of the field that the field iterator is at
  live,    \* words of live objects that compute_locations has placed
  need     \* words requested from alloc()

heapVars == <<mem, heap, word, top, extra>>
markVars == <<qHead, qTail, obj>>
compactVars == <<old, live>>
gcVars == <<heapVars, markVars, compactVars, phase, it, fld, need>>

-----------------------------------------------------------------------------
(* Objects.  The two words of a header are data_header (kind and len) and   *)
(* forward_address, whose two low bits are the mark bit and the enqueued    *)
(* bit: SET_FORWARD_ADDRESS keeps them, so they are fields of their own.    *)
(* id is the identity that DEBUG_VERSION gives an object when it is         *)
(* allocated; the collector never reads it.  fields are the words that the  *)
(* field iterators visit: all of an array, everything after the tag of a    *)
(* sexp and after the code address of a closure, nothing of a string.       *)

Kinds == {"ARRAY", "CLOSURE", "STRING", "SEXP"}
HeaderWords == 2
NoObj == -1

Object == [kind : Kinds, len : Nat, fields : Seq(Int), fwd : Int,
           mark : BOOLEAN, enq : BOOLEAN, id : Nat]

FieldCount(kind, len) ==
  CASE kind = "STRING"  -> 0
    [] kind = "CLOSURE" -> len - 1
    [] OTHER            -> len

\* array_size, closure_size, sexp_size and string_size, in words
SizeWords(kind, len) ==
  CASE kind = "STRING" -> HeaderWords + (len \div 4) + 1
    [] kind = "SEXP"   -> HeaderWords + len + 1
    [] OTHER           -> HeaderWords + len

ObjWords(o) == SizeWords(o.kind, o.len)

ContentOf(h) == h + HeaderWords
HeaderOf(p)  == p - HeaderWords

\* heap_next_obj_iterator
NextObj(m, h) == h + ObjWords(m[h])

IsUnboxed(v) == v < 0

\* Both ends are inclusive: the content of an empty array that is the last
\* object of the heap is at heap.current.
InChunk(chunk, v) == ~IsUnboxed(v) /\ chunk.begin <= v /\ v <= chunk.current

IsValidHeapPointer(v) == InChunk(heap, v)

IsObject(h) == h \in DOMAIN mem
IsMarked(v) == mem[HeaderOf(v)].mark
IsEnqueued(v) == mem[HeaderOf(v)].enq

\* A step A that reads the headers in H.  On a word that is no header
\* get_type_header_ptr kills the process.
Reading(H, A) ==
  IF H \subseteq DOMAIN mem
    THEN A
    ELSE /\ phase' = "crash"
         /\ UNCHANGED <<heapVars, markVars, compactVars, it, fld, need>>

-----------------------------------------------------------------------------
(* What the collector finds in a heap that the mutator left it.             *)

\* Walking the heap from begin by object sizes visits every object and ends
\* exactly at current.
Walkable(m, b, c) ==
  /\ b <= c
  /\ b \in DOMAIN m \cup {c}
  /\ \A h \in DOMAIN m : b <= h /\ NextObj(m, h) \in DOMAIN m \cup {c}
  /\ \A g, h \in DOMAIN m : g < h => NextObj(m, g) <= h
  /\ \A h \in DOMAIN m : NextObj(m, h) <= c

\* A word that looks like a heap pointer is the content address of an object.
PointsToObject(m, b, c, v) ==
  (v >= b /\ v <= c) => HeaderOf(v) \in DOMAIN m

FieldsPointToObjects(m, b, c) ==
  \A h \in DOMAIN m : \A i \in DOMAIN m[h].fields :
    PointsToObject(m, b, c, m[h].fields[i])

\* The words the three root loops of mark_phase read.
RootWords(t, x) ==
  (t + 1) .. (StackBottom - 1)
    \cup {x[i] : i \in DOMAIN x}
    \cup GlobalStart .. (GlobalStop - 1)

RootsPointToObjects(m, b, c, w, t, x) ==
  \A r \in RootWords(t, x) : PointsToObject(m, b, c, w[r])

Clean(m) == \A h \in DOMAIN m : ~m[h].mark /\ ~m[h].enq

-----------------------------------------------------------------------------
(* Reachability, without recursion: an object is reachable when every set   *)
(* that contains what the roots point to, and with an object all that its   *)
(* fields point to, contains it.                                            *)

Closed(S) ==
  /\ \A r \in RootWords(top, extra) :
        IsValidHeapPointer(word[r]) => HeaderOf(word[r]) \in S
  /\ \A h \in S : \A i \in DOMAIN mem[h].fields :
        IsValidHeapPointer(mem[h].fields[i])
          => HeaderOf(mem[h].fields[i]) \in S

Reachable ==
  {h \in DOMAIN mem : \A S \in SUBSET DOMAIN mem : Closed(S) => h \in S}

\* What a word denotes, without addresses of objects.
Denotes(v) ==
  IF IsValidHeapPointer(v) THEN <<"object", mem[HeaderOf(v)].id>> ELSE <<"word", v>>

\* Every root word is fixed by exactly one loop of update_references.  These
\* are the conditions on the words at its boundaries: scan_and_fix_region_roots
\* leaves top and GlobalStop to loops that do not come there, and the loop over
\* the stack goes on to StackBottom, which mark_phase does not scan.
FixedOnce(c, w, t, x) ==
  /\ \A i, j \in DOMAIN x : x[i] = x[j] => i = j
  /\ \A i \in DOMAIN x : x[i] \notin {t, GlobalStop}
  /\ ~InChunk(c, w[StackBottom])

\* What a collection can start from: the image [mem, heap, word, top, extra,
\* need] of a heap that the mutator has left consistent, and its request.
WellFormed(i) ==
  /\ IsFiniteSet(DOMAIN i.mem) /\ DOMAIN i.mem \subseteq Nat
  /\ i.mem \in [DOMAIN i.mem -> Object]
  /\ \A h \in DOMAIN i.mem : SizeWords(i.mem[h].kind, i.mem[h].len) > 0
  /\ i.heap \in [begin : Nat, current : Nat, size : Nat]
  /\ i.heap.current <= i.heap.begin + i.heap.size
  /\ i.word \in [Words -> Int]
  /\ i.top \in Nat /\ i.top < StackBottom
  /\ i.extra \in Seq(Words)
  /\ i.need \in Nat \ {0}
  /\ RootWords(i.top, i.extra) \subseteq Words
  /\ Walkable(i.mem, i.heap.begin, i.heap.current)
  /\ FieldsPointToObjects(i.mem, i.heap.begin, i.heap.current)
  /\ RootsPointToObjects(i.mem, i.heap.begin, i.heap.current,
                         i.word, i.top, i.extra)
  /\ FixedOnce(i.heap, i.word, i.top, i.extra)
  /\ Clean(i.mem)

=============================================================================
