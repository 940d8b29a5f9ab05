------------------------------ MODULE GcMutator ------------------------------
(***************************************************************************)
(* The interpreter as the collector sees it: the instructions that move    *)
(* values between the virtual stack, the global area and objects, and the  *)
(* runtime functions they call to allocate (Bstring, Lstring, Barray,      *)
(* Bsexp, Bclosure), each with the words it registers as extra roots.      *)
(*                                                                         *)
(* An allocating instruction takes three steps: up to the call of alloc(), *)
(* the allocation, with or without a collection, and from its return on.   *)
(* Frames are those of module FrameStack; here the stack is the operands   *)
(* and locals of one of them.                                              *)
(*                                                                         *)
(* Numbers are all -1, so that any index may be in range or out of it.     *)
(* Nothing in the code tests which: phase "astray" is that of a program    *)
(* that has used one out of range, of which nothing more is said.          *)
(*                                                                         *)
(* MaxDepth and MaxAllocs bound the operands and the allocations of a      *)
(* behaviour.                                                              *)
(***************************************************************************)
EXTENDS GcMark, GcCompact

CONSTANTS
  LocalP, LocalQ,  \* where Lstring's parameter p, and Bstring's, are
  ArgssOffset,     \* from top to the first word Bclosure registers
  MaxExtraRoots,   \* MAX_EXTRA_ROOTS_NUMBER
  MaxLen,          \* the most operands of an allocating instruction
  MaxLocals,       \* the most locals of a function
  StringLens,      \* lengths of strings
  MaxDepth, MaxAllocs

ASSUME MutatorAssumption ==
  /\ {LocalP, LocalQ} \subseteq Words /\ LocalP # LocalQ
  /\ LocalP > GlobalStop /\ LocalQ > GlobalStop
  /\ ArgssOffset \in Nat \ {0} /\ MaxExtraRoots \in Nat
  /\ {MaxLen, MaxLocals, MaxDepth, MaxAllocs} \subseteq Nat
  /\ StringLens \subseteq Nat

VARIABLES
  call,  \* the allocating function that is running, with its arguments
  ids    \* cur_id: the number of objects allocated

mutatorVars == <<gcVars, call, ids>>

Number == -1
CString == 0    \* a char * that is not in the heap
NoCall == [fn |-> "none", pops |-> 0, kind |-> "STRING", len |-> 0]

Running == phase = "run"

Globals == GlobalStart .. (GlobalStop - 1)
Operands == (top + 1) .. (StackBottom - 1)
Depth == StackBottom - 1 - top
Room(n) == Depth + n <= MaxDepth

-----------------------------------------------------------------------------
(* Instructions that do not allocate                                        *)

\* The n topmost operands are replaced by the values vs, the new top one first.
Replace(w, n, vs) ==
  /\ top' = top + n - Len(vs)
  /\ word' = [a \in Words |-> IF a \in top + n - Len(vs) + 1 .. top + n
                                THEN vs[a - (top + n - Len(vs))]
                                ELSE w[a]]

UnchangedHeap == UNCHANGED <<heap, extra, markVars, compactVars, phase, it, fld, need>>

\* CONST and the results of arithmetic.
PushNumber == Running /\ Room(1) /\ Replace(word, 0, <<Number>>) /\ UNCHANGED mem /\ UnchangedHeap

Dup  == /\ Running /\ Depth > 0 /\ Room(1)
        /\ Replace(word, 0, <<word[top + 1]>>) /\ UNCHANGED mem /\ UnchangedHeap
Drop == /\ Running /\ Depth > 0
        /\ Replace(word, 1, <<>>) /\ UNCHANGED mem /\ UnchangedHeap

\* LD_Global, ST_Global and LDA_Global
Load(g) == /\ Running /\ Room(1)
           /\ Replace(word, 0, <<word[g]>>) /\ UNCHANGED mem /\ UnchangedHeap
Store(g) == /\ Running /\ Depth > 0
            /\ word' = [word EXCEPT ![g] = word[top + 1]]
            /\ UNCHANGED <<top, mem>> /\ UnchangedHeap
LoadAddress(g) == /\ Running /\ Room(2)
                  /\ Replace(word, 0, <<g, g>>) /\ UNCHANGED mem /\ UnchangedHeap

\* What operands popped earlier have left where the locals will be, and what
\* beginFunction fills these words with.
StaleLocals(n) == [i \in 1..n |-> word[top - n + i]]

InitialLocals(n) == [i \in 1..n |-> Number]

\* BEGIN with n locals.
Locals(n) == /\ Running /\ Room(n)
             /\ Replace(word, 0, InitialLocals(n)) /\ UNCHANGED mem /\ UnchangedHeap

\* ELEM: Belem of the container below the index.
Elem(i) ==
  /\ Running /\ Depth >= 2
  /\ word[top + 1] = Number /\ IsValidHeapPointer(word[top + 2])
  /\ LET h == HeaderOf(word[top + 2]) IN
       Reading({h}, /\ i \in DOMAIN mem[h].fields
                    /\ Replace(word, 2, <<mem[h].fields[i]>>) /\ UNCHANGED mem /\ UnchangedHeap)

\* Belem of a string: a character, or the zero that ends it.
ElemChar ==
  /\ Running /\ Depth >= 2
  /\ word[top + 1] = Number /\ IsValidHeapPointer(word[top + 2])
  /\ LET h == HeaderOf(word[top + 2]) IN
       Reading({h}, /\ mem[h].kind = "STRING"
                    /\ Replace(word, 2, <<Number>>) /\ UNCHANGED mem /\ UnchangedHeap)

\* STA: Bsta of value, index and container, when the index is a number ...
StoreElem(i) ==
  /\ Running /\ Depth >= 3
  /\ word[top + 2] = Number /\ IsValidHeapPointer(word[top + 3])
  /\ LET h == HeaderOf(word[top + 3]) IN
       Reading({h}, /\ i \in DOMAIN mem[h].fields
                    /\ mem' = [mem EXCEPT ![h].fields[i] = word[top + 1]]
                    /\ Replace(word, 3, <<word[top + 1]>>) /\ UnchangedHeap)

\* ... of a string, whose characters are not kept here ...
StoreChar ==
  /\ Running /\ Depth >= 3
  /\ word[top + 2] = Number /\ IsValidHeapPointer(word[top + 3])
  /\ LET h == HeaderOf(word[top + 3]) IN
       Reading({h}, /\ mem[h].kind = "STRING" /\ mem[h].len > 0
                    /\ Replace(word, 3, <<word[top + 1]>>) /\ UNCHANGED mem /\ UnchangedHeap)

\* ... and when it is not, where the container is the address of a variable; and a Bsta
\* that took every container for an object.
StoreAtObject(g) ==
  /\ Running /\ Depth >= 3
  /\ ~IsUnboxed(word[top + 2]) /\ word[top + 3] = g
  /\ Reading({HeaderOf(g)}, Replace(word, 3, <<word[top + 1]>>) /\ UNCHANGED mem /\ UnchangedHeap)

StoreAt(g) ==
  /\ Running /\ Depth >= 3
  /\ ~IsUnboxed(word[top + 2]) /\ word[top + 3] = g
  /\ Replace([word EXCEPT ![g] = word[top + 1]], 3, <<word[top + 1]>>)
  /\ UNCHANGED mem /\ UnchangedHeap

\* Belem and Bsta compare no index with a length, and read a header before any word that
\* is no number; Bsta writes through whatever it is given where it expects the address
\* of a variable.
OutOfRange ==
  /\ Running
  /\ \/ Depth >= 2 /\ word[top + 1] = Number /\ ~IsUnboxed(word[top + 2])
     \/ Depth >= 3 /\ word[top + 2] = Number /\ ~IsUnboxed(word[top + 3])
     \/ Depth >= 3 /\ ~IsUnboxed(word[top + 2]) /\ word[top + 3] \notin Globals
  /\ phase' = "astray"
  /\ UNCHANGED <<heapVars, markVars, compactVars, it, fld, need, call, ids>>

-----------------------------------------------------------------------------
(* Allocating instructions, up to the call of alloc()                       *)

\* The functions that the interpreter calls to allocate.
Allocators == {"Bstring", "Lstring", "Barray", "Bsexp", "Bclosure"}

\* The runtime function fn will allocate an object and return it, and the
\* interpreter will pop its operands.
Request(fn, kind, len, pops, roots) ==
  /\ Running /\ ids < MaxAllocs
  /\ IF Len(roots) > MaxExtraRoots
       THEN phase' = "exit" /\ UNCHANGED <<extra, call, need>>
       ELSE /\ phase' = "request"
            /\ extra' = roots
            /\ call' = [fn |-> fn, pops |-> pops, kind |-> kind, len |-> len]
            /\ need' = SizeWords(kind, len)
  /\ UNCHANGED <<mem, heap, markVars, compactVars, it, fld, ids>>

\* STRING: Bstring registers its parameter, a pointer into the bytecode.
CallString(len) ==
  /\ Room(1)
  /\ Request("Bstring", "STRING", len, 0, <<LocalQ>>)
  /\ word' = [word EXCEPT ![LocalQ] = CString] /\ UNCHANGED top

\* CALL_Lstring: the value is popped before Lstring registers it; Bstring
\* registers the pointer to the buffer the value was rendered into.
CallLstring(len) ==
  /\ Depth > 0
  /\ Request("Lstring", "STRING", len, 0, <<LocalP, LocalQ>>)
  /\ word' = [word EXCEPT ![LocalP] = word[top + 1], ![LocalQ] = CString]
  /\ top' = top + 1

\* CALL_Barray: std::reverse of the operands, which Barray leaves to the scan
\* of the stack.
CallArray(n) ==
  /\ n <= Depth /\ Room(1 - n)
  /\ Request("Barray", "ARRAY", n, n, <<>>)
  /\ Replace(word, n, [i \in 1..n |-> word[top + n + 1 - i]])

\* What SEXP pops when Bsexp has returned: the operands, and the tag as well.
SexpPops(n) == n + 1

\* SEXP: reversed, and moved down a word to make room for the tag.
CallSexp(n) ==
  /\ n <= Depth /\ Room(1)
  /\ Request("Bsexp", "SEXP", n, SexpPops(n), <<>>)
  /\ Replace(word, n, [i \in 1..(n + 1) |-> IF i <= n THEN word[top + n + 1 - i] ELSE Number])

\* CLOSURE: the captured values are copied to the stack.  Bclosure registers n
\* words, which are not those: they are ArgssOffset above the top.
Capture(values) ==
  LET n == Len(values) IN
    /\ Room(n + 1)
    /\ Replace(word, 0, values)
    /\ Request("Bclosure", "CLOSURE", n + 1, n,
               [i \in 1..n |-> top - n + ArgssOffset + i - 1])

CallClosure(n) ==
  \E vars \in [1..n -> Operands \cup Globals] : Capture([i \in 1..n |-> word[vars[i]]])

-----------------------------------------------------------------------------
(* alloc() and its return                                                   *)

\* gc_alloc_on_existing_heap
Fits == heap.current + need <= heap.begin + heap.size

\* Barray, Bsexp and Bclosure read their arguments from the stack after the
\* allocation.
Arguments(n) == [i \in 1..n |-> word[top + i]]

ObjectWith(fields) ==
  [kind |-> call.kind, len |-> call.len, fields |-> fields,
   fwd |-> 0, mark |-> FALSE, enq |-> FALSE, id |-> ids + 1]

NewObject == ObjectWith(Arguments(FieldCount(call.kind, call.len)))

\* The object is initialised as o, the roots are popped and the result is pushed.
\* The locals of the runtime function are dead.
FinishWith(o) ==
  /\ mem' = [h \in DOMAIN mem \cup {heap.current} |-> IF h = heap.current THEN o ELSE mem[h]]
  /\ heap' = [heap EXCEPT !.current = @ + need]
  /\ extra' = <<>>
  /\ Replace([word EXCEPT ![LocalP] = Number, ![LocalQ] = Number],
             call.pops, <<ContentOf(heap.current)>>)
  /\ ids' = ids + 1 /\ call' = NoCall
  /\ phase' = "run" /\ old' = heap' /\ it' = 0 /\ need' = 0 /\ live' = 0
  /\ qHead' = 0 /\ qTail' = 0 /\ fld' = 1 /\ UNCHANGED obj

Finish == FinishWith(NewObject)

\* push_extra_root finds the pool full, writes an error message and exits.
PoolOverflow ==
  /\ phase' = "exit"
  /\ UNCHANGED <<heapVars, markVars, compactVars, it, fld, need, call, ids>>

\* Bclosure registers one more word, the new closure, before it returns.
Return ==
  IF call.fn = "Bclosure" /\ Len(extra) = MaxExtraRoots THEN PoolOverflow ELSE Finish

\* The allocation, and A after it, when there is room for it ...
AtOnce(A) == phase = "request" /\ Fits /\ A

StartCollection ==
  /\ phase = "request" /\ ~Fits
  /\ phase' = "scanStack" /\ it' = top + 1
  /\ qHead' = heap.begin /\ qTail' = heap.begin
  /\ UNCHANGED <<heapVars, obj, compactVars, fld, need, call, ids>>

\* ... and when a collection has made room: gc_alloc returns what
\* gc_alloc_on_existing_heap does; a NULL is dereferenced.
AfterCollection(A) ==
  /\ phase = "alloc"
  /\ IF Fits THEN A
     ELSE /\ phase' = "crash"
          /\ UNCHANGED <<heapVars, markVars, compactVars, it, fld, need, call, ids>>

AllocateAtOnce == AtOnce(Return)

AllocateAfterCollection == AfterCollection(Return)

-----------------------------------------------------------------------------
Simple ==
  /\ \/ PushNumber \/ Dup \/ Drop
     \/ \E g \in Globals : Load(g) \/ Store(g) \/ LoadAddress(g) \/ StoreAt(g)
     \/ \E n \in 1..MaxLocals : Locals(n)
     \/ ElemChar \/ StoreChar
     \/ \E i \in 1..MaxLen : Elem(i) \/ StoreElem(i)
  /\ UNCHANGED <<call, ids>>

Allocating ==
  \/ \E len \in StringLens : CallString(len) \/ CallLstring(len)
  \/ \E n \in 0..MaxLen : CallArray(n) \/ CallSexp(n) \/ CallClosure(n)

Collect == (MarkNext \/ CompactNext) /\ UNCHANGED <<call, ids>>

Runtime == AllocateAtOnce \/ StartCollection \/ AllocateAfterCollection \/ Collect

\* __init, and the global area and the stack filled with numbers.
MutatorInit ==
  /\ \E i \in Images : mem = i.mem /\ heap = i.heap /\ word = i.word /\ top = i.top
                       /\ extra = i.extra /\ old = i.heap
  /\ phase = "run" /\ it = 0 /\ qHead = 0 /\ qTail = 0 /\ obj = NoObj /\ fld = 1
  /\ live = 0 /\ need = 0 /\ call = NoCall /\ ids = 0

MutatorNext == Simple \/ Allocating \/ Runtime \/ OutOfRange

\* The program may stop at any instruction; a call of the runtime goes on.
MutatorSpec == MutatorInit /\ [][MutatorNext]_mutatorVars /\ WF_mutatorVars(Runtime)

=============================================================================
