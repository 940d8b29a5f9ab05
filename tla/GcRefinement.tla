---------------------------- MODULE GcRefinement ----------------------------
(***************************************************************************)
(* GcMutator implements ObjectGraph.  Addresses are forgotten, garbage is  *)
(* forgotten, and a call of the runtime takes effect when it returns:      *)
(* until then the abstract state is the view of the memory that the        *)
(* instruction started from, kept in the history variable view.  Another   *)
(* one, snapshot, is the dump that GcCollect takes of a collection.        *)
(***************************************************************************)
EXTENDS GcMutator, GcCollect

\* What __init, and the interpreter before the first instruction, give the program: an
\* empty heap above the data segment, where mremap finds it room as well, an empty
\* stack, and words that hold numbers.  The virtual stack has room for MaxDepth
\* operands, and for the words above its bottom that Bclosure registers when there
\* are none.
ASSUME ProgramAssumption ==
  /\ \A i \in Images : /\ DOMAIN i.mem = {} /\ \A a \in Words : i.word[a] = Number
                      /\ i.top = StackBottom - 1 /\ i.extra = <<>>
  /\ \A b \in Bases \cup {i.heap.begin : i \in Images} : GlobalStop <= b
  /\ MaxDepth < StackBottom
  /\ (StackBottom - MaxDepth) .. (StackBottom + ArgssOffset - 2) \subseteq Words
  /\ StackBottom + ArgssOffset - 2 < GlobalStart

VARIABLE view

View ==
  [store |-> [id \in {mem[h].id : h \in Reachable} |->
                LET h == CHOOSE g \in Reachable : mem[g].id = id IN
                  [kind |-> mem[h].kind, len |-> mem[h].len,
                   fields |-> [i \in DOMAIN mem[h].fields |-> Denotes(mem[h].fields[i])]]],
   stack |-> [i \in 1..Depth |-> Denotes(word[top + i])],
   globals |-> [g \in Globals |-> Denotes(word[g])]]

RefinementInit == MutatorInit /\ view = View /\ snapshot = <<>>

\* What the history variables are after a step.
Recorded ==
  IF phase' = "run"
    THEN view' = View' /\ snapshot' = <<>>
    ELSE view' = view /\ snapshot' = DumpAfterMarking

RefinementNext == MutatorNext /\ Recorded

refinementVars == <<mutatorVars, view, snapshot>>

RefinementSpec ==
  RefinementInit /\ [][RefinementNext]_refinementVars /\ WF_refinementVars(Runtime /\ RefinementNext)

Graph == INSTANCE ObjectGraph WITH
  Ids <- 1..MaxAllocs, store <- view.store, stack <- view.stack, globals <- view.globals

-----------------------------------------------------------------------------
(* Properties                                                               *)

\* As long as its indices, and the sizes it asks for, are in range, a program leads
\* neither the collector nor Belem, Bsta or a function that allocates to read a header
\* where there is none, nor such a function to use a NULL.
MutatorNoCrash == phase # "crash"

\* Every allocation is requested in a heap that a collection may start from: the
\* words popped, moved, reversed or left on the stack by the instruction before
\* alloc() is called are no stale pointers, and what is registered is fixed once.
RequestsWellFormed ==
  phase = "request" =>
    WellFormed([mem |-> mem, heap |-> heap, word |-> word, top |-> top,
                extra |-> extra, need |-> need])

\* Whatever collections happen where, the program computes with the values it
\* would have in a memory without a collector.
ImplementsObjectGraph == Graph!Spec

\* A call of the runtime returns or the process exits.
CallsReturn == (phase = "request") ~> (phase \in {"run", "exit"})

-----------------------------------------------------------------------------
(* The inductive invariant from which MutatorNoCrash and RequestsWellFormed *)
(* follow.                                                                  *)

Between == {"run", "request"}
Collecting == Scanning \cup Compacting \cup {"alloc"}

\* A value of the program: a number, an address of the data segment, or the address
\* of an object's content.
Sound(v) == v < GlobalStop \/ HeaderOf(v) \in DOMAIN mem

\* The words from the bottom of the virtual stack on that Bclosure may register.
Spare == {StackBottom} \cup StackBottom .. (StackBottom + ArgssOffset - 2)

FieldsSound == \A h \in DOMAIN mem : \A i \in DOMAIN mem[h].fields : Sound(mem[h].fields[i])
WordsSound(w, A) == \A a \in A : Sound(w[a])
SpareUnboxed(w) == \A a \in Spare : IsUnboxed(w[a])

\* What holds in every phase.
ProcessInv ==
  /\ word \in [Words -> Int] /\ ids \in Nat
  /\ top \in Nat /\ top < StackBottom /\ RootWords(top, <<>>) \subseteq Words
  /\ heap \in [begin : Nat, current : Nat, size : Nat] /\ GlobalStop <= heap.begin

\* A heap that a collection may start from.
HeapConsistent ==
  /\ IsFiniteSet(DOMAIN mem) /\ DOMAIN mem \subseteq Nat
  /\ mem \in [DOMAIN mem -> Object]
  /\ \A h \in DOMAIN mem : SizeWords(mem[h].kind, mem[h].len) > 0
  /\ Walkable(mem, heap.begin, heap.current) /\ Clean(mem)
  /\ heap.current <= heap.begin + heap.size
  /\ FieldsSound /\ WordsSound(word, RootWords(top, <<>>)) /\ SpareUnboxed(word)

\* The call that is running: there is room for its result, and the operands it reads
\* are there.
CallInv ==
  /\ call.kind \in Kinds /\ call.len \in Nat /\ call.pops \in Nat
  /\ need = SizeWords(call.kind, call.len) /\ need > 0
  /\ call.pops <= Depth /\ top + call.pops >= 1
  /\ (top + call.pops) .. (StackBottom - 1) \subseteq Words
  /\ call.fn \in Allocators => FieldCount(call.kind, call.len) \in 0 .. call.pops

RootsInv ==
  /\ extra \in Seq(Words)
  /\ \A i, j \in DOMAIN extra : extra[i] = extra[j] => i = j
  /\ \A i \in DOMAIN extra : extra[i] \notin {top, GlobalStop}
  /\ WordsSound(word, RootWords(top, extra))

\* The dump tells numbers and addresses of the data segment from objects.
SoundDenotation(d) == d[1] = "word" => d[2] < GlobalStop

DumpSound ==
  /\ \A a \in RootWords(top, extra) : SoundDenotation(snapshot.roots[a])
  /\ \A r \in snapshot.objects : \A i \in DOMAIN r.fields : SoundDenotation(r.fields[i])
  /\ \A a \in Spare :
       IF a \in RootWords(top, extra)
         THEN snapshot.roots[a][1] = "word" /\ snapshot.roots[a][2] < 0
         ELSE IsUnboxed(snapshot.others[a])

MutatorInv ==
  /\ phase \in Between \cup Collecting \cup {"exit", "astray"}
  /\ phase # "exit" => ProcessInv
  /\ phase \in Between => HeapConsistent /\ old = heap /\ live = 0 /\ obj = NoObj /\ fld = 1
  /\ phase = "request" => RootsInv
  /\ phase \in Collecting => CollectInv
  /\ phase \in Collecting \cup {"request"} => CallInv
  /\ phase \in Scanning => FieldsSound /\ WordsSound(word, RootWords(top, extra)) /\ SpareUnboxed(word)
  /\ phase \in Compacting \cup {"alloc"} => DumpSound /\ obj = NoObj

\* The same of a program that calls no library functions.
ProgramInv ==
  MutatorInv /\ (phase \in Collecting \cup {"request"} => call.fn \in Allocators)

-----------------------------------------------------------------------------
(* The inductive invariant from which ImplementsObjectGraph follows.        *)

\* The objects and the words as the dump of the collection describes them once the
\* marking is over, and as they are before.
Latest == IF phase \in Between \cup Scanning THEN Dump(DOMAIN mem) ELSE snapshot

\* Every object has an identity of its own, and none that is still to come.
Identified(D) ==
  /\ \A r \in D.objects : r.id \in 1..ids
  /\ \A q, r \in D.objects : q.id = r.id => q = r

\* The objects of a dump, garbage included, as a store.
StoreOf(D) ==
  [id \in {r.id : r \in D.objects} |->
     LET r == CHOOSE q \in D.objects : q.id = id IN
       [kind |-> r.kind, len |-> r.len, fields |-> r.fields]]

RootValues(D) == {D.roots[a] : a \in RootWords(top, extra)}

\* What the instruction that makes the call requests, and what it will pop.
CallKnown ==
  /\ ids < MaxAllocs
  /\ call.fn \in {"Bstring", "Lstring"} =>
       call.kind = "STRING" /\ call.len \in StringLens /\ call.pops = 0
  /\ call.fn = "Barray" => call.kind = "ARRAY" /\ call.len \in 0..MaxLen /\ call.pops = call.len
  /\ call.fn = "Bsexp" => call.kind = "SEXP" /\ call.len \in 0..MaxLen /\ call.pops = call.len + 1
  /\ call.fn = "Bclosure" =>
       call.kind = "CLOSURE" /\ call.len \in 1..(MaxLen + 1) /\ call.pops = call.len - 1

\* The arguments of the call, in the order of the fields that they will be, and the
\* operands that stay on the stack when it returns.
ArgumentsOf(D) == [i \in 1 .. FieldCount(call.kind, call.len) |-> D.roots[top + i]]
Remaining(D) == [i \in 1 .. (Depth - call.pops) |-> D.roots[top + call.pops + i]]

\* What Lstring and the functions of the library have popped: their parameters, which
\* LmakeArray has read by then.
Popped(D) ==
  CASE call.fn \in {"Lstring", "Lclone", "Lsubstring"} -> <<D.roots[LocalP]>>
    [] call.fn = "Li__Infix_4343" -> <<D.roots[LocalQ], D.roots[LocalP]>>
    [] call.fn = "LmakeArray" -> <<Graph!Number>>
    [] OTHER -> <<>>

\* The operands before the instruction: Barray and Bsexp have them reversed below the
\* rest of the stack, and Bclosure was given copies.
OperandsBefore(D) ==
  LET args == ArgumentsOf(D) n == Len(args) IN
    IF call.fn \in {"Barray", "Bsexp"} THEN [i \in 1..n |-> args[n + 1 - i]] ELSE Popped(D)

\* What the program had when the instruction that is running began.
ViewKept(D) ==
  /\ view = [store |-> Graph!Retained(StoreOf(D), RootValues(D)),
             stack |-> OperandsBefore(D) \o Remaining(D),
             globals |-> [g \in Globals |-> D.roots[g]]]
  /\ call.fn = "Bclosure" =>
       \A i \in DOMAIN ArgumentsOf(D) :
         \/ \E j \in DOMAIN view.stack : ArgumentsOf(D)[i] = view.stack[j]
         \/ \E g \in Globals : ArgumentsOf(D)[i] = view.globals[g]
  /\ call.fn = "Lclone" /\ call.kind = "STRING" => D.roots[LocalQ] = D.roots[LocalP]

\* Through a collection, whatever has been reversed, copied to the top of the stack or
\* moved to parameters of the runtime for it, what the running instruction found on the
\* stack and in the globals can be read off the memory: the same objects, by identity, with
\* the same fields, in the same order.
GraphInv ==
  /\ phase \notin {"exit", "astray"} => Identified(Latest)
  /\ phase = "run" => extra = <<>> /\ view = View
  /\ phase \in Collecting \cup {"request"} => CallKnown /\ ViewKept(Latest)

=============================================================================
