--------------------------- MODULE LamaRefinement ---------------------------
(***************************************************************************)
(* LamaMachine implements LamaSemantics: what the frames delimit in the    *)
(* virtual stack, the global area and the reachable objects of the heap    *)
(* are activations, globals and a store, whatever collections happen where.*)
(*                                                                         *)
(* As in GcRefinement, a history variable keeps the abstract state that an *)
(* allocating instruction has started from until it has finished.          *)
(***************************************************************************)
EXTENDS LamaMachine

VARIABLE view

\* The frames of all activations, the running one last.
Frames == Append(frameStack, [frame EXCEPT !.top = top])

LocalPlaces(k) == [i \in 1..Frames[k].nlocals |-> Frames[k].base - i]
ArgPlaces(k)   == [i \in 1..Frames[k].nargs |-> Frames[k].base + Frames[k].nargs - i]

\* What the address of a word that holds a variable denotes.
VariablesAt(a) ==
  {<<"variable", "Global", a - GlobalStart, 0>> : g \in {x \in Globals : x = a}}
    \cup UNION {{<<"variable", "Local", i - 1, k>> : i \in {j \in DOMAIN LocalPlaces(k) : LocalPlaces(k)[j] = a}}
                : k \in DOMAIN Frames}
    \cup UNION {{<<"variable", "Arg", i - 1, k>> : i \in {j \in DOMAIN ArgPlaces(k) : ArgPlaces(k)[j] = a}}
                : k \in DOMAIN Frames}

Meaning(v) ==
  CASE IsUnboxed(v)        -> <<"number", NumberOf(v)>>
    [] IsRef(v)            -> <<"object", Referred(v).id>>
    [] VariablesAt(v) # {} -> CHOOSE p \in VariablesAt(v) : TRUE
    [] FieldsAt(v) # {}    -> LET f == CHOOSE g \in FieldsAt(v) : TRUE IN
                                <<"slot", mem[f[1]].id, f[2]>>
    [] OTHER               -> <<"word", v>>

Meanings(places) == [i \in DOMAIN places |-> Meaning(word[places[i]])]

\* A frame does not record whether its function was called as a closure; what its
\* caller has left on the stack tells.
Activation(k) ==
  LET f == Frames[k]
      above == f.base + f.nargs
  IN [args    |-> Meanings(ArgPlaces(k)),
      closure |-> IF k = 1 \/ Frames[k - 1].top < above THEN <<>> ELSE Meanings(<<above>>),
      locals  |-> Meanings(LocalPlaces(k)),
      ops     |-> Meanings([i \in 1..(f.operandStackBase - f.top - 1) |-> f.top + i]),
      ret     |-> f.returnAddress]

View ==
  [store |-> [id \in {mem[h].id : h \in Reachable} |->
                LET o == mem[CHOOSE g \in Reachable : mem[g].id = id] IN
                  [kind |-> o.kind, len |-> o.len, label |-> label[id],
                   fields |-> [i \in DOMAIN o.fields |-> Meaning(o.fields[i])]]],
   acts    |-> [k \in DOMAIN Frames |-> Activation(k)],
   globals |-> [i \in {g - GlobalStart : g \in Globals} |-> Meaning(word[GlobalStart + i])],
   next    |-> [ret |-> next.returnAddress, isClosure |-> next.isClosure],
   pc      |-> ip,
   status  |-> phase]

\* The view after a step of the machine.
ViewAfter ==
  IF phase' \in {"run", "done"} THEN View'
  ELSE IF phase' \in Final THEN [view EXCEPT !.status = phase']
  ELSE view

RefinementInit == MachineInit /\ view = View

RefinementNext == MachineNext /\ view' = ViewAfter

refinementVars == <<machineVars, view>>

\* The interpreter's loop runs until the process ends.
RefinementSpec ==
  RefinementInit /\ [][RefinementNext]_refinementVars /\ WF_refinementVars(RefinementNext)

Semantics == INSTANCE LamaSemantics WITH
  Ids <- 1..MaxAllocs, GlobalIndices <- {g - GlobalStart : g \in Globals},
  MaxFrames <- FrameStackSize, pc <- view.pc, acts <- view.acts, next <- view.next,
  store <- view.store, globals <- view.globals, status <- view.status

-----------------------------------------------------------------------------
(* Properties                                                               *)

\* The program computes what bytecode means, on a machine where activations share
\* one array and objects move: calls and returns, variables of every designation,
\* closures with what they have captured, containers and patterns.
ImplementsLamaSemantics == Semantics!Spec

\* A program that ends does so on this machine: nothing that the collector or
\* the frames do makes the interpreter or the runtime run for ever.
ProgramsEnd == <>(phase \in Final)

\* Where LD_Access and ST_Access look for the closure in the running frame is a
\* closure whose code is being executed: it was called with as many arguments as
\* the function has parameters, and END and collections have kept it there.
ClosureIsCalled ==
  \A k \in 2..Len(Frames) :
    LET above == Frames[k].base + Frames[k].nargs IN
      phase = "run" /\ Frames[k - 1].top = above =>
        IsRef(word[above]) /\ Referred(word[above]).kind = "CLOSURE"

-----------------------------------------------------------------------------
(* What comments and assertions of the runtime say of this machine          *)

\* "Queue contains only objects that are valid heap pointers (each corresponding to
\* content of unmarked object)": mark() gets no root in the heap that is not the
\* address of the content of an object.
RootsAreContents ==
  phase \in Scanning =>
    \A a \in RootWords(top, extra) : IsValidHeapPointer(word[a]) => IsRef(word[a])

\* ASSERT_STRING(".string_patt:2", y): the second parameter of Bstring_patt is a
\* string, whatever value is matched, when code pushes the value and then the literal.
StringPattLiteral ==
  At("PATT_STRCMP") =>
    LET y == StringPattArguments[2] IN IsRef(y) /\ Referred(y).kind = "STRING"

=============================================================================
