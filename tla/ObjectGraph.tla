----------------------------- MODULE ObjectGraph -----------------------------
(***************************************************************************)
(* What the memory management of runtime/ promises to the interpreter: a   *)
(* stack of values, global variables and a graph of objects, in a memory   *)
(* without addresses, sizes or collections.                                *)
(*                                                                         *)
(* A value is <<"object", id>>, or <<"word", w>> for a number or for the   *)
(* address of a global variable.  Objects that nothing can reach any more  *)
(* are forgotten at once.                                                  *)
(***************************************************************************)
EXTENDS ObjectStore

CONSTANTS
  Ids,       \* identities for objects
  Globals,   \* addresses of the global variables
  MaxLen,    \* the most fields of an object
  MaxLocals, \* the most locals of a function
  StringLens \* lengths of strings

VARIABLES
  store,     \* id |-> [kind, len, fields], for every reachable object
  stack,     \* the operands, the top one first
  globals    \* [Globals -> values]

graphVars == <<store, stack, globals>>

Number == <<"word", -1>>
Address(g) == <<"word", g>>

\* The new state, without what has become garbage.
Become(s, st, gl) ==
  LET roots == {st[i] : i \in DOMAIN st} \cup {gl[g] : g \in Globals} IN
    /\ store' = Retained(s, roots)
    /\ stack' = st
    /\ globals' = gl

Push(v) == Become(store, <<v>> \o stack, globals)
Pop(n) == SubSeq(stack, n + 1, Len(stack))

Init ==
  /\ store = [id \in {} |-> {}]
  /\ stack = <<>>
  /\ globals = [g \in Globals |-> Number]

PushNumber == Push(Number)
Dup  == stack # <<>> /\ Push(Head(stack))
Drop == stack # <<>> /\ Become(store, Tail(stack), globals)

Load(g)  == Push(globals[g])
Store(g) == stack # <<>> /\ Become(store, stack, [globals EXCEPT ![g] = Head(stack)])
LoadAddress(g) == Become(store, <<Address(g), Address(g)>> \o stack, globals)

\* The locals of a function are numbers until it assigns them.
Locals(n) == Become(store, [i \in 1..n |-> Number] \o stack, globals)

\* An object made of the n topmost operands, the topmost being its last field.
Collect(kind, n, id) ==
  /\ n <= Len(stack)
  /\ LET new == [kind |-> kind, len |-> n, fields |-> [i \in 1..n |-> stack[n + 1 - i]]] IN
       Become(WithObject(store, id, new), <<Reference(id)>> \o Pop(n), globals)

\* A closure over n variables, operands or globals.
Close(n, id) ==
  \E vars \in [1..n -> {stack[i] : i \in DOMAIN stack} \cup {globals[g] : g \in Globals}] :
    LET new == [kind |-> "CLOSURE", len |-> n + 1, fields |-> vars] IN
      Become(WithObject(store, id, new), <<Reference(id)>> \o stack, globals)

\* A string: a literal, or what the topmost operand is rendered to.
Literal(n, len, id) ==
  /\ n <= Len(stack)
  /\ LET new == [kind |-> "STRING", len |-> len, fields |-> <<>>] IN
       Become(WithObject(store, id, new), <<Reference(id)>> \o Pop(n), globals)

\* Operands: index, container.
GetField(id, i) ==
  /\ Len(stack) >= 2 /\ stack[2] = Reference(id) /\ i \in DOMAIN store[id].fields
  /\ Become(store, <<store[id].fields[i]>> \o Pop(2), globals)

\* Operands: value, index, container.
SetField(id, i) ==
  /\ Len(stack) >= 3 /\ stack[3] = Reference(id) /\ i \in DOMAIN store[id].fields
  /\ Become([store EXCEPT ![id].fields[i] = stack[1]], <<stack[1]>> \o Pop(3), globals)

\* The same of a string, whose characters are not kept here.
GetChar(id) ==
  /\ Len(stack) >= 2 /\ stack[2] = Reference(id) /\ store[id].kind = "STRING"
  /\ Become(store, <<Number>> \o Pop(2), globals)

SetChar(id) ==
  /\ Len(stack) >= 3 /\ stack[3] = Reference(id)
  /\ store[id].kind = "STRING" /\ store[id].len > 0
  /\ Become(store, <<stack[1]>> \o Pop(3), globals)

SetGlobal(g) ==
  /\ Len(stack) >= 3 /\ stack[3] = Address(g)
  /\ Become(store, <<stack[1]>> \o Pop(3), [globals EXCEPT ![g] = stack[1]])

Next ==
  \/ PushNumber \/ Dup \/ Drop
  \/ \E g \in Globals : Load(g) \/ Store(g) \/ LoadAddress(g) \/ SetGlobal(g)
  \/ \E n \in 1..MaxLocals : Locals(n)
  \/ \E id \in Ids \ DOMAIN store :
       \/ \E n \in 0..MaxLen : Collect("ARRAY", n, id) \/ Collect("SEXP", n, id) \/ Close(n, id)
       \/ \E n \in 0..1, len \in StringLens : Literal(n, len, id)
  \/ \E id \in DOMAIN store :
       \/ GetChar(id) \/ SetChar(id)
       \/ \E i \in DOMAIN store[id].fields : GetField(id, i) \/ SetField(id, i)

Spec == Init /\ [][Next]_graphVars

=============================================================================
