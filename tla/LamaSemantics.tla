---------------------------- MODULE LamaSemantics ----------------------------
(***************************************************************************)
(* What Lama bytecode means: activations with arguments, a closure, locals *)
(* and operands; global variables; a graph of objects.  There are no       *)
(* addresses, no frames on a shared stack, no collections.                 *)
(*                                                                         *)
(* An instruction is a record with the fields op, n, m, to, name, var and  *)
(* vars, of which each opcode uses some; a variable is <<designation,      *)
(* index>>.  A value is one of                                             *)
(*   <<"number", k>>, <<"object", id>>, <<"word", 0>>,                     *)
(*   <<"variable", designation, index, k>>, variable of the k-th activation*)
(*   <<"slot", id, i>>, the i-th captured variable of a closure.           *)
(*                                                                         *)
(* Code that reads what is not there - a variable captured by no closure,  *)
(* an element out of range, an entry point in no closure - has no meaning: *)
(* status "crash".                                                         *)
(***************************************************************************)
EXTENDS ObjectStore, LamaNumbers

CONSTANTS
  Programs,       \* sequences of instructions
  Ids,            \* identities for objects
  GlobalIndices,  \* the declared global variables
  MaxFrames,      \* FRAME_STACK_SIZE
  Inputs,         \* numbers that Lread may read
  Filler,         \* the number in a local that has not been assigned
  Chars,          \* codes of characters
  TextLens        \* lengths of the texts that values are rendered to

VARIABLES
  code,     \* the program
  pc,       \* the next instruction
  acts,     \* the activations, the running one last
  next,     \* the last call: where it returns to, and whether to a closure
  store,    \* id |-> [kind, len, fields, label]
  globals,
  status    \* "run", "done", "error", "exit" (no memory) or "crash"

semanticsVars == <<code, pc, acts, next, store, globals, status>>

Num(k) == <<"number", ToNumber(k)>>
IsNumber(v) == v[1] = "number"
IsRef(v) == v[1] = "object"
HasKind(v, kind) == IsRef(v) /\ store[v[2]].kind = kind

\* A string whose characters are not followed: rendered or assigned to.
Text == "text"

Ins == code[pc]
Depth == Len(acts)
Current == acts[Depth]
Ops == Current.ops     \* the top one first
Below(n) == SubSeq(Ops, n + 1, Len(Ops))

ActivationValues(a) ==
  UNION {{s[i] : i \in DOMAIN s} : s \in {a.args, a.closure, a.locals, a.ops}}

Roots(as, gl) == UNION {ActivationValues(as[k]) : k \in DOMAIN as} \cup {gl[g] : g \in GlobalIndices}

-----------------------------------------------------------------------------
At(op) == status = "run" /\ pc \in DOMAIN code /\ Ins.op = op

Stop(s) == status' = s /\ UNCHANGED <<code, pc, acts, next, store, globals>>

Needs(n, A) == IF Len(Ops) < n THEN Stop("error") ELSE A

\* The instruction ends with these activations, store and globals.
Become(as, st, gl) ==
  /\ acts' = as /\ globals' = gl /\ store' = Retained(st, Roots(as, gl))
  /\ pc' = pc + 1 /\ UNCHANGED <<code, next, status>>

WithOps(s) == [acts EXCEPT ![Depth].ops = s]

Replace(n, vs) == Become(WithOps(vs \o Below(n)), store, globals)

\* n operands are replaced by a new object, or there is no memory.
Create(n, kind, len, fields, label) ==
  \/ Stop("exit")
  \/ \E id \in Ids \ DOMAIN store :
       Become(WithOps(<<Reference(id)>> \o Below(n)),
              WithObject(store, id, [kind |-> kind, len |-> len,
                                     fields |-> fields, label |-> label]),
              globals)

LastFirst(n) == [i \in 1..n |-> Ops[n + 1 - i]]

-----------------------------------------------------------------------------
(* Variables                                                                *)

\* accessVar throws on a local or an argument out of bounds.
Exists(var) ==
  CASE var[1] = "Local" -> var[2] < Len(Current.locals)
    [] var[1] = "Arg"   -> var[2] < Len(Current.args)
    [] OTHER            -> TRUE

\* The place of a variable.
Place(var) ==
  IF var[1] # "Access" THEN <<"variable", var[1], var[2], IF var[1] = "Global" THEN 0 ELSE Depth>>
  ELSE IF Current.closure # <<>> /\ IsRef(Current.closure[1])
         THEN <<"slot", Current.closure[1][2], var[2] + 1>>
         ELSE <<"word", 0>>

\* An array is the place of its first element.
ElementPlace(v) == IF HasKind(v, "ARRAY") THEN <<"slot", v[2], 1>> ELSE v

IsPlace(p) ==
  \/ p[1] = "variable" /\ (p[2] = "Global" => p[3] \in GlobalIndices)
  \/ p[1] = "slot" /\ p[3] \in DOMAIN store[p[2]].fields

Content(p) ==
  CASE p[1] = "slot"   -> store[p[2]].fields[p[3]]
    [] p[2] = "Global" -> globals[p[3]]
    [] p[2] = "Local"  -> acts[p[4]].locals[p[3] + 1]
    [] p[2] = "Arg"    -> acts[p[4]].args[p[3] + 1]

\* Assignment of v to place p by an instruction that leaves operands s.
Assign(p, v, s) ==
  LET as == WithOps(s) IN
    CASE p[1] = "slot"   -> Become(as, [store EXCEPT ![p[2]].fields[p[3]] = v], globals)
      [] p[2] = "Global" -> Become(as, store, [globals EXCEPT ![p[3]] = v])
      [] p[2] = "Local"  -> Become([as EXCEPT ![p[4]].locals[p[3] + 1] = v], store, globals)
      [] p[2] = "Arg"    -> Become([as EXCEPT ![p[4]].args[p[3] + 1] = v], store, globals)

Accessing(vars, A) ==
  IF \E i \in DOMAIN vars : ~Exists(vars[i]) THEN Stop("error")
  ELSE IF \E i \in DOMAIN vars : ~IsPlace(Place(vars[i])) THEN Stop("crash")
  ELSE A

Load  == At("LD")  /\ Accessing(<<Ins.var>>, Replace(0, <<Content(Place(Ins.var))>>))
LoadA == At("LDA") /\ Accessing(<<Ins.var>>, Replace(0, <<Place(Ins.var), Place(Ins.var)>>))
Store == At("ST")  /\ Needs(1, Accessing(<<Ins.var>>, Assign(Place(Ins.var), Ops[1], Ops)))

-----------------------------------------------------------------------------
(* Values                                                                   *)

Const == At("CONST") /\ Replace(0, <<Num(Ins.n)>>)
Drop  == At("DROP") /\ Needs(1, Replace(1, <<>>))
Dup   == At("DUP") /\ Needs(1, Replace(0, <<Ops[1]>>))
Skip  == At("LINE") /\ Replace(0, <<>>)

\* Any two values may be compared with "==".
Binop ==
  /\ At("BINOP")
  /\ Needs(2,
       IF Ins.name = "Eq" THEN Replace(2, <<Num(Truth(Ops[1] = Ops[2]))>>)
       ELSE IF ~IsNumber(Ops[1]) \/ ~IsNumber(Ops[2]) THEN Stop("error")
       ELSE IF Divides(Ins.name) /\ Ops[1][2] = 0 THEN Stop("error")
       ELSE Replace(2, <<Num(Exact(Ins.name, Ops[2][2], Ops[1][2]))>>))

String == At("STRING") /\ Create(0, "STRING", Ins.n, <<>>, Ins.name)
Array  == At("CALL_ARRAY") /\ Needs(Ins.n, Create(Ins.n, "ARRAY", Ins.n, LastFirst(Ins.n), Ins.name))
Sexp   == At("SEXP") /\ Needs(Ins.n, Create(Ins.n, "SEXP", Ins.n, LastFirst(Ins.n), Ins.name))
Render == At("CALL_STRING") /\ Needs(1, \E len \in TextLens : Create(1, "STRING", len, <<>>, Text))

Closure ==
  /\ At("CLOSURE")
  /\ IF Ins.to \notin DOMAIN code THEN Stop("error")
     ELSE LET n == Len(Ins.vars) IN
            Accessing(Ins.vars,
              Create(0, "CLOSURE", n + 1, [i \in 1..n |-> Content(Place(Ins.vars[i]))], Ins.to))

\* The field of an object that index k is for.
FieldAt(o, k) == IF o.kind = "CLOSURE" THEN k ELSE k + 1

Elem ==
  /\ At("ELEM")
  /\ Needs(2,
       IF IsNumber(Ops[2]) \/ ~IsNumber(Ops[1]) THEN Stop("error")
       ELSE IF ~IsRef(Ops[2]) THEN Stop("crash")
       ELSE LET o == store[Ops[2][2]]
                i == FieldAt(o, Ops[1][2])
            IN IF o.kind = "STRING"
                 THEN IF Ops[1][2] \in 0 .. o.len
                        THEN \E c \in Chars : Replace(2, <<Num(c)>>) ELSE Stop("crash")
               ELSE IF i \in DOMAIN o.fields THEN Replace(2, <<o.fields[i]>>)
               ELSE Stop("crash"))

\* Operands: value, index, container; or value and the two copies of a place.
StoreElem ==
  /\ At("STA")
  /\ Needs(3,
       LET p == IF IsNumber(Ops[2]) THEN Ops[3] ELSE ElementPlace(Ops[3]) IN
         IF ~IsNumber(Ops[2])
           THEN IF IsPlace(p) THEN Assign(p, Ops[1], <<Ops[1]>> \o Below(3)) ELSE Stop("crash")
         ELSE IF IsNumber(p) THEN Stop("error")
         ELSE IF ~IsRef(p) THEN Stop("crash")
         ELSE LET o == store[p[2]]
                  i == FieldAt(o, Ops[2][2])
              IN IF o.kind = "STRING" /\ Ops[2][2] \in 0 .. (o.len - 1)
                   THEN Become(WithOps(<<Ops[1]>> \o Below(3)),
                               [store EXCEPT ![p[2]].label = Text], globals)
                 ELSE IF i \in DOMAIN o.fields
                   THEN Assign(<<"slot", p[2], i>>, Ops[1], <<Ops[1]>> \o Below(3))
                 ELSE Stop("crash"))

-----------------------------------------------------------------------------
(* Patterns                                                                 *)

Matches(v) ==
  CASE Ins.name = "Boxed"   -> TRUE
    [] Ins.name = "UnBoxed" -> FALSE
    [] Ins.op = "TAG"       -> /\ HasKind(v, "SEXP") /\ store[v[2]].label = Ins.name
                               /\ store[v[2]].len = Ins.n
    [] Ins.op = "ARRAY"     -> HasKind(v, "ARRAY") /\ store[v[2]].len = Ins.n
    [] OTHER                -> HasKind(v, Ins.name)

\* TAG, ARRAY and PATT: what a pattern test says of a value.
Pattern ==
  /\ \E op \in {"TAG", "ARRAY", "PATT"} : At(op)
  /\ Needs(1,
       IF IsNumber(Ops[1]) THEN Replace(1, <<Num(Truth(Ins.name = "UnBoxed"))>>)
       ELSE IF Ins.name \notin {"Boxed", "UnBoxed"} /\ ~IsRef(Ops[1]) THEN Stop("crash")
       ELSE Replace(1, <<Num(Truth(Matches(Ops[1])))>>))

\* The scrutinee is below the literal, both strings.  A number or another object that
\* comes as the literal is no match for a string or a number.
StringPattern ==
  /\ At("PATT_STRCMP")
  /\ Needs(2,
       IF HasKind(Ops[1], "STRING") /\ HasKind(Ops[2], "STRING")
         THEN LET a == store[Ops[1][2]].label
                  b == store[Ops[2][2]].label
              IN \E r \in IF Text \in {a, b} THEN {0, 1} ELSE {Truth(a = b)} :
                   Replace(2, <<Num(r)>>)
       ELSE IF /\ IsNumber(Ops[2]) \/ HasKind(Ops[2], "STRING")
               /\ IsNumber(Ops[1]) \/ (IsRef(Ops[1]) /\ ~HasKind(Ops[1], "STRING"))
         THEN Replace(2, <<Num(0)>>)
       ELSE Stop("error") \/ Stop("crash"))

MatchFailure == At("FAIL") /\ Stop("error")

Length ==
  /\ At("CALL_LENGTH")
  /\ Needs(1, IF IsNumber(Ops[1]) THEN Stop("error")
              ELSE IF ~IsRef(Ops[1]) THEN Stop("crash")
              ELSE Replace(1, <<Num(store[Ops[1][2]].len)>>))

Read  == At("CALL_READ") /\ \E k \in Inputs : Replace(0, <<Num(k)>>)
Write == At("CALL_WRITE") /\ Needs(1, Replace(1, <<Num(0)>>))

-----------------------------------------------------------------------------
(* Control                                                                  *)

\* getAddressFor throws on an address outside the code.
JumpTo(to) == IF to \in DOMAIN code THEN pc' = to /\ UNCHANGED status
              ELSE UNCHANGED pc /\ status' = "error"

Jump == At("JMP") /\ JumpTo(Ins.to) /\ UNCHANGED <<code, acts, next, store, globals>>

\* CJMPz (n = 0) and CJMPnz (n = 1).
Branch ==
  /\ At("CJMP")
  /\ Needs(1,
       IF ~IsNumber(Ops[1]) THEN Stop("error")
       ELSE /\ acts' = WithOps(Below(1))
            /\ IF Truth(Ops[1][2] # 0) = Ins.n THEN JumpTo(Ins.to)
               ELSE pc' = pc + 1 /\ UNCHANGED status
            /\ UNCHANGED <<code, next, store, globals>>)

Transfer(to, closure) ==
  /\ pc' = to /\ next' = [ret |-> pc + 1, isClosure |-> closure]
  /\ UNCHANGED <<code, acts, store, globals, status>>

Call == At("CALL") /\ IF Ins.to \in DOMAIN code THEN Transfer(Ins.to, FALSE) ELSE Stop("error")

CallClosure ==
  /\ At("CALLC")
  /\ Needs(Ins.n + 1,
       LET c == Ops[Ins.n + 1] IN
         IF HasKind(c, "CLOSURE") THEN Transfer(store[c[2]].label, TRUE) ELSE Stop("crash"))

\* BEGIN and BEGINcl with n parameters and m locals.  The closure that was called
\* is the operand below the arguments.
Begin ==
  /\ At("BEGIN")
  /\ LET taken == IF next.isClosure THEN Ins.n + 1 ELSE Ins.n IN
       Needs(taken,
         IF Depth > MaxFrames THEN Stop("error")
         ELSE Become(Append(WithOps(Below(taken)),
                            [args |-> LastFirst(Ins.n),
                             closure |-> SubSeq(Ops, Ins.n + 1, taken),
                             locals |-> [i \in 1..Ins.m |-> Num(Filler)],
                             ops |-> <<>>, ret |-> next.ret]),
                     store, globals))

End ==
  /\ At("END")
  /\ IF Depth = 1 \/ Len(Ops) # 1 THEN Stop("error")
     ELSE LET as == [SubSeq(acts, 1, Depth - 1) EXCEPT ![Depth - 1].ops = Ops \o @] IN
          /\ acts' = as /\ store' = Retained(store, Roots(as, globals))
          /\ IF Depth = 2 THEN status' = "done" /\ UNCHANGED pc
             ELSE pc' = Current.ret /\ UNCHANGED status
          /\ UNCHANGED <<code, next, globals>>

EndOfCode == status = "run" /\ pc \notin DOMAIN code /\ Stop("error")

-----------------------------------------------------------------------------
\* main is entered with the two words of argc and argv as operands.
Init ==
  /\ code \in Programs /\ pc = 1
  /\ acts = <<[args |-> <<>>, closure |-> <<>>, locals |-> <<>>,
               ops |-> <<<<"word", 0>>, <<"word", 0>>>>, ret |-> 0]>>
  /\ next = [ret |-> 0, isClosure |-> FALSE]
  /\ store = [id \in {} |-> {}]
  /\ globals = [g \in GlobalIndices |-> Num(0)]
  /\ status = "run"

Next ==
  \/ Load \/ LoadA \/ Store
  \/ Const \/ Drop \/ Dup \/ Skip \/ Binop
  \/ String \/ Array \/ Sexp \/ Render \/ Closure \/ Elem \/ StoreElem
  \/ Pattern \/ StringPattern \/ MatchFailure \/ Length \/ Read \/ Write
  \/ Jump \/ Branch \/ Call \/ CallClosure \/ Begin \/ End \/ EndOfCode

Spec == Init /\ [][Next]_semanticsVars

=============================================================================
