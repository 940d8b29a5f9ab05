--------------------------- MODULE ActivationStack ---------------------------
(***************************************************************************)
(* What struct Stack of Interpreter.cpp promises to the instructions: a    *)
(* stack of activations, each with its arguments, its closure, its locals  *)
(* and its operands, none of which another activation can disturb.         *)
(***************************************************************************)
EXTENDS Naturals, Sequences

CONSTANTS
  Literals,   \* the values that instructions compute
  Zero,       \* the value of a word never written
  Fill,       \* the boxed number beginFunction fills locals with
  Sites,      \* the instructions after CALL and CALLC instructions
  NoSite,     \* no return address
  MaxFrames,  \* FRAME_STACK_SIZE
  MaxArgs, MaxLocals

VARIABLES
  acts,       \* the activations, the running one first
  call,       \* the last call: where from, and whether a closure was called
  resume,     \* the instruction that the last END has returned to
  status      \* "entering" a function, "running", "done" or "error"

activationVars == <<acts, call, resume, status>>

Current == Head(acts)
Callers == Tail(acts)
Ops == Current.ops

Drop(s, n) == SubSeq(s, n + 1, Len(s))

\* The running activation with operands s.
WithOps(s) == <<[Current EXCEPT !.ops = s]>> \o Callers

\* Two words for argc and argv, which nothing ever sets.
Init ==
  /\ acts = <<[args |-> <<>>, closure |-> <<>>, locals |-> <<>>,
               ops |-> <<Zero, Zero>>, ret |-> NoSite]>>
  /\ call = [returnAddress |-> NoSite, isClosure |-> FALSE]
  /\ resume = NoSite
  /\ status = "entering"

\* n operands are replaced by the values vs.
Replace(n, vs) ==
  /\ status = "running" /\ n <= Len(Ops)
  /\ acts' = WithOps(vs \o Drop(Ops, n))
  /\ UNCHANGED <<call, resume, status>>

\* Assignment to the i-th local, or to the i-th argument, of the running activation.
SetLocal(i, v) ==
  /\ status = "running" /\ i \in DOMAIN Current.locals
  /\ acts' = <<[Current EXCEPT !.locals[i] = v]>> \o Callers
  /\ UNCHANGED <<call, resume, status>>

SetArg(i, v) ==
  /\ status = "running" /\ i \in DOMAIN Current.args
  /\ acts' = <<[Current EXCEPT !.args[i] = v]>> \o Callers
  /\ UNCHANGED <<call, resume, status>>

\* What an instruction may find in a variable of the running activation.
Readable(v) ==
  \/ \E i \in DOMAIN Current.locals : v = Current.locals[i]
  \/ \E i \in DOMAIN Current.args : v = Current.args[i]

Write ==
  /\ Ops # <<>>
  /\ \/ \E i \in DOMAIN Current.locals : SetLocal(i, Head(Ops))
     \/ \E i \in DOMAIN Current.args : SetArg(i, Head(Ops))

Call(s, closure) ==
  /\ status = "running" /\ status' = "entering"
  /\ call' = [returnAddress |-> s, isClosure |-> closure]
  /\ UNCHANGED <<acts, resume>>

\* The function that was called is entered: m parameters, n locals.  The closure
\* that was called is the operand below the arguments.
Enter(m, n) ==
  LET taken == IF call.isClosure THEN m + 1 ELSE m IN
    /\ status = "entering" /\ taken <= Len(Ops) /\ Len(acts) <= MaxFrames
    /\ acts' =
         <<[args    |-> [i \in 1..m |-> Ops[m + 1 - i]],
            closure |-> SubSeq(Ops, m + 1, taken),
            locals  |-> [i \in 1..n |-> Fill],
            ops     |-> <<>>,
            ret     |-> call.returnAddress]>>
         \o WithOps(Drop(Ops, taken))
    /\ status' = "running"
    /\ UNCHANGED <<call, resume>>

\* The result of the function is pushed on what is left of its caller's operands.
Leave ==
  /\ status = "running" /\ Len(acts) > 1 /\ Len(Ops) = 1
  /\ acts' = <<[acts[2] EXCEPT !.ops = Ops \o @]>> \o Tail(Callers)
  /\ IF Len(acts) = 2
       THEN status' = "done" /\ UNCHANGED resume
       ELSE resume' = Current.ret /\ UNCHANGED status
  /\ UNCHANGED call

\* runtimeError
Fail ==
  /\ status \in {"entering", "running"} /\ status' = "error"
  /\ UNCHANGED <<acts, call, resume>>

Next ==
  \/ \E n \in 0..Len(Ops), v \in Literals : Replace(n, <<v>>)
  \/ Replace(1, <<>>)
  \/ Ops # <<>> /\ Replace(0, <<Head(Ops)>>)
  \/ \E v \in Literals \cup {Zero, Fill} : Readable(v) /\ Replace(0, <<v>>)
  \/ Write
  \/ \E s \in Sites, closure \in BOOLEAN : Call(s, closure)
  \/ \E m \in 0..MaxArgs, n \in 0..MaxLocals : Enter(m, n)
  \/ Leave
  \/ Fail

Spec == Init /\ [][Next]_activationVars

=============================================================================
