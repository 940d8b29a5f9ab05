----------------------------- MODULE FrameStack -----------------------------
(***************************************************************************)
(* struct Stack of Interpreter.cpp: operands, locals and arguments of all  *)
(* activations in one array of words, the virtual stack, that grows down;  *)
(* the frame of the running activation, and the array of its callers'      *)
(* frames.  The functions of runtime.c that take their arguments from the  *)
(* virtual stack (Barray_.s, Bsexp_.s, Bclosure_.s) run on it as well.     *)
(*                                                                         *)
(* The bytecode is any that enters functions by calls only and keeps at    *)
(* most MaxOps operands, temporaries included, in an activation.           *)
(*                                                                         *)
(* Nothing in the code compares __gc_stack_top with the start of the       *)
(* array: a write below it ends in "overrun".                              *)
(***************************************************************************)
EXTENDS Integers, Sequences, SequencesExt

CONSTANTS
  Literals, Zero, Fill, Junk,  \* see ActivationStack; what C code leaves behind
  Sites, NoSite,
  StackSize,                   \* STACK_SIZE
  FrameStackSize,              \* FRAME_STACK_SIZE
  CWords,                      \* words that a call of C code may use
  MaxArgs, MaxLocals, MaxOps

ASSUME FrameStackAssumption ==
  /\ {StackSize, FrameStackSize, CWords, MaxArgs, MaxLocals, MaxOps} \subseteq Nat
  /\ StackSize > 2 /\ MaxOps > 1
  /\ NoSite \notin Sites

\* Enough words for MaxOps operands and MaxLocals locals in every activation,
\* and for a call of the runtime from the last one.
ASSUME SizeAssumption ==
  2 + FrameStackSize * (MaxLocals + MaxOps) + CWords <= StackSize

VARIABLES
  word,        \* data: the virtual stack, word 0 being its start
  top,         \* __gc_stack_top
  frame,       \* frame
  frameStack,  \* the first frameStackSize elements of frameStack
  next,        \* nextReturnAddress and nextIsClosure
  resume,      \* instructionPointer as the last END has set it
  status       \* "entering" from a call to the BEGIN it jumps to

frameVars == <<word, top, frame, frameStack, next, resume, status>>

Address == 0 .. (StackSize - 1)
Value == Literals \cup {Zero, Fill, Junk}

Frame == [base : Int, top : Int, nargs : Nat, nlocals : Nat, operandStackBase : Int,
          returnAddress : Sites \cup {NoSite}]

\* getOperandStackSize
OperandStackSize == frame.operandStackBase - top - 1

Running == status = "running"
Room(n) == OperandStackSize + n <= MaxOps

-----------------------------------------------------------------------------
\* runtimeError, thrown to run(), ends the process.
Fail == /\ status' = "error"
        /\ UNCHANGED <<word, top, frame, frameStack, next, resume>>

\* A step that writes words from a up; A says which.
Writing(a, A) ==
  IF a >= 0
    THEN A
    ELSE /\ status' = "overrun"
         /\ UNCHANGED <<word, top, frame, frameStack, next, resume>>

UnchangedFrames == UNCHANGED <<frame, frameStack, next, resume, status>>

\* The words w, then n operands popped and the result v pushed.
PopPush(w, n, v) ==
  Writing(top + n,
    /\ top' = top + n - 1
    /\ word' = [w EXCEPT ![top + n] = v]
    /\ UnchangedFrames)

\* CONST, STRING and Lread (n = 0), Lstring, Llength, Lwrite, TAG, ARRAY and
\* PATT_* (1), binary operators, ELEM and PATT_StrCmp (2), STA (3).
Compute(n, v) ==
  /\ Running /\ Room(1 - n)
  /\ IF OperandStackSize < n THEN Fail ELSE PopPush(word, n, v)

Drop ==
  /\ Running
  /\ IF OperandStackSize = 0 THEN Fail
     ELSE top' = top + 1 /\ UNCHANGED word /\ UnchangedFrames

Dup ==
  /\ Running /\ Room(1)
  /\ IF OperandStackSize = 0 THEN Fail ELSE PopPush(word, 0, word[top + 1])

-----------------------------------------------------------------------------
(* Variables                                                                *)

\* accessLocal and accessArg
LocalAddress(i) == frame.base - i - 1
ArgAddress(i) == frame.base + frame.nargs - 1 - i

LoadAt(a) == PopPush(word, 0, word[a])

StoreTo(a) ==
  IF OperandStackSize = 0 THEN Fail
  ELSE /\ word' = [word EXCEPT ![a] = word[top + 1]]
       /\ UNCHANGED top /\ UnchangedFrames

\* LD_Local, LD_Arg, ST_Local and ST_Arg
LoadLocal(i)  == Running /\ Room(1) /\ IF i < frame.nlocals THEN LoadAt(LocalAddress(i)) ELSE Fail
LoadArg(i)    == Running /\ Room(1) /\ IF i < frame.nargs THEN LoadAt(ArgAddress(i)) ELSE Fail
StoreLocal(i) == Running /\ IF i < frame.nlocals THEN StoreTo(LocalAddress(i)) ELSE Fail
StoreArg(i)   == Running /\ IF i < frame.nargs THEN StoreTo(ArgAddress(i)) ELSE Fail

-----------------------------------------------------------------------------
(* Instructions that call the runtime on the virtual stack                  *)

\* The words w after C code has run from word t down.
Clobbered(w, t) == [a \in Address |-> IF a <= t /\ t - a < CWords THEN Junk ELSE w[a]]

\* CALL_Barray
BuildArray(n, v) ==
  /\ Running /\ Room(IF n = 0 THEN 1 ELSE 0)
  /\ IF OperandStackSize < n THEN Fail
     ELSE Writing(top + 1 - CWords, PopPush(Clobbered(word, top), n, v))

\* SEXP: the tag takes one more word.  The operands that are moved are dead when
\* Bsexp returns.
BuildSexp(n, v) ==
  /\ Running /\ Room(1)
  /\ IF OperandStackSize < n THEN Fail
     ELSE Writing(top - CWords,
            PopPush(Clobbered([a \in Address |-> IF a = top THEN Zero ELSE word[a]], top - 1),
                    n, v))

\* CLOSURE: n variables are copied below the operands, and dropped again when
\* Bclosure returns.  accessVar fails on a variable out of bounds.
Capture(n, v) ==
  /\ Running /\ Room(IF n = 0 THEN 1 ELSE n)
  /\ \/ n > 0 /\ Fail
     \/ Writing(top - n + 1 - CWords,
          PopPush(Clobbered([a \in Address |-> IF top - n < a /\ a <= top THEN Zero ELSE word[a]],
                            top - n),
                  0, v))

-----------------------------------------------------------------------------
(* Calls                                                                    *)

Transfer(s, closure) ==
  /\ next' = [returnAddress |-> s, isClosure |-> closure]
  /\ status' = "entering"
  /\ UNCHANGED <<word, top, frame, frameStack, resume>>

\* CALL, before instruction s
Call(s) == Running /\ Transfer(s, FALSE)

\* CALLC with n arguments, before instruction s
CallClosure(n, s) ==
  Running /\ IF OperandStackSize < n + 1 THEN Fail ELSE Transfer(s, TRUE)

\* What beginFunction takes from the caller's operands.
OperandsWithoutClosure(m) == m

OperandsOf(m) == IF next.isClosure THEN m + 1 ELSE m

\* The check of frameStackSize.
OneFrameTooMany == Len(frameStack) > FrameStackSize

FramesExhausted == Len(frameStack) >= FrameStackSize

\* The top below n locals, and the same one word too high.
TopOverLastLocal(n) == top + 1 - n

NewTop(n) == top - n

\* The memset.
LocalsFilled(n) == [a \in Address |-> IF NewTop(n) < a /\ a <= top THEN Fill ELSE word[a]]

\* BEGIN and BEGINcl: beginFunction with m parameters and n locals.  The caller has
\* room for the result.
Begin(m, n) ==
  /\ status = "entering" /\ Room(1 - OperandsOf(m))
  /\ IF OperandStackSize < OperandsOf(m) \/ FramesExhausted THEN Fail
     ELSE Writing(top + 1 - n,
            /\ frameStack' = Append(frameStack, [frame EXCEPT !.top = top + OperandsOf(m)])
            /\ frame' = [frame EXCEPT !.base = top + 1, !.nargs = m, !.nlocals = n,
                                      !.operandStackBase = NewTop(n) + 1,
                                      !.returnAddress = next.returnAddress]
            /\ top' = NewTop(n)
            /\ word' = LocalsFilled(n)
            /\ status' = "running"
            /\ UNCHANGED <<next, resume>>)

\* END: endFunction; the END of main ends the program.
End ==
  /\ Running
  /\ IF frameStack = <<>> \/ OperandStackSize # 1 THEN Fail
     ELSE /\ frame' = Last(frameStack)
          /\ frameStack' = Front(frameStack)
          /\ top' = frame'.top - 1
          /\ word' = [word EXCEPT ![frame'.top] = word[top + 1]]
          /\ IF Len(frameStack) = 1
               THEN status' = "done" /\ UNCHANGED resume
               ELSE resume' = frame.returnAddress /\ UNCHANGED status
          /\ UNCHANGED next

-----------------------------------------------------------------------------
\* Stack::init, and the first BEGIN to come.
Init ==
  /\ word = [a \in Address |-> Zero]
  /\ top = StackSize - 3
  /\ frame = [base |-> StackSize, top |-> 0, nargs |-> 0, nlocals |-> 0,
              operandStackBase |-> StackSize, returnAddress |-> NoSite]
  /\ frameStack = <<>>
  /\ next = [returnAddress |-> NoSite, isClosure |-> FALSE]
  /\ resume = NoSite
  /\ status = "entering"

Next ==
  \/ \E n \in 0..3, v \in Literals : Compute(n, v)
  \/ Drop \/ Dup
  \/ \E i \in 0..MaxLocals : LoadLocal(i) \/ StoreLocal(i)
  \/ \E i \in 0..MaxArgs : LoadArg(i) \/ StoreArg(i)
  \/ \E n \in 0..MaxOps, v \in Literals :
       BuildArray(n, v) \/ BuildSexp(n, v) \/ Capture(n, v)
  \/ \E s \in Sites : Call(s) \/ \E n \in 0..MaxArgs : CallClosure(n, s)
  \/ \E m \in 0..MaxArgs, n \in 0..MaxLocals : Begin(m, n)
  \/ End

Spec == Init /\ [][Next]_frameVars

=============================================================================
