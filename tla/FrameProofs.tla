----------------------------- MODULE FrameProofs -----------------------------
(***************************************************************************)
(* The frames of FrameStack tile the virtual stack and never leave it, and *)
(* FrameStack implements ActivationStack, for every size of the stacks     *)
(* that satisfies SizeAssumption and any number of activations.            *)
(***************************************************************************)
EXTENDS FrameRefinement, SequenceTheorems, TLAPS

-----------------------------------------------------------------------------
(* The stack is never left                                                  *)

\* The budget of an activation is the same for all of them.
LEMMA LowNext ==
  ASSUME NEW k \in Nat
  PROVE  Low(k + 1) = Low(k) - (MaxLocals + MaxOps)
<1> DEFINE w == MaxLocals + MaxOps
<1>1. w \in Nat /\ StackSize \in Nat
  BY FrameStackAssumption
<1>2. k * w = (k - 1) * w + w
  <2> HIDE DEF w
  <2> QED BY <1>1
<1> QED BY <1>1, <1>2 DEF Low

\* The deepest activation has room for a call of the runtime.
LEMMA LowBound ==
  ASSUME NEW k \in 1..(FrameStackSize + 1)
  PROVE  Low(k) \in Int /\ Low(k) >= CWords
<1> DEFINE w == MaxLocals + MaxOps
<1>1. w \in Nat /\ StackSize \in Nat /\ FrameStackSize \in Nat /\ CWords \in Nat
  BY FrameStackAssumption
<1>2. (k - 1) * w <= FrameStackSize * w /\ (k - 1) * w \in Int /\ FrameStackSize * w \in Int
  <2>1. k - 1 \in Nat /\ k - 1 <= FrameStackSize
    BY <1>1
  <2> HIDE DEF w
  <2> QED BY <1>1, <2>1
<1> QED BY <1>1, <1>2, SizeAssumption DEF Low

\* What FrameInv says of the running activation, in numbers.
LEMMA Bounds ==
  ASSUME FrameInv, Running
  PROVE  /\ frame.base \in Int /\ frame.operandStackBase \in Int /\ top \in Int
         /\ frame.nargs \in Nat /\ frame.nlocals \in Nat
         /\ OperandStackSize \in 0..MaxOps
         /\ frameStack # <<>>
         /\ frame.operandStackBase - MaxOps >= CWords
         /\ frame.operandStackBase <= StackSize
         /\ frame.base + frame.nargs <= StackSize
<1>1. frameStack # <<>> /\ Len(frameStack) \in 1..FrameStackSize
  BY FrameStackAssumption DEF FrameInv, FrameTypeOK, Running
<1>2. Low(Len(frameStack) + 1) \in Int /\ Low(Len(frameStack) + 1) >= CWords
  BY <1>1, LowBound, FrameStackAssumption
<1>3. frame \in Frame /\ top \in Int /\ frameStack \in Seq(Frame)
      /\ FrameOK(frame, top, Len(frameStack) + 1) /\ Linked(Last(frameStack), frame)
  BY <1>1, FrameStackAssumption DEF FrameInv, FrameTypeOK
<1>4. Last(frameStack).top < StackSize /\ Last(frameStack).top \in Int
  <2>1. CallerOK(Len(frameStack)) /\ frameStack[Len(frameStack)] \in Frame
    BY <1>1, <1>3 DEF FrameInv
  <2> QED BY <2>1, FrameStackAssumption DEF CallerOK, FrameOK, Frame, Last
<1>5. /\ frame.base \in Int /\ frame.operandStackBase \in Int
      /\ frame.nargs \in Nat /\ frame.nlocals \in Nat
  BY <1>3 DEF Frame
<1>6. frame.operandStackBase - MaxOps >= Low(Len(frameStack) + 1)
  BY <1>1, <1>3 DEF FrameOK
<1>7. StackSize \in Nat /\ MaxOps \in Nat /\ CWords \in Nat
  BY FrameStackAssumption
<1>8. OperandStackSize \in 0..MaxOps
  <2>1. OperandStackSize <= MaxOps
    BY <1>1 DEF FrameInv
  <2>2. top < frame.operandStackBase
    BY <1>3 DEF FrameOK
  <2> QED BY <1>3, <1>5, <1>7, <2>1, <2>2 DEF OperandStackSize
<1>9. frame.operandStackBase = frame.base - frame.nlocals /\ frame.base <= StackSize
  BY <1>3 DEF FrameOK
<1>10. frame.operandStackBase <= StackSize /\ frame.base + frame.nargs <= StackSize
  BY SMTT(30), <1>3, <1>4, <1>5, <1>7, <1>9 DEF Linked
<1> QED BY <1>1, <1>2, <1>3, <1>5, <1>6, <1>7, <1>8, <1>10

\* Instructions that stay in the activation: only its top and words change.
LEMMA OperandsStep ==
  ASSUME FrameInv, Running, UnchangedFrames,
         word' \in [Address -> Value], top' \in Int,
         top' < frame.operandStackBase, frame.operandStackBase - top' - 1 <= MaxOps
  PROVE  FrameInv'
<1>1. frame.operandStackBase - MaxOps >= CWords /\ frame.operandStackBase <= StackSize
      /\ frame.operandStackBase \in Int /\ frameStack # <<>>
  BY Bounds
<1>2. top' \in -1 .. (StackSize - 1)
  BY <1>1, FrameStackAssumption
<1>3. FrameTypeOK'
  BY <1>2 DEF FrameInv, FrameTypeOK, UnchangedFrames
<1>4. \A k \in 1..Len(frameStack) : CallerOK(k)'
  BY DEF FrameInv, UnchangedFrames, CallerOK
<1>5. FrameOK(frame, top, Len(frameStack) + 1)'
  BY DEF FrameInv, UnchangedFrames, FrameOK
<1>6. Linked(Last(frameStack), frame)' /\ (OperandStackSize <= MaxOps)'
  BY <1>1 DEF FrameInv, UnchangedFrames, OperandStackSize
<1> QED BY <1>1, <1>3, <1>4, <1>5, <1>6 DEF FrameInv, UnchangedFrames

LEMMA FailStep ==
  ASSUME FrameInv, Fail
  PROVE  FrameInv'
<1>1. FrameTypeOK'
  BY DEF FrameInv, FrameTypeOK, Fail
<1>2. \A k \in 1..Len(frameStack) : CallerOK(k)'
  BY DEF FrameInv, Fail, CallerOK
<1> QED BY <1>1, <1>2 DEF FrameInv, Fail, OperandStackSize

\* A push, after n pops, is never below the start of the stack.
LEMMA PopPushStep ==
  ASSUME FrameInv, Running,
         NEW w \in [Address -> Value], NEW n \in Nat, NEW v \in Value,
         n <= OperandStackSize, Room(1 - n), PopPush(w, n, v)
  PROVE  FrameInv'
<1>1. /\ top \in Int /\ frame.operandStackBase \in Int
      /\ frame.operandStackBase - MaxOps >= CWords /\ OperandStackSize \in 0..MaxOps
  BY Bounds
<1>2. top + n >= 0
  BY <1>1, FrameStackAssumption DEF Room, OperandStackSize
<1>3. top' = top + n - 1 /\ word' = [w EXCEPT ![top + n] = v] /\ UnchangedFrames
  BY <1>2 DEF PopPush, Writing
<1>4. word' \in [Address -> Value]
  BY <1>3
<1>5. top' \in Int /\ top' < frame.operandStackBase /\ frame.operandStackBase - top' - 1 <= MaxOps
  BY <1>1, <1>3, FrameStackAssumption DEF Room, OperandStackSize
<1> QED BY <1>3, <1>4, <1>5, OperandsStep

\* An address of a variable is a word of the stack.
LEMMA VariableStep ==
  ASSUME FrameInv, Running, NEW a \in Address,
         (Room(1) /\ LoadAt(a)) \/ StoreTo(a)
  PROVE  FrameInv'
<1>1. /\ top \in Int /\ frame.operandStackBase \in Int /\ word \in [Address -> Value]
      /\ frame.operandStackBase <= StackSize
      /\ frame.operandStackBase - MaxOps >= CWords /\ OperandStackSize \in 0..MaxOps
  BY Bounds DEF FrameInv, FrameTypeOK
<1>2. CASE Room(1) /\ LoadAt(a)
  <2>1. Room(1 - 0) /\ 0 <= OperandStackSize /\ word[a] \in Value
    BY <1>1, <1>2
  <2> QED BY <1>1, <1>2, <2>1, PopPushStep DEF LoadAt
<1>3. CASE StoreTo(a) /\ OperandStackSize = 0
  BY <1>3, FailStep DEF StoreTo
<1>4. CASE StoreTo(a) /\ OperandStackSize # 0
  <2>1. word' = [word EXCEPT ![a] = word[top + 1]] /\ top' = top /\ UnchangedFrames
    BY <1>4 DEF StoreTo
  <2>2. top + 1 \in Address
    BY <1>1, <1>4, FrameStackAssumption DEF Address, OperandStackSize
  <2>3. word' \in [Address -> Value]
    BY <1>1, <2>1, <2>2
  <2> QED BY <1>1, <2>1, <2>3, OperandsStep, FrameStackAssumption DEF OperandStackSize
<1> QED BY <1>2, <1>3, <1>4

LEMMA ClobberedType ==
  ASSUME NEW w \in [Address -> Value], NEW t
  PROVE  Clobbered(w, t) \in [Address -> Value]
BY DEF Clobbered, Value

LEMMA LoadStoreStep ==
  ASSUME FrameInv,
         \/ \E i \in 0..MaxLocals : LoadLocal(i) \/ StoreLocal(i)
         \/ \E i \in 0..MaxArgs : LoadArg(i) \/ StoreArg(i)
  PROVE  FrameInv'
<1>1. Running
  BY DEF LoadLocal, StoreLocal, LoadArg, StoreArg
<1>2. /\ frame.base \in Int /\ frame.operandStackBase \in Int
      /\ frame.nargs \in Nat /\ frame.nlocals \in Nat
      /\ frame.operandStackBase >= 0 /\ frame.base <= StackSize
      /\ frame.operandStackBase = frame.base - frame.nlocals
      /\ frame.base + frame.nargs <= StackSize
  BY <1>1, Bounds, FrameStackAssumption DEF FrameInv, FrameOK
<1>3. CASE Fail
  BY <1>3, FailStep
<1>4. ASSUME NEW i \in Nat, i < frame.nlocals,
             (Room(1) /\ LoadAt(LocalAddress(i))) \/ StoreTo(LocalAddress(i))
      PROVE  FrameInv'
  <2>1. LocalAddress(i) \in Address
    BY <1>2, <1>4, FrameStackAssumption DEF LocalAddress, Address
  <2> QED BY <1>1, <1>4, <2>1, VariableStep
<1>5. ASSUME NEW i \in Nat, i < frame.nargs,
             (Room(1) /\ LoadAt(ArgAddress(i))) \/ StoreTo(ArgAddress(i))
      PROVE  FrameInv'
  <2>1. ArgAddress(i) \in Address
    BY <1>2, <1>5, FrameStackAssumption DEF ArgAddress, Address
  <2> QED BY <1>1, <1>5, <2>1, VariableStep
<1>6. CASE \E i \in 0..MaxLocals : LoadLocal(i) \/ StoreLocal(i)
  <2>1. PICK i \in 0..MaxLocals : LoadLocal(i) \/ StoreLocal(i)
    BY <1>6
  <2>2. i \in Nat
    BY FrameStackAssumption
  <2> QED BY <1>3, <1>4, <2>1, <2>2 DEF LoadLocal, StoreLocal
<1>7. CASE \E i \in 0..MaxArgs : LoadArg(i) \/ StoreArg(i)
  <2>1. PICK i \in 0..MaxArgs : LoadArg(i) \/ StoreArg(i)
    BY <1>7
  <2>2. i \in Nat
    BY FrameStackAssumption
  <2> QED BY <1>3, <1>5, <2>1, <2>2 DEF LoadArg, StoreArg
<1> QED BY <1>6, <1>7

LEMMA ComputeStep ==
  ASSUME FrameInv, (\E n \in 0..3, v \in Literals : Compute(n, v)) \/ Drop \/ Dup
  PROVE  FrameInv'
<1>1. Running
  BY DEF Compute, Drop, Dup
<1>2. /\ top \in Int /\ frame.operandStackBase \in Int /\ word \in [Address -> Value]
      /\ frame.operandStackBase <= StackSize
      /\ frame.operandStackBase - MaxOps >= CWords /\ OperandStackSize \in 0..MaxOps
      /\ CWords \in Nat /\ MaxOps \in Nat /\ StackSize \in Nat
  BY <1>1, Bounds, FrameStackAssumption DEF FrameInv, FrameTypeOK
<1>3. CASE Fail
  BY <1>3, FailStep
<1>4. ASSUME NEW n \in 0..3, NEW v \in Literals, Compute(n, v), ~Fail
      PROVE  FrameInv'
  <2>1. n \in Nat /\ v \in Value /\ n <= OperandStackSize /\ Room(1 - n) /\ PopPush(word, n, v)
    BY <1>2, <1>4 DEF Compute, Value
  <2> QED BY <1>1, <1>2, <2>1, PopPushStep
<1>5. CASE Drop /\ ~Fail
  <2>1. OperandStackSize # 0 /\ top' = top + 1 /\ word' = word /\ UnchangedFrames
    BY <1>5 DEF Drop
  <2>2. top' \in Int /\ top' < frame.operandStackBase
        /\ frame.operandStackBase - top' - 1 <= MaxOps
    BY <1>2, <2>1 DEF OperandStackSize
  <2> QED BY <1>1, <1>2, <2>1, <2>2, OperandsStep
<1>6. CASE Dup /\ ~Fail
  <2>1. OperandStackSize # 0 /\ PopPush(word, 0, word[top + 1]) /\ Room(1)
    BY <1>6 DEF Dup
  <2>2. top + 1 \in Address
    BY <1>2, <2>1 DEF OperandStackSize, Address
  <2>3. word[top + 1] \in Value /\ Room(1 - 0) /\ 0 <= OperandStackSize
    BY <1>2, <2>1, <2>2
  <2> QED BY <1>1, <1>2, <2>1, <2>3, PopPushStep
<1> QED BY <1>3, <1>4, <1>5, <1>6

LEMMA RuntimeStep ==
  ASSUME FrameInv,
         \E n \in 0..MaxOps, v \in Literals :
           BuildArray(n, v) \/ BuildSexp(n, v) \/ Capture(n, v)
  PROVE  FrameInv'
<1>1. Running
  BY DEF BuildArray, BuildSexp, Capture
<1>2. /\ top \in Int /\ frame.operandStackBase \in Int /\ word \in [Address -> Value]
      /\ frame.operandStackBase - MaxOps >= CWords /\ OperandStackSize \in 0..MaxOps
      /\ CWords \in Nat /\ MaxOps \in Nat
  BY <1>1, Bounds, FrameStackAssumption DEF FrameInv, FrameTypeOK
<1>3. CASE Fail
  BY <1>3, FailStep
<1>4. PICK n \in 0..MaxOps, v \in Literals :
        BuildArray(n, v) \/ BuildSexp(n, v) \/ Capture(n, v)
  OBVIOUS
<1>5. n \in Nat /\ v \in Value
  BY <1>2 DEF Value
<1>6. CASE BuildArray(n, v) /\ ~Fail
  <2>1. n <= OperandStackSize /\ Room(IF n = 0 THEN 1 ELSE 0)
        /\ Writing(top + 1 - CWords, PopPush(Clobbered(word, top), n, v))
    BY <1>2, <1>5, <1>6 DEF BuildArray
  <2>2. Room(1 - n) /\ top + 1 - CWords >= 0
    BY <1>2, <1>5, <2>1 DEF Room, OperandStackSize
  <2>3. PopPush(Clobbered(word, top), n, v) /\ Clobbered(word, top) \in [Address -> Value]
    BY <1>2, <2>1, <2>2, ClobberedType DEF Writing
  <2> QED BY <1>1, <1>5, <2>1, <2>2, <2>3, PopPushStep
<1>7. CASE BuildSexp(n, v) /\ ~Fail
  <2> DEFINE w == [a \in Address |-> IF a = top THEN Zero ELSE word[a]]
  <2>1. n <= OperandStackSize /\ Room(1)
        /\ Writing(top - CWords, PopPush(Clobbered(w, top - 1), n, v))
    BY <1>2, <1>5, <1>7 DEF BuildSexp
  <2>2. Room(1 - n) /\ top - CWords >= 0
    BY <1>2, <1>5, <2>1 DEF Room, OperandStackSize
  <2>3. w \in [Address -> Value]
    BY <1>2 DEF Value
  <2> HIDE DEF w
  <2>4. PopPush(Clobbered(w, top - 1), n, v) /\ Clobbered(w, top - 1) \in [Address -> Value]
    BY <2>1, <2>2, <2>3, ClobberedType DEF Writing
  <2> QED BY <1>1, <1>5, <2>1, <2>2, <2>4, PopPushStep
<1>8. CASE Capture(n, v) /\ ~Fail
  <2> DEFINE w == [a \in Address |-> IF top - n < a /\ a <= top THEN Zero ELSE word[a]]
  <2>1. Room(IF n = 0 THEN 1 ELSE n)
        /\ Writing(top - n + 1 - CWords, PopPush(Clobbered(w, top - n), 0, v))
    BY <1>8 DEF Capture
  <2>2. Room(1 - 0) /\ 0 <= OperandStackSize /\ top - n + 1 - CWords >= 0
    BY <1>2, <1>5, <2>1 DEF Room, OperandStackSize
  <2>3. w \in [Address -> Value]
    BY <1>2 DEF Value
  <2> HIDE DEF w
  <2>4. PopPush(Clobbered(w, top - n), 0, v) /\ Clobbered(w, top - n) \in [Address -> Value]
    BY <2>1, <2>2, <2>3, ClobberedType DEF Writing
  <2> QED BY <1>1, <1>5, <2>2, <2>4, PopPushStep
<1> QED BY <1>3, <1>4, <1>6, <1>7, <1>8

LEMMA CallStep ==
  ASSUME FrameInv, \E s \in Sites : Call(s) \/ \E n \in 0..MaxArgs : CallClosure(n, s)
  PROVE  FrameInv'
<1>1. CASE Fail
  BY <1>1, FailStep
<1>2. ASSUME NEW s \in Sites, NEW c \in BOOLEAN, Running, Transfer(s, c)
      PROVE  FrameInv'
  <2>1. FrameTypeOK'
    BY <1>2 DEF FrameInv, FrameTypeOK, Transfer
  <2>2. \A k \in 1..Len(frameStack) : CallerOK(k)'
    BY <1>2 DEF FrameInv, Transfer, CallerOK
  <2>3. frameStack # <<>>
    BY <1>2 DEF FrameInv, Running
  <2> QED BY <1>2, <2>1, <2>2, <2>3 DEF FrameInv, Transfer, OperandStackSize
<1> QED BY <1>1, <1>2 DEF Call, CallClosure

\* A function takes its arguments, and its closure, from the operands of its caller
\* and has a budget of words of its own.
LEMMA BeginStep ==
  ASSUME FrameInv, NEW m \in 0..MaxArgs, NEW n \in 0..MaxLocals, Begin(m, n)
  PROVE  FrameInv'
<1> DEFINE k == Len(frameStack) + 1
           a == OperandsOf(m)
           f == [frame EXCEPT !.top = top + a]
<1>1. /\ StackSize \in Nat /\ MaxOps \in Nat /\ MaxLocals \in Nat /\ CWords \in Nat
      /\ FrameStackSize \in Nat /\ MaxArgs \in Nat /\ StackSize > 2 /\ MaxOps > 1
      /\ m \in Nat /\ n \in Nat /\ n <= MaxLocals /\ a \in {m, m + 1}
  BY FrameStackAssumption DEF OperandsOf
<1>2. /\ word \in [Address -> Value] /\ top \in Int /\ top < StackSize /\ frame \in Frame
      /\ frameStack \in Seq(Frame) /\ Len(frameStack) \in Nat
      /\ next \in [returnAddress : Sites \cup {NoSite}, isClosure : BOOLEAN]
      /\ resume \in Sites \cup {NoSite}
  BY <1>1 DEF FrameInv, FrameTypeOK
<1>3. /\ frame.base \in Int /\ frame.operandStackBase \in Int /\ frame.nargs \in Nat
      /\ frame.nlocals \in Nat
  BY <1>2 DEF Frame
<1>4. CASE Fail
  BY <1>4, FailStep
<1>5. CASE ~Fail
  <2>1. a <= OperandStackSize /\ Room(1 - a) /\ Len(frameStack) < FrameStackSize
    <3>1. ~(OperandStackSize < a) /\ ~FramesExhausted /\ Room(1 - a)
      BY <1>5 DEF Begin
    <3>2. OperandStackSize \in Int /\ a \in Int
      BY <1>1, <1>2, <1>3 DEF OperandStackSize
    <3> HIDE DEF a
    <3> QED BY <1>1, <1>2, <3>1, <3>2 DEF FramesExhausted
  <2>2. k \in 1..FrameStackSize /\ k + 1 \in 1..(FrameStackSize + 1)
    BY <1>1, <1>2, <2>1
  <2>3. Low(k + 1) \in Int /\ Low(k + 1) >= CWords
    BY <2>2, LowBound
  <2>4. Low(k) \in Int /\ Low(k + 1) = Low(k) - (MaxLocals + MaxOps)
    BY <1>1, <2>2, LowNext, LowBound
  <2>5. top >= Low(k) - 1
    <3>1. CASE frameStack = <<>>
      <4>1. top = StackSize - 3
        BY <3>1 DEF FrameInv, Begin
      <4>2. k = 1
        BY <3>1
      <4> QED BY <1>1, <4>1, <4>2 DEF Low
    <3>2. CASE frameStack # <<>>
      <4>1. k > 1 /\ FrameOK(frame, top, k) /\ OperandStackSize <= MaxOps
        BY <1>2, <3>2 DEF FrameInv
      <4> QED BY <1>1, <1>2, <1>3, <2>4, <4>1 DEF FrameOK, OperandStackSize
    <3> QED BY <3>1, <3>2
  <2>6. NewTop(n) = top - n /\ NewTop(n) + 1 - MaxOps >= Low(k + 1) /\ top + 1 - n >= 0
    BY <1>1, <1>2, <2>3, <2>4, <2>5 DEF NewTop
  <2>7. /\ frameStack' = Append(frameStack, f)
        /\ frame' = [frame EXCEPT !.base = top + 1, !.nargs = m, !.nlocals = n,
                                  !.operandStackBase = NewTop(n) + 1,
                                  !.returnAddress = next.returnAddress]
        /\ top' = NewTop(n) /\ word' = LocalsFilled(n) /\ status' = "running"
        /\ UNCHANGED <<next, resume>>
    BY <1>5, <2>6 DEF Begin, Writing
  <2> HIDE DEF a
  <2>8. f \in Frame /\ f.top = top + a /\ f.base = frame.base /\ f.nargs = frame.nargs
        /\ f.nlocals = frame.nlocals /\ f.operandStackBase = frame.operandStackBase
    <3>1. top + a \in Int
      BY <1>1, <1>2
    <3> QED BY <1>2, <3>1 DEF Frame
  <2>9. /\ frame' \in Frame /\ frame'.base = top + 1 /\ frame'.nargs = m /\ frame'.nlocals = n
        /\ frame'.operandStackBase = NewTop(n) + 1
    <3>1. next.returnAddress \in Sites \cup {NoSite}
      BY <1>2
    <3>2. top + 1 \in Int /\ NewTop(n) + 1 \in Int
      BY <1>1, <1>2, <2>6
    <3> QED BY <1>1, <1>2, <2>7, <3>1, <3>2 DEF Frame
  <2> HIDE DEF f
  <2>10. /\ frameStack' \in Seq(Frame) /\ frameStack' # <<>> /\ Len(frameStack') = k
         /\ \A j \in 1..Len(frameStack) : frameStack'[j] = frameStack[j]
         /\ frameStack'[k] = f
    BY <1>2, <2>7, <2>8, AppendProperties
  <2>11. FrameTypeOK'
    <3>1. word' \in [Address -> Value]
      BY <1>2, <2>7 DEF LocalsFilled, Value
    <3>2. top' \in -1 .. (StackSize - 1)
      <4>1. n \in Nat /\ top \in Int /\ top < StackSize /\ StackSize \in Nat
        BY <1>1, <1>2
      <4>2. top' = top - n /\ top + 1 - n >= 0
        BY <2>6, <2>7
      <4>3. PICK x, y, z : x = top /\ y = top' /\ z = StackSize
        OBVIOUS
      <4>4. n \in Nat /\ x \in Int /\ x < z /\ z \in Nat /\ y = x - n /\ x + 1 - n >= 0
        BY <4>1, <4>2, <4>3
      <4>5. y \in -1 .. (z - 1)
        BY ONLY <4>4
      <4> QED BY <4>3, <4>5
    <3> QED BY <1>1, <1>2, <2>2, <2>7, <2>9, <2>10, <3>1, <3>2 DEF FrameTypeOK
  <2>12. \A j \in 1..Len(frameStack) : CallerOK(j)'
    <3> SUFFICES ASSUME NEW j \in 1..Len(frameStack) PROVE CallerOK(j)'
      OBVIOUS
    <3>1. CallerOK(j) /\ frameStack'[j] = frameStack[j]
          /\ (j # 1 => frameStack'[j - 1] = frameStack[j - 1])
      BY <1>2, <2>10 DEF FrameInv
    <3> QED BY <3>1 DEF CallerOK
  <2>13. ASSUME NEW j \in Nat, j = k
         PROVE  CallerOK(j)'
    <3>1. FrameOK(f, f.top, k)
      BY <1>1, <1>2, <1>3, <2>1, <2>8 DEF FrameInv, FrameOK, OperandStackSize
    <3>2. CASE frameStack = <<>>
      <4>1. top = StackSize - 3 /\ k = 1
        BY <3>2 DEF FrameInv, Begin
      <4> QED BY <1>1, <2>8, <2>10, <2>13, <3>1, <4>1 DEF CallerOK
    <3>3. CASE frameStack # <<>>
      <4>1. Linked(Last(frameStack), frame) /\ k > 1
        BY <1>2, <3>3 DEF FrameInv
      <4>2. Linked(frameStack'[k - 1], f)
        BY <1>2, <2>8, <2>10, <4>1 DEF Linked, Last
      <4>3. f.operandStackBase - f.top <= MaxOps
        BY <1>1, <1>2, <1>3, <2>1, <2>8 DEF Room, OperandStackSize
      <4> QED BY <2>10, <2>13, <3>1, <4>1, <4>2, <4>3 DEF CallerOK
    <3> QED BY <3>2, <3>3
  <2>14. FrameOK(frame', top', k + 1)
    BY SMTT(30), <1>1, <1>2, <2>6, <2>7, <2>9 DEF FrameOK
  <2>15. Linked(Last(frameStack'), frame')
    BY <1>1, <1>2, <2>8, <2>9, <2>10 DEF Linked, Last
  <2>16. (OperandStackSize <= MaxOps)'
    BY <1>1, <1>2, <2>6, <2>7, <2>9 DEF OperandStackSize
  <2>17. \A j \in 1..Len(frameStack') : CallerOK(j)'
    <3> SUFFICES ASSUME NEW j \in 1..Len(frameStack') PROVE CallerOK(j)'
      OBVIOUS
    <3>1. j \in 1..Len(frameStack) \/ j = k
      BY <1>2, <2>10
    <3> QED BY <1>2, <2>2, <2>12, <2>13, <3>1
  <2> QED BY <2>7, <2>10, <2>11, <2>14, <2>15, <2>16, <2>17 DEF FrameInv
<1> QED BY <1>4, <1>5

\* END goes back to a frame that satisfied the invariant when it was saved.
LEMMA EndStep ==
  ASSUME FrameInv, End
  PROVE  FrameInv'
<1> DEFINE k == Len(frameStack)
           f == frameStack[k]
<1>1. Running
  BY DEF End
<1>2. /\ StackSize \in Nat /\ MaxOps \in Nat /\ CWords \in Nat /\ FrameStackSize \in Nat
      /\ StackSize > 2 /\ MaxOps > 1
  BY FrameStackAssumption
<1>3. CASE Fail
  BY <1>3, FailStep
<1>4. CASE ~Fail
  <2>1. /\ frameStack # <<>> /\ OperandStackSize = 1
        /\ frame' = f /\ frameStack' = SubSeq(frameStack, 1, k - 1) /\ top' = f.top - 1
        /\ word' = [word EXCEPT ![f.top] = word[top + 1]]
        /\ IF k = 1 THEN status' = "done" /\ UNCHANGED resume
           ELSE resume' = frame.returnAddress /\ UNCHANGED status
        /\ UNCHANGED next
    BY <1>4 DEF End, Last, Front
  <2>2. k \in Nat /\ k >= 1 /\ k \in 1..FrameStackSize /\ frameStack \in Seq(Frame) /\ f \in Frame /\ frame \in Frame
    BY <1>2, <2>1 DEF FrameInv, FrameTypeOK
  <2>3. CallerOK(k) /\ f.operandStackBase \in Int /\ f.top \in Int /\ f.base \in Int
        /\ f.nlocals \in Nat /\ f.nargs \in Nat
    BY SMTT(30), <2>2 DEF FrameInv, Frame
  <2>4. f.top < f.operandStackBase /\ f.operandStackBase <= StackSize
    BY <1>2, <2>3 DEF CallerOK, FrameOK
  <2>5. f.top >= 0
    <3>1. CASE k = 1
      BY <1>2, <2>3, <3>1 DEF CallerOK
    <3>2. CASE k > 1
      <4>1. Low(k) \in Int /\ Low(k) >= CWords
        BY <1>2, <2>2, LowBound
      <4> QED BY <1>2, <2>3, <3>2, <4>1 DEF CallerOK, FrameOK
    <3> HIDE DEF k
    <3>3. k = 1 \/ k > 1
      BY <2>2
    <3> QED BY <3>1, <3>2, <3>3
  <2> HIDE DEF f
  <2>6. /\ frameStack' \in Seq(Frame) /\ Len(frameStack') = k - 1
        /\ \A j \in 1..(k - 1) : frameStack'[j] = frameStack[j]
    <3>1. \A j \in 1..(k - 1) : frameStack[j] \in Frame
      BY <2>2
    <3>2. k - 1 \in Int /\ 1 \in Int /\ k - 1 >= 0
      BY <1>2, <2>2
    <3> DEFINE t == SubSeq(frameStack, 1, k - 1)
    <3>3. /\ t \in Seq(Frame) /\ Len(t) = IF 1 <= k - 1 THEN k - 1 - 1 + 1 ELSE 0
          /\ \A j \in 1..(k - 1 - 1 + 1) : t[j] = frameStack[1 + j - 1]
      BY <3>1, <3>2, SubSeqProperties
    <3>4. frameStack' = t
      BY <2>1
    <3> HIDE DEF t, k
    <3>5. Len(t) = k - 1 /\ k \in Int
      BY <2>2, <3>3
    <3>6. \A j \in 1..(k - 1) : t[j] = frameStack[j]
      BY <3>3, <3>5
    <3> QED BY <3>3, <3>4, <3>5, <3>6
  <2>7. FrameTypeOK'
    <3>1. word' \in [Address -> Value]
      <4>1. /\ word \in [Address -> Value] /\ top \in Int
            /\ frame.operandStackBase \in Int /\ frame.operandStackBase <= StackSize
            /\ frame.operandStackBase - MaxOps >= CWords /\ OperandStackSize = 1
        BY <1>1, <2>1, Bounds DEF FrameInv, FrameTypeOK
      <4>2. top + 1 \in Address
        BY <1>2, <4>1 DEF Address, OperandStackSize
      <4> QED BY <2>1, <4>1, <4>2
    <3>2. top' \in -1 .. (StackSize - 1)
      BY SMTT(30), <1>2, <2>1, <2>3, <2>4, <2>5
    <3>3. resume' \in Sites \cup {NoSite} /\ status' \in {"done", "running"}
      BY <1>1, <2>1, <2>2 DEF FrameInv, FrameTypeOK, Frame, Running
    <3> QED BY <1>2, <2>1, <2>2, <2>6, <3>1, <3>2, <3>3 DEF FrameInv, FrameTypeOK
  <2>8. \A j \in 1..(k - 1) : CallerOK(j)'
    <3> SUFFICES ASSUME NEW j \in 1..(k - 1) PROVE CallerOK(j)'
      OBVIOUS
    <3>1. CallerOK(j) /\ frameStack'[j] = frameStack[j]
          /\ (j # 1 => frameStack'[j - 1] = frameStack[j - 1])
      BY <2>2, <2>6 DEF FrameInv
    <3> QED BY <3>1 DEF CallerOK
  <2>9. FrameOK(frame', top', k)
    BY <2>1, <2>3 DEF CallerOK, FrameOK, f
  <2>10. CASE k = 1
    <3>1. frameStack' = <<>> /\ status' = "done"
      BY <2>1, <2>6, <2>10, EmptySeq
    <3> QED BY <2>6, <2>7, <2>8, <2>9, <2>10, <3>1 DEF FrameInv
  <2>11. CASE k # 1
    <3>1. frameStack' # <<>> /\ status' = "running"
      <4>1. status' = "running"
        BY <1>1, <2>1, <2>11 DEF Running
      <4>2. Len(frameStack') # 0
        <5> HIDE DEF k
        <5> QED BY <2>2, <2>6, <2>11
      <4> QED BY <4>1, <4>2, EmptySeq
    <3>2. Linked(Last(frameStack'), frame')
      BY <2>1, <2>2, <2>3, <2>6, <2>11 DEF CallerOK, Last, f
    <3>3. (OperandStackSize <= MaxOps)'
      BY <1>2, <2>1, <2>3, <2>11 DEF CallerOK, OperandStackSize, f
    <3> QED BY <2>6, <2>7, <2>8, <2>9, <2>11, <3>1, <3>2, <3>3 DEF FrameInv
  <2> QED BY <2>10, <2>11
<1> QED BY <1>3, <1>4

LEMMA FrameInitially == Init => FrameInv
<1> SUFFICES ASSUME Init PROVE FrameInv
  OBVIOUS
<1>1. frameStack = <<>> /\ frameStack \in Seq(Frame) /\ Len(frameStack) = 0
  BY EmptySeq DEF Init
<1>2. FrameTypeOK
  BY <1>1, FrameStackAssumption DEF Init, FrameTypeOK, Frame, Value
<1> QED BY <1>1, <1>2, FrameStackAssumption DEF Init, FrameInv, FrameOK

LEMMA FrameStep == FrameInv /\ [Next]_frameVars => FrameInv'
<1> SUFFICES ASSUME FrameInv, [Next]_frameVars PROVE FrameInv'
  OBVIOUS
<1>1. CASE UNCHANGED frameVars
  BY <1>1 DEF frameVars, FrameInv, FrameTypeOK, CallerOK, OperandStackSize
<1>2. CASE (\E n \in 0..3, v \in Literals : Compute(n, v)) \/ Drop \/ Dup
  BY <1>2, ComputeStep
<1>3. CASE \/ \E i \in 0..MaxLocals : LoadLocal(i) \/ StoreLocal(i)
           \/ \E i \in 0..MaxArgs : LoadArg(i) \/ StoreArg(i)
  BY <1>3, LoadStoreStep
<1>4. CASE \E n \in 0..MaxOps, v \in Literals :
             BuildArray(n, v) \/ BuildSexp(n, v) \/ Capture(n, v)
  BY <1>4, RuntimeStep
<1>5. CASE \E s \in Sites : Call(s) \/ \E n \in 0..MaxArgs : CallClosure(n, s)
  BY <1>5, CallStep
<1>6. CASE \E m \in 0..MaxArgs, n \in 0..MaxLocals : Begin(m, n)
  BY <1>6, BeginStep
<1>7. CASE End
  BY <1>7, EndStep
<1> QED BY <1>1, <1>2, <1>3, <1>4, <1>5, <1>6, <1>7 DEF Next

-----------------------------------------------------------------------------
\* Whatever the bytecode does within its budgets, every saved frame satisfies what
\* endFunction relies on, and every activation keeps to its part of the stack.
THEOREM FrameInvariant == Spec => []FrameInv
BY FrameInitially, FrameStep, PTL DEF Spec

\* Every variable of Stack keeps its type, and frameStackSize its bound.
THEOREM FrameTypeCorrect == Spec => []FrameTypeOK
<1>1. FrameInv => FrameTypeOK
  BY DEF FrameInv
<1> QED BY <1>1, FrameInvariant, PTL

\* A virtual stack of the size of SizeAssumption is never overrun, although no
\* push compares __gc_stack_top with its start.
THEOREM StackNeverOverrun == Spec => []NoOverrun
<1>1. FrameInv => NoOverrun
  BY DEF FrameInv, NoOverrun
<1> QED BY <1>1, FrameInvariant, PTL

\* The frames of all activations tile the virtual stack, at any depth.
THEOREM FramesTile == Spec => []FramesNest
<1>1. FrameInv => FramesNest
  <2> SUFFICES ASSUME FrameInv PROVE FramesNest
    OBVIOUS
  <2> DEFINE n == Len(frameStack)
             r == [frame EXCEPT !.top = top]
  <2>1. n \in Nat /\ frameStack \in Seq(Frame) /\ frame \in Frame /\ top \in Int
    BY FrameStackAssumption DEF FrameInv, FrameTypeOK
  <2>2. r \in Frame /\ r.top = top /\ r.base = frame.base /\ r.nargs = frame.nargs
        /\ r.nlocals = frame.nlocals /\ r.operandStackBase = frame.operandStackBase
    BY <2>1 DEF Frame
  <2> HIDE DEF r
  <2>3. Len(Frames) = n + 1 /\ Frames[n + 1] = r /\ \A j \in 1..n : Frames[j] = frameStack[j]
    BY <2>1, <2>2, AppendProperties DEF Frames, r
  <2>4. ASSUME NEW j \in 1..(n + 1)
        PROVE  LET f == Frames[j] IN
                 /\ f.top < f.operandStackBase
                 /\ f.operandStackBase = f.base - f.nlocals
                 /\ j > 1 => Linked(Frames[j - 1], f)
    <3>1. CASE j = n + 1 /\ n > 0
      <4>1. frameStack # <<>> /\ Linked(frameStack[n], frame) /\ Frames[n] = frameStack[n]
        BY <2>1, <2>3, <3>1 DEF FrameInv, Last
      <4> QED BY <2>1, <2>2, <2>3, <3>1, <4>1 DEF FrameInv, FrameOK, Linked
    <3>2. CASE j = n + 1 /\ n = 0
      BY <2>2, <2>3, <3>2 DEF FrameInv, FrameOK
    <3>3. CASE j \in 1..n
      <4>1. CallerOK(j) /\ Frames[j] = frameStack[j]
            /\ (j > 1 => Frames[j - 1] = frameStack[j - 1])
        BY <2>1, <2>3, <3>3 DEF FrameInv
      <4> QED BY <4>1 DEF CallerOK, FrameOK
    <3> QED BY <2>1, <3>1, <3>2, <3>3
  <2> QED BY <2>3, <2>4 DEF FramesNest, Linked
<1> QED BY <1>1, FrameInvariant, PTL


-----------------------------------------------------------------------------
(* The refinement                                                           *)

\* The words from lo up to hi of the stack w, the one on top first.
Part(w, lo, hi) == [i \in 1..(hi - lo + 1) |-> w[lo + i - 1]]

Depth == Len(frameStack)

\* The word at which the arguments of the k-th activation, and its closure, end.
Ceiling(k) == IF k = 1 THEN Frames[1].base + Frames[1].nargs - 1 ELSE Frames[k - 1].top

\* The activation of frame f in the stack w; its closure, if any, ends at c.
View(w, f, c) ==
  [args    |-> [i \in 1..f.nargs |-> w[f.base + f.nargs - i]],
   closure |-> Part(w, f.base + f.nargs, c),
   locals  |-> [i \in 1..f.nlocals |-> w[f.base - i]],
   ops     |-> Part(w, f.top + 1, f.operandStackBase - 1),
   ret     |-> f.returnAddress]

\* The words of the k-th activation are where its frame says.
Placed(k) ==
  LET f == Frames[k] IN
    /\ f.base \in Int /\ f.top \in Int /\ f.operandStackBase \in Int /\ Ceiling(k) \in Int
    /\ f.nargs \in Nat /\ f.nlocals \in Nat
    /\ -1 <= f.top /\ f.top < f.operandStackBase
    /\ f.operandStackBase = f.base - f.nlocals /\ f.base <= StackSize
    /\ f.base + f.nargs - 1 <= Ceiling(k) /\ Ceiling(k) < StackSize
    /\ Activation(k) = View(word, f, Ceiling(k))

AllPlaced == \A k \in 1..(Depth + 1) : Placed(k)

FramesShape ==
  /\ Depth \in Nat /\ frameStack \in Seq(Frame) /\ frame \in Frame /\ top \in Int
  /\ Frames \in Seq(Frame) /\ Len(Frames) = Depth + 1
  /\ Frames[Depth + 1] = [frame EXCEPT !.top = top] /\ Frames[Depth + 1] \in Frame
  /\ \A k \in 1..Depth : Frames[k] = frameStack[k] /\ Frames[k] \in Frame

ActivationsShape ==
  /\ Activations = [j \in 1..(Depth + 1) |-> Activations[j]]
  /\ Len(Activations) = Depth + 1 /\ Activations # <<>>
  /\ \A j \in 1..(Depth + 1) : Activations[j] = Activation(Depth + 2 - j)
  /\ Head(Activations) = Activation(Depth + 1)

-----------------------------------------------------------------------------
(* Sequences                                                                *)

LEMMA PartProperties ==
  ASSUME NEW w, NEW lo \in Int, NEW hi \in Int, lo <= hi + 1
  PROVE  /\ Part(w, lo, hi) \in Seq({w[a] : a \in lo..hi})
         /\ Len(Part(w, lo, hi)) = hi - lo + 1
         /\ \A i \in 1..(hi - lo + 1) : Part(w, lo, hi)[i] = w[lo + i - 1]
BY DEF Part

LEMMA NoPart ==
  ASSUME NEW w, NEW x \in Int, NEW y \in Int, y = x - 1
  PROVE  Part(w, x, y) = <<>>
<1>1. y - x + 1 = 0
  OBVIOUS
<1> QED BY <1>1 DEF Part

LEMMA OneWord ==
  ASSUME NEW w, NEW x \in Int
  PROVE  Part(w, x, x) = <<w[x]>>
<1> DEFINE s == Part(w, x, x)
<1>1. x - x + 1 = 1 /\ x + 1 - 1 = x
  OBVIOUS
<1>2. s = [i \in 1..1 |-> w[x + i - 1]]
  BY <1>1 DEF Part
<1> HIDE DEF s
<1>3. s \in Seq({w[x]}) /\ Len(s) = 1 /\ s[1] = w[x]
  BY <1>1, <1>2
<1>4. s = <<w[x]>>
  BY <1>3
<1> QED BY <1>4 DEF s

LEMMA OneElement ==
  ASSUME NEW S, NEW s \in Seq(S), NEW j \in 1..Len(s)
  PROVE  SubSeq(s, j, j) = <<s[j]>>
<1>1. Len(s) \in Nat /\ j \in Int /\ \A k \in j..j : s[k] \in S
  OBVIOUS
<1> DEFINE t == SubSeq(s, j, j)
<1>2. /\ t \in Seq(S) /\ Len(t) = IF j <= j THEN j - j + 1 ELSE 0
      /\ \A i \in 1..(j - j + 1) : t[i] = s[j + i - 1]
  BY <1>1, SubSeqProperties
<1>3. j - j + 1 = 1 /\ j + 1 - 1 = j
  BY <1>1
<1> HIDE DEF t
<1>4. Len(t) = 1 /\ t[1] = s[j]
  BY <1>1, <1>2, <1>3
<1>5. t = <<s[j]>>
  BY <1>2, <1>4
<1> QED BY <1>5 DEF t

\* n words are dropped.
LEMMA PartDrop ==
  ASSUME NEW w, NEW lo \in Int, NEW hi \in Int, NEW n \in Nat, lo + n <= hi + 1
  PROVE  SubSeq(Part(w, lo, hi), n + 1, Len(Part(w, lo, hi))) = Part(w, lo + n, hi)
<1> DEFINE s == Part(w, lo, hi)
           S == {w[a] : a \in lo..hi}
<1>0. lo <= hi + 1
  OBVIOUS
<1>1. s \in Seq(S) /\ Len(s) = hi - lo + 1 /\ \A i \in 1..(hi - lo + 1) : s[i] = w[lo + i - 1]
  BY SMTT(30), <1>0, PartProperties
<1> HIDE DEF s, S
<1>2. Len(s) \in Nat /\ \A i \in (n + 1)..Len(s) : s[i] \in S
  BY <1>1
<1> DEFINE t == SubSeq(s, n + 1, Len(s))
<1>3. /\ t \in Seq(S) /\ Len(t) = IF n + 1 <= Len(s) THEN Len(s) - (n + 1) + 1 ELSE 0
      /\ \A i \in 1..(Len(s) - (n + 1) + 1) : t[i] = s[n + 1 + i - 1]
  BY <1>2, SubSeqProperties
<1> HIDE DEF t
<1>4. Len(t) = hi - (lo + n) + 1
  BY <1>1, <1>3
<1>5. \A i \in 1..(hi - (lo + n) + 1) : t[i] = w[lo + n + i - 1]
  <2> SUFFICES ASSUME NEW i \in 1..(hi - (lo + n) + 1) PROVE t[i] = w[lo + n + i - 1]
    OBVIOUS
  <2>1. i \in 1..(Len(s) - (n + 1) + 1)
    BY <1>1
  <2>2. n + 1 + i - 1 \in 1..(hi - lo + 1) /\ lo + (n + 1 + i - 1) - 1 = lo + n + i - 1
    OBVIOUS
  <2>3. t[i] = s[n + 1 + i - 1]
    BY <1>3, <2>1
  <2> QED BY <1>1, <2>2, <2>3
<1>6. t = [i \in 1..(hi - (lo + n) + 1) |-> w[lo + n + i - 1]]
  <2>1. t = [i \in 1..Len(t) |-> t[i]]
    BY <1>3, SeqDef, LenProperties
  <2> QED BY <1>4, <1>5, <2>1
<1> QED BY <1>6 DEF Part, t, s

\* A word is pushed.
LEMMA PartPush ==
  ASSUME NEW w, NEW lo \in Int, NEW hi \in Int, lo <= hi + 1
  PROVE  Part(w, lo - 1, hi) = <<w[lo - 1]>> \o Part(w, lo, hi)
<1> DEFINE r == Part(w, lo, hi)
           S == {w[a] : a \in (lo - 1)..hi}
           m == hi - lo + 1
<1>1. r \in Seq(S) /\ Len(r) = m /\ \A i \in 1..m : r[i] = w[lo + i - 1]
  BY DEF Part
<1>2. PICK v : v = w[lo - 1]
  OBVIOUS
<1>3. v \in S
  BY <1>2
<1> HIDE DEF r, S
<1>4. <<v>> \in Seq(S) /\ Len(<<v>>) = 1 /\ <<v>>[1] = v
  BY <1>3
<1> DEFINE t == <<v>> \o r
<1>5. /\ t \in Seq(S) /\ Len(t) = 1 + m
      /\ \A i \in 1..(1 + m) : t[i] = IF i <= 1 THEN <<v>>[i] ELSE r[i - 1]
  BY <1>1, <1>4, ConcatProperties
<1> HIDE DEF t
<1>6. m \in Nat
  OBVIOUS
<1>7. \A i \in 1..(1 + m) : t[i] = w[lo - 1 + i - 1]
  <2> SUFFICES ASSUME NEW i \in 1..(1 + m) PROVE t[i] = w[lo - 1 + i - 1]
    OBVIOUS
  <2>1. CASE i = 1
    BY <1>2, <1>4, <1>5, <1>6, <2>1
  <2>2. CASE i > 1
    <3>1. t[i] = r[i - 1] /\ i - 1 \in 1..m
      BY <1>5, <1>6, <2>2
    <3>2. r[i - 1] = w[lo + (i - 1) - 1]
      BY <1>1, <3>1
    <3>3. lo + (i - 1) - 1 = lo - 1 + i - 1
      BY <1>6
    <3> QED BY <3>1, <3>2, <3>3
  <2> QED BY <1>6, <2>1, <2>2
<1>8. t = [i \in 1..(1 + m) |-> w[lo - 1 + i - 1]]
  <2>1. t = [i \in 1..Len(t) |-> t[i]]
    BY <1>5, SeqDef, LenProperties
  <2> QED BY <1>5, <1>7, <2>1
<1>9. hi - (lo - 1) + 1 = 1 + m
  OBVIOUS
<1> QED BY <1>2, <1>8, <1>9 DEF Part, t, r

\* Two sequences of the same length that differ in their first elements only.
LEMMA OtherHead ==
  ASSUME NEW m \in Nat, m > 0, NEW S, NEW s \in [1..m -> S], NEW t \in [1..m -> S],
         \A j \in 2..m : t[j] = s[j]
  PROVE  t = <<t[1]>> \o Tail(s)
<1> DEFINE r == Tail(s)
<1>1. s \in Seq(S) /\ Len(s) = m /\ <<t[1]>> \in Seq(S) /\ s # <<>>
  OBVIOUS
<1>2. r \in Seq(S) /\ Len(r) = m - 1 /\ \A j \in 1..(m - 1) : r[j] = s[j + 1]
  BY <1>1, HeadTailProperties
<1> HIDE DEF r
<1> DEFINE q == <<t[1]>> \o r
<1>3. /\ q \in Seq(S) /\ Len(q) = 1 + (m - 1)
      /\ \A j \in 1..(1 + (m - 1)) : q[j] = IF j <= 1 THEN <<t[1]>>[j] ELSE r[j - 1]
  BY <1>1, <1>2, ConcatProperties
<1> HIDE DEF q
<1>4. \A j \in 1..m : q[j] = t[j]
  <2> SUFFICES ASSUME NEW j \in 1..m PROVE q[j] = t[j]
    OBVIOUS
  <2>1. CASE j = 1
    BY <1>3, <2>1
  <2>2. CASE j > 1
    <3>1. j - 1 \in 1..(m - 1) /\ j - 1 + 1 = j /\ j \in 2..m /\ j \in 1..(1 + (m - 1))
          /\ ~(j <= 1)
      BY <2>2
    <3>2. q[j] = IF j <= 1 THEN <<t[1]>>[j] ELSE r[j - 1]
      BY <1>3, <3>1
    <3>3. q[j] = r[j - 1]
      BY <3>1, <3>2
    <3> QED BY <1>2, <3>1, <3>3
  <2> QED BY <2>1, <2>2
<1>5. q = [j \in 1..m |-> t[j]]
  <2>1. q = [j \in 1..Len(q) |-> q[j]]
    BY <1>3, SeqDef, LenProperties
  <2>2. Len(q) = m
    BY <1>3
  <2> QED BY <1>4, <2>1, <2>2
<1> QED BY <1>5 DEF q, r

\* The first element is replaced by two.
LEMMA TwoForHead ==
  ASSUME NEW m \in Nat, m > 0, NEW S, NEW s \in [1..m -> S], NEW t \in [1..(m + 1) -> S],
         \A j \in 3..(m + 1) : t[j] = s[j - 1]
  PROVE  t = <<t[1]>> \o (<<t[2]>> \o Tail(s))
<1> DEFINE p == [j \in 1..m |-> t[j + 1]]
           q == [j \in 1..(m + 1) |-> IF j = 1 THEN t[1] ELSE t[2]]
<1>1. p \in [1..m -> S] /\ p[1] = t[2]
  OBVIOUS
<1>2. \A j \in 2..m : p[j] = s[j]
  <2> SUFFICES ASSUME NEW j \in 2..m PROVE p[j] = s[j]
    OBVIOUS
  <2>1. p[j] = t[j + 1] /\ j + 1 \in 3..(m + 1) /\ j + 1 - 1 = j
    OBVIOUS
  <2> QED BY <2>1
<1> HIDE DEF p
<1>3. p = <<t[2]>> \o Tail(s)
  BY <1>1, <1>2, OtherHead
<1>4. p \in Seq(S) /\ Len(p) = m
  BY <1>1
<1>5. <<t[1]>> \in Seq(S) /\ Len(<<t[1]>>) = 1 /\ <<t[1]>>[1] = t[1]
  OBVIOUS
<1> DEFINE r == <<t[1]>> \o p
<1>6. /\ r \in Seq(S) /\ Len(r) = 1 + m
      /\ \A j \in 1..(1 + m) : r[j] = IF j <= 1 THEN <<t[1]>>[j] ELSE p[j - 1]
  BY <1>4, <1>5, ConcatProperties
<1> HIDE DEF r
<1>7. \A j \in 1..(m + 1) : r[j] = t[j]
  <2> SUFFICES ASSUME NEW j \in 1..(m + 1) PROVE r[j] = t[j]
    OBVIOUS
  <2>1. CASE j = 1
    BY <1>5, <1>6, <2>1
  <2>2. CASE j > 1
    <3>1. j - 1 \in 1..m /\ j - 1 + 1 = j /\ j \in 1..(1 + m) /\ ~(j <= 1)
      BY <2>2
    <3>2. r[j] = p[j - 1]
      BY <1>6, <3>1
    <3>3. p[j - 1] = t[j - 1 + 1]
      BY <3>1 DEF p
    <3> QED BY <3>1, <3>2, <3>3
  <2> QED BY <2>1, <2>2
<1>8. r = t
  <2>1. r = [j \in 1..Len(r) |-> r[j]]
    BY <1>6, SeqDef, LenProperties
  <2>2. Len(r) = m + 1
    BY <1>6
  <2>3. t = [j \in 1..(m + 1) |-> t[j]]
    OBVIOUS
  <2> QED BY <1>7, <2>1, <2>2, <2>3
<1> QED BY <1>3, <1>8 DEF r

\* The first two elements are replaced by one.
LEMMA HeadForTwo ==
  ASSUME NEW m \in Nat, m > 0, NEW S, NEW s \in [1..(m + 1) -> S], NEW t \in [1..m -> S],
         \A j \in 2..m : t[j] = s[j + 1]
  PROVE  t = <<t[1]>> \o Tail(Tail(s))
<1>1. s \in Seq(S) /\ Len(s) = m + 1 /\ s # <<>>
  OBVIOUS
<1>2. PICK r : r = Tail(s)
  OBVIOUS
<1>3. r \in Seq(S) /\ Len(r) = m /\ \A j \in 1..m : r[j] = s[j + 1]
  BY <1>1, <1>2, HeadTailProperties
<1>4. r \in [1..m -> S]
  BY <1>3
<1>5. \A j \in 2..m : t[j] = r[j]
  BY <1>3
<1>6. t = <<t[1]>> \o Tail(r)
  BY <1>4, <1>5, OtherHead
<1> QED BY <1>2, <1>6

-----------------------------------------------------------------------------
(* The activations in the virtual stack                                     *)

\* An activation does not depend on the words outside its part of the stack.
LEMMA SameView ==
  ASSUME NEW w, NEW u, NEW f, NEW c \in Int,
         f.base \in Int, f.top \in Int, f.operandStackBase \in Int,
         f.nargs \in Nat, f.nlocals \in Nat,
         f.top < f.operandStackBase, f.operandStackBase = f.base - f.nlocals,
         f.base + f.nargs - 1 <= c,
         \A a \in (f.top + 1)..c : u[a] = w[a]
  PROVE  View(u, f, c) = View(w, f, c)
<1>1. \A i \in 1..f.nargs : u[f.base + f.nargs - i] = w[f.base + f.nargs - i]
  <2> SUFFICES ASSUME NEW i \in 1..f.nargs
               PROVE  u[f.base + f.nargs - i] = w[f.base + f.nargs - i]
    OBVIOUS
  <2>1. f.base + f.nargs - i \in (f.top + 1)..c
    OBVIOUS
  <2> QED BY <2>1
<1>2. \A i \in 1..f.nlocals : u[f.base - i] = w[f.base - i]
  <2> SUFFICES ASSUME NEW i \in 1..f.nlocals PROVE u[f.base - i] = w[f.base - i]
    OBVIOUS
  <2>1. f.base - i \in (f.top + 1)..c
    OBVIOUS
  <2> QED BY <2>1
<1>3. Part(u, f.base + f.nargs, c) = Part(w, f.base + f.nargs, c)
  <2>1. \A i \in 1..(c - (f.base + f.nargs) + 1) :
          u[f.base + f.nargs + i - 1] = w[f.base + f.nargs + i - 1]
    <3> SUFFICES ASSUME NEW i \in 1..(c - (f.base + f.nargs) + 1)
                 PROVE  u[f.base + f.nargs + i - 1] = w[f.base + f.nargs + i - 1]
      OBVIOUS
    <3>1. f.base + f.nargs + i - 1 \in (f.top + 1)..c
      OBVIOUS
    <3> QED BY <3>1
  <2> QED BY <2>1 DEF Part
<1>4. Part(u, f.top + 1, f.operandStackBase - 1) = Part(w, f.top + 1, f.operandStackBase - 1)
  <2>1. \A i \in 1..(f.operandStackBase - 1 - (f.top + 1) + 1) :
          u[f.top + 1 + i - 1] = w[f.top + 1 + i - 1]
    <3> SUFFICES ASSUME NEW i \in 1..(f.operandStackBase - 1 - (f.top + 1) + 1)
                 PROVE  u[f.top + 1 + i - 1] = w[f.top + 1 + i - 1]
      OBVIOUS
    <3>1. f.top + 1 + i - 1 \in (f.top + 1)..c
      OBVIOUS
    <3> QED BY <3>1
  <2> QED BY <2>1 DEF Part
<1> QED BY <1>1, <1>2, <1>3, <1>4 DEF View

LEMMA FramesProperties == FrameInv => FramesShape
<1> SUFFICES ASSUME FrameInv PROVE FramesShape
  OBVIOUS
<1> DEFINE r == [frame EXCEPT !.top = top]
<1>1. Depth \in Nat /\ frameStack \in Seq(Frame) /\ frame \in Frame /\ top \in Int
  BY FrameStackAssumption DEF FrameInv, FrameTypeOK, Depth
<1>2. r \in Frame
  BY <1>1 DEF Frame
<1> HIDE DEF r
<1>3. /\ Append(frameStack, r) \in Seq(Frame) /\ Len(Append(frameStack, r)) = Depth + 1
      /\ \A k \in 1..Depth : Append(frameStack, r)[k] = frameStack[k]
      /\ Append(frameStack, r)[Depth + 1] = r
  BY <1>1, <1>2, AppendProperties DEF Depth
<1>4. \A k \in 1..Depth : frameStack[k] \in Frame
  BY <1>1 DEF Depth
<1> QED BY <1>1, <1>2, <1>3, <1>4 DEF Frames, FramesShape, r

LEMMA Placement == RefinementInv => AllPlaced
<1> SUFFICES ASSUME RefinementInv, NEW k \in 1..(Depth + 1) PROVE Placed(k)
  BY DEF AllPlaced
<1> DEFINE f == Frames[k]
           c == Ceiling(k)
<1>1. FrameInv /\ FirstTakesNothing
  BY DEF RefinementInv
<1>2. /\ StackSize \in Nat /\ MaxOps \in Nat /\ CWords \in Nat /\ FrameStackSize \in Nat
      /\ StackSize > 2
  BY FrameStackAssumption
<1>3. /\ Depth \in Nat /\ frameStack \in Seq(Frame) /\ frame \in Frame /\ top \in Int
      /\ Frames[Depth + 1] = [frame EXCEPT !.top = top]
      /\ \A j \in 1..Depth : Frames[j] = frameStack[j]
      /\ \A j \in 1..(Depth + 1) : Frames[j] \in Frame
  BY <1>1, FramesProperties DEF FramesShape
<1>4. f \in Frame
  BY <1>3
<1>5. /\ f.base \in Int /\ f.top \in Int /\ f.operandStackBase \in Int
      /\ f.nargs \in Nat /\ f.nlocals \in Nat
  BY <1>4 DEF Frame
<1>6. /\ -1 <= f.top /\ f.top < f.operandStackBase
      /\ f.operandStackBase = f.base - f.nlocals /\ f.base <= StackSize
  <2>1. CASE k = Depth + 1
    <3>1. FrameOK(frame, top, Depth + 1) /\ -1 <= top
      BY <1>1, <1>2 DEF FrameInv, FrameTypeOK, Depth
    <3>2. /\ f.top = top /\ f.base = frame.base /\ f.nlocals = frame.nlocals
          /\ f.operandStackBase = frame.operandStackBase
      BY <1>3, <2>1 DEF Frame
    <3> QED BY <3>1, <3>2 DEF FrameOK
  <2>2. CASE k # Depth + 1
    <3>1. k \in 1..Depth /\ f = frameStack[k] /\ CallerOK(k)
      BY <1>1, <1>3, <2>2 DEF FrameInv, Depth
    <3>2. -1 <= f.top
      <4>1. CASE k = 1
        BY <1>2, <1>5, <3>1, <4>1 DEF CallerOK
      <4>2. CASE k # 1
        <5>1. k \in 1..(FrameStackSize + 1)
          BY <1>1, <1>2, <1>3, <3>1 DEF FrameInv, FrameTypeOK, Depth
        <5>2. Low(k) \in Int /\ Low(k) >= CWords
          BY <5>1, LowBound
        <5>3. f.operandStackBase - f.top <= MaxOps /\ f.operandStackBase - MaxOps >= Low(k)
          BY <1>3, <3>1, <4>2 DEF CallerOK, FrameOK
        <5> HIDE DEF f
        <5> QED BY <1>2, <1>5, <5>2, <5>3
      <4> QED BY <4>1, <4>2
    <3> QED BY <3>1, <3>2 DEF CallerOK, FrameOK
  <2> QED BY <2>1, <2>2
<1>7. c \in Int /\ f.base + f.nargs - 1 <= c /\ c < StackSize
  <2>1. CASE k = 1
    <3>1. f.nargs = 0
      <4>1. CASE frameStack = <<>>
        <5>1. frame.nargs = 0 /\ Depth + 1 = 1
          BY <1>1, <4>1 DEF FirstTakesNothing, Depth
        <5>2. f = [frame EXCEPT !.top = top]
          BY <1>3, <2>1, <5>1
        <5> QED BY <1>3, <5>1, <5>2 DEF Frame
      <4>2. CASE frameStack # <<>>
        <5>1. 1 \in 1..Depth
          BY <1>3, <4>2, EmptySeq DEF Depth
        <5> QED BY <1>1, <1>3, <2>1, <4>2, <5>1 DEF FirstTakesNothing
      <4> QED BY <4>1, <4>2
    <3> QED BY <1>2, <1>5, <1>6, <2>1, <3>1 DEF Ceiling
  <2>2. CASE k # 1
    <3>1. k - 1 \in 1..Depth /\ c = Frames[k - 1].top /\ Frames[k - 1] = frameStack[k - 1]
          /\ Frames[k - 1] \in Frame /\ CallerOK(k - 1)
      BY <1>1, <1>3, <2>2 DEF Ceiling, FrameInv, Depth
    <3>2. c \in Int /\ c < StackSize
      BY <1>2, <3>1 DEF CallerOK, FrameOK, Frame
    <3>3. Linked(Frames[k - 1], f)
      <4>1. CASE k = Depth + 1
        <5>1. frameStack # <<>> /\ Linked(frameStack[Depth], frame)
          BY <1>1, <1>3, <2>2, <4>1, EmptySeq DEF FrameInv, Depth, Last
        <5>2. f.base = frame.base /\ f.nargs = frame.nargs
          BY <1>3, <4>1 DEF Frame
        <5> QED BY <1>3, <3>1, <4>1, <5>1, <5>2 DEF Linked
      <4>2. CASE k # Depth + 1
        BY <1>1, <1>3, <2>2, <3>1, <4>2 DEF FrameInv, CallerOK, Depth
      <4> QED BY <4>1, <4>2
    <3> QED BY <3>1, <3>2, <3>3 DEF Linked
  <2> QED BY <2>1, <2>2
<1>8. Activation(k) = View(word, f, c)
  <2>1. (IF k = 1 THEN <<>> ELSE Words(f.base + f.nargs, Frames[k - 1].top))
          = Part(word, f.base + f.nargs, c)
    <3>1. CASE k = 1
      <4>1. c - (f.base + f.nargs) + 1 = 0
        BY <1>5, <3>1 DEF Ceiling
      <4>2. Part(word, f.base + f.nargs, c) = <<>>
        BY <4>1 DEF Part
      <4> QED BY <3>1, <4>2
    <3>2. CASE k # 1
      BY <3>2 DEF Ceiling, Words, Part
    <3> QED BY <3>1, <3>2
  <2>2. Words(f.top + 1, f.operandStackBase - 1) = Part(word, f.top + 1, f.operandStackBase - 1)
    BY DEF Words, Part
  <2> QED BY <2>1, <2>2 DEF Activation, View
<1> QED BY <1>5, <1>6, <1>7, <1>8 DEF Placed

\* The activations, the running one first.
LEMMA ActivationsProperties == RefinementInv => ActivationsShape
<1> SUFFICES ASSUME RefinementInv PROVE ActivationsShape
  OBVIOUS
<1>1. Depth \in Nat /\ Len(Frames) = Depth + 1
  BY FramesProperties DEF RefinementInv, FramesShape
<1>2. Activations = [j \in 1..(Depth + 1) |-> Activation(Depth + 2 - j)]
  BY <1>1 DEF Activations
<1>3. \A j \in 1..(Depth + 1) : Activations[j] = Activation(Depth + 2 - j)
  BY <1>2
<1>4. Activations \in Seq({Activation(k) : k \in 1..(Depth + 1)})
  BY <1>1, <1>2
<1>5. Len(Activations) = Depth + 1
  BY <1>1, <1>2
<1>6. Activations # <<>> /\ Head(Activations) = Activations[1]
  BY <1>1, <1>4, <1>5, EmptySeq
<1>7. Activations[1] = Activation(Depth + 1)
  BY <1>1, <1>3
<1> QED BY <1>1, <1>2, <1>3, <1>5, <1>6, <1>7 DEF ActivationsShape

\* A caller's activation changes neither when words at or below its top do nor when
\* other frames are pushed and popped.
LEMMA CallersKept ==
  ASSUME RefinementInv, RefinementInv', NEW d \in Nat, d <= Depth, d <= Depth',
         \A k \in 1..d : frameStack'[k] = frameStack[k],
         \A a \in Address : (d > 0 /\ a > frameStack[d].top) => word'[a] = word[a]
  PROVE  \A k \in 1..d : Activation(k)' = Activation(k)
<1> SUFFICES ASSUME NEW k \in 1..d PROVE Activation(k)' = Activation(k)
  OBVIOUS
<1>1. /\ Depth \in Nat /\ frameStack \in Seq(Frame)
      /\ \A j \in 1..Depth : Frames[j] = frameStack[j]
  BY FramesProperties DEF RefinementInv, FramesShape
<1>2. FrameInv'
  BY DEF RefinementInv
<1>3. Depth' \in Nat /\ \A j \in 1..Depth' : Frames'[j] = frameStack'[j]
  <2>1. FramesShape'
    BY <1>2, FramesProperties, PTL
  <2> QED BY <2>1 DEF FramesShape
<1>4. k \in 1..(Depth + 1) /\ k \in 1..(Depth' + 1)
  <2>1. k \in Nat /\ 1 <= k /\ k <= d
    OBVIOUS
  <2>2. Depth \in Nat /\ Depth' \in Nat
    BY <1>1, <1>3
  <2> QED BY <2>1, <2>2 DEF Depth
<1>5. Placed(k)
  BY <1>4, Placement DEF AllPlaced
<1>6. Placed(k)'
  <2>1. AllPlaced'
    BY Placement, PTL
  <2> QED BY <1>4, <2>1 DEF AllPlaced
<1> DEFINE f == Frames[k]
           c == Ceiling(k)
<1>7. Frames'[k] = f
  BY <1>1, <1>3
<1>8. Ceiling(k)' = c
  <2>1. CASE k = 1
    BY <1>1, <1>3, <2>1 DEF Ceiling
  <2>2. CASE k # 1
    <3>1. k - 1 \in 1..d /\ k - 1 \in 1..Depth /\ k - 1 \in 1..Depth'
      BY <1>1, <1>3, <2>2
    <3>2. Frames'[k - 1] = Frames[k - 1]
      BY <1>1, <1>3, <3>1
    <3> QED BY <2>2, <3>2 DEF Ceiling
  <2> QED BY <2>1, <2>2
<1>9. Activation(k) = View(word, f, c) /\ Activation(k)' = View(word', f, c)
  BY <1>5, <1>6, <1>7, <1>8 DEF Placed
<1>10. \A a \in (f.top + 1)..c : word'[a] = word[a]
  <2> SUFFICES ASSUME NEW a \in (f.top + 1)..c PROVE word'[a] = word[a]
    OBVIOUS
  <2>1. f = frameStack[k] /\ k \in 1..Depth /\ d \in 1..Depth /\ k <= d
    BY <1>1
  <2>2. frameStack[d].top <= f.top
    BY <2>1 DEF RefinementInv, TopsDescend, Depth
  <2>3. frameStack[d].top \in Int
    <3>1. frameStack[d] \in Frame
      BY <1>1, <2>1 DEF Depth
    <3> QED BY <3>1 DEF Frame
  <2>4. f.top \in Int /\ c \in Int /\ -1 <= f.top /\ c < StackSize /\ StackSize \in Nat
    BY <1>5, FrameStackAssumption DEF Placed
  <2> HIDE DEF f, c
  <2>5. a \in Address /\ a > frameStack[d].top
    BY <2>2, <2>3, <2>4 DEF Address
  <2> QED BY <2>5
<1> QED BY <1>5, <1>9, <1>10, SameView DEF Placed

\* What the running activation is in the virtual stack.
RunningShape ==
  LET c == Ceiling(Depth + 1) IN
    /\ frame.base \in Int /\ frame.operandStackBase \in Int /\ top \in Int /\ c \in Int
    /\ frame.nargs \in Nat /\ frame.nlocals \in Nat
    /\ -1 <= top /\ top < frame.operandStackBase
    /\ frame.operandStackBase = frame.base - frame.nlocals /\ frame.base <= StackSize
    /\ frame.base + frame.nargs - 1 <= c /\ c < StackSize
    /\ Head(Activations) = View(word, [frame EXCEPT !.top = top], c)
    /\ View(word, [frame EXCEPT !.top = top], c) =
         [args    |-> [i \in 1..frame.nargs |-> word[frame.base + frame.nargs - i]],
          closure |-> Part(word, frame.base + frame.nargs, c),
          locals  |-> [i \in 1..frame.nlocals |-> word[frame.base - i]],
          ops     |-> Part(word, top + 1, frame.operandStackBase - 1),
          ret     |-> frame.returnAddress]

LEMMA RunningProperties == RefinementInv => RunningShape
<1> SUFFICES ASSUME RefinementInv PROVE RunningShape
  OBVIOUS
<1> DEFINE f == Frames[Depth + 1]
<1>1. Depth \in Nat /\ f = [frame EXCEPT !.top = top] /\ frame \in Frame
  BY FramesProperties DEF RefinementInv, FramesShape
<1>2. Placed(Depth + 1)
  BY <1>1, Placement DEF AllPlaced
<1>3. /\ f.base = frame.base /\ f.top = top /\ f.operandStackBase = frame.operandStackBase
      /\ f.nargs = frame.nargs /\ f.nlocals = frame.nlocals
      /\ f.returnAddress = frame.returnAddress
  BY <1>1 DEF Frame
<1>4. Head(Activations) = Activation(Depth + 1)
  BY ActivationsProperties DEF ActivationsShape
<1> QED BY <1>1, <1>2, <1>3, <1>4 DEF Placed, RunningShape, View

\* A step of the running activation, which leaves its callers alone.
LEMMA OnlyRunning ==
  ASSUME RefinementInv, RefinementInv', UNCHANGED <<frame, frameStack>>,
         \A a \in Address : (Depth > 0 /\ a > frameStack[Depth].top) => word'[a] = word[a]
  PROVE  /\ Activations' = <<View(word', [frame EXCEPT !.top = top'], Ceiling(Depth + 1))>>
                            \o Tail(Activations)
         /\ RunningShape' /\ Ceiling(Depth + 1)' = Ceiling(Depth + 1)
<1>1. PICK n \in Nat : Depth = n /\ Depth' = n
  BY FramesProperties DEF RefinementInv, FramesShape, Depth
<1>2. \A k \in 1..n : Activation(k)' = Activation(k)
  <2>1. n <= Depth /\ n <= Depth' /\ \A k \in 1..n : frameStack'[k] = frameStack[k]
    BY <1>1 DEF Depth
  <2>2. \A a \in Address : (n > 0 /\ a > frameStack[n].top) => word'[a] = word[a]
    BY <1>1
  <2> QED BY <1>1, <2>1, <2>2, CallersKept
<1>3. ActivationsShape /\ ActivationsShape'
  BY ActivationsProperties, PTL
<1>4. RunningShape'
  BY RunningProperties, PTL
<1>5. Ceiling(n + 1)' = Ceiling(n + 1)
  <2>1. FrameInv /\ FrameInv'
    BY DEF RefinementInv
  <2>2. FramesShape /\ FramesShape'
    BY <2>1, FramesProperties, PTL
  <2>3. CASE n = 0
    <3>1. Frames[1] = [frame EXCEPT !.top = top] /\ Frames'[1] = [frame EXCEPT !.top = top']
      BY <1>1, <2>2, <2>3 DEF FramesShape, Depth
    <3>2. frame \in Frame
      BY <2>2 DEF FramesShape
    <3> QED BY <1>1, <2>3, <3>1, <3>2 DEF Ceiling, Frame
  <2>4. CASE n # 0
    <3>1. n \in 1..Depth /\ n + 1 - 1 = n /\ n + 1 # 1
      BY <1>1, <2>4
    <3>2. Frames[n] = frameStack[n] /\ Frames'[n] = frameStack[n]
      BY <1>1, <2>2, <3>1 DEF FramesShape, Depth
    <3> QED BY <3>1, <3>2 DEF Ceiling
  <2> QED BY <2>3, <2>4
<1>10. PICK s, t : s = Activations /\ t = Activations'
  OBVIOUS
<1>6. /\ s = [j \in 1..(n + 1) |-> s[j]] /\ t = [j \in 1..(n + 1) |-> t[j]]
  BY <1>1, <1>3, <1>10 DEF ActivationsShape, Depth
<1>7. \A j \in 2..(n + 1) : t[j] = s[j]
  <2> SUFFICES ASSUME NEW j \in 2..(n + 1) PROVE t[j] = s[j]
    OBVIOUS
  <2>1. n + 2 - j \in 1..n /\ j \in 1..(n + 1)
    BY <1>1
  <2>2. s[j] = Activation(n + 2 - j)
    BY <1>1, <1>3, <1>10, <2>1 DEF ActivationsShape
  <2>3. t[j] = Activation(n + 2 - j)'
    BY <1>1, <1>3, <1>10, <2>1 DEF ActivationsShape, Depth
  <2>4. PICK k : k = n + 2 - j
    OBVIOUS
  <2> QED BY <1>2, <2>1, <2>2, <2>3, <2>4
<1>8. t[1] = View(word', [frame EXCEPT !.top = top'], Ceiling(n + 1))
  <2>1. t[1] = Head(Activations)'
    BY <1>1, <1>3, <1>10 DEF ActivationsShape, Depth
  <2> QED BY <1>1, <1>4, <1>5, <2>1 DEF RunningShape, Depth
<1>9. t = <<t[1]>> \o Tail(s)
  <2>1. PICK m \in Nat : m = n + 1 /\ m > 0
    BY <1>1
  <2>2. PICK S : s \in [1..m -> S] /\ t \in [1..m -> S]
    <3> DEFINE S == {s[j] : j \in 1..m} \cup {t[j] : j \in 1..m}
    <3>1. s \in [1..m -> S] /\ t \in [1..m -> S]
      BY <1>6, <2>1
    <3> QED BY <3>1
  <2>3. \A j \in 2..m : t[j] = s[j]
    BY <1>7, <2>1
  <2> QED BY ONLY <2>1, <2>2, <2>3, OtherHead
<1> QED BY <1>1, <1>4, <1>5, <1>8, <1>9, <1>10 DEF Depth

-----------------------------------------------------------------------------
(* Instructions that stay in the activation                                 *)

CallersTop == Depth > 0 => Ceiling(Depth + 1) = frameStack[Depth].top

LEMMA CeilingIsCallersTop == RefinementInv => CallersTop
<1> SUFFICES ASSUME RefinementInv, Depth > 0
             PROVE  Ceiling(Depth + 1) = frameStack[Depth].top
  BY DEF CallersTop
<1>1. FramesShape
  BY FramesProperties DEF RefinementInv
<1>2. PICK n \in Nat : n = Depth
  BY <1>1 DEF FramesShape
<1>3. n \in 1..n /\ n + 1 - 1 = n /\ n + 1 # 1
  BY <1>2
<1> QED BY <1>1, <1>2, <1>3 DEF Ceiling, FramesShape

LEMMA Unmoved ==
  ASSUME RefinementInv, FrameInv', UnchangedFrames, LiveWords'
  PROVE  RefinementInv'
BY DEF RefinementInv, UnchangedFrames, TopsDescend, FirstTakesNothing

\* n operands are replaced by vs, which may have used words at or below the top.
LEMMA OperandsReplaced ==
  ASSUME RefinementInv, RefinementInv', Running, UnchangedFrames,
         NEW n \in Nat, n <= OperandStackSize, NEW vs,
         \A a \in Address : a > top + n => word'[a] = word[a],
         Part(word', top' + 1, frame.operandStackBase - 1)
           = vs \o SubSeq(Part(word, top + 1, frame.operandStackBase - 1), n + 1,
                          Len(Part(word, top + 1, frame.operandStackBase - 1)))
  PROVE  Abstract!Replace(n, vs)
<1>0. PICK b, c : b = frame.operandStackBase /\ c = Ceiling(Depth + 1)
  OBVIOUS
<1>1. RunningShape
  BY RunningProperties
<1>12. /\ frame.base \in Int /\ b \in Int /\ top \in Int /\ c \in Int
       /\ frame.nargs \in Nat /\ frame.nlocals \in Nat
       /\ -1 <= top /\ top < b /\ b = frame.base - frame.nlocals
       /\ frame.base + frame.nargs - 1 <= c /\ c < StackSize
  BY <1>0, <1>1 DEF RunningShape
<1>2. top + n <= b - 1 /\ top + n \in Int /\ b \in Int /\ c \in Int /\ b - 1 <= c
  <2>1. n <= b - top - 1 /\ n \in Nat
    BY <1>0 DEF OperandStackSize
  <2> QED BY ONLY <1>12, <2>1
<1>3. /\ Activations' = <<View(word', [frame EXCEPT !.top = top'], c)>> \o Tail(Activations)
      /\ RunningShape' /\ Ceiling(Depth + 1)' = c
  <2>1. \A a \in Address : (Depth > 0 /\ a > frameStack[Depth].top) => word'[a] = word[a]
    <3> SUFFICES ASSUME NEW a \in Address, Depth > 0, a > frameStack[Depth].top
                 PROVE  word'[a] = word[a]
      OBVIOUS
    <3>1. c = frameStack[Depth].top
      BY <1>0, CeilingIsCallersTop DEF CallersTop
    <3>2. a \in Int
      BY FrameStackAssumption DEF Address
    <3>3. a > top + n
      BY <1>2, <3>1, <3>2
    <3> QED BY <3>3
  <2> QED BY <1>0, <2>1, OnlyRunning DEF UnchangedFrames
<1> DEFINE g == [frame EXCEPT !.top = b - 1]
           r == [frame EXCEPT !.top = top]
           q == [frame EXCEPT !.top = top']
<1>4. FrameInv
  BY DEF RefinementInv
<1>5. frame \in Frame
  BY <1>4, FramesProperties DEF FramesShape
<1>6. View(word', g, c) = View(word, g, c)
  <2>1. \A a \in (b - 1 + 1)..c : word'[a] = word[a]
    <3> SUFFICES ASSUME NEW a \in (b - 1 + 1)..c PROVE word'[a] = word[a]
      OBVIOUS
    <3>1. top + n >= -1 /\ c < StackSize /\ StackSize \in Nat
      BY <1>1, <1>2, <1>12, FrameStackAssumption
    <3>2. a \in Address /\ a > top + n
      BY <1>2, <3>1 DEF Address
    <3> QED BY <3>2
  <2>2. /\ g.base = frame.base /\ g.top = b - 1 /\ g.operandStackBase = b
        /\ g.nargs = frame.nargs /\ g.nlocals = frame.nlocals
    BY <1>0, <1>5, <1>12 DEF Frame
  <2> HIDE DEF g
  <2>3. /\ g.base \in Int /\ g.top \in Int /\ g.operandStackBase \in Int
        /\ g.nargs \in Nat /\ g.nlocals \in Nat
        /\ g.top < g.operandStackBase /\ g.operandStackBase = g.base - g.nlocals
        /\ g.base + g.nargs - 1 <= c /\ \A a \in (g.top + 1)..c : word'[a] = word[a]
    BY SMTT(30), <1>2, <1>12, <2>1, <2>2
  <2> QED BY ONLY <1>2, <2>3, SameView
<1>7. /\ View(word', q, c).args = View(word, r, c).args
      /\ View(word', q, c).closure = View(word, r, c).closure
      /\ View(word', q, c).locals = View(word, r, c).locals
      /\ View(word', q, c).ret = View(word, r, c).ret
  <2>1. /\ View(word', q, c).args = View(word', g, c).args
        /\ View(word', q, c).closure = View(word', g, c).closure
        /\ View(word', q, c).locals = View(word', g, c).locals
        /\ View(word', q, c).ret = View(word', g, c).ret
    BY <1>5 DEF View, Frame
  <2>2. /\ View(word, r, c).args = View(word, g, c).args
        /\ View(word, r, c).closure = View(word, g, c).closure
        /\ View(word, r, c).locals = View(word, g, c).locals
        /\ View(word, r, c).ret = View(word, g, c).ret
    BY <1>5 DEF View, Frame
  <2> QED BY <1>6, <2>1, <2>2
<1>8. /\ View(word', q, c).ops = Part(word', top' + 1, b - 1)
      /\ View(word, r, c).ops = Part(word, top + 1, b - 1)
  BY <1>0, <1>5 DEF View, Frame
<1>9. View(word', q, c) = [View(word, r, c) EXCEPT !.ops = Part(word', top' + 1, b - 1)]
  BY <1>7, <1>8 DEF View
<1>10. Len(Part(word, top + 1, b - 1)) = OperandStackSize
  <2>1. top + 1 \in Int /\ b - 1 \in Int /\ top + 1 <= b - 1 + 1
    BY ONLY <1>12
  <2>2. Len(Part(word, top + 1, b - 1)) = b - 1 - (top + 1) + 1
    BY <2>1, PartProperties
  <2> QED BY <1>0, <1>12, <2>2 DEF OperandStackSize
<1>11. Head(Activations) = View(word, r, c)
  BY <1>0, <1>1 DEF RunningShape
<1> HIDE DEF r, q, g
<1> QED BY <1>0, <1>3, <1>8, <1>9, <1>10, <1>11
        DEF Abstract!Replace, Abstract!WithOps, Abstract!Current, Abstract!Callers, Abstract!Ops,
            Abstract!Drop, UnchangedFrames, Running, q

\* n operands are popped and a value is pushed.
LEMMA Pushed ==
  ASSUME RefinementInv, FrameInv', Running,
         NEW w \in [Address -> Value], NEW n \in Nat, n <= OperandStackSize,
         NEW v \in Literals \cup {Zero, Fill},
         \A a \in Address : a > top => w[a] = word[a], PopPush(w, n, v)
  PROVE  RefinementInv' /\ Abstract!Replace(n, <<v>>)
<1>1. status' # "overrun"
  BY DEF FrameInv
<1>2. top + n >= 0 /\ top' = top + n - 1 /\ word' = [w EXCEPT ![top + n] = v] /\ UnchangedFrames
  BY <1>1 DEF PopPush, Writing
<1>3. PICK b : b = frame.operandStackBase
  OBVIOUS
<1>4. top \in Int /\ b \in Int /\ b <= StackSize /\ StackSize \in Nat
  <2>1. FrameInv
    BY DEF RefinementInv
  <2> QED BY <1>3, <2>1, Bounds, FrameStackAssumption
<1>5. n <= b - top - 1 /\ n \in Nat
  BY <1>3 DEF OperandStackSize
<1>6. top + n \in Address /\ top' + 1 = top + n
  BY <1>2, <1>4, <1>5 DEF Address
<1>7. word'[top + n] = v /\ \A a \in Address : a > top + n => word'[a] = word[a]
  BY <1>2, <1>4, <1>6 DEF Address
<1>8. LiveWords'
  <2> SUFFICES ASSUME NEW a \in Address, a > top' PROVE word'[a] \in Literals \cup {Zero, Fill}
    BY DEF LiveWords
  <2>1. a = top + n \/ (a > top + n /\ a > top)
    BY <1>2, <1>4, FrameStackAssumption DEF Address
  <2> QED BY <1>7, <2>1 DEF RefinementInv, LiveWords
<1>9. RefinementInv'
  BY <1>2, <1>8, Unmoved
<1>10. Part(word', top' + 1, b - 1)
         = <<v>> \o SubSeq(Part(word, top + 1, b - 1), n + 1, Len(Part(word, top + 1, b - 1)))
  <2>1. PICK lo \in Int, hi \in Int : lo = top + 1 /\ hi = b - 1
    BY <1>4
  <2>2. PICK m \in Int : m = lo + n
    BY <1>5, <2>1
  <2>3. lo + n <= hi + 1 /\ m <= hi + 1 /\ m - 1 = top + n /\ m - 1 = top' + 1
    BY <1>4, <1>5, <1>6, <2>1, <2>2
  <2>4. \A i \in 1..(hi - m + 1) : word'[m + i - 1] = word[m + i - 1]
    <3> SUFFICES ASSUME NEW i \in 1..(hi - m + 1) PROVE word'[m + i - 1] = word[m + i - 1]
      OBVIOUS
    <3>1. m + i - 1 \in Address /\ m + i - 1 > top + n
      BY <1>2, <1>4, <2>1, <2>3 DEF Address
    <3> QED BY <1>7, <3>1
  <2>5. Part(word', m, hi) = Part(word, m, hi)
    BY <2>4 DEF Part
  <2>6. SubSeq(Part(word, lo, hi), n + 1, Len(Part(word, lo, hi))) = Part(word, m, hi)
    BY <2>2, <2>3, PartDrop
  <2>7. Part(word', m - 1, hi) = <<word'[m - 1]>> \o Part(word', m, hi)
    BY <2>3, PartPush
  <2> QED BY <1>7, <2>1, <2>3, <2>5, <2>6, <2>7
<1> QED BY <1>2, <1>3, <1>7, <1>9, <1>10, OperandsReplaced

LEMMA FailRefines ==
  ASSUME RefinementInv, FrameInv', status \in {"entering", "running"}, Fail
  PROVE  RefinementInv' /\ Abstract!Fail
<1>1. RefinementInv'
  BY DEF RefinementInv, Fail, TopsDescend, FirstTakesNothing, LiveWords
<1>2. UNCHANGED Activations
  BY DEF Fail, Activations, Activation, Frames, Words
<1> QED BY <1>1, <1>2 DEF Fail, Abstract!Fail

LEMMA ComputeRefines ==
  ASSUME RefinementInv, FrameInv',
         (\E n \in 0..3, v \in Literals : Compute(n, v)) \/ Drop \/ Dup
  PROVE  RefinementInv' /\ Abstract!Next
<1>1. Running
  BY DEF Compute, Drop, Dup
<1>2. PICK b : b = frame.operandStackBase
  OBVIOUS
<1>3. /\ top \in Int /\ b \in Int /\ word \in [Address -> Value] /\ b <= StackSize
      /\ -1 <= top /\ OperandStackSize \in Nat /\ OperandStackSize = b - top - 1
      /\ StackSize \in Nat
  BY <1>1, <1>2, Bounds, FrameStackAssumption
     DEF RefinementInv, FrameInv, FrameTypeOK, OperandStackSize
<1>4. Head(Activations).ops = Part(word, top + 1, b - 1)
  BY <1>2, RunningProperties DEF RunningShape
<1>5. Len(Part(word, top + 1, b - 1)) = OperandStackSize
  <2>1. top + 1 \in Int /\ b - 1 \in Int /\ top + 1 <= b - 1 + 1
    BY <1>3
  <2>2. Len(Part(word, top + 1, b - 1)) = b - 1 - (top + 1) + 1
    BY <2>1, PartProperties
  <2> QED BY <1>3, <2>2
<1>6. CASE Fail
  BY <1>1, <1>6, FailRefines DEF Running, Abstract!Next
<1>7. ASSUME NEW n \in 0..3, NEW v \in Literals, Compute(n, v), ~Fail
      PROVE  RefinementInv' /\ Abstract!Next
  <2>1. n \in Nat /\ n <= OperandStackSize /\ PopPush(word, n, v)
    BY <1>3, <1>7 DEF Compute
  <2>2. RefinementInv' /\ Abstract!Replace(n, <<v>>)
    BY <1>1, <1>3, <2>1, Pushed
  <2>3. n \in 0..Len(Abstract!Ops)
    BY <1>3, <1>4, <1>5, <2>1 DEF Abstract!Ops, Abstract!Current
  <2> QED BY <2>2, <2>3 DEF Abstract!Next
<1>8. CASE Drop /\ ~Fail
  <2>1. OperandStackSize # 0 /\ top' = top + 1 /\ word' = word /\ UnchangedFrames
    BY <1>8 DEF Drop
  <2>2. LiveWords'
    BY <1>3, <2>1, FrameStackAssumption DEF RefinementInv, LiveWords, Address
  <2>3. RefinementInv'
    BY <2>1, <2>2, Unmoved
  <2>4. Part(word', top' + 1, b - 1)
          = <<>> \o SubSeq(Part(word, top + 1, b - 1), 1 + 1, Len(Part(word, top + 1, b - 1)))
    <3>1. PICK lo \in Int, hi \in Int : lo = top + 1 /\ hi = b - 1
      BY <1>3
    <3>2. lo + 1 <= hi + 1 /\ top' + 1 = lo + 1 /\ 1 \in Nat
      BY <1>3, <2>1, <3>1
    <3>3. SubSeq(Part(word, lo, hi), 1 + 1, Len(Part(word, lo, hi))) = Part(word, lo + 1, hi)
      BY <3>2, PartDrop
    <3>4. Part(word, lo + 1, hi) \in Seq({word[a] : a \in (lo + 1)..hi})
      BY <3>2, PartProperties
    <3>5. <<>> \o Part(word, lo + 1, hi) = Part(word, lo + 1, hi)
      BY <3>4, ConcatEmptySeq
    <3> QED BY <2>1, <3>1, <3>2, <3>3, <3>5
  <2>5. \A a \in Address : a > top + 1 => word'[a] = word[a]
    BY <2>1
  <2>6. 1 \in Nat /\ 1 <= OperandStackSize
    BY <1>3, <2>1
  <2>7. Abstract!Replace(1, <<>>)
    BY <1>1, <1>2, <2>1, <2>3, <2>4, <2>5, <2>6, OperandsReplaced
  <2> QED BY <2>3, <2>7 DEF Abstract!Next
<1>9. CASE Dup /\ ~Fail
  <2>1. OperandStackSize # 0 /\ PopPush(word, 0, word[top + 1])
    BY <1>9 DEF Dup
  <2>2. top + 1 \in Address /\ top + 1 > top
    BY <1>3, <2>1 DEF Address
  <2>3. word[top + 1] \in Literals \cup {Zero, Fill}
    BY <2>2 DEF RefinementInv, LiveWords
  <2>4. 0 \in Nat /\ 0 <= OperandStackSize
    BY <1>3
  <2>5. RefinementInv' /\ Abstract!Replace(0, <<word[top + 1]>>)
    BY <1>1, <1>3, <2>1, <2>3, <2>4, Pushed
  <2>6. Head(Abstract!Ops) = word[top + 1] /\ Abstract!Ops # <<>>
    <3>1. PICK p : p = Part(word, top + 1, b - 1)
      OBVIOUS
    <3>2. Len(p) = OperandStackSize /\ p[1] = word[top + 1 + 1 - 1]
          /\ p \in Seq({word[a] : a \in (top + 1)..(b - 1)})
      <4>1. top + 1 \in Int /\ b - 1 \in Int /\ top + 1 <= b - 1 + 1
            /\ 1 \in 1..(b - 1 - (top + 1) + 1)
        BY <1>3, <2>1
      <4> QED BY <1>5, <3>1, <4>1, PartProperties
    <3>3. p # <<>> /\ Head(p) = p[1]
      BY <2>1, <3>2, EmptySeq
    <3>4. top + 1 + 1 - 1 = top + 1
      BY <1>3
    <3> QED BY <1>4, <3>1, <3>2, <3>3, <3>4 DEF Abstract!Ops, Abstract!Current
  <2> QED BY <2>5, <2>6 DEF Abstract!Next
<1> QED BY <1>6, <1>7, <1>8, <1>9

\* The stacks u and w are the same from lo up to hi, but for the value v of the word a.
Assigned(w, u, lo, hi, a, v) == \A x \in lo..hi : u[x] = IF x = a THEN v ELSE w[x]

LocalSet(w, u, f, c, k, v) == View(u, f, c) = [View(w, f, c) EXCEPT !.locals[k] = v]

ArgSet(w, u, f, c, k, v) == View(u, f, c) = [View(w, f, c) EXCEPT !.args[k] = v]

\* A word of a local, or of an argument, is assigned.
LEMMA StoreView ==
  ASSUME NEW w, NEW u, NEW f, NEW c \in Int, NEW a \in Int, NEW v,
         f.base \in Int, f.top \in Int, f.operandStackBase \in Int,
         f.nargs \in Nat, f.nlocals \in Nat,
         f.top < f.operandStackBase, f.operandStackBase = f.base - f.nlocals,
         f.base + f.nargs - 1 <= c,
         Assigned(w, u, f.top + 1, c, a, v)
  PROVE  /\ \A k \in 1..f.nlocals : a = f.base - k => LocalSet(w, u, f, c, k, v)
         /\ \A k \in 1..f.nargs : a = f.base + f.nargs - k => ArgSet(w, u, f, c, k, v)
<1> DEFINE args(z) == [i \in 1..f.nargs |-> z[f.base + f.nargs - i]]
           locals(z) == [i \in 1..f.nlocals |-> z[f.base - i]]
           rest(z) == Part(z, f.base + f.nargs, c)
           ops(z) == Part(z, f.top + 1, f.operandStackBase - 1)
<1>0. \A z : View(z, f, c) = [args |-> args(z), closure |-> rest(z), locals |-> locals(z),
                             ops |-> ops(z), ret |-> f.returnAddress]
  BY DEF View
<1>7. \A x \in (f.top + 1)..c : u[x] = IF x = a THEN v ELSE w[x]
  BY DEF Assigned
<1>1. \A i \in 1..f.nargs :
        u[f.base + f.nargs - i] = IF f.base + f.nargs - i = a THEN v ELSE w[f.base + f.nargs - i]
  <2> SUFFICES ASSUME NEW i \in 1..f.nargs
               PROVE  u[f.base + f.nargs - i]
                        = IF f.base + f.nargs - i = a THEN v ELSE w[f.base + f.nargs - i]
    OBVIOUS
  <2>1. f.base + f.nargs - i \in (f.top + 1)..c
    OBVIOUS
  <2> QED BY <1>7, <2>1
<1>2. \A i \in 1..f.nlocals : u[f.base - i] = IF f.base - i = a THEN v ELSE w[f.base - i]
  <2> SUFFICES ASSUME NEW i \in 1..f.nlocals
               PROVE  u[f.base - i] = IF f.base - i = a THEN v ELSE w[f.base - i]
    OBVIOUS
  <2>1. f.base - i \in (f.top + 1)..c
    OBVIOUS
  <2> QED BY <1>7, <2>1
<1>3. a < f.base + f.nargs =>
        Part(u, f.base + f.nargs, c) = Part(w, f.base + f.nargs, c)
  <2> SUFFICES ASSUME a < f.base + f.nargs
               PROVE  Part(u, f.base + f.nargs, c) = Part(w, f.base + f.nargs, c)
    OBVIOUS
  <2>1. \A i \in 1..(c - (f.base + f.nargs) + 1) :
          u[f.base + f.nargs + i - 1] = w[f.base + f.nargs + i - 1]
    <3> SUFFICES ASSUME NEW i \in 1..(c - (f.base + f.nargs) + 1)
                 PROVE  u[f.base + f.nargs + i - 1] = w[f.base + f.nargs + i - 1]
      OBVIOUS
    <3>1. f.base + f.nargs + i - 1 \in (f.top + 1)..c /\ f.base + f.nargs + i - 1 # a
      OBVIOUS
    <3> QED BY <1>7, <3>1
  <2> QED BY <2>1 DEF Part
<1>4. a >= f.operandStackBase =>
        Part(u, f.top + 1, f.operandStackBase - 1) = Part(w, f.top + 1, f.operandStackBase - 1)
  <2> SUFFICES ASSUME a >= f.operandStackBase
               PROVE  Part(u, f.top + 1, f.operandStackBase - 1)
                        = Part(w, f.top + 1, f.operandStackBase - 1)
    OBVIOUS
  <2>1. \A i \in 1..(f.operandStackBase - 1 - (f.top + 1) + 1) :
          u[f.top + 1 + i - 1] = w[f.top + 1 + i - 1]
    <3> SUFFICES ASSUME NEW i \in 1..(f.operandStackBase - 1 - (f.top + 1) + 1)
                 PROVE  u[f.top + 1 + i - 1] = w[f.top + 1 + i - 1]
      OBVIOUS
    <3>1. f.top + 1 + i - 1 \in (f.top + 1)..c /\ f.top + 1 + i - 1 # a
      OBVIOUS
    <3> QED BY <1>7, <3>1
  <2> QED BY <2>1 DEF Part
<1>5. ASSUME NEW k \in 1..f.nlocals, a = f.base - k
      PROVE  View(u, f, c) = [View(w, f, c) EXCEPT !.locals[k] = v]
  <2>1. a < f.base /\ a >= f.operandStackBase
    BY <1>5
  <2>2. args(u) = args(w)
    <3>1. \A i \in 1..f.nargs : f.base + f.nargs - i # a
      BY <2>1
    <3> QED BY <1>1, <3>1
  <2>3. locals(u) = [locals(w) EXCEPT ![k] = v]
    <3>1. \A i \in 1..f.nlocals : f.base - i = a <=> i = k
      BY <1>5
    <3> QED BY <1>2, <3>1
  <2>4. a < f.base + f.nargs
    BY <2>1
  <2>5. rest(u) = rest(w) /\ ops(u) = ops(w)
    BY <1>3, <1>4, <2>1, <2>4
  <2> HIDE DEF args, locals, rest, ops
  <2>6. View(u, f, c) = [View(w, f, c) EXCEPT !.locals = [locals(w) EXCEPT ![k] = v]]
    BY <1>0, <2>2, <2>3, <2>5
  <2> QED BY <1>0, <2>6
<1>6. ASSUME NEW k \in 1..f.nargs, a = f.base + f.nargs - k
      PROVE  View(u, f, c) = [View(w, f, c) EXCEPT !.args[k] = v]
  <2>1. a >= f.base /\ a < f.base + f.nargs /\ a >= f.operandStackBase
    BY <1>6
  <2>2. args(u) = [args(w) EXCEPT ![k] = v]
    <3>1. \A i \in 1..f.nargs : f.base + f.nargs - i = a <=> i = k
      BY <1>6
    <3> QED BY <1>1, <3>1
  <2>3. locals(u) = locals(w)
    <3>1. \A i \in 1..f.nlocals : f.base - i # a
      BY <2>1
    <3> QED BY <1>2, <3>1
  <2>4. rest(u) = rest(w) /\ ops(u) = ops(w)
    BY <1>3, <1>4, <2>1
  <2> HIDE DEF args, locals, rest, ops
  <2>5. View(u, f, c) = [View(w, f, c) EXCEPT !.args = [args(w) EXCEPT ![k] = v]]
    BY <1>0, <2>2, <2>3, <2>4
  <2> QED BY <1>0, <2>5
<1> QED BY <1>5, <1>6 DEF LocalSet, ArgSet

\* What a variable of the running activation is in the virtual stack.
LEMMA Variables ==
  ASSUME RefinementInv, Running
  PROVE  /\ DOMAIN Abstract!Current.locals = 1..frame.nlocals
         /\ DOMAIN Abstract!Current.args = 1..frame.nargs
         /\ \A i \in Nat : i < frame.nlocals =>
              /\ i + 1 \in 1..frame.nlocals /\ LocalAddress(i) = frame.base - (i + 1)
              /\ Abstract!Current.locals[i + 1] = word[LocalAddress(i)]
              /\ LocalAddress(i) \in Address /\ LocalAddress(i) > top
         /\ \A i \in Nat : i < frame.nargs =>
              /\ i + 1 \in 1..frame.nargs
              /\ ArgAddress(i) = frame.base + frame.nargs - (i + 1)
              /\ Abstract!Current.args[i + 1] = word[ArgAddress(i)]
              /\ ArgAddress(i) \in Address /\ ArgAddress(i) > top
         /\ OperandStackSize # 0 =>
              Abstract!Ops # <<>> /\ Head(Abstract!Ops) = word[top + 1] /\ top + 1 \in Address
<1>1. PICK c : c = Ceiling(Depth + 1)
  OBVIOUS
<1>2. RunningShape
  BY RunningProperties
<1>3. /\ frame.base \in Int /\ frame.operandStackBase \in Int /\ top \in Int /\ c \in Int
      /\ frame.nargs \in Nat /\ frame.nlocals \in Nat
      /\ -1 <= top /\ top < frame.operandStackBase
      /\ frame.operandStackBase = frame.base - frame.nlocals /\ frame.base <= StackSize
      /\ frame.base + frame.nargs - 1 <= c /\ c < StackSize /\ StackSize \in Nat
  BY <1>1, <1>2, FrameStackAssumption DEF RunningShape
<1>4. Abstract!Current =
         [args    |-> [i \in 1..frame.nargs |-> word[frame.base + frame.nargs - i]],
          closure |-> Part(word, frame.base + frame.nargs, c),
          locals  |-> [i \in 1..frame.nlocals |-> word[frame.base - i]],
          ops     |-> Part(word, top + 1, frame.operandStackBase - 1),
          ret     |-> frame.returnAddress]
  BY <1>1, <1>2 DEF RunningShape, Abstract!Current
<1>5. ASSUME NEW i \in Nat, i < frame.nlocals
      PROVE  /\ i + 1 \in 1..frame.nlocals /\ LocalAddress(i) = frame.base - (i + 1)
             /\ Abstract!Current.locals[i + 1] = word[LocalAddress(i)]
             /\ LocalAddress(i) \in Address /\ LocalAddress(i) > top
  <2>1. /\ i + 1 \in 1..frame.nlocals /\ LocalAddress(i) = frame.base - (i + 1)
        /\ LocalAddress(i) \in Address /\ LocalAddress(i) > top
    BY <1>3, <1>5 DEF LocalAddress, Address
  <2> QED BY <1>4, <2>1
<1>6. ASSUME NEW i \in Nat, i < frame.nargs
      PROVE  /\ i + 1 \in 1..frame.nargs
             /\ ArgAddress(i) = frame.base + frame.nargs - (i + 1)
             /\ Abstract!Current.args[i + 1] = word[ArgAddress(i)]
             /\ ArgAddress(i) \in Address /\ ArgAddress(i) > top
  <2>1. /\ i + 1 \in 1..frame.nargs /\ ArgAddress(i) = frame.base + frame.nargs - (i + 1)
        /\ ArgAddress(i) \in Address /\ ArgAddress(i) > top
    BY <1>3, <1>6 DEF ArgAddress, Address
  <2> QED BY <1>4, <2>1
<1>7. ASSUME OperandStackSize # 0
      PROVE  Abstract!Ops # <<>> /\ Head(Abstract!Ops) = word[top + 1] /\ top + 1 \in Address
  <2>1. PICK lo \in Int, hi \in Int : lo = top + 1 /\ hi = frame.operandStackBase - 1
    BY <1>3
  <2>2. lo <= hi /\ lo <= hi + 1 /\ 1 \in 1..(hi - lo + 1) /\ lo + 1 - 1 = lo /\ lo \in Address
    BY <1>3, <1>7, <2>1 DEF OperandStackSize, Address
  <2>3. PICK p : p = Part(word, lo, hi)
    OBVIOUS
  <2>4. Len(p) = hi - lo + 1 /\ p[1] = word[lo] /\ p \in Seq({word[a] : a \in lo..hi})
    BY <2>2, <2>3, PartProperties
  <2>5. p # <<>> /\ Head(p) = p[1]
    BY <2>2, <2>4, EmptySeq
  <2> QED BY <1>4, <2>1, <2>2, <2>3, <2>4, <2>5 DEF Abstract!Ops
<1>8. DOMAIN Abstract!Current.locals = 1..frame.nlocals
      /\ DOMAIN Abstract!Current.args = 1..frame.nargs
  BY <1>4
<1> HIDE <1>4
<1> QED BY <1>5, <1>6, <1>7, <1>8

\* An assignment to the word a of a variable.
LEMMA Stored ==
  ASSUME RefinementInv, FrameInv', Running, OperandStackSize # 0, NEW a \in Address,
         StoreTo(a),
         \/ \E k \in 1..frame.nlocals : a = frame.base - k
         \/ \E k \in 1..frame.nargs : a = frame.base + frame.nargs - k
  PROVE  RefinementInv' /\ Abstract!Next
<1>1. word' = [word EXCEPT ![a] = word[top + 1]] /\ top' = top /\ UnchangedFrames
  BY DEF StoreTo
<1>2. PICK c, v : c = Ceiling(Depth + 1) /\ v = word[top + 1]
  OBVIOUS
<1>3. RunningShape /\ FrameInv
  BY RunningProperties DEF RefinementInv
<1>4. /\ frame.base \in Int /\ frame.operandStackBase \in Int /\ top \in Int /\ c \in Int
      /\ frame.nargs \in Nat /\ frame.nlocals \in Nat
      /\ -1 <= top /\ top < frame.operandStackBase
      /\ frame.operandStackBase = frame.base - frame.nlocals /\ frame.base <= StackSize
      /\ frame.base + frame.nargs - 1 <= c /\ c < StackSize /\ StackSize \in Nat
  BY <1>2, <1>3, FrameStackAssumption DEF RunningShape
<1>5. a \in Int /\ a <= c /\ word \in [Address -> Value]
  <2>1. a \in Int /\ word \in [Address -> Value]
    BY <1>3, <1>4 DEF Address, FrameInv, FrameTypeOK
  <2>2. ASSUME NEW k \in 1..frame.nlocals, a = frame.base - k
        PROVE  a <= c
    BY <1>4, <2>2
  <2>3. ASSUME NEW k \in 1..frame.nargs, a = frame.base + frame.nargs - k
        PROVE  a <= c
    BY <1>4, <2>3
  <2> QED BY <2>1, <2>2, <2>3
<1>6. v \in Literals \cup {Zero, Fill}
  <2>1. top + 1 \in Address /\ top + 1 > top
    BY <1>4, Variables
  <2> QED BY <1>2, <2>1 DEF RefinementInv, LiveWords
<1>7. \A x \in Address : word'[x] = IF x = a THEN v ELSE word[x]
  BY <1>1, <1>2, <1>5
<1>8. LiveWords'
  BY <1>1, <1>6, <1>7 DEF RefinementInv, LiveWords
<1>9. RefinementInv'
  BY <1>1, <1>8, Unmoved
<1>10. Activations' = <<View(word', [frame EXCEPT !.top = top'], c)>> \o Tail(Activations)
  <2>1. \A x \in Address : (Depth > 0 /\ x > frameStack[Depth].top) => word'[x] = word[x]
    <3> SUFFICES ASSUME NEW x \in Address, Depth > 0, x > frameStack[Depth].top
                 PROVE  word'[x] = word[x]
      OBVIOUS
    <3>1. x > c /\ x \in Int
      BY <1>2, <1>4, CeilingIsCallersTop DEF Address, CallersTop
    <3> QED BY <1>4, <1>5, <1>7, <3>1
  <2> QED BY <1>1, <1>2, <1>9, <2>1, OnlyRunning DEF UnchangedFrames
<1>11. PICK r : r = [frame EXCEPT !.top = top]
  OBVIOUS
<1>12. frame \in Frame
  BY <1>3, FramesProperties DEF FramesShape
<1>13. /\ r.base = frame.base /\ r.top = top /\ r.operandStackBase = frame.operandStackBase
       /\ r.nargs = frame.nargs /\ r.nlocals = frame.nlocals
  BY <1>11, <1>12 DEF Frame
<1>14. Assigned(word, word', r.top + 1, c, a, v)
  <2> SUFFICES ASSUME NEW x \in (r.top + 1)..c PROVE x \in Address
    BY <1>7 DEF Assigned
  <2> QED BY <1>4, <1>13 DEF Address
<1>15. /\ \A k \in 1..r.nlocals : a = r.base - k => LocalSet(word, word', r, c, k, v)
       /\ \A k \in 1..r.nargs : a = r.base + r.nargs - k => ArgSet(word, word', r, c, k, v)
  <2>1. /\ r.base \in Int /\ r.top \in Int /\ r.operandStackBase \in Int
        /\ r.nargs \in Nat /\ r.nlocals \in Nat
        /\ r.top < r.operandStackBase /\ r.operandStackBase = r.base - r.nlocals
        /\ r.base + r.nargs - 1 <= c
    BY <1>4, <1>13
  <2>2. c \in Int /\ a \in Int
    BY <1>4, <1>5
  <2> QED BY ONLY <1>14, <2>1, <2>2, StoreView
<1>16. Abstract!Current = View(word, r, c) /\ Head(Abstract!Ops) = v /\ Abstract!Ops # <<>>
       /\ DOMAIN Abstract!Current.locals = 1..frame.nlocals
       /\ DOMAIN Abstract!Current.args = 1..frame.nargs
  BY <1>2, <1>3, <1>11, Variables DEF RunningShape, Abstract!Current
<1>17. Activations' = <<View(word', r, c)>> \o Abstract!Callers
  BY <1>1, <1>10, <1>11 DEF Abstract!Callers
<1>18. ASSUME NEW k \in 1..frame.nlocals, a = frame.base - k
       PROVE  Abstract!SetLocal(k, v)
  <2>1. View(word', r, c) = [View(word, r, c) EXCEPT !.locals[k] = v]
    BY <1>13, <1>15, <1>18 DEF LocalSet
  <2> QED BY <1>1, <1>16, <1>17, <2>1 DEF Abstract!SetLocal, UnchangedFrames, Running
<1>19. ASSUME NEW k \in 1..frame.nargs, a = frame.base + frame.nargs - k
       PROVE  Abstract!SetArg(k, v)
  <2>1. View(word', r, c) = [View(word, r, c) EXCEPT !.args[k] = v]
    BY <1>13, <1>15, <1>19 DEF ArgSet
  <2> QED BY <1>1, <1>16, <1>17, <2>1 DEF Abstract!SetArg, UnchangedFrames, Running
<1>20. Abstract!Write
  BY <1>16, <1>18, <1>19 DEF Abstract!Write
<1> QED BY <1>9, <1>20 DEF Abstract!Next

LEMMA LoadStoreRefines ==
  ASSUME RefinementInv, FrameInv',
         \/ \E i \in 0..MaxLocals : LoadLocal(i) \/ StoreLocal(i)
         \/ \E i \in 0..MaxArgs : LoadArg(i) \/ StoreArg(i)
  PROVE  RefinementInv' /\ Abstract!Next
<1>1. Running
  BY DEF LoadLocal, StoreLocal, LoadArg, StoreArg
<1>2. CASE Fail
  BY <1>1, <1>2, FailRefines DEF Running, Abstract!Next
<1>3. OperandStackSize \in Nat /\ word \in [Address -> Value] /\ FrameStackAssumption
      /\ frame.nargs \in Nat /\ frame.nlocals \in Nat
  BY <1>1, Bounds, FrameStackAssumption DEF RefinementInv, FrameInv, FrameTypeOK
<1>4. ASSUME NEW a \in Address, a > top, LoadAt(a), Abstract!Readable(word[a])
      PROVE  RefinementInv' /\ Abstract!Next
  <2>1. word[a] \in Literals \cup {Zero, Fill}
    BY <1>4 DEF RefinementInv, LiveWords
  <2>2. 0 \in Nat /\ 0 <= OperandStackSize /\ PopPush(word, 0, word[a])
    BY <1>3, <1>4 DEF LoadAt
  <2>3. RefinementInv' /\ Abstract!Replace(0, <<word[a]>>)
    BY <1>1, <1>3, <2>1, <2>2, Pushed
  <2> QED BY <1>4, <2>1, <2>3 DEF Abstract!Next
<1>5. CASE \E i \in 0..MaxLocals : LoadLocal(i) \/ StoreLocal(i)
  <2>1. PICK i \in 0..MaxLocals : LoadLocal(i) \/ StoreLocal(i)
    BY <1>5
  <2>2. i \in Nat
    BY FrameStackAssumption
  <2>3. CASE ~Fail /\ LoadLocal(i)
    <3>1. i < frame.nlocals /\ LoadAt(LocalAddress(i))
      BY <2>3 DEF LoadLocal
    <3>2. /\ i + 1 \in DOMAIN Abstract!Current.locals
          /\ Abstract!Current.locals[i + 1] = word[LocalAddress(i)]
          /\ LocalAddress(i) \in Address /\ LocalAddress(i) > top
      BY <1>1, <2>2, <3>1, Variables
    <3>3. Abstract!Readable(word[LocalAddress(i)])
      BY <3>2 DEF Abstract!Readable
    <3> QED BY <1>4, <3>1, <3>2, <3>3
  <2>4. CASE ~Fail /\ StoreLocal(i)
    <3>1. i < frame.nlocals /\ StoreTo(LocalAddress(i)) /\ OperandStackSize # 0
      BY <2>4 DEF StoreLocal, StoreTo
    <3>2. /\ i + 1 \in 1..frame.nlocals /\ LocalAddress(i) = frame.base - (i + 1)
          /\ LocalAddress(i) \in Address
      BY <1>1, <2>2, <3>1, Variables
    <3> QED BY <1>1, <3>1, <3>2, Stored
  <2> QED BY <1>2, <2>1, <2>3, <2>4
<1>6. CASE \E i \in 0..MaxArgs : LoadArg(i) \/ StoreArg(i)
  <2>1. PICK i \in 0..MaxArgs : LoadArg(i) \/ StoreArg(i)
    BY <1>6
  <2>2. i \in Nat
    BY FrameStackAssumption
  <2>3. CASE ~Fail /\ LoadArg(i)
    <3>1. i < frame.nargs /\ LoadAt(ArgAddress(i))
      BY <2>3 DEF LoadArg
    <3>2. /\ i + 1 \in DOMAIN Abstract!Current.args
          /\ Abstract!Current.args[i + 1] = word[ArgAddress(i)]
          /\ ArgAddress(i) \in Address /\ ArgAddress(i) > top
      BY <1>1, <2>2, <3>1, Variables
    <3>3. Abstract!Readable(word[ArgAddress(i)])
      BY <3>2 DEF Abstract!Readable
    <3> QED BY <1>4, <3>1, <3>2, <3>3
  <2>4. CASE ~Fail /\ StoreArg(i)
    <3>1. i < frame.nargs /\ StoreTo(ArgAddress(i)) /\ OperandStackSize # 0
      BY <2>4 DEF StoreArg, StoreTo
    <3>2. /\ i + 1 \in 1..frame.nargs /\ ArgAddress(i) = frame.base + frame.nargs - (i + 1)
          /\ ArgAddress(i) \in Address
      BY <1>1, <2>2, <3>1, Variables
    <3> QED BY <1>1, <3>1, <3>2, Stored
  <2> QED BY <1>2, <2>1, <2>3, <2>4
<1> QED BY <1>5, <1>6

LEMMA ClobberedAbove ==
  ASSUME NEW w, NEW t \in Int, NEW u \in Int, t <= u
  PROVE  \A a \in Address : a > u => Clobbered(w, t)[a] = w[a]
BY FrameStackAssumption DEF Clobbered, Address

\* What the runtime writes at or below the top is no part of an activation.
LEMMA RuntimeRefines ==
  ASSUME RefinementInv, FrameInv',
         \E n \in 0..MaxOps, v \in Literals :
           BuildArray(n, v) \/ BuildSexp(n, v) \/ Capture(n, v)
  PROVE  RefinementInv' /\ Abstract!Next
<1>1. Running
  BY DEF BuildArray, BuildSexp, Capture
<1>2. CASE Fail
  BY <1>1, <1>2, FailRefines DEF Running, Abstract!Next
<1>3. /\ top \in Int /\ word \in [Address -> Value] /\ OperandStackSize \in Nat
      /\ MaxOps \in Nat
  BY <1>1, Bounds, FrameStackAssumption DEF RefinementInv, FrameInv, FrameTypeOK
<1>4. status' # "overrun"
  BY DEF FrameInv
<1>5. PICK n \in 0..MaxOps, v \in Literals :
        BuildArray(n, v) \/ BuildSexp(n, v) \/ Capture(n, v)
  OBVIOUS
<1>6. n \in Nat /\ v \in Literals \cup {Zero, Fill} /\ 0 \in Nat /\ 0 <= OperandStackSize
  BY <1>3
<1>7. ASSUME NEW k \in Nat, k <= OperandStackSize, Abstract!Replace(k, <<v>>)
      PROVE  Abstract!Next
  <2>1. Len(Abstract!Ops) \in Nat /\ k <= Len(Abstract!Ops)
    <3>1. PICK lo \in Int, hi \in Int :
            lo = top + 1 /\ hi = frame.operandStackBase - 1 /\ lo <= hi + 1
      BY SMTT(30), RunningProperties DEF RunningShape
    <3>2. Len(Part(word, lo, hi)) = hi - lo + 1
      BY <3>1, PartProperties
    <3>3. Abstract!Ops = Part(word, lo, hi)
      BY <3>1, RunningProperties DEF RunningShape, Abstract!Ops, Abstract!Current
    <3>4. frame.operandStackBase \in Int
      BY RunningProperties DEF RunningShape
    <3>5. OperandStackSize = hi - lo + 1
      BY <1>3, <3>1, <3>4 DEF OperandStackSize
    <3> QED BY <1>7, <3>1, <3>2, <3>3, <3>5
  <2>2. k \in 0..Len(Abstract!Ops)
    BY <2>1
  <2> QED BY <1>7, <2>2 DEF Abstract!Next
<1>8. CASE BuildArray(n, v) /\ ~Fail
  <2>1. n <= OperandStackSize /\ PopPush(Clobbered(word, top), n, v)
    BY <1>3, <1>4, <1>6, <1>8 DEF BuildArray, Writing
  <2>2. PICK w : w = Clobbered(word, top)
    OBVIOUS
  <2>3. w \in [Address -> Value] /\ \A a \in Address : a > top => w[a] = word[a]
    BY <1>3, <2>2, ClobberedType, ClobberedAbove
  <2>4. RefinementInv' /\ Abstract!Replace(n, <<v>>)
    BY <1>1, <1>6, <2>1, <2>2, <2>3, Pushed
  <2> QED BY <1>6, <1>7, <2>1, <2>4
<1>9. CASE BuildSexp(n, v) /\ ~Fail
  <2>1. PICK x : x = [a \in Address |-> IF a = top THEN Zero ELSE word[a]]
    OBVIOUS
  <2>2. n <= OperandStackSize /\ PopPush(Clobbered(x, top - 1), n, v)
    BY <1>3, <1>4, <1>6, <1>9, <2>1 DEF BuildSexp, Writing
  <2>3. PICK w : w = Clobbered(x, top - 1)
    OBVIOUS
  <2>4. x \in [Address -> Value] /\ \A a \in Address : a > top => x[a] = word[a]
    BY <1>3, <2>1, FrameStackAssumption DEF Value, Address
  <2>5. \A a \in Address : a > top => w[a] = x[a]
    <3>1. top - 1 \in Int /\ top - 1 <= top
      BY <1>3
    <3> QED BY <1>3, <2>3, <3>1, ClobberedAbove
  <2>6. w \in [Address -> Value] /\ \A a \in Address : a > top => w[a] = word[a]
    BY <2>3, <2>4, <2>5, ClobberedType
  <2>7. RefinementInv' /\ Abstract!Replace(n, <<v>>)
    BY <1>1, <1>6, <2>2, <2>3, <2>6, Pushed
  <2> QED BY <1>6, <1>7, <2>2, <2>7
<1>10. CASE Capture(n, v) /\ ~Fail
  <2>1. PICK x : x = [a \in Address |-> IF top - n < a /\ a <= top THEN Zero ELSE word[a]]
    OBVIOUS
  <2>2. PopPush(Clobbered(x, top - n), 0, v)
    BY <1>4, <1>10, <2>1 DEF Capture, Writing
  <2>3. PICK w : w = Clobbered(x, top - n)
    OBVIOUS
  <2>4. x \in [Address -> Value] /\ \A a \in Address : a > top => x[a] = word[a]
    BY <1>3, <2>1, FrameStackAssumption DEF Value, Address
  <2>5. \A a \in Address : a > top => w[a] = x[a]
    <3>1. top - n \in Int /\ top - n <= top
      BY <1>3, <1>6
    <3> QED BY <1>3, <2>3, <3>1, ClobberedAbove
  <2>6. w \in [Address -> Value] /\ \A a \in Address : a > top => w[a] = word[a]
    BY <2>3, <2>4, <2>5, ClobberedType
  <2>7. RefinementInv' /\ Abstract!Replace(0, <<v>>)
    BY <1>1, <1>6, <2>2, <2>3, <2>6, Pushed
  <2> QED BY <1>6, <1>7, <2>7
<1> QED BY <1>2, <1>5, <1>8, <1>9, <1>10

LEMMA CallRefines ==
  ASSUME RefinementInv, FrameInv',
         \E s \in Sites : Call(s) \/ \E n \in 0..MaxArgs : CallClosure(n, s)
  PROVE  RefinementInv' /\ Abstract!Next
<1>1. Running
  BY DEF Call, CallClosure
<1>2. CASE Fail
  BY <1>1, <1>2, FailRefines DEF Running, Abstract!Next
<1>3. ASSUME NEW s \in Sites, NEW closure \in BOOLEAN, Transfer(s, closure)
      PROVE  RefinementInv' /\ Abstract!Next
  <2>1. RefinementInv'
    BY <1>3 DEF Transfer, RefinementInv, TopsDescend, FirstTakesNothing, LiveWords
  <2>2. UNCHANGED Activations
    BY <1>3 DEF Transfer, Activations, Activation, Frames, Words
  <2>3. Abstract!Call(s, closure)
    BY <1>1, <1>3, <2>2 DEF Transfer, Running, Abstract!Call
  <2> QED BY <2>1, <2>3 DEF Abstract!Next
<1> QED BY <1>2, <1>3 DEF Call, CallClosure

-----------------------------------------------------------------------------
(* Entering and leaving functions                                           *)

\* What beginFunction leaves, in numbers.
LEMMA Entered ==
  ASSUME RefinementInv, FrameInv', NEW m \in 0..MaxArgs, NEW n \in 0..MaxLocals,
         Begin(m, n), ~Fail,
         NEW d, d = Depth, NEW a, a = OperandsOf(m)
  PROVE  /\ m \in Nat /\ n \in Nat /\ a \in Nat /\ m <= a /\ a <= OperandStackSize /\ d < FrameStackSize
         /\ d \in Nat /\ Depth' = d + 1 /\ frameStack' \in Seq(Frame) /\ frame \in Frame
         /\ \A k \in 1..d : frameStack'[k] = frameStack[k]
         /\ frameStack'[d + 1].top = top + a /\ frameStack'[d + 1].base = frame.base
         /\ frameStack'[d + 1].nargs = frame.nargs /\ frameStack'[d + 1].nlocals = frame.nlocals
         /\ frameStack'[d + 1].operandStackBase = frame.operandStackBase
         /\ frameStack'[d + 1].returnAddress = frame.returnAddress
         /\ frame'.base = top + 1 /\ frame'.nargs = m /\ frame'.nlocals = n
         /\ frame'.operandStackBase = top - n + 1 /\ frame'.returnAddress = next.returnAddress
         /\ top' = top - n
         /\ \A x \in Address : top - n < x /\ x <= top => word'[x] = Fill
         /\ \A x \in Address : top < x => word'[x] = word[x]
         /\ status = "entering" /\ status' = "running" /\ next' = next /\ resume' = resume
         /\ word \in [Address -> Value]
<1>0. PICK f : f = [frame EXCEPT !.top = top + a]
  OBVIOUS
<1>1. FrameInv /\ RunningShape /\ FramesShape
  BY RunningProperties, FramesProperties DEF RefinementInv
<1>2. /\ m \in Nat /\ n \in Nat /\ a \in {m, m + 1} /\ top \in Int
      /\ frame.operandStackBase \in Int /\ FrameStackSize \in Nat
  BY <1>1, FrameStackAssumption DEF OperandsOf, RunningShape
<1>3. status' # "overrun"
  BY DEF FrameInv
<1>4. /\ ~(OperandStackSize < a) /\ ~FramesExhausted /\ status = "entering"
      /\ Writing(top + 1 - n,
            /\ frameStack' = Append(frameStack, [frame EXCEPT !.top = top + OperandsOf(m)])
            /\ frame' = [frame EXCEPT !.base = top + 1, !.nargs = m, !.nlocals = n,
                                      !.operandStackBase = NewTop(n) + 1,
                                      !.returnAddress = next.returnAddress]
            /\ top' = NewTop(n)
            /\ word' = LocalsFilled(n)
            /\ status' = "running"
            /\ UNCHANGED <<next, resume>>)
  BY DEF Begin
<1>5. /\ frameStack' = Append(frameStack, f)
      /\ frame' = [frame EXCEPT !.base = top + 1, !.nargs = m, !.nlocals = n,
                                !.operandStackBase = top - n + 1,
                                !.returnAddress = next.returnAddress]
      /\ top' = top - n
      /\ word' = [x \in Address |-> IF top - n < x /\ x <= top THEN Fill ELSE word[x]]
      /\ status' = "running" /\ next' = next /\ resume' = resume
  BY <1>0, <1>3, <1>4 DEF Writing, NewTop, LocalsFilled
<1>6. a \in Nat /\ m <= a /\ a <= OperandStackSize
  BY <1>2, <1>4 DEF OperandStackSize
<1>7. d \in Nat /\ frameStack \in Seq(Frame) /\ Len(frameStack) = d /\ frame \in Frame
  BY <1>1 DEF FramesShape, Depth
<1>8. d < FrameStackSize
  BY <1>2, <1>4, <1>7 DEF FramesExhausted
<1>9. /\ f \in Frame /\ f.top = top + a /\ f.base = frame.base /\ f.nargs = frame.nargs
      /\ f.nlocals = frame.nlocals /\ f.operandStackBase = frame.operandStackBase
      /\ f.returnAddress = frame.returnAddress
  <2>1. top + a \in Int
    BY <1>2, <1>6
  <2> QED BY <1>0, <1>7, <2>1 DEF Frame
<1>10. /\ frameStack' \in Seq(Frame) /\ Len(frameStack') = d + 1 /\ frameStack'[d + 1] = f
       /\ \A k \in 1..d : frameStack'[k] = frameStack[k]
  BY <1>5, <1>7, <1>9, AppendProperties
<1>11. word \in [Address -> Value]
  BY <1>1 DEF FrameInv, FrameTypeOK
<1>12. /\ \A x \in Address : top - n < x /\ x <= top => word'[x] = Fill
       /\ \A x \in Address : top < x => word'[x] = word[x]
  BY <1>2, <1>5, FrameStackAssumption DEF Address
<1>13. /\ frame'.base = top + 1 /\ frame'.nargs = m /\ frame'.nlocals = n
       /\ frame'.operandStackBase = top - n + 1 /\ frame'.returnAddress = next.returnAddress
  BY <1>5, <1>7 DEF Frame
<1>14. Depth' = d + 1
  BY <1>10 DEF Depth
<1> HIDE <1>5
<1>15. top' = top - n /\ status' = "running" /\ next' = next /\ resume' = resume
  BY <1>5
<1> QED BY <1>2, <1>4, <1>6, <1>7, <1>8, <1>9, <1>10, <1>11, <1>12, <1>13, <1>14, <1>15

LEMMA EnteredInv ==
  ASSUME RefinementInv, FrameInv', NEW m \in 0..MaxArgs, NEW n \in 0..MaxLocals,
         Begin(m, n), ~Fail
  PROVE  RefinementInv'
<1>1. PICK d, a, f, c :
        d = Depth /\ a = OperandsOf(m) /\ f = frameStack'[d + 1] /\ c = Ceiling(d + 1)
  OBVIOUS
<1>2. /\ m \in Nat /\ n \in Nat /\ a \in Nat /\ a <= OperandStackSize
      /\ d \in Nat /\ Depth' = d + 1
      /\ frameStack'[d + 1] = f /\ \A k \in 1..d : frameStack'[k] = frameStack[k]
      /\ f.top = top + a /\ f.nargs = frame.nargs
      /\ top' = top - n
      /\ \A x \in Address : top - n < x /\ x <= top => word'[x] = Fill
      /\ \A x \in Address : top < x => word'[x] = word[x]
  BY <1>1, Entered
<1>3. /\ frame.base \in Int /\ frame.operandStackBase \in Int /\ top \in Int /\ c \in Int
      /\ frame.nargs \in Nat /\ frame.nlocals \in Nat
      /\ frame.operandStackBase = frame.base - frame.nlocals
      /\ frame.base + frame.nargs - 1 <= c
  BY <1>1, RunningProperties DEF RunningShape
<1>4. Len(frameStack) = d /\ Len(frameStack') = d + 1
  BY <1>1, <1>2 DEF Depth
<1>5. f.top <= c /\ f.top \in Int
  <2>1. a <= frame.operandStackBase - top - 1
    BY <1>2 DEF OperandStackSize
  <2> QED BY <1>2, <1>3, <2>1
<1>6. \A k \in 1..d : frameStack[k].top \in Int
  <2>1. frameStack \in Seq(Frame)
    BY FramesProperties DEF RefinementInv, FramesShape
  <2>2. \A k \in 1..d : frameStack[k] \in Frame
    BY <1>4, <2>1
  <2> QED BY <2>2 DEF Frame
<1>7. d > 0 => c = frameStack[d].top
  BY <1>1, CeilingIsCallersTop DEF CallersTop
<1>8. TopsDescend'
  <2> SUFFICES ASSUME NEW j \in 1..(d + 1), NEW k \in 1..(d + 1), j <= k
               PROVE  frameStack'[k].top <= frameStack'[j].top
    BY <1>4 DEF TopsDescend
  <2>1. CASE k <= d
    <3>1. j \in 1..d /\ k \in 1..d
      BY <1>2, <2>1
    <3>2. frameStack[k].top <= frameStack[j].top
      BY <1>4, <3>1 DEF RefinementInv, TopsDescend
    <3> QED BY <1>2, <3>1, <3>2
  <2>2. CASE k = d + 1 /\ j <= d
    <3>1. j \in 1..d /\ d \in 1..d /\ d > 0
      BY <1>2, <2>2
    <3>2. frameStack[d].top <= frameStack[j].top
      BY <1>4, <3>1 DEF RefinementInv, TopsDescend
    <3>3. f.top <= frameStack[j].top
      BY <1>5, <1>6, <1>7, <3>1, <3>2
    <3> QED BY <1>2, <2>2, <3>1, <3>3
  <2>3. CASE k = d + 1 /\ j = d + 1
    BY <1>2, <1>5, <2>3
  <2> QED BY <1>2, <2>1, <2>2, <2>3
<1>9. FirstTakesNothing'
  <2>1. frameStack' # <<>>
    <3>1. FrameInv' => FramesShape'
      BY FramesProperties, PTL
    <3> QED BY <1>2, <1>4, <3>1 DEF FramesShape
  <2>2. CASE d = 0
    <3>1. frameStack = <<>>
      BY <1>4, <2>2, FramesProperties, EmptySeq DEF RefinementInv, FramesShape
    <3>2. frame.nargs = 0
      BY <3>1 DEF RefinementInv, FirstTakesNothing
    <3> QED BY <1>2, <2>1, <2>2, <3>2 DEF FirstTakesNothing
  <2>3. CASE d # 0
    <3>1. 1 \in 1..d /\ frameStack # <<>>
      BY <1>2, <1>4, <2>3
    <3>2. frameStack[1].nargs = 0
      BY <3>1 DEF RefinementInv, FirstTakesNothing
    <3> QED BY <1>2, <2>1, <3>1, <3>2 DEF FirstTakesNothing
  <2> QED BY <2>2, <2>3
<1>10. LiveWords'
  <2> SUFFICES ASSUME NEW x \in Address, x > top' PROVE word'[x] \in Literals \cup {Zero, Fill}
    BY DEF LiveWords
  <2>1. x \in Int
    BY FrameStackAssumption DEF Address
  <2>2. CASE x <= top
    BY <1>2, <2>2
  <2>3. CASE x > top
    <3>1. word'[x] = word[x]
      BY <1>2, <1>3, <2>1, <2>3
    <3> QED BY <2>3, <3>1 DEF RefinementInv, LiveWords
  <2> QED BY <1>3, <2>1, <2>2, <2>3
<1> QED BY <1>8, <1>9, <1>10 DEF RefinementInv

\* The function that is entered has its arguments and its closure from the operands of
\* its caller, which loses them.
LEMMA BeginRefines ==
  ASSUME RefinementInv, FrameInv', NEW m \in 0..MaxArgs, NEW n \in 0..MaxLocals, Begin(m, n)
  PROVE  RefinementInv' /\ Abstract!Next
<1>0. CASE Fail
  <2>1. status = "entering"
    BY DEF Begin
  <2> QED BY <1>0, <2>1, FailRefines DEF Abstract!Next
<1>1. SUFFICES ASSUME ~Fail PROVE RefinementInv' /\ Abstract!Next
  BY <1>0
<1>2. PICK d, a, f, c, b :
        /\ d = Depth /\ a = OperandsOf(m) /\ f = frameStack'[d + 1] /\ c = Ceiling(d + 1)
        /\ b = frame.operandStackBase
  OBVIOUS
<1>3. /\ m \in Nat /\ n \in Nat /\ a \in Nat /\ m <= a /\ a <= OperandStackSize
      /\ d < FrameStackSize /\ d \in Nat /\ Depth' = d + 1
      /\ \A k \in 1..d : frameStack'[k] = frameStack[k]
      /\ f.top = top + a /\ f.base = frame.base /\ f.nargs = frame.nargs
      /\ f.nlocals = frame.nlocals /\ f.operandStackBase = frame.operandStackBase
      /\ f.returnAddress = frame.returnAddress
      /\ frame'.base = top + 1 /\ frame'.nargs = m /\ frame'.nlocals = n
      /\ frame'.operandStackBase = top - n + 1 /\ frame'.returnAddress = next.returnAddress
      /\ top' = top - n
      /\ \A x \in Address : top - n < x /\ x <= top => word'[x] = Fill
      /\ \A x \in Address : top < x => word'[x] = word[x]
      /\ status = "entering" /\ status' = "running" /\ next' = next /\ resume' = resume
  BY <1>1, <1>2, Entered
<1>4. RefinementInv'
  BY <1>1, EnteredInv
<1>5. /\ frame.base \in Int /\ b \in Int /\ top \in Int /\ c \in Int
      /\ frame.nargs \in Nat /\ frame.nlocals \in Nat /\ -1 <= top /\ top < b
      /\ b = frame.base - frame.nlocals /\ frame.base <= StackSize
      /\ frame.base + frame.nargs - 1 <= c /\ c < StackSize /\ StackSize \in Nat
  BY <1>2, RunningProperties, FrameStackAssumption DEF RunningShape
<1>6. a <= b - top - 1 /\ OperandStackSize = b - top - 1
  BY <1>2, <1>3 DEF OperandStackSize
<1>7. /\ FramesShape /\ FramesShape' /\ ActivationsShape /\ ActivationsShape' /\ RunningShape
      /\ RunningShape' /\ CallersTop /\ CallersTop' /\ AllPlaced'
  <2>1. FrameInv
    BY DEF RefinementInv
  <2>2. FramesShape /\ FramesShape'
    BY <2>1, FramesProperties, PTL
  <2>3. ActivationsShape /\ ActivationsShape'
    BY <1>4, ActivationsProperties, PTL
  <2>4. RunningShape /\ RunningShape'
    BY <1>4, RunningProperties, PTL
  <2>5. CallersTop /\ CallersTop'
    BY <1>4, CeilingIsCallersTop, PTL
  <2>6. AllPlaced'
    BY <1>4, Placement, PTL
  <2> QED BY <2>2, <2>3, <2>4, <2>5, <2>6
<1>8. PICK ops : ops = Part(word, top + 1, b - 1)
  OBVIOUS
<1>9. /\ Abstract!Ops = ops /\ Len(ops) = b - top - 1
      /\ \A i \in 1..(b - top - 1) : ops[i] = word[top + i]
      /\ ops \in Seq({word[x] : x \in (top + 1)..(b - 1)})
  <2>1. PICK lo \in Int, hi \in Int : lo = top + 1 /\ hi = b - 1 /\ lo <= hi + 1
    BY <1>5
  <2>2. /\ Len(ops) = hi - lo + 1 /\ \A i \in 1..(hi - lo + 1) : ops[i] = word[lo + i - 1]
    <3>1. /\ Len(Part(word, lo, hi)) = hi - lo + 1
          /\ \A i \in 1..(hi - lo + 1) : Part(word, lo, hi)[i] = word[lo + i - 1]
      <4>1. Len(Part(word, lo, hi)) = hi - lo + 1
        BY <2>1, PartProperties
      <4>2. \A i \in 1..(hi - lo + 1) : Part(word, lo, hi)[i] = word[lo + i - 1]
        BY DEF Part
      <4> QED BY <4>1, <4>2
    <3>2. ops = Part(word, lo, hi)
      BY <1>8, <2>1
    <3> QED BY <3>1, <3>2
  <2>3. hi - lo + 1 = b - top - 1 /\ \A i \in 1..(b - top - 1) : lo + i - 1 = top + i
    BY <1>5, <2>1
  <2>4. Abstract!Ops = ops
    <3>1. Head(Activations).ops = Part(word, top + 1, b - 1)
      BY <1>2, <1>7 DEF RunningShape
    <3> QED BY <1>8, <3>1 DEF Abstract!Ops, Abstract!Current
  <2>5. ops \in Seq({word[x] : x \in (top + 1)..(b - 1)})
    BY <1>8, <2>1, PartProperties
  <2> QED BY <2>2, <2>3, <2>4, <2>5
<1>10. \A k \in 1..d : Activation(k)' = Activation(k)
  <2>1. \A x \in Address : (d > 0 /\ x > frameStack[d].top) => word'[x] = word[x]
    <3> SUFFICES ASSUME NEW x \in Address, d > 0, x > frameStack[d].top
                 PROVE  word'[x] = word[x]
      OBVIOUS
    <3>1. x \in Int /\ x > c
      BY <1>2, <1>5, <1>7 DEF CallersTop, Address
    <3>2. top < x
      BY <1>5, <3>1
    <3> QED BY <1>3, <3>2
  <2>2. d <= Depth /\ d <= Depth'
    BY <1>2, <1>3
  <2> QED BY <1>3, <1>4, <2>1, <2>2, CallersKept
<1>11. Activation(d + 1)' = [Abstract!Current EXCEPT !.ops = Abstract!Drop(ops, a)]
  <2>1. Placed(d + 1)' /\ Frames'[d + 1] = f
    <3>1. d + 1 \in 1..(Depth' + 1) /\ d + 1 \in 1..Depth'
      BY <1>3
    <3> QED BY <1>2, <1>7, <3>1 DEF AllPlaced, FramesShape
  <2>2. Ceiling(d + 1)' = c
    <3>1. CASE d = 0
      <4>1. Frames'[1] = f /\ Frames[1] = [frame EXCEPT !.top = top] /\ frame \in Frame
        BY <1>2, <1>7, <2>1, <3>1 DEF FramesShape
      <4>2. Frames[1].base = frame.base /\ Frames[1].nargs = frame.nargs
        BY <4>1 DEF Frame
      <4>3. c = Frames[1].base + Frames[1].nargs - 1
        BY <1>2, <3>1 DEF Ceiling
      <4>4. Ceiling(1)' = f.base + f.nargs - 1
        BY <4>1 DEF Ceiling
      <4> QED BY <1>3, <3>1, <4>2, <4>3, <4>4
    <3>2. CASE d # 0
      <4>1. d \in 1..d /\ d + 1 - 1 = d /\ d + 1 # 1 /\ d \in 1..Depth /\ d \in 1..Depth'
        BY <1>2, <1>3, <3>2
      <4>2. Frames[d] = frameStack[d] /\ Frames'[d] = frameStack[d]
        BY <1>3, <1>7, <4>1 DEF FramesShape
      <4> QED BY <1>2, <4>1, <4>2 DEF Ceiling
    <3> QED BY <3>1, <3>2
  <2>3. Activation(d + 1)' = View(word', f, c)
    BY <2>1, <2>2 DEF Placed
  <2>4. View(word', f, c) = View(word, f, c)
    <3>1. /\ f.base \in Int /\ f.top \in Int /\ f.operandStackBase \in Int
          /\ f.nargs \in Nat /\ f.nlocals \in Nat
          /\ f.top < f.operandStackBase /\ f.operandStackBase = f.base - f.nlocals
          /\ f.base + f.nargs - 1 <= c /\ c \in Int
      BY <1>2, <1>3, <1>5, <1>6
    <3>2. \A x \in (f.top + 1)..c : word'[x] = word[x]
      <4> SUFFICES ASSUME NEW x \in (f.top + 1)..c PROVE word'[x] = word[x]
        OBVIOUS
      <4>1. x \in Address /\ top < x
        BY <1>3, <1>5 DEF Address
      <4> QED BY <1>3, <4>1
    <3> QED BY ONLY <3>1, <3>2, SameView
  <2>5. Part(word, f.top + 1, b - 1) = Abstract!Drop(ops, a)
    <3>1. PICK lo \in Int, hi \in Int : lo = top + 1 /\ hi = b - 1 /\ lo + a <= hi + 1
      BY <1>3, <1>5, <1>6
    <3>2. SubSeq(Part(word, lo, hi), a + 1, Len(Part(word, lo, hi))) = Part(word, lo + a, hi)
      BY SMTT(30), <1>3, <3>1, PartDrop
    <3>3. lo + a = f.top + 1
      BY <1>3, <1>5, <3>1
    <3> QED BY <1>8, <3>1, <3>2, <3>3 DEF Abstract!Drop
  <2>6. Abstract!Current =
         [args    |-> [i \in 1..frame.nargs |-> word[frame.base + frame.nargs - i]],
          closure |-> Part(word, frame.base + frame.nargs, c),
          locals  |-> [i \in 1..frame.nlocals |-> word[frame.base - i]],
          ops     |-> Part(word, top + 1, frame.operandStackBase - 1),
          ret     |-> frame.returnAddress]
    BY <1>2, <1>7 DEF RunningShape, Abstract!Current
  <2>7. View(word, f, c) =
         [args    |-> [i \in 1..frame.nargs |-> word[frame.base + frame.nargs - i]],
          closure |-> Part(word, frame.base + frame.nargs, c),
          locals  |-> [i \in 1..frame.nlocals |-> word[frame.base - i]],
          ops     |-> Part(word, f.top + 1, b - 1),
          ret     |-> frame.returnAddress]
    BY <1>2, <1>3 DEF View
  <2>8. PICK v, A, C, L :
          /\ v = Abstract!Drop(ops, a)
          /\ A = [i \in 1..frame.nargs |-> word[frame.base + frame.nargs - i]]
          /\ C = Part(word, frame.base + frame.nargs, c)
          /\ L = [i \in 1..frame.nlocals |-> word[frame.base - i]]
    OBVIOUS
  <2>10. /\ View(word, f, c) = [args |-> A, closure |-> C, locals |-> L, ops |-> v,
                                ret |-> frame.returnAddress]
         /\ Abstract!Current = [args |-> A, closure |-> C, locals |-> L,
                                ops |-> Part(word, top + 1, frame.operandStackBase - 1),
                                ret |-> frame.returnAddress]
    BY <2>5, <2>6, <2>7, <2>8
  <2>9. View(word, f, c) = [Abstract!Current EXCEPT !.ops = v]
    BY ONLY <2>10
  <2> QED BY <2>3, <2>4, <2>8, <2>9
<1>12. Head(Activations)' =
         [args    |-> [i \in 1..m |-> ops[m + 1 - i]],
          closure |-> SubSeq(ops, m + 1, a),
          locals  |-> [i \in 1..n |-> Fill],
          ops     |-> <<>>,
          ret     |-> next.returnAddress]
  <2>1. Head(Activations)' =
         [args    |-> [i \in 1..m |-> word'[top + 1 + m - i]],
          closure |-> Part(word', top + 1 + m, Ceiling(Depth + 1)'),
          locals  |-> [i \in 1..n |-> word'[top + 1 - i]],
          ops     |-> Part(word', top - n + 1, top - n + 1 - 1),
          ret     |-> next.returnAddress]
    <3>1. Head(Activations)' =
           [args    |-> [i \in 1..frame'.nargs |-> word'[frame'.base + frame'.nargs - i]],
            closure |-> Part(word', frame'.base + frame'.nargs, Ceiling(Depth + 1)'),
            locals  |-> [i \in 1..frame'.nlocals |-> word'[frame'.base - i]],
            ops     |-> Part(word', top' + 1, frame'.operandStackBase - 1),
            ret     |-> frame'.returnAddress]
      BY <1>7 DEF RunningShape
    <3>2. PICK z, g, y, e : z = word' /\ g = frame' /\ y = top' /\ e = Ceiling(Depth + 1)'
      OBVIOUS
    <3>3. /\ g.base = top + 1 /\ g.nargs = m /\ g.nlocals = n
          /\ g.operandStackBase = top - n + 1 /\ g.returnAddress = next.returnAddress
          /\ y = top - n
      BY <1>3, <3>2
    <3>4. Head(Activations)' =
           [args    |-> [i \in 1..g.nargs |-> z[g.base + g.nargs - i]],
            closure |-> Part(z, g.base + g.nargs, e),
            locals  |-> [i \in 1..g.nlocals |-> z[g.base - i]],
            ops     |-> Part(z, y + 1, g.operandStackBase - 1),
            ret     |-> g.returnAddress]
      BY <3>1, <3>2
    <3>5. Head(Activations)' =
           [args    |-> [i \in 1..m |-> z[top + 1 + m - i]],
            closure |-> Part(z, top + 1 + m, e),
            locals  |-> [i \in 1..n |-> z[top + 1 - i]],
            ops     |-> Part(z, top - n + 1, top - n + 1 - 1),
            ret     |-> next.returnAddress]
      <4>1. [i \in 1..g.nargs |-> z[g.base + g.nargs - i]] = [i \in 1..m |-> z[top + 1 + m - i]]
        BY ONLY <3>3
      <4>2. [i \in 1..g.nlocals |-> z[g.base - i]] = [i \in 1..n |-> z[top + 1 - i]]
        <5>1. PICK p, q : p = g.base /\ q = g.nlocals /\ p = top + 1 /\ q = n
          BY ONLY <3>3
        <5>2. \A i \in 1..q : z[p - i] = z[top + 1 - i]
          BY ONLY <1>5, <5>1
        <5>3. [i \in 1..q |-> z[p - i]] = [i \in 1..n |-> z[top + 1 - i]]
          BY ONLY <5>1, <5>2
        <5> QED BY ONLY <5>1, <5>3
      <4>3. Part(z, g.base + g.nargs, e) = Part(z, top + 1 + m, e)
        BY ONLY <3>3
      <4>4. Part(z, y + 1, g.operandStackBase - 1) = Part(z, top - n + 1, top - n + 1 - 1)
        BY ONLY <3>3
      <4>5. PICK A, L, C, O :
              /\ A = [i \in 1..g.nargs |-> z[g.base + g.nargs - i]]
              /\ L = [i \in 1..g.nlocals |-> z[g.base - i]]
              /\ C = Part(z, g.base + g.nargs, e)
              /\ O = Part(z, y + 1, g.operandStackBase - 1)
        OBVIOUS
      <4>6. Head(Activations)' = [args |-> A, closure |-> C, locals |-> L, ops |-> O,
                                  ret |-> g.returnAddress]
        BY ONLY <3>4, <4>5
      <4>7. /\ A = [i \in 1..m |-> z[top + 1 + m - i]]
            /\ L = [i \in 1..n |-> z[top + 1 - i]]
            /\ C = Part(z, top + 1 + m, e)
            /\ O = Part(z, top - n + 1, top - n + 1 - 1)
        BY ONLY <4>1, <4>2, <4>3, <4>4, <4>5
      <4> QED BY ONLY <3>3, <4>6, <4>7
    <3> QED BY <3>2, <3>5
  <2>2. Ceiling(Depth + 1)' = top + a
    BY <1>2, <1>3, <1>7 DEF CallersTop
  <2>3. [i \in 1..m |-> word'[top + 1 + m - i]] = [i \in 1..m |-> ops[m + 1 - i]]
    <3> SUFFICES ASSUME NEW i \in 1..m PROVE word'[top + 1 + m - i] = ops[m + 1 - i]
      OBVIOUS
    <3>1. m + 1 - i \in 1..(b - top - 1) /\ top + (m + 1 - i) = top + 1 + m - i
      BY <1>3, <1>5, <1>6
    <3>2. top + 1 + m - i \in Address /\ top < top + 1 + m - i
      BY <1>3, <1>5, <1>6 DEF Address
    <3> QED BY <1>3, <1>9, <3>1, <3>2
  <2>4. Part(word', top + 1 + m, top + a) = SubSeq(ops, m + 1, a)
    <3>1. PICK x \in Int : x = top + 1 + m
      BY <1>3, <1>5
    <3>2. CASE a = m
      <4>1. Part(word', x, top + a) = <<>>
        <5>1. PICK y \in Int : y = top + a /\ y = x - 1
          BY <1>3, <1>5, <3>1, <3>2
        <5> QED BY <5>1, NoPart
      <4>2. SubSeq(ops, m + 1, a) = <<>>
        BY <1>3, <3>2
      <4> QED BY <3>1, <4>1, <4>2
    <3>3. CASE a # m
      <4>1. a = m + 1
        BY <1>2, <3>3 DEF OperandsOf
      <4>2. Part(word', x, top + a) = <<word'[x]>>
        <5>1. top + a = x
          BY <1>3, <1>5, <3>1, <4>1
        <5> QED BY <5>1, OneWord
      <4>3. x \in Address /\ top < x /\ x = top + (m + 1) /\ m + 1 \in 1..(b - top - 1)
        BY <1>3, <1>5, <1>6, <3>1, <4>1 DEF Address
      <4>4. word'[x] = ops[m + 1]
        BY <1>3, <1>9, <4>3
      <4>5. SubSeq(ops, m + 1, a) = <<ops[m + 1]>>
        <5>1. PICK j \in 1..Len(ops) : j = m + 1 /\ j = a
          BY <1>3, <1>9, <4>1, <4>3
        <5>2. SubSeq(ops, j, j) = <<ops[j]>>
          BY <1>9, OneElement
        <5> QED BY <5>1, <5>2
      <4> QED BY <3>1, <4>2, <4>4, <4>5
    <3> QED BY <3>2, <3>3
  <2>5. [i \in 1..n |-> word'[top + 1 - i]] = [i \in 1..n |-> Fill]
    <3> SUFFICES ASSUME NEW i \in 1..n PROVE word'[top + 1 - i] = Fill
      OBVIOUS
    <3>1. -1 <= top - n
      BY <1>3, <1>7 DEF RunningShape
    <3>2. top + 1 - i \in Address /\ top - n < top + 1 - i /\ top + 1 - i <= top
      BY <1>3, <1>5, <3>1 DEF Address
    <3> QED BY <1>3, <3>2
  <2>6. Part(word', top - n + 1, top - n + 1 - 1) = <<>>
    <3>1. PICK x \in Int, y \in Int : x = top - n + 1 /\ y = top - n + 1 - 1 /\ y = x - 1
      BY <1>3, <1>5
    <3> QED BY <3>1, NoPart
  <2> QED BY <2>1, <2>2, <2>3, <2>4, <2>5, <2>6
<1>13. PICK s, t : s = Activations /\ t = Activations'
  OBVIOUS
<1>14. PICK k \in Nat : k = d + 1 /\ k > 0
  BY <1>3
<1>15. /\ s = [j \in 1..k |-> s[j]] /\ t = [j \in 1..(k + 1) |-> t[j]]
       /\ Len(s) = k /\ t[1] = Head(Activations)' /\ t[2] = Activation(d + 1)'
  <2>1. Depth' + 2 - 1 = Depth' + 1 /\ Depth' + 2 - 2 = d + 1
        /\ 1 \in 1..(Depth' + 1) /\ 2 \in 1..(Depth' + 1)
    BY <1>3
  <2> QED BY <1>2, <1>3, <1>7, <1>13, <1>14, <2>1 DEF ActivationsShape
<1>16. \A j \in 3..(k + 1) : t[j] = s[j - 1]
  <2> SUFFICES ASSUME NEW j \in 3..(k + 1) PROVE t[j] = s[j - 1]
    OBVIOUS
  <2>1. PICK i \in 1..d : i = d + 3 - j
    BY <1>3, <1>14
  <2>2. /\ j \in 1..(Depth' + 1) /\ Depth' + 2 - j = i
        /\ j - 1 \in 1..(Depth + 1) /\ Depth + 2 - (j - 1) = i
    BY <1>2, <1>3, <1>14, <2>1
  <2>3. t[j] = Activation(i)'
    BY <1>7, <1>13, <2>2 DEF ActivationsShape
  <2>4. s[j - 1] = Activation(i)
    BY <1>7, <1>13, <2>2 DEF ActivationsShape
  <2> QED BY <1>10, <2>3, <2>4
<1>17. t = <<t[1]>> \o (<<t[2]>> \o Tail(s))
  <2>1. PICK S : s \in [1..k -> S] /\ t \in [1..(k + 1) -> S]
    <3> DEFINE S == {s[j] : j \in 1..k} \cup {t[j] : j \in 1..(k + 1)}
    <3>1. s \in [1..k -> S] /\ t \in [1..(k + 1) -> S]
      BY <1>15
    <3> QED BY <3>1
  <2> QED BY ONLY <1>14, <1>16, <2>1, TwoForHead
<1>18. Abstract!Enter(m, n)
  <2>1. a = IF next.isClosure THEN m + 1 ELSE m
    BY <1>2 DEF OperandsOf
  <2>2. a <= Len(Abstract!Ops) /\ Len(Activations) <= FrameStackSize
    BY <1>3, <1>6, <1>9, <1>13, <1>14, <1>15, FrameStackAssumption
  <2>3. Activations' =
          <<[args    |-> [i \in 1..m |-> Abstract!Ops[m + 1 - i]],
             closure |-> SubSeq(Abstract!Ops, m + 1, a),
             locals  |-> [i \in 1..n |-> Fill],
             ops     |-> <<>>,
             ret     |-> next.returnAddress]>>
          \o Abstract!WithOps(Abstract!Drop(Abstract!Ops, a))
    BY <1>9, <1>11, <1>12, <1>13, <1>15, <1>17 DEF Abstract!WithOps, Abstract!Callers
  <2> QED BY <1>3, <2>1, <2>2, <2>3 DEF Abstract!Enter
<1> QED BY <1>4, <1>18 DEF Abstract!Next

\* What endFunction leaves, in numbers.
LEMMA Left ==
  ASSUME RefinementInv, FrameInv', End, ~Fail, NEW d, d = Depth, NEW g, g = frameStack[d]
  PROVE  /\ d \in Nat /\ d >= 1 /\ Depth' = d - 1 /\ frameStack # <<>>
         /\ \A k \in 1..(d - 1) : frameStack'[k] = frameStack[k]
         /\ g \in Frame /\ frame' = g /\ g.top \in Address /\ top < g.top
         /\ top' = g.top - 1 /\ frame.operandStackBase = top + 2
         /\ top \in Int /\ top + 1 \in Address
         /\ word'[g.top] = word[top + 1]
         /\ \A x \in Address : g.top < x => word'[x] = word[x]
         /\ status = "running" /\ next' = next
         /\ IF d = 1 THEN status' = "done" /\ resume' = resume
            ELSE resume' = frame.returnAddress /\ status' = status
<1>1. FrameInv /\ RunningShape /\ FramesShape /\ CallersTop
  BY RunningProperties, FramesProperties, CeilingIsCallersTop DEF RefinementInv
<1>2. /\ status = "running" /\ frameStack # <<>> /\ OperandStackSize = 1
      /\ frame' = Last(frameStack) /\ frameStack' = Front(frameStack)
      /\ top' = frame'.top - 1 /\ word' = [word EXCEPT ![frame'.top] = word[top + 1]]
      /\ IF Len(frameStack) = 1
           THEN status' = "done" /\ UNCHANGED resume
           ELSE resume' = frame.returnAddress /\ UNCHANGED status
      /\ UNCHANGED next
  BY DEF End, Running
<1>3. d \in Nat /\ frameStack \in Seq(Frame) /\ Len(frameStack) = d /\ frame \in Frame
  BY <1>1 DEF FramesShape, Depth
<1>4. d >= 1 /\ g \in Frame
  BY <1>2, <1>3, EmptySeq
<1>5. frame' = g
  BY <1>2, <1>3 DEF Last
<1>6. Len(frameStack') = d - 1 /\ \A k \in 1..(d - 1) : frameStack'[k] = frameStack[k]
  <2>1. frameStack' = SubSeq(frameStack, 1, d - 1)
    BY <1>2, <1>3 DEF Front
  <2>2. PICK n \in Nat : n = d - 1
    BY <1>3, <1>4
  <2>3. (\A k \in 1..n : frameStack[k] \in Frame) /\ 1 \in Int /\ n \in Int
    BY <1>3, <2>2
  <2>4. PICK t : t = SubSeq(frameStack, 1, n)
    OBVIOUS
  <2>5. /\ Len(t) = IF 1 <= n THEN n - 1 + 1 ELSE 0
        /\ \A k \in 1..(n - 1 + 1) : t[k] = frameStack[1 + k - 1]
    BY <2>3, <2>4, SubSeqProperties
  <2>6. frameStack' = t
    BY <2>1, <2>2, <2>4
  <2> QED BY <2>2, <2>5, <2>6
<1>7. PICK c : c = Ceiling(Depth + 1)
  OBVIOUS
<1>8. c = g.top
  BY <1>1, <1>3, <1>4, <1>7 DEF CallersTop, Depth
<1>9. /\ frame.base \in Int /\ frame.operandStackBase \in Int /\ top \in Int /\ c \in Int
      /\ frame.nargs \in Nat /\ frame.nlocals \in Nat /\ -1 <= top
      /\ frame.operandStackBase = frame.base - frame.nlocals
      /\ frame.base + frame.nargs - 1 <= c /\ c < StackSize /\ StackSize \in Nat
  BY <1>1, <1>7, FrameStackAssumption DEF RunningShape
<1>10. frame.operandStackBase = top + 2
  BY <1>2, <1>9 DEF OperandStackSize
<1>11. top < g.top /\ g.top \in Address /\ top + 1 \in Address
  BY <1>8, <1>9, <1>10 DEF Address
<1>12. word \in [Address -> Value]
  BY <1>1 DEF FrameInv, FrameTypeOK
<1>13. word'[g.top] = word[top + 1] /\ \A x \in Address : g.top < x => word'[x] = word[x]
  BY <1>2, <1>5, <1>9, <1>8, <1>11, <1>12 DEF Address
<1>14. Depth' = d - 1
  BY <1>6 DEF Depth
<1> QED BY <1>2, <1>3, <1>4, <1>5, <1>6, <1>9, <1>10, <1>11, <1>13, <1>14

LEMMA LeftInv ==
  ASSUME RefinementInv, FrameInv', End, ~Fail
  PROVE  RefinementInv'
<1>1. PICK d, g : d = Depth /\ g = frameStack[d]
  OBVIOUS
<1>2. /\ d \in Nat /\ d >= 1 /\ Depth' = d - 1 /\ frameStack # <<>>
      /\ \A k \in 1..(d - 1) : frameStack'[k] = frameStack[k]
      /\ frame' = g /\ g.top \in Address /\ top < g.top
      /\ top' = g.top - 1 /\ top \in Int /\ top + 1 \in Address
      /\ word'[g.top] = word[top + 1]
      /\ \A x \in Address : g.top < x => word'[x] = word[x]
  BY <1>1, Left
<1>3. TopsDescend'
  BY <1>1, <1>2 DEF RefinementInv, TopsDescend, Depth
<1>4. FirstTakesNothing'
  <2>1. frameStack[1].nargs = 0
    BY <1>2 DEF RefinementInv, FirstTakesNothing
  <2>2. CASE d = 1
    <3>1. frameStack' = <<>>
      <4>1. FrameInv' => FramesShape'
        BY FramesProperties, PTL
      <4> QED BY <1>2, <2>2, <4>1, EmptySeq DEF FramesShape, Depth
    <3> QED BY <1>1, <1>2, <2>1, <2>2, <3>1 DEF FirstTakesNothing
  <2>3. CASE d # 1
    <3>1. 1 \in 1..(d - 1) /\ Len(frameStack') # 0
      BY <1>2, <2>3 DEF Depth
    <3>2. frameStack' # <<>>
      BY <3>1
    <3> QED BY <1>2, <2>1, <3>1, <3>2 DEF FirstTakesNothing
  <2> QED BY <2>2, <2>3
<1>5. LiveWords'
  <2> SUFFICES ASSUME NEW x \in Address, x > top' PROVE word'[x] \in Literals \cup {Zero, Fill}
    BY DEF LiveWords
  <2>1. x \in Int /\ g.top \in Int
    BY <1>2, FrameStackAssumption DEF Address
  <2>2. CASE x = g.top
    <3>1. top + 1 > top
      BY <1>2
    <3> QED BY <1>2, <2>2, <3>1 DEF RefinementInv, LiveWords
  <2>3. CASE x > g.top
    <3>1. word'[x] = word[x] /\ x > top
      BY <1>2, <2>1, <2>3
    <3> QED BY <3>1 DEF RefinementInv, LiveWords
  <2> QED BY <1>2, <2>1, <2>2, <2>3
<1> QED BY <1>3, <1>4, <1>5 DEF RefinementInv

\* An activation with a result pushed.
WithResult(a, v) == [a EXCEPT !.ops = <<v>> \o @]

\* A result on top of the operands of f, in an activation otherwise unchanged.
LEMMA ResultPushed ==
  ASSUME NEW w, NEW u, NEW f \in Frame, NEW c \in Int, NEW h,
         f.top < f.operandStackBase, f.operandStackBase = f.base - f.nlocals,
         f.base + f.nargs - 1 <= c,
         \A x \in (f.top + 1)..c : u[x] = w[x],
         h.base = f.base, h.nargs = f.nargs, h.nlocals = f.nlocals, h.top = f.top - 1,
         h.operandStackBase = f.operandStackBase, h.returnAddress = f.returnAddress
  PROVE  View(u, h, c) = WithResult(View(w, f, c), u[f.top])
<1>1. /\ f.base \in Int /\ f.top \in Int /\ f.operandStackBase \in Int
      /\ f.nargs \in Nat /\ f.nlocals \in Nat
  BY DEF Frame
<1>2. View(u, f, c) = View(w, f, c)
  BY <1>1, SameView
<1>4. PICK lo \in Int, hi \in Int :
        lo = f.top + 1 /\ hi = f.operandStackBase - 1 /\ lo <= hi + 1 /\ lo - 1 = f.top
  BY <1>1
<1>5. Part(u, lo - 1, hi) = <<u[lo - 1]>> \o Part(u, lo, hi)
  BY <1>4, PartPush
<1>6. h.top + 1 = lo - 1
  BY <1>1, <1>4
<1>7. Part(u, h.top + 1, h.operandStackBase - 1) = <<u[f.top]>> \o Part(u, lo, hi)
  BY <1>4, <1>5, <1>6
<1>8. PICK A, L, C, O :
        /\ A = [i \in 1..f.nargs |-> u[f.base + f.nargs - i]]
        /\ L = [i \in 1..f.nlocals |-> u[f.base - i]]
        /\ C = Part(u, f.base + f.nargs, c)
        /\ O = Part(u, lo, hi)
  OBVIOUS
<1>9. View(u, f, c) = [args |-> A, closure |-> C, locals |-> L, ops |-> O,
                       ret |-> f.returnAddress]
  BY <1>4, <1>8 DEF View
<1>10. PICK q : q = <<u[f.top]>> \o O
  OBVIOUS
<1>11. View(u, h, c) = [args |-> A, closure |-> C, locals |-> L, ops |-> q,
                        ret |-> f.returnAddress]
  <2>1. Part(u, h.top + 1, h.operandStackBase - 1) = q
    BY <1>7, <1>8, <1>10
  <2>2. /\ [i \in 1..h.nargs |-> u[h.base + h.nargs - i]] = A
        /\ [i \in 1..h.nlocals |-> u[h.base - i]] = L
        /\ Part(u, h.base + h.nargs, c) = C
    BY <1>8
  <2> QED BY <2>1, <2>2 DEF View
<1>12. WithResult(View(u, f, c), u[f.top]) = [args |-> A, closure |-> C, locals |-> L, ops |-> q,
                                              ret |-> f.returnAddress]
  <2>1. PICK r : r = View(u, f, c)
    OBVIOUS
  <2>2. /\ r = [args |-> A, closure |-> C, locals |-> L, ops |-> O, ret |-> f.returnAddress]
        /\ r.ops = O
    BY <1>9, <2>1
  <2>3. WithResult(r, u[f.top]) = [r EXCEPT !.ops = q]
    BY <1>10, <2>2 DEF WithResult
  <2>4. [r EXCEPT !.ops = q] = [args |-> A, closure |-> C, locals |-> L, ops |-> q,
                                ret |-> f.returnAddress]
    BY ONLY <2>2
  <2> QED BY <2>1, <2>3, <2>4
<1> QED BY <1>2, <1>11, <1>12

\* The result is the only operand of the activation that ends; its caller goes on with it.
LEMMA EndRefines ==
  ASSUME RefinementInv, FrameInv', End
  PROVE  RefinementInv' /\ Abstract!Next
<1>0. CASE Fail
  <2>1. status = "running"
    BY DEF End, Running
  <2> QED BY <1>0, <2>1, FailRefines DEF Abstract!Next
<1>1. SUFFICES ASSUME ~Fail PROVE RefinementInv' /\ Abstract!Next
  BY <1>0
<1>2. PICK d, g, e : d = Depth /\ g = frameStack[d] /\ e = Ceiling(d)
  OBVIOUS
<1>3. /\ d \in Nat /\ d >= 1 /\ Depth' = d - 1
      /\ \A k \in 1..(d - 1) : frameStack'[k] = frameStack[k]
      /\ g \in Frame /\ frame' = g /\ g.top \in Address /\ top < g.top
      /\ top' = g.top - 1 /\ frame.operandStackBase = top + 2
      /\ top \in Int /\ top + 1 \in Address
      /\ word'[g.top] = word[top + 1]
      /\ \A x \in Address : g.top < x => word'[x] = word[x]
      /\ status = "running" /\ next' = next
      /\ IF d = 1 THEN status' = "done" /\ resume' = resume
         ELSE resume' = frame.returnAddress /\ status' = status
  BY <1>1, <1>2, Left
<1>4. RefinementInv'
  BY <1>1, LeftInv
<1>5. /\ FramesShape /\ FramesShape' /\ ActivationsShape /\ ActivationsShape' /\ RunningShape
      /\ RunningShape' /\ AllPlaced
  <2>1. FrameInv
    BY DEF RefinementInv
  <2>2. FramesShape /\ FramesShape'
    BY <2>1, FramesProperties, PTL
  <2>3. ActivationsShape /\ ActivationsShape'
    BY <1>4, ActivationsProperties, PTL
  <2>4. RunningShape /\ RunningShape'
    BY <1>4, RunningProperties, PTL
  <2> QED BY <2>2, <2>3, <2>4, Placement
<1>6. Frames[d] = g /\ d \in 1..Depth
  BY <1>2, <1>3, <1>5 DEF FramesShape
<1>7. /\ e \in Int /\ g.top < g.operandStackBase /\ g.operandStackBase = g.base - g.nlocals
      /\ g.base + g.nargs - 1 <= e /\ e < StackSize /\ StackSize \in Nat /\ g.top \in Int
      /\ Activation(d) = View(word, g, e)
  <2>1. Placed(d)
    BY <1>2, <1>3, <1>5 DEF AllPlaced
  <2> QED BY <1>2, <1>6, <2>1, FrameStackAssumption DEF Placed
<1>8. g.top <= e
  BY <1>3, <1>7 DEF Frame
<1>9. Abstract!Ops = <<word[top + 1]>> /\ Abstract!Current.ret = frame.returnAddress
  <2>1. PICK x \in Int, y \in Int : x = top + 1 /\ y = frame.operandStackBase - 1 /\ x = y
    BY <1>3
  <2>2. Part(word, x, x) = <<word[x]>>
    BY OneWord
  <2>3. /\ Head(Activations).ops = Part(word, top + 1, frame.operandStackBase - 1)
        /\ Head(Activations).ret = frame.returnAddress
    <3>1. PICK A, C, L, O :
            /\ A = [i \in 1..frame.nargs |-> word[frame.base + frame.nargs - i]]
            /\ C = Part(word, frame.base + frame.nargs, Ceiling(Depth + 1))
            /\ L = [i \in 1..frame.nlocals |-> word[frame.base - i]]
            /\ O = Part(word, top + 1, frame.operandStackBase - 1)
      OBVIOUS
    <3>2. Head(Activations) = [args |-> A, closure |-> C, locals |-> L, ops |-> O,
                               ret |-> frame.returnAddress]
      BY <1>5, <3>1 DEF RunningShape
    <3> QED BY <3>1, <3>2
  <2> QED BY <2>1, <2>2, <2>3 DEF Abstract!Ops, Abstract!Current
<1>10. \A k \in 1..(d - 1) : Activation(k)' = Activation(k)
  <2>1. PICK n \in Nat : n = d - 1
    BY <1>3
  <2>2. n <= Depth /\ n <= Depth'
    BY <1>2, <1>3, <2>1
  <2>3. \A x \in Address : (n > 0 /\ x > frameStack[n].top) => word'[x] = word[x]
    <3> SUFFICES ASSUME NEW x \in Address, n > 0, x > frameStack[n].top
                 PROVE  word'[x] = word[x]
      OBVIOUS
    <3>1. n \in 1..Depth /\ d # 1 /\ d - 1 = n
      BY <1>2, <1>3, <2>1
    <3>2. e = frameStack[n].top
      BY <1>2, <1>5, <3>1 DEF Ceiling, FramesShape
    <3>3. g.top < x
      BY <1>7, <1>8, <3>2 DEF Address
    <3> QED BY <1>3, <3>3
  <2>4. \A k \in 1..n : frameStack'[k] = frameStack[k]
    BY <1>3, <2>1
  <2> QED BY <1>4, <2>1, <2>2, <2>3, <2>4, CallersKept
<1>11. PICK h : h = [g EXCEPT !.top = g.top - 1]
  OBVIOUS
<1>12. Ceiling(d)' = e
  <2>1. CASE d = 1
    <3>1. Frames'[1] = [frame' EXCEPT !.top = top']
      BY <1>3, <1>5, <2>1 DEF FramesShape
    <3>2. Frames'[1].base = g.base /\ Frames'[1].nargs = g.nargs
      BY <1>3, <3>1 DEF Frame
    <3> QED BY <1>2, <1>6, <2>1, <3>2 DEF Ceiling
  <2>2. CASE d # 1
    <3>1. d - 1 \in 1..Depth /\ d - 1 \in 1..Depth' /\ d - 1 \in 1..(d - 1)
      BY <1>2, <1>3, <2>2
    <3>2. Frames'[d - 1] = Frames[d - 1]
      BY <1>3, <1>5, <3>1 DEF FramesShape
    <3> QED BY <1>2, <2>2, <3>2 DEF Ceiling
  <2> QED BY <2>1, <2>2
<1>13. Head(Activations)' = View(word', h, e)
  <2>1. Head(Activations)' = View(word', [frame' EXCEPT !.top = top'], Ceiling(Depth + 1)')
    BY <1>5 DEF RunningShape
  <2>2. Depth' + 1 = d
    BY <1>3
  <2> QED BY <1>3, <1>11, <1>12, <2>1, <2>2
<1>14. View(word', h, e) = WithResult(View(word, g, e), word'[g.top])
  <2>1. \A x \in (g.top + 1)..e : word'[x] = word[x]
    <3> SUFFICES ASSUME NEW x \in (g.top + 1)..e PROVE word'[x] = word[x]
      OBVIOUS
    <3>1. x \in Address /\ g.top < x
      BY <1>3, <1>7 DEF Address
    <3> QED BY <1>3, <3>1
  <2>2. /\ h.base = g.base /\ h.nargs = g.nargs /\ h.nlocals = g.nlocals /\ h.top = g.top - 1
        /\ h.operandStackBase = g.operandStackBase /\ h.returnAddress = g.returnAddress
    BY <1>3, <1>11 DEF Frame
  <2>3. PICK w, u : w = word /\ u = word'
    OBVIOUS
  <2>4. \A x \in (g.top + 1)..e : u[x] = w[x]
    BY <2>1, <2>3
  <2>5. View(u, h, e) = WithResult(View(w, g, e), u[g.top])
    BY ONLY <1>3, <1>7, <2>2, <2>4, ResultPushed
  <2> QED BY <2>3, <2>5
<1>15. PICK s, t : s = Activations /\ t = Activations'
  OBVIOUS
<1>16. /\ s = [j \in 1..(d + 1) |-> s[j]] /\ t = [j \in 1..d |-> t[j]]
       /\ Len(s) = d + 1 /\ t[1] = Head(Activations)' /\ s[2] = Activation(d)
  <2>1. Depth + 2 - 2 = d /\ 2 \in 1..(Depth + 1) /\ Depth' + 1 = d /\ 1 \in 1..(Depth' + 1)
        /\ Depth' + 2 - 1 = Depth' + 1
    BY <1>2, <1>3
  <2> QED BY <1>2, <1>3, <1>5, <1>15, <2>1 DEF ActivationsShape
<1>17. \A j \in 2..d : t[j] = s[j + 1]
  <2> SUFFICES ASSUME NEW j \in 2..d PROVE t[j] = s[j + 1]
    OBVIOUS
  <2>1. PICK i \in 1..(d - 1) : i = d + 1 - j
    BY <1>3
  <2>2. /\ j \in 1..(Depth' + 1) /\ Depth' + 2 - j = i
        /\ j + 1 \in 1..(Depth + 1) /\ Depth + 2 - (j + 1) = i
    BY <1>2, <1>3, <2>1
  <2>3. t[j] = Activation(i)'
    BY <1>5, <1>15, <2>2 DEF ActivationsShape
  <2>4. s[j + 1] = Activation(i)
    BY <1>5, <1>15, <2>2 DEF ActivationsShape
  <2> QED BY <1>10, <2>3, <2>4
<1>18. t = <<t[1]>> \o Tail(Tail(s))
  <2>1. PICK S : s \in [1..(d + 1) -> S] /\ t \in [1..d -> S]
    <3> DEFINE S == {s[j] : j \in 1..(d + 1)} \cup {t[j] : j \in 1..d}
    <3>1. s \in [1..(d + 1) -> S] /\ t \in [1..d -> S]
      BY <1>16
    <3> QED BY <3>1
  <2>2. d \in Nat /\ d > 0
    BY <1>3
  <2> QED BY ONLY <1>17, <2>1, <2>2, HeadForTwo
<1>19. Abstract!Leave
  <2>1. Len(Activations) > 1 /\ Len(Abstract!Ops) = 1 /\ (Len(Activations) = 2 <=> d = 1)
    BY <1>3, <1>9, <1>15, <1>16
  <2>2. t[1] = [s[2] EXCEPT !.ops = Abstract!Ops \o @]
    BY <1>3, <1>7, <1>9, <1>13, <1>14, <1>16 DEF WithResult
  <2>3. Activations' = <<[Activations[2] EXCEPT !.ops = Abstract!Ops \o @]>>
                       \o Tail(Abstract!Callers)
    BY <1>15, <1>18, <2>2 DEF Abstract!Callers
  <2> QED BY <1>3, <1>9, <2>1, <2>3 DEF Abstract!Leave
<1> QED BY <1>4, <1>19 DEF Abstract!Next

-----------------------------------------------------------------------------
(* Stack implements a stack of activations                                  *)

LEMMA RefinementInitially == Init => RefinementInv /\ Abstract!Init
<1> SUFFICES ASSUME Init PROVE RefinementInv /\ Abstract!Init
  OBVIOUS
<1>1. StackSize \in Nat /\ StackSize > 2
  BY FrameStackAssumption
<1>2. /\ word = [a \in Address |-> Zero] /\ top = StackSize - 3 /\ frameStack = <<>>
      /\ frame.base = StackSize /\ frame.nargs = 0 /\ frame.nlocals = 0
      /\ frame.operandStackBase = StackSize /\ frame.returnAddress = NoSite
      /\ next = [returnAddress |-> NoSite, isClosure |-> FALSE] /\ resume = NoSite
      /\ status = "entering"
  BY DEF Init
<1>3. RefinementInv
  <2>1. FrameInv
    BY FrameInitially
  <2> QED BY <1>2, <2>1 DEF RefinementInv, TopsDescend, FirstTakesNothing, LiveWords
<1>4. Depth = 0 /\ RunningShape /\ ActivationsShape /\ FramesShape
  BY <1>2, <1>3, RunningProperties, ActivationsProperties, FramesProperties
     DEF RefinementInv, Depth
<1>5. PICK c : c = Ceiling(Depth + 1)
  OBVIOUS
<1>6. c = StackSize - 1
  <2>1. Frames[1] = [frame EXCEPT !.top = top] /\ frame \in Frame
    BY <1>4 DEF FramesShape
  <2>2. Frames[1].base = frame.base /\ Frames[1].nargs = frame.nargs
    BY <2>1 DEF Frame
  <2> QED BY <1>1, <1>2, <1>4, <1>5, <2>2 DEF Ceiling
<1>7. PICK A, C, L, O :
        /\ A = [i \in 1..frame.nargs |-> word[frame.base + frame.nargs - i]]
        /\ C = Part(word, frame.base + frame.nargs, c)
        /\ L = [i \in 1..frame.nlocals |-> word[frame.base - i]]
        /\ O = Part(word, top + 1, frame.operandStackBase - 1)
  OBVIOUS
<1>8. Head(Activations) = [args |-> A, closure |-> C, locals |-> L, ops |-> O, ret |-> NoSite]
  BY <1>2, <1>4, <1>5, <1>7 DEF RunningShape
<1>9. A = <<>> /\ L = <<>>
  BY <1>2, <1>7
<1>10. C = <<>>
  <2>1. PICK x \in Int, y \in Int : x = frame.base + frame.nargs /\ y = c /\ y = x - 1
    BY <1>1, <1>2, <1>6
  <2> QED BY <1>7, <2>1, NoPart
<1>11. O = <<Zero, Zero>>
  <2>1. PICK x \in Int, y \in Int :
          x = top + 1 /\ y = frame.operandStackBase - 1 /\ y = x + 1 /\ x \in Address /\ y \in Address
    BY <1>1, <1>2 DEF Address
  <2>2. x <= y + 1 /\ y - x + 1 = 2
    BY <2>1
  <2>3. /\ Part(word, x, y) \in Seq({word[a] : a \in x..y})
        /\ Len(Part(word, x, y)) = y - x + 1
        /\ \A i \in 1..(y - x + 1) : Part(word, x, y)[i] = word[x + i - 1]
    BY <2>2, PartProperties
  <2>4. O = Part(word, x, y)
    BY <1>7, <2>1
  <2>5. O \in Seq({word[a] : a \in x..y}) /\ Len(O) = 2 /\ O[1] = word[x] /\ O[2] = word[y]
    <3>1. x + 1 - 1 = x /\ x + 2 - 1 = y /\ 1 \in 1..(y - x + 1) /\ 2 \in 1..(y - x + 1)
      BY <2>1
    <3>2. O \in Seq({word[a] : a \in x..y}) /\ Len(O) = 2
      BY ONLY <2>2, <2>3, <2>4
    <3>3. O[1] = word[x + 1 - 1] /\ O[2] = word[x + 2 - 1]
      BY ONLY <2>3, <2>4, <3>1
    <3> QED BY <3>1, <3>2, <3>3
  <2>6. O[1] = Zero /\ O[2] = Zero
    BY <1>2, <2>1, <2>5
  <2> QED BY <2>5, <2>6
<1>12. Activations = <<Head(Activations)>>
  <2>1. PICK s : s = Activations
    OBVIOUS
  <2>2. s = [j \in 1..1 |-> s[j]] /\ s[1] = Head(Activations)
    BY <1>4, <2>1 DEF ActivationsShape
  <2> QED BY <2>1, <2>2
<1> QED BY <1>2, <1>3, <1>8, <1>9, <1>10, <1>11, <1>12 DEF Abstract!Init

LEMMA RefinementStep ==
  RefinementInv /\ FrameInv /\ [Next]_frameVars
    => RefinementInv' /\ [Abstract!Next]_(Abstract!activationVars)
<1> SUFFICES ASSUME RefinementInv, FrameInv, [Next]_frameVars
             PROVE  RefinementInv' /\ [Abstract!Next]_(Abstract!activationVars)
  OBVIOUS
<1>1. FrameInv'
  BY FrameStep
<1>2. CASE UNCHANGED frameVars
  <2>1. RefinementInv'
    BY <1>1, <1>2 DEF RefinementInv, frameVars, TopsDescend, FirstTakesNothing, LiveWords
  <2>2. UNCHANGED Activations
    BY <1>2 DEF frameVars, Activations, Activation, Frames, Words
  <2> QED BY <1>2, <2>1, <2>2 DEF frameVars, Abstract!activationVars
<1>3. CASE (\E n \in 0..3, v \in Literals : Compute(n, v)) \/ Drop \/ Dup
  BY <1>1, <1>3, ComputeRefines
<1>4. CASE \/ \E i \in 0..MaxLocals : LoadLocal(i) \/ StoreLocal(i)
           \/ \E i \in 0..MaxArgs : LoadArg(i) \/ StoreArg(i)
  BY <1>1, <1>4, LoadStoreRefines
<1>5. CASE \E n \in 0..MaxOps, v \in Literals :
             BuildArray(n, v) \/ BuildSexp(n, v) \/ Capture(n, v)
  BY <1>1, <1>5, RuntimeRefines
<1>6. CASE \E s \in Sites : Call(s) \/ \E n \in 0..MaxArgs : CallClosure(n, s)
  BY <1>1, <1>6, CallRefines
<1>7. CASE \E m \in 0..MaxArgs, n \in 0..MaxLocals : Begin(m, n)
  BY <1>1, <1>7, BeginRefines
<1>8. CASE End
  BY <1>1, <1>8, EndRefines
<1> QED BY <1>2, <1>3, <1>4, <1>5, <1>6, <1>7, <1>8 DEF Next

\* In every state the tops of the callers descend, the first frame takes no arguments, and no
\* word above the top is one that C code has left behind.
THEOREM RefinementInvariant == Spec => []RefinementInv
BY RefinementInitially, RefinementStep, FrameInvariant, PTL DEF Spec

\* struct Stack implements a stack of activations none of which can disturb another, whatever
\* the sizes are: every instruction changes what ActivationStack lets it change, and END gives
\* the result to the caller as it was when it made the call.
THEOREM FramesImplementActivations == Spec => ImplementsActivationStack
<1>1. Init => Abstract!Init
  BY RefinementInitially
<1>2. RefinementInv /\ FrameInv /\ [Next]_frameVars => [Abstract!Next]_(Abstract!activationVars)
  BY RefinementStep
<1> QED BY <1>1, <1>2, RefinementInvariant, FrameInvariant, PTL
        DEF Spec, ImplementsActivationStack, Abstract!Spec

=============================================================================
