--------------------------- MODULE FrameRefinement ---------------------------
(***************************************************************************)
(* FrameStack implements ActivationStack: what the frames delimit in the   *)
(* virtual stack are the arguments, closures, locals and operands of       *)
(* activations that do not disturb each other.                             *)
(***************************************************************************)
EXTENDS FrameStack

\* The frames of all activations, the running one last.
Frames == Append(frameStack, [frame EXCEPT !.top = top])

Words(lo, hi) == [i \in 1..(hi - lo + 1) |-> word[lo + i - 1]]

\* A frame does not record whether its function was called as a closure; what
\* its caller has left on the stack tells.
Activation(k) ==
  LET f == Frames[k] IN
    [args    |-> [i \in 1..f.nargs |-> word[f.base + f.nargs - i]],
     closure |-> IF k = 1 THEN <<>> ELSE Words(f.base + f.nargs, Frames[k - 1].top),
     locals  |-> [i \in 1..f.nlocals |-> word[f.base - i]],
     ops     |-> Words(f.top + 1, f.operandStackBase - 1),
     ret     |-> f.returnAddress]

Activations == [j \in 1..Len(Frames) |-> Activation(Len(Frames) + 1 - j)]

Abstract == INSTANCE ActivationStack WITH
  acts <- Activations,
  call <- next,
  MaxFrames <- FrameStackSize

-----------------------------------------------------------------------------
(* Properties                                                               *)

\* Every variable has a value of its type; frameStack is never longer than its
\* array, into which beginFunction writes without another check.
FrameTypeOK ==
  /\ word \in [Address -> Value]
  /\ top \in -1 .. (StackSize - 1)
  /\ frame \in Frame
  /\ frameStack \in Seq(Frame) /\ Len(frameStack) <= FrameStackSize
  /\ next \in [returnAddress : Sites \cup {NoSite}, isClosure : BOOLEAN]
  /\ resume \in Sites \cup {NoSite}
  /\ status \in {"entering", "running", "done", "error", "overrun"}

\* With a virtual stack sized for the frame stack, nothing is written below its
\* start, although no instruction looks (Interpreter.cpp:159).
NoOverrun == status # "overrun"

\* The frames tile the virtual stack: the operands of an activation end where its
\* locals are, and its arguments are operands its caller has given away, so that
\* the frame that END restores is the caller's, with its own operands on top.
FramesNest ==
  \A k \in 1..Len(Frames) :
    LET f == Frames[k] IN
      /\ f.top < f.operandStackBase
      /\ f.operandStackBase = f.base - f.nlocals
      /\ k > 1 => LET g == Frames[k - 1] IN
                    /\ f.base + f.nargs - 1 <= g.top
                    /\ g.top <= f.base + f.nargs

-----------------------------------------------------------------------------
(* The inductive invariant from which the properties above follow.          *)

\* How far down the k-th activation may reach.
Low(k) == StackSize - 2 - (k - 1) * (MaxLocals + MaxOps)

\* f is a frame of the k-th activation, and t its top.
FrameOK(f, t, k) ==
  /\ t < f.operandStackBase
  /\ f.operandStackBase = f.base - f.nlocals
  /\ f.base <= StackSize
  /\ k > 1 => f.operandStackBase - MaxOps >= Low(k)

\* The function of frame f was called from that of frame g.
Linked(g, f) == f.base + f.nargs - 1 <= g.top /\ g.top <= f.base + f.nargs

\* A caller has room for the result; the first frame, which runs nothing, has
\* the two words of argc and argv at most.
CallerOK(k) ==
  LET f == frameStack[k] IN
    /\ FrameOK(f, f.top, k)
    /\ IF k = 1 THEN f.top >= StackSize - 3
       ELSE f.operandStackBase - f.top <= MaxOps /\ Linked(frameStack[k - 1], f)

FrameInv ==
  /\ FrameTypeOK
  /\ status # "overrun"
  /\ \A k \in 1..Len(frameStack) : CallerOK(k)
  /\ FrameOK(frame, top, Len(frameStack) + 1)
  /\ IF frameStack = <<>>
       THEN status # "running" /\ (status = "entering" => top = StackSize - 3)
       ELSE Linked(Last(frameStack), frame) /\ OperandStackSize <= MaxOps

\* Each caller's top is at or below those of its own callers.
TopsDescend ==
  \A j, k \in 1..Len(frameStack) : j <= k => frameStack[k].top <= frameStack[j].top

\* The first frame, which no beginFunction has made, has no arguments.
FirstTakesNothing ==
  IF frameStack = <<>> THEN frame.nargs = 0 ELSE frameStack[1].nargs = 0

\* What C code leaves behind stays below the top.
LiveWords == \A a \in Address : a > top => word[a] \in Literals \cup {Zero, Fill}

\* From RefinementInv it follows that every step is one of the activations.
RefinementInv == FrameInv /\ TopsDescend /\ FirstTakesNothing /\ LiveWords

-----------------------------------------------------------------------------
\* Entering and leaving functions, whatever their callers do, never changes the
\* arguments, closures, locals or operands of another activation, and END goes
\* back to the instruction after the call.
ImplementsActivationStack == Abstract!Spec

=============================================================================
