----------------------------- MODULE LamaMachine -----------------------------
(***************************************************************************)
(* Interpreter::step and the runtime together: programs that run on the    *)
(* virtual stack, in frames, with the heap of module GcMutator below them  *)
(* and its collections inside their allocating instructions.               *)
(*                                                                         *)
(* An instruction is a record [op, n, m, to, name, var, vars], of which    *)
(* each opcode uses some fields; the instruction pointer counts            *)
(* instructions.  label keeps, by identity of the object, the word that    *)
(* the field iterators skip (the tag of a sexp, the entry of a closure)    *)
(* and the characters of a string.                                         *)
(*                                                                         *)
(* phase "error" is a runtimeError or a failure() of the runtime; "crash"  *)
(* is a read of a word that is not what the code takes it for.             *)
(***************************************************************************)
EXTENDS GcMutator, LamaNumbers

CONSTANTS
  Programs, FrameStackSize, Filler, Inputs, Chars, TextLens  \* see LamaSemantics

VARIABLES
  code,        \* the bytecode
  ip,          \* instructionPointer
  frame,       \* Stack::frame
  frameStack,  \* the first frameStackSize elements of Stack::frameStack
  next,        \* nextReturnAddress and nextIsClosure
  label        \* identity of an object |-> its tag, entry or characters

frameVars == <<frame, frameStack, next>>
machineVars == <<mutatorVars, code, ip, frameVars, label>>

Text == "text"
Final == {"done", "error", "exit", "crash"}

Ins == code[ip]
Op(k) == word[top + k]
OperandStackSize == frame.operandStackBase - top - 1

\* A number is kept as a negative word; the boxed zero is Number.
Num(k) == -1 - (k % (2 * Half))
NumberOf(v) == ToNumber(-1 - v)

IsRef(v) == IsValidHeapPointer(v) /\ IsObject(HeaderOf(v))
Referred(v) == mem[HeaderOf(v)]

-----------------------------------------------------------------------------
At(op) == Running /\ ip \in DOMAIN code /\ Ins.op = op

\* runtimeError, or the end of main: nothing is read of the state any more.
Stop(p) ==
  /\ phase' = p
  /\ UNCHANGED <<heapVars, markVars, compactVars, it, fld, need, call, ids,
                 code, ip, frameVars, label>>

\* The checks of popOperand, popNOperands and of the instructions themselves.
Needs(n, A) == IF OperandStackSize < n THEN Stop("error") ELSE A

\* The instruction leaves objects m and words w with n operands replaced by vs.
Step(m, w, n, vs) ==
  /\ mem' = m /\ Replace(w, n, vs) /\ ip' = ip + 1
  /\ UnchangedHeap /\ UNCHANGED <<call, ids, code, frameVars>>

Result(n, vs) == Step(mem, word, n, vs) /\ UNCHANGED label

-----------------------------------------------------------------------------
(* accessVar                                                                *)

\* accessLocal and accessArg throw on an index out of bounds.
InBounds(var) ==
  CASE var[1] = "Local" -> var[2] < frame.nlocals
    [] var[1] = "Arg"   -> var[2] < frame.nargs
    [] OTHER            -> TRUE

\* getClosure: the word above the arguments.
ClosureBelowArguments == frame.base

Closure == frame.base + frame.nargs

AddressOf(var) ==
  CASE var[1] = "Global" -> GlobalStart + var[2]
    [] var[1] = "Local"  -> frame.base - var[2] - 1
    [] var[1] = "Arg"    -> frame.base + frame.nargs - 1 - var[2]
    [] var[1] = "Access" -> word[Closure] + var[2] + 1

\* The word before the first field is the tag of a sexp or the entry of a closure.
FieldAddress(h, i) == ContentOf(h) + (IF mem[h].kind = "ARRAY" THEN i - 1 ELSE i)

FieldsAt(a) ==
  UNION {{<<h, i>> : i \in {j \in DOMAIN mem[h].fields : FieldAddress(h, j) = a}} : h \in DOMAIN mem}

Accessible(a) == a \in Words \/ FieldsAt(a) # {}

Cell(a) ==
  IF a \in Words THEN word[a]
  ELSE LET f == CHOOSE g \in FieldsAt(a) : TRUE IN mem[f[1]].fields[f[2]]

\* *a = v by an instruction that replaces n operands by vs.
Assign(a, v, n, vs) ==
  /\ IF a \in Words THEN Step(mem, [word EXCEPT ![a] = v], n, vs)
     ELSE LET f == CHOOSE g \in FieldsAt(a) : TRUE IN
            Step([mem EXCEPT ![f[1]].fields[f[2]] = v], word, n, vs)
  /\ UNCHANGED label

Accessing(vars, A) ==
  IF \E i \in DOMAIN vars : ~InBounds(vars[i]) THEN Stop("error")
  ELSE IF \E i \in DOMAIN vars : ~Accessible(AddressOf(vars[i])) THEN Stop("crash")
  ELSE A

\* LD, LDA and ST of every designation
Ld  == At("LD")  /\ Accessing(<<Ins.var>>, Result(0, <<Cell(AddressOf(Ins.var))>>))
Lda == At("LDA") /\ Accessing(<<Ins.var>>, Result(0, <<AddressOf(Ins.var), AddressOf(Ins.var)>>))
St  == At("ST")  /\ Needs(1, Accessing(<<Ins.var>>, Assign(AddressOf(Ins.var), Op(1), 0, <<>>)))

-----------------------------------------------------------------------------
(* Instructions on values                                                   *)

IConst == At("CONST") /\ Result(0, <<Num(Ins.n)>>)
IDrop  == At("DROP") /\ Needs(1, Result(1, <<>>))
IDup   == At("DUP") /\ Needs(1, Result(0, <<Op(1)>>))
ILine  == At("LINE") /\ Result(0, <<>>)

\* Operands of BINOP: the right one is popped first.
SwappedOperands == <<Op(1), Op(2)>>

BinopOperands == <<Op(2), Op(1)>>

Binop ==
  /\ At("BINOP")
  /\ Needs(2,
       LET l == BinopOperands[1]
           r == BinopOperands[2]
       IN IF Ins.name = "Eq" THEN Result(2, <<Num(Truth(l = r))>>)
          ELSE IF ~IsUnboxed(l) \/ ~IsUnboxed(r) THEN Stop("error")
          ELSE IF Divides(Ins.name) /\ NumberOf(r) = 0 THEN Stop("error")
          ELSE Result(2, <<Num(Exact(Ins.name, NumberOf(l), NumberOf(r)))>>))

\* The field that element k of an object is; contents[k] of a closure begins with
\* its entry.
FieldOfElement(o, k) == IF o.kind = "CLOSURE" THEN k ELSE k + 1

\* Belem
IElem ==
  /\ At("ELEM")
  /\ Needs(2,
       LET k == Op(1)
           c == Op(2)
       IN IF IsUnboxed(c) \/ ~IsUnboxed(k) THEN Stop("error")
          ELSE IF ~IsRef(c) THEN Stop("crash")
          ELSE LET o == Referred(c)
                   i == FieldOfElement(o, NumberOf(k))
               IN IF o.kind = "STRING"
                    THEN IF NumberOf(k) \in 0 .. o.len
                           THEN \E x \in Chars : Result(2, <<Num(x)>>) ELSE Stop("crash")
                  ELSE IF i \in DOMAIN o.fields THEN Result(2, <<o.fields[i]>>)
                  ELSE Stop("crash"))

\* Bsta.  What it would overwrite outside the container is not followed.
StaElement(v, k, c) ==
  LET h == HeaderOf(c)
      i == FieldOfElement(mem[h], NumberOf(k))
  IN IF mem[h].kind = "STRING" /\ NumberOf(k) \in 0 .. (mem[h].len - 1)
       THEN /\ Step(mem, word, 3, <<v>>)
            /\ label' = [label EXCEPT ![mem[h].id] = Text]
     ELSE IF i \in DOMAIN mem[h].fields
       THEN Step([mem EXCEPT ![h].fields[i] = v], word, 3, <<v>>) /\ UNCHANGED label
     ELSE Stop("crash")

Sta ==
  /\ At("STA")
  /\ Needs(3,
       LET v == Op(1)
           k == Op(2)
           c == Op(3)
       IN IF ~IsUnboxed(k)
            THEN IF Accessible(c) THEN Assign(c, v, 3, <<v>>) ELSE Stop("crash")
          ELSE IF IsUnboxed(c) THEN Stop("error")
          ELSE IF ~IsRef(c) THEN Stop("crash")
          ELSE StaElement(v, k, c))

-----------------------------------------------------------------------------
(* Patterns, length, input and output                                       *)

\* Btag, Barray_patt and the *_tag_patt functions, of what is not a number
TagHolds(o)   == o.kind = "SEXP" /\ label[o.id] = Ins.name /\ o.len = Ins.n
ArrayHolds(o) == o.kind = "ARRAY" /\ o.len = Ins.n
KindHolds(o)  == o.kind = Ins.name

\* A test of the header of the topmost operand, which no number passes.
TestHeader(Holds(_)) ==
  Needs(1, IF IsUnboxed(Op(1)) THEN Result(1, <<Num(0)>>)
           ELSE IF ~IsRef(Op(1)) THEN Stop("crash")
           ELSE Result(1, <<Num(Truth(Holds(Referred(Op(1)))))>>))

ITag       == At("TAG") /\ TestHeader(TagHolds)
IArrayPatt == At("ARRAY") /\ TestHeader(ArrayHolds)

\* PATT_Boxed and PATT_UnBoxed, and PATT_String, _Array, _Sexp and _Closure
IPatt ==
  /\ At("PATT")
  /\ IF Ins.name \in {"Boxed", "UnBoxed"}
       THEN Needs(1, Result(1, <<Num(Truth((Ins.name = "UnBoxed") = IsUnboxed(Op(1))))>>))
       ELSE TestHeader(KindHolds)

\* The parameters x and y of Bstring_patt: the topmost operand, and the one below.
StringPattArguments == <<Op(1), Op(2)>>

\* Bstring_patt: ASSERT_STRING lets a number pass, whose characters are read later, and
\* reads a header before any other word.
StringPatt ==
  /\ At("PATT_STRCMP")
  /\ Needs(2,
       LET x == StringPattArguments[1]
           y == StringPattArguments[2]
       IN IF ~IsUnboxed(y) /\ ~IsRef(y) THEN Stop("crash")
          ELSE IF ~IsUnboxed(y) /\ Referred(y).kind # "STRING" THEN Stop("error")
          ELSE IF IsUnboxed(x) THEN Result(2, <<Num(0)>>)
          ELSE IF ~IsRef(x) THEN Stop("crash")
          ELSE IF Referred(x).kind # "STRING" THEN Result(2, <<Num(0)>>)
          ELSE IF IsUnboxed(y) THEN Stop("crash")
          ELSE LET a == label[Referred(x).id]
                   b == label[Referred(y).id]
               IN \E r \in IF Text \in {a, b} THEN {0, 1} ELSE {Truth(a = b)} :
                    Result(2, <<Num(r)>>))

\* Bmatch_failure
IFail == At("FAIL") /\ Stop("error")

\* Llength, Lread and Lwrite
Llength ==
  /\ At("CALL_LENGTH")
  /\ Needs(1, IF IsUnboxed(Op(1)) THEN Stop("error")
              ELSE IF ~IsRef(Op(1)) THEN Stop("crash")
              ELSE Result(1, <<Num(Referred(Op(1)).len)>>))

Lread  == At("CALL_READ") /\ \E k \in Inputs : Result(0, <<Num(k)>>)
Lwrite == At("CALL_WRITE") /\ Needs(1, Result(1, <<Num(0)>>))

-----------------------------------------------------------------------------
(* Instructions that allocate: up to the call of alloc()                    *)

Advance == ip' = ip + 1 /\ UNCHANGED <<code, frameVars, label>>

IString == At("STRING") /\ CallString(Ins.n) /\ Advance
IArray  == At("CALL_ARRAY") /\ Needs(Ins.n, CallArray(Ins.n) /\ Advance)
ISexp   == At("SEXP") /\ Needs(Ins.n, CallSexp(Ins.n) /\ Advance)

\* Lstring renders any value: a text of some length.
IRender == At("CALL_STRING") /\ Needs(1, \E len \in TextLens : CallLstring(len) /\ Advance)

IClosure ==
  /\ At("CLOSURE")
  /\ IF Ins.to \notin DOMAIN code THEN Stop("error")
     ELSE Accessing(Ins.vars,
            Capture([i \in DOMAIN Ins.vars |-> Cell(AddressOf(Ins.vars[i]))]) /\ Advance)

\* What the instruction that has been read writes into its new object besides fields.
NewLabel ==
  LET i == code[ip - 1] IN
    CASE i.op = "CLOSURE"     -> i.to
      [] i.op = "CALL_STRING" -> Text
      [] OTHER                -> i.name

\* The runtime function goes on, with or without a collection.
InRuntime ==
  /\ Runtime
  /\ label' = IF ids' = ids THEN label ELSE Append(label, NewLabel)
  /\ UNCHANGED <<code, ip, frameVars>>

-----------------------------------------------------------------------------
(* Control                                                                  *)

\* The instruction pops n operands and goes on at to; getAddressFor throws on an
\* address outside the code.
Goto(to, n) ==
  IF to \notin DOMAIN code THEN Stop("error")
  ELSE /\ ip' = to /\ Replace(word, n, <<>>) /\ UNCHANGED mem
       /\ UnchangedHeap /\ UNCHANGED <<call, ids, code, frameVars, label>>

IJmp == At("JMP") /\ Goto(Ins.to, 0)

\* CJMPz (n = 0) and CJMPnz (n = 1)
ICjmp ==
  /\ At("CJMP")
  /\ Needs(1, IF ~IsUnboxed(Op(1)) THEN Stop("error")
              ELSE IF Truth(NumberOf(Op(1)) # 0) = Ins.n THEN Goto(Ins.to, 1)
              ELSE Result(1, <<>>))

\* CALL and CALLC set nextIsClosure; were it left alone by CALL ...
TransferAsBefore(to, closure) ==
  /\ ip' = to /\ next' = [returnAddress |-> ip + 1, isClosure |-> closure \/ next.isClosure]
  /\ UNCHANGED <<mutatorVars, code, frame, frameStack, label>>

Transfer(to, closure) ==
  /\ ip' = to /\ next' = [returnAddress |-> ip + 1, isClosure |-> closure]
  /\ UNCHANGED <<mutatorVars, code, frame, frameStack, label>>

ICall == At("CALL") /\ IF Ins.to \in DOMAIN code THEN Transfer(Ins.to, FALSE) ELSE Stop("error")

\* CALLC: the closure is below the arguments.
Called(n) == Op(n + 1)

ICallC ==
  /\ At("CALLC")
  /\ Needs(Ins.n + 1,
       LET c == Called(Ins.n) IN
         IF IsRef(c) /\ Referred(c).kind = "CLOSURE" THEN Transfer(label[Referred(c).id], TRUE)
         ELSE Stop("crash"))

\* memset with 1, of bytes: 0x01010101 is a boxed number.
FilledLocals(n) == [i \in 1..n |-> Num(Filler)]

\* BEGIN and BEGINcl: beginFunction with n parameters and m locals.
Begin ==
  /\ At("BEGIN")
  /\ LET taken == IF next.isClosure THEN Ins.n + 1 ELSE Ins.n IN
       Needs(taken,
         IF Len(frameStack) >= FrameStackSize THEN Stop("error")
         ELSE /\ frameStack' = Append(frameStack, [frame EXCEPT !.top = top + taken])
              /\ frame' = [frame EXCEPT !.base = top + 1, !.nargs = Ins.n, !.nlocals = Ins.m,
                                        !.operandStackBase = top - Ins.m + 1,
                                        !.returnAddress = next.returnAddress]
              /\ Replace(word, 0, FilledLocals(Ins.m)) /\ UNCHANGED mem
              /\ ip' = ip + 1 /\ UnchangedHeap /\ UNCHANGED <<call, ids, code, next, label>>)

\* END: endFunction; the END of main ends the program.
End ==
  /\ At("END")
  /\ IF frameStack = <<>> \/ OperandStackSize # 1 THEN Stop("error")
     ELSE LET caller == frameStack[Len(frameStack)] IN
          /\ frame' = caller
          /\ frameStack' = SubSeq(frameStack, 1, Len(frameStack) - 1)
          /\ top' = caller.top - 1
          /\ word' = [word EXCEPT ![caller.top] = Op(1)]
          /\ IF Len(frameStack) = 1 THEN phase' = "done" /\ UNCHANGED ip
             ELSE ip' = frame.returnAddress /\ UNCHANGED phase
          /\ UNCHANGED <<mem, heap, extra, markVars, compactVars, it, fld, need,
                         call, ids, code, next, label>>

\* readByte throws at the end of the code.
EndOfCode == Running /\ ip \notin DOMAIN code /\ Stop("error")

-----------------------------------------------------------------------------
\* Stack::init; the first BEGIN finds two operands, argc and argv.
MachineInit ==
  /\ MutatorInit
  /\ code \in Programs /\ ip = 1
  /\ frame = [base |-> StackBottom, top |-> 0, nargs |-> 0, nlocals |-> 0,
              operandStackBase |-> StackBottom, returnAddress |-> 0]
  /\ frameStack = <<>>
  /\ next = [returnAddress |-> 0, isClosure |-> FALSE]
  /\ label = <<>>

Interpret ==
  \/ Ld \/ Lda \/ St
  \/ IConst \/ IDrop \/ IDup \/ ILine \/ Binop \/ IElem \/ Sta
  \/ ITag \/ IArrayPatt \/ IPatt \/ StringPatt \/ IFail \/ Llength \/ Lread \/ Lwrite
  \/ IString \/ IArray \/ ISexp \/ IRender \/ IClosure
  \/ IJmp \/ ICjmp \/ ICall \/ ICallC \/ Begin \/ End \/ EndOfCode

\* The process has ended.
Ended == phase \in Final /\ UNCHANGED machineVars

MachineNext == Interpret \/ InRuntime \/ Ended

=============================================================================
