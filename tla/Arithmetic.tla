----------------------------- MODULE Arithmetic -----------------------------
(***************************************************************************)
(* The instructions that compute with numbers, on two operands that may be *)
(* any words, and the functions of runtime.c that are synonyms of the      *)
(* built-in operators.                                                     *)
(*                                                                         *)
(* host is what the C++ operator computes in int32_t before boxing; a      *)
(* product that does not fit is undefined in C++, and the build's imul     *)
(* keeps its low bits.                                                     *)
(***************************************************************************)
EXTENDS LamaNumbers

VARIABLES
  lhs, rhs,  \* operands: words
  op,        \* what is executed
  host,      \* the mathematical value of the C++ expression
  result,    \* the word pushed
  status     \* "ready", "ok", "error" (runtimeError), "trap" (SIGFPE)

arithmeticVars == <<lhs, rhs, op, host, result, status>>

Constants == {"CONST"}

\* popIntOperand
IntOperands == valueIsInt(lhs) /\ valueIsInt(rhs)

Error == status' = "error" /\ UNCHANGED <<host, result>>
Trap  == status' = "trap" /\ UNCHANGED <<host, result>>

\* result = lhs op rhs, in int32_t; pushIntOperand(result)
Compute(o, a, b) ==
  /\ host' = Exact(o, a, b)
  /\ result' = boxInt(ToWord(Exact(o, a, b)))
  /\ status' = "ok"

\* I_BINOP_Eq compares words.
Equal ==
  /\ op = "Eq" /\ host' = Truth(lhs = rhs)
  /\ result' = boxInt(Truth(lhs = rhs)) /\ status' = "ok"

DivisorUnchecked(a) == FALSE

ZeroDivisor(a) == Divides(op) /\ a = 0

\* What popIntOperand returns, and what it would if the shift were a division.
UnboxedTowardsZero(v) == TruncatedQuotient(v, 2)

Unboxed(v) == unboxInt(v)

\* The other binary operators.  A division by zero that is not caught traps.
Binop ==
  /\ op \in Operators \ {"Eq"}
  /\ LET a == Unboxed(lhs)
         b == Unboxed(rhs)
     IN IF ~IntOperands \/ ZeroDivisor(b) THEN Error
        ELSE IF Divides(op) /\ b = 0 THEN Trap
        ELSE Compute(op, a, b)

\* CONST pushes a word of the bytecode, here lhs.
Const ==
  /\ op = "CONST"
  /\ host' = lhs /\ result' = boxInt(lhs) /\ status' = "ok"

Init ==
  /\ lhs \in LWord /\ rhs \in LWord
  /\ op \in Operators \cup Constants
  /\ host = 0 /\ result = 0 /\ status = "ready"

Next ==
  /\ status = "ready"
  /\ Equal \/ Binop \/ Const
  /\ UNCHANGED <<lhs, rhs, op>>

Spec == Init /\ [][Next]_arithmeticVars

-----------------------------------------------------------------------------
(* The functional synonyms.  They take boxed numbers, with an assertion on  *)
(* each, and box the result of the same C operator.                         *)

\* The difference of two words, which is for pointers only.
SynonymOfWords(o, p, q) == boxInt(ToWord(Exact(o, p, q)))

\* "==" compares words.
Synonym(o, p, q) ==
  LET a == unboxInt(p)
      b == unboxInt(q)
  IN IF o = "Eq" THEN boxInt(Truth(p = q)) ELSE boxInt(ToWord(Exact(o, a, b)))

-----------------------------------------------------------------------------
(* Properties                                                               *)

\* An operator of Lama computes in the integers modulo 2^31, although the code
\* computes modulo 2^32 and drops the highest bit when it boxes the result;
\* comparisons are exact over the whole range, and a constant is the word of the
\* bytecode modulo 2^31.
ComputesModulo ==
  status = "ok" /\ (op = "CONST" \/ IntOperands) =>
    /\ valueIsInt(result)
    /\ unboxInt(result) = ToNumber(IF op = "CONST" THEN lhs
                                   ELSE Exact(op, unboxInt(lhs), unboxInt(rhs)))

\* No division traps: the divisor is tested after it has been unboxed, and a boxed
\* zero is not the word zero.  No operator but "*" overflows int32_t, which C++ leaves
\* undefined: sums have a bit to spare, and the quotient that does not fit, INT_MIN / -1,
\* would need an operand that no unboxed word is.
NothingUndefined ==
  /\ status # "trap"
  /\ status = "ok" /\ op # "Mul" => host \in LWord

\* runtime.c calls its functions "functional synonyms" of the built-in operators:
\* wherever the instruction pushes a number the function returns the same.
SynonymsAgree ==
  status = "ok" /\ op \in Operators => result = Synonym(op, lhs, rhs)

=============================================================================
