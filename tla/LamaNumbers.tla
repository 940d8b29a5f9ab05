----------------------------- MODULE LamaNumbers -----------------------------
(***************************************************************************)
(* Numbers as the interpreter (Value.h) and the runtime (runtime_common.h) *)
(* represent them: a machine word whose lowest bit is 1 is a boxed number, *)
(* which has one bit less than the word; a word whose lowest bit is 0 is a *)
(* pointer.  Words are signed.                                             *)
(*                                                                         *)
(* Half is 2^30 in the code: numbers are -Half .. Half - 1, and words      *)
(* -2*Half .. 2*Half - 1.                                                  *)
(***************************************************************************)
EXTENDS Integers

CONSTANT Half

ASSUME HalfAssumption == Half \in Nat \ {0}

LNumber == (-Half) .. (Half - 1)           \* what fits in a boxed number
LWord   == (-2 * Half) .. (2 * Half - 1)   \* int32_t

\* The word, and the number, congruent to x.
ToWord(x)   == ((x + 2 * Half) % (4 * Half)) - 2 * Half
ToNumber(x) == ((x + Half) % (2 * Half)) - Half

valueIsInt(v) == v % 2 = 1

\* (num << 1) | 1, the bit that is shifted out dropped, and an arithmetic shift to the
\* right.
boxInt(n) == ToWord(2 * n + 1)

unboxInt(v) == v \div 2

-----------------------------------------------------------------------------
(* The operators of C++ that BINOP applies to two numbers.  Division        *)
(* truncates towards zero, and the remainder has the sign of the dividend.  *)

Abs(x) == IF x < 0 THEN -x ELSE x

TruncatedQuotient(a, b) ==
  LET q == Abs(a) \div Abs(b) IN IF (a < 0) = (b < 0) THEN q ELSE -q

TruncatedRemainder(a, b) == a - b * TruncatedQuotient(a, b)

Truth(p) == IF p THEN 1 ELSE 0

Comparisons == {"Lt", "Leq", "Gt", "Geq", "Eq", "Neq", "And", "Or"}

Operators == {"Add", "Sub", "Mul", "Div", "Mod"} \cup Comparisons

\* The mathematical result, before it is stored in an int32_t.
Exact(op, a, b) ==
  CASE op = "Add" -> a + b
    [] op = "Sub" -> a - b
    [] op = "Mul" -> a * b
    [] op = "Div" -> TruncatedQuotient(a, b)
    [] op = "Mod" -> TruncatedRemainder(a, b)
    [] op = "Lt"  -> Truth(a < b)
    [] op = "Leq" -> Truth(a <= b)
    [] op = "Gt"  -> Truth(a > b)
    [] op = "Geq" -> Truth(a >= b)
    [] op = "Eq"  -> Truth(a = b)
    [] op = "Neq" -> Truth(a # b)
    [] op = "And" -> Truth(a # 0 /\ b # 0)
    [] op = "Or"  -> Truth(a # 0 \/ b # 0)

Divides(op) == op \in {"Div", "Mod"}

=============================================================================
