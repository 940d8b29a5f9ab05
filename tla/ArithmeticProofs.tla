-------------------------- MODULE ArithmeticProofs --------------------------
(***************************************************************************)
(* Whatever the width of a word, the operators of the interpreter compute  *)
(* modulo the numbers that a word can hold when it is boxed, and none of   *)
(* them is undefined.                                                      *)
(***************************************************************************)
EXTENDS Arithmetic, TLAPS

ArithmeticInv ==
  /\ lhs \in LWord /\ rhs \in LWord
  /\ op \in Operators \cup Constants
  /\ ComputesModulo
  /\ NothingUndefined

-----------------------------------------------------------------------------
(* Remainders                                                               *)

\* The remainder is the only r for which m * k + r is the dividend.
LEMMA ModUnique ==
  ASSUME NEW m \in Nat \ {0}, NEW k \in Int, NEW r \in 0 .. (m - 1)
  PROVE  (m * k + r) % m = r
OBVIOUS

\* There is such a k.
LEMMA ModSplit ==
  ASSUME NEW m \in Nat \ {0}, NEW x \in Int
  PROVE  \E k \in Int : x = m * k + (x % m) /\ x % m \in 0 .. (m - 1)
<1>1. x \div m \in Int /\ x = m * (x \div m) + (x % m) /\ x % m \in 0 .. (m - 1)
  OBVIOUS
<1> QED
  BY <1>1

\* A quotient of natural numbers is no larger than the dividend ...
LEMMA QuotientBound ==
  ASSUME NEW x \in Nat, NEW y \in Nat \ {0}
  PROVE  x \div y \in 0 .. x
OBVIOUS

\* ... and what it leaves is smaller than the divisor.
LEMMA RemainderBound ==
  ASSUME NEW x \in Nat, NEW y \in Nat \ {0}
  PROVE  x - y * (x \div y) \in 0 .. (y - 1)
OBVIOUS

-----------------------------------------------------------------------------
(* Boxing                                                                   *)

\* What popIntOperand returns is a number.
LEMMA UnboxedIsNumber ==
  ASSUME NEW v \in LWord
  PROVE  unboxInt(v) \in LNumber
BY HalfAssumption DEF LWord, LNumber, unboxInt

\* A word is the integer it stands for, up to a multiple of 2^w.
LEMMA WordCongruent ==
  ASSUME NEW x \in Int
  PROVE  ToWord(x) \in LWord /\ \E k \in Int : ToWord(x) = x - 4 * Half * k
<1> DEFINE m == 4 * Half
           r == (x + 2 * Half) % m
<1>1. m \in Nat \ {0} /\ x + 2 * Half \in Int
  BY HalfAssumption
<1>2. PICK k \in Int : x + 2 * Half = m * k + r /\ r \in 0 .. (m - 1)
  BY <1>1, ModSplit
<1>3. ToWord(x) = r - 2 * Half
  BY DEF ToWord
<1> HIDE DEF r
<1>4. m * k = 4 * Half * k /\ 4 * Half * k \in Int
  BY HalfAssumption
<1>5. ToWord(x) = x - 4 * Half * k
  BY <1>2, <1>3, <1>4, HalfAssumption
<1>6. ToWord(x) \in LWord
  BY <1>2, <1>3, HalfAssumption DEF LWord
<1> QED
  BY <1>5, <1>6

\* What fits in a word stays as it is.
LEMMA WordExact ==
  ASSUME NEW x \in LWord
  PROVE  ToWord(x) = x
<1>1. x + 2 * Half \in 0 .. (4 * Half - 1) /\ 4 * Half \in Nat \ {0}
  BY HalfAssumption DEF LWord
<1>2. (4 * Half * 0 + (x + 2 * Half)) % (4 * Half) = x + 2 * Half
  BY <1>1, ModUnique
<1> QED
  BY <1>1, <1>2, HalfAssumption DEF ToWord, LWord

\* pushIntOperand, then popIntOperand: a result that has been reduced to a word and
\* boxed is the number that it is congruent to.
LEMMA BoxedResult ==
  ASSUME NEW x \in Int
  PROVE  /\ valueIsInt(boxInt(ToWord(x)))
         /\ unboxInt(boxInt(ToWord(x))) = ToNumber(x)
<1> DEFINE w == ToWord(x)
           b == boxInt(w)
<1>1. PICK k \in Int : w = x - 4 * Half * k
  BY WordCongruent
<1>2. w \in Int
  BY WordCongruent, HalfAssumption DEF LWord
<1> DEFINE y == 2 * w + 1
<1> HIDE DEF w
<1>3. y \in Int /\ b = ToWord(y)
  BY <1>2 DEF boxInt
<1> HIDE DEF y, b
<1>4. PICK j \in Int : ToWord(y) = y - 4 * Half * j
  BY <1>3, WordCongruent
<1> DEFINE u == w - 2 * Half * j
           n == 2 * k + j
<1>5. 2 * Half * j \in Int /\ 4 * Half * j = 2 * (2 * Half * j)
  BY HalfAssumption
<1>6. u \in Int /\ b = 2 * u + 1 /\ b \in LWord
  <2>1. u \in Int /\ b = 2 * u + 1
    BY <1>2, <1>3, <1>4, <1>5 DEF y
  <2> QED
    BY <1>3, <2>1, WordCongruent
<1>7. u + Half \in 0 .. (2 * Half - 1)
  BY <1>6, HalfAssumption DEF LWord
<1>8. x + Half = 2 * Half * n + (u + Half)
  <2>1. 4 * Half * k = 2 * Half * (2 * k) /\ 2 * Half * (2 * k) \in Int
    BY HalfAssumption
  <2>2. 2 * Half * n = 2 * Half * (2 * k) + 2 * Half * j
    BY HalfAssumption
  <2> QED
    BY <1>1, <1>2, <1>5, <2>1, <2>2, HalfAssumption
<1>9. ToNumber(x) = u
  <2>1. 2 * Half \in Nat \ {0} /\ n \in Int
    BY HalfAssumption
  <2> HIDE DEF u, n
  <2>2. (2 * Half * n + (u + Half)) % (2 * Half) = u + Half
    BY <1>7, <2>1, ModUnique
  <2> QED
    BY <1>6, <1>8, <2>2, HalfAssumption DEF ToNumber
<1>10. valueIsInt(b) /\ unboxInt(b) = u
  <2> HIDE DEF u
  <2> QED
    BY <1>6 DEF valueIsInt, unboxInt
<1> QED
  BY <1>9, <1>10 DEF b, w

-----------------------------------------------------------------------------
(* The operators                                                            *)

\* A comparison yields 0 or 1.
LEMMA TruthIsBit == ASSUME NEW P \in BOOLEAN PROVE Truth(P) \in 0 .. 1
BY DEF Truth

\* A quotient, which C++ computes towards zero, is no further from it than the dividend.
LEMMA QuotientFits ==
  ASSUME NEW a \in LNumber, NEW b \in LNumber, b # 0
  PROVE  TruncatedQuotient(a, b) \in (-Half) .. Half
<1>1. Abs(a) \in Nat /\ Abs(a) <= Half /\ Abs(b) \in Nat \ {0}
  BY HalfAssumption DEF LNumber, Abs
<1> DEFINE q == Abs(a) \div Abs(b)
<1>2. q \in 0 .. Abs(a)
  BY <1>1, QuotientBound
<1>3. TruncatedQuotient(a, b) \in {q, -q}
  BY DEF TruncatedQuotient
<1> HIDE DEF q
<1> QED
  BY <1>1, <1>2, <1>3, HalfAssumption

\* A remainder has the sign of the dividend and is smaller than the divisor.
LEMMA RemainderFits ==
  ASSUME NEW a \in LNumber, NEW b \in LNumber, b # 0
  PROVE  TruncatedRemainder(a, b) \in (-Half) .. Half
<1>1. Abs(a) \in Nat /\ Abs(b) \in Nat \ {0} /\ Abs(b) <= Half
  BY HalfAssumption DEF LNumber, Abs
<1> DEFINE q == Abs(a) \div Abs(b)
           r == Abs(a) - Abs(b) * q
<1>2. r \in 0 .. (Abs(b) - 1)
  BY <1>1, RemainderBound
<1>3. q \in Int
  BY <1>1
<1>4. TruncatedQuotient(a, b) = IF (a < 0) = (b < 0) THEN q ELSE -q
  BY DEF TruncatedQuotient
<1> HIDE DEF q
<1>5. TruncatedRemainder(a, b) \in {r, -r}
  <2>1. CASE a < 0 /\ b < 0
    BY <2>1, <1>3, <1>4, HalfAssumption DEF TruncatedRemainder, LNumber, Abs
  <2>2. CASE a < 0 /\ ~(b < 0)
    BY <2>2, <1>3, <1>4, HalfAssumption DEF TruncatedRemainder, LNumber, Abs
  <2>3. CASE ~(a < 0) /\ b < 0
    BY <2>3, <1>3, <1>4, HalfAssumption DEF TruncatedRemainder, LNumber, Abs
  <2>4. CASE ~(a < 0) /\ ~(b < 0)
    BY <2>4, <1>3, <1>4, HalfAssumption DEF TruncatedRemainder, LNumber, Abs
  <2> QED
    BY <2>1, <2>2, <2>3, <2>4
<1> HIDE DEF r
<1> QED
  BY <1>1, <1>2, <1>5, HalfAssumption

\* No operator but multiplication needs more bits than int32_t has.
LEMMA ExactFits ==
  ASSUME NEW o \in Operators, NEW a \in LNumber, NEW b \in LNumber,
         ~(Divides(o) /\ b = 0)
  PROVE  Exact(o, a, b) \in Int /\ (o # "Mul" => Exact(o, a, b) \in LWord)
<1>1. a \in Int /\ b \in Int
  BY HalfAssumption DEF LNumber
<1>2. 0 .. 1 \subseteq LWord /\ (-Half) .. Half \subseteq LWord /\ LWord \subseteq Int
  BY HalfAssumption DEF LWord
<1>3. CASE o = "Add" \/ o = "Sub"
  BY <1>3, HalfAssumption DEF Exact, LNumber, LWord
<1>4. CASE o = "Mul"
  BY <1>4, <1>1 DEF Exact
<1>5. CASE o = "Div"
  BY <1>5, <1>2, QuotientFits DEF Exact, Divides
<1>6. CASE o = "Mod"
  BY <1>6, <1>2, RemainderFits DEF Exact, Divides
<1>7. CASE o \in Comparisons
  <2>1. Exact(o, a, b) \in 0 .. 1
    BY <1>7, <1>1, TruthIsBit DEF Exact, Comparisons, Truth
  <2> QED
    BY <1>2, <2>1
<1> QED
  BY <1>3, <1>4, <1>5, <1>6, <1>7 DEF Operators

-----------------------------------------------------------------------------
(* The steps                                                                *)

\* BINOP_Eq compares words, which is to compare numbers where both are.
LEMMA EqualStep == ArithmeticInv /\ Equal /\ UNCHANGED <<lhs, rhs, op>> => ArithmeticInv'
<1> SUFFICES ASSUME ArithmeticInv, Equal, UNCHANGED <<lhs, rhs, op>> PROVE ArithmeticInv'
  OBVIOUS
<1> DEFINE t == Truth(lhs = rhs)
<1>1. t \in 0 .. 1 /\ t \in LWord /\ t \in Int
  BY HalfAssumption DEF Truth, LWord
<1>2. result' = boxInt(ToWord(t)) /\ host' = t /\ status' = "ok" /\ op = "Eq"
  BY <1>1, WordExact DEF Equal
<1>3. valueIsInt(lhs) /\ valueIsInt(rhs) => t = Exact(op, unboxInt(lhs), unboxInt(rhs))
  <2>1. lhs \in Int /\ rhs \in Int
    BY HalfAssumption DEF ArithmeticInv, LWord
  <2>2. valueIsInt(lhs) /\ valueIsInt(rhs) => (lhs = rhs <=> unboxInt(lhs) = unboxInt(rhs))
    BY <2>1 DEF valueIsInt, unboxInt
  <2> QED
    BY <1>2, <2>2 DEF Exact, Truth
<1>4. valueIsInt(result') /\ unboxInt(result') = ToNumber(t)
  BY <1>1, <1>2, BoxedResult
<1>5. ComputesModulo'
  BY <1>2, <1>3, <1>4 DEF ComputesModulo, IntOperands
<1> QED
  BY <1>1, <1>2, <1>5 DEF ArithmeticInv, NothingUndefined

\* The other operators compute with unboxed numbers, or fail.
LEMMA BinopStep == ArithmeticInv /\ Binop /\ UNCHANGED <<lhs, rhs, op>> => ArithmeticInv'
<1> SUFFICES ASSUME ArithmeticInv, Binop, UNCHANGED <<lhs, rhs, op>> PROVE ArithmeticInv'
  OBVIOUS
<1> DEFINE a == unboxInt(lhs)
           b == unboxInt(rhs)
<1>1. a \in LNumber /\ b \in LNumber
  BY UnboxedIsNumber DEF ArithmeticInv
<1>2. CASE ~IntOperands \/ ZeroDivisor(b)
  <2>1. status' = "error"
    BY <1>2 DEF Binop, Error, Unboxed
  <2> QED
    BY <2>1 DEF ArithmeticInv, ComputesModulo, NothingUndefined
<1>3. CASE IntOperands /\ ~ZeroDivisor(b)
  <2>1. Compute(op, a, b) /\ ~(Divides(op) /\ b = 0) /\ op \in Operators
    BY <1>3 DEF Binop, ZeroDivisor, Unboxed
  <2>2. Exact(op, a, b) \in Int /\ (op # "Mul" => Exact(op, a, b) \in LWord)
    BY <1>1, <2>1, ExactFits
  <2>3. /\ host' = Exact(op, a, b) /\ status' = "ok"
        /\ result' = boxInt(ToWord(Exact(op, a, b)))
    BY <2>1 DEF Compute
  <2>4. valueIsInt(result') /\ unboxInt(result') = ToNumber(Exact(op, a, b))
    BY <2>2, <2>3, BoxedResult
  <2>5. op # "CONST"
    BY <2>1 DEF Operators, Comparisons
  <2>6. ComputesModulo'
    BY <2>3, <2>4, <2>5 DEF ComputesModulo
  <2> QED
    BY <2>2, <2>3, <2>6 DEF ArithmeticInv, NothingUndefined
<1> QED
  BY <1>2, <1>3

\* CONST boxes a word of the bytecode.
LEMMA ConstStep == ArithmeticInv /\ Const /\ UNCHANGED <<lhs, rhs, op>> => ArithmeticInv'
<1> SUFFICES ASSUME ArithmeticInv, Const, UNCHANGED <<lhs, rhs, op>> PROVE ArithmeticInv'
  OBVIOUS
<1>1. lhs \in LWord /\ lhs \in Int
  BY HalfAssumption DEF ArithmeticInv, LWord
<1>2. valueIsInt(result') /\ unboxInt(result') = ToNumber(lhs)
  BY <1>1, WordExact, BoxedResult DEF Const
<1> QED
  BY <1>1, <1>2 DEF Const, ArithmeticInv, ComputesModulo, NothingUndefined

\* The invariant: operands are words, and what has been computed is right.
THEOREM ArithmeticInvariant == Spec => []ArithmeticInv
<1>1. Init => ArithmeticInv
  BY DEF Init, ArithmeticInv, ComputesModulo, NothingUndefined
<1>2. ArithmeticInv /\ [Next]_arithmeticVars => ArithmeticInv'
  <2>1. CASE Next
    BY <2>1, EqualStep, BinopStep, ConstStep DEF Next
  <2>2. CASE UNCHANGED arithmeticVars
    BY <2>2 DEF arithmeticVars, ArithmeticInv, ComputesModulo, NothingUndefined, IntOperands
  <2> QED
    BY <2>1, <2>2
<1> QED
  BY <1>1, <1>2, PTL DEF Spec

\* The binary operators of Interpreter::step, applied to two numbers, push the number
\* that is congruent to the result in the integers, for every width of a word.
THEOREM OperatorsComputeModulo == Spec => []ComputesModulo
BY ArithmeticInvariant, PTL DEF ArithmeticInv

\* No operator divides by zero, and none but "*" overflows, for every width of a word.
THEOREM OperatorsAreDefined == Spec => []NothingUndefined
BY ArithmeticInvariant, PTL DEF ArithmeticInv

\* Addition, subtraction, ... of runtime.c return, for two numbers, the word that the
\* operator of the interpreter pushes, for every width of a word.
THEOREM SynonymsCompute == Spec => []SynonymsAgree
<1>1. Init => SynonymsAgree
  BY DEF Init, SynonymsAgree
<1>2. SynonymsAgree /\ [Next]_arithmeticVars => SynonymsAgree'
  <2> SUFFICES ASSUME SynonymsAgree, [Next]_arithmeticVars PROVE SynonymsAgree'
    OBVIOUS
  <2>1. CASE UNCHANGED arithmeticVars
    BY <2>1 DEF SynonymsAgree, arithmeticVars
  <2>2. CASE Equal /\ UNCHANGED <<lhs, rhs, op>>
    <3>1. ToWord(Truth(lhs = rhs)) = Truth(lhs = rhs)
      BY WordExact, HalfAssumption DEF Truth, LWord
    <3> QED
      BY <2>2, <3>1 DEF Equal, SynonymsAgree, Synonym
  <2>3. CASE Binop /\ UNCHANGED <<lhs, rhs, op>>
    BY <2>3 DEF Binop, Error, Trap, Compute, Unboxed, SynonymsAgree, Synonym
  <2>4. CASE Const /\ UNCHANGED <<lhs, rhs, op>>
    BY <2>4 DEF Const, SynonymsAgree, Operators, Comparisons
  <2> QED
    BY <2>1, <2>2, <2>3, <2>4 DEF Next
<1> QED
  BY <1>1, <1>2, PTL DEF Spec

=============================================================================
