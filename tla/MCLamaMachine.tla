---------------------------- MODULE MCLamaMachine ----------------------------
(***************************************************************************)
(* Programs for LamaMachine: some as the compiler would emit them, with    *)
(* closures, recursion, lists and patterns; some that are ill-formed; and  *)
(* short bodies over an alphabet.                                          *)
(***************************************************************************)
EXTENDS LamaRefinement, TLC

MCStackBottom == 26
MCGlobalStart == 28
MCGlobalStop  == 30
MCLocalP      == 31
MCLocalQ      == 32
MCWords       == 4..26 \cup {28, 29, 31, 32}

\* The stack is zeros, the global area the number 0; argc and argv have been pushed.
MCImages ==
  {[mem |-> << >>, heap |-> [begin |-> 40, current |-> 40, size |-> MinCapacity],
    word |-> [a \in MCWords |-> IF a <= MCStackBottom THEN 0 ELSE Number],
    top |-> MCStackBottom - 3, extra |-> << >>, need |-> 1]}

-----------------------------------------------------------------------------
I(op) == [op |-> op, n |-> 0, m |-> 0, to |-> 0, name |-> "x", var |-> <<"Local", 0>>,
          vars |-> <<>>]

BEGIN(n, m)     == [I("BEGIN") EXCEPT !.n = n, !.m = m]
END             == I("END")
CONST(n)        == [I("CONST") EXCEPT !.n = n]
LD(d, i)        == [I("LD") EXCEPT !.var = <<d, i>>]
LDA(d, i)       == [I("LDA") EXCEPT !.var = <<d, i>>]
ST(d, i)        == [I("ST") EXCEPT !.var = <<d, i>>]
BINOP(name)     == [I("BINOP") EXCEPT !.name = name]
Literal(name)   == [I("STRING") EXCEPT !.name = name, !.n = 1]
SEXP(name, n)   == [I("SEXP") EXCEPT !.name = name, !.n = n]
ARRAY(n)        == [I("CALL_ARRAY") EXCEPT !.n = n]
CLOSURE(to, vs) == [I("CLOSURE") EXCEPT !.to = to, !.vars = vs]
CALL(to)        == [I("CALL") EXCEPT !.to = to]
CALLC(n)        == [I("CALLC") EXCEPT !.n = n]
JMP(to)         == [I("JMP") EXCEPT !.to = to]
CJMPz(to)       == [I("CJMP") EXCEPT !.to = to]
CJMPnz(to)      == [I("CJMP") EXCEPT !.to = to, !.n = 1]
TAG(name, n)    == [I("TAG") EXCEPT !.name = name, !.n = n]
IsArray(n)      == [I("ARRAY") EXCEPT !.n = n]
PATT(kind)      == [I("PATT") EXCEPT !.name = kind]
DROP            == I("DROP")
DUP             == I("DUP")
ELEM            == I("ELEM")
STA             == I("STA")

\* A function that is called as a closure changes what it has captured; a collection
\* of the objects it leaves behind comes between the calls.
Counter ==
  <<BEGIN(2, 1), CONST(3), ST("Local", 0), DROP,
    CLOSURE(23, <<<<"Local", 0>>, <<"Arg", 1>>>>), ST("Global", 0), DROP,
    LD("Global", 0), CONST(1), CONST(2), CALLC(2), DROP,
    Literal("a"), DROP,
    LD("Global", 0), CONST(2), CONST(1), CALLC(2), CONST(1), CALL(36), BINOP("Eq"), END,
    \* 23
    BEGIN(2, 1), LD("Access", 0), LD("Arg", 1), BINOP("Sub"), ST("Access", 0),
    ARRAY(1), ST("Local", 0), ST("Access", 1), CONST(0), ELEM, LD("Arg", 0), BINOP("Sub"), END,
    \* 36: called, not as a closure
    BEGIN(1, 0), LD("Arg", 0), END>>

\* fun f (n) { if n then cons (n, f (n-1)) else 0 fi }, and main takes the list apart.
List ==
  <<BEGIN(2, 0), CONST(2), CALL(20), DUP, TAG("cons", 2), CJMPz(19),
    DUP, CONST(1), ELEM, ST("Global", 1), PATT("SEXP"), CJMPz(19),
    CONST(0), ELEM, CALL(20), I("CALL_LENGTH"), I("CALL_WRITE"), END, I("FAIL"),
    \* 20
    BEGIN(1, 0), LD("Arg", 0), CJMPnz(25), CONST(0), END,
    LD("Arg", 0), DUP, CONST(1), BINOP("Sub"), CALL(20), SEXP("cons", 2), END>>

\* A closure captures a closure and what that has captured; the inner function
\* assigns to elements and through the address of a captured variable.
Nested ==
  <<BEGIN(2, 2), Literal("a"), ST("Local", 1), DROP, CLOSURE(14, <<<<"Local", 1>>>>),
    ST("Local", 0), CALLC(0), ST("Global", 0), DROP, LD("Global", 0), LD("Local", 0),
    CALLC(1), END,
    \* 14: called with nothing
    BEGIN(0, 0), CLOSURE(17, <<<<"Access", 0>>, <<"Global", 1>>>>), END,
    \* 17: called with the outer closure
    BEGIN(1, 0), LDA("Access", 1), CONST(2), STA, DROP, LD("Access", 0), LD("Access", 1),
    ARRAY(2), DUP, CONST(0), LD("Arg", 0), STA, PATT("CLOSURE"), DROP,
    DROP, CALL(34), END,
    \* 34: a call from a closure
    BEGIN(0, 1), LDA("Local", 0), Literal("b"), STA, I("CALL_STRING"), END>>

\* Strings as patterns, and the places of locals, arguments and globals.
Strings ==
  <<BEGIN(2, 1), LDA("Global", 0), Literal("a"), STA, LDA("Local", 0), Literal("b"), STA,
    I("PATT_STRCMP"), LDA("Arg", 0), LD("Global", 0), STA, I("CALL_STRING"),
    LD("Local", 0), Literal("b"), I("PATT_STRCMP"), BINOP("Eq"), DROP,
    LD("Local", 0), CONST(0), CONST(1), STA, DUP, BINOP("Eq"), DROP,
    LD("Local", 0), CONST(0), ELEM, DROP, I("CALL_READ"), I("CALL_READ"), BINOP("Div"), BINOP("Eq"), END>>

\* A loop builds a list, which is then made to contain itself and collected around.
Cycle ==
  <<BEGIN(2, 2), CONST(2), ST("Local", 0), DROP, CONST(0), ST("Local", 1), DROP,
    \* 8
    LD("Local", 0), CJMPz(21), LD("Local", 0), LD("Local", 1), SEXP("cons", 2),
    ST("Local", 1), DROP, LD("Local", 0), CONST(1), BINOP("Sub"), ST("Local", 0), DROP, JMP(8),
    \* 21
    LD("Local", 1), CONST(0), LD("Local", 1), STA, DROP, Literal("a"), ARRAY(1), ARRAY(1), ARRAY(1),
    DROP,
    LD("Local", 1), CONST(0), ELEM, END>>

\* while x # 0 do x := x - 1 od, with a function that subtracts
Countdown ==
  <<BEGIN(2, 1), I("CALL_READ"), ST("Local", 0), DROP, JMP(10),
    \* 6
    LD("Local", 0), CALL(13), ST("Local", 0), DROP,
    LD("Local", 0), CJMPnz(6), JMP(16),
    \* 13
    BEGIN(1, 0), LD("Arg", 0), JMP(18),
    \* 16
    CONST(0), END,
    \* 18
    CONST(1), BINOP("Sub"), END>>

Recursion == <<BEGIN(2, 0), CALL(3), BEGIN(0, 1), CALL(3)>>
Underflow == <<BEGIN(2, 0), I("CALL_READ"), CJMPnz(3), Literal("a"), JMP(6), END>>
OffTheEnd == <<BEGIN(2, 0), I("LINE"), CONST(1)>>

\* A closure over as many variables as there are extra roots, and one over more
TooManyRoots(n) ==
  <<BEGIN(2, 1), CLOSURE(4, [i \in 1..n |-> IF i = 1 THEN <<"Local", 0>> ELSE <<"Arg", i % 2>>]), END,
    BEGIN(0, 0), END>>

\* Outside of the code or the frame, and a failure
Failing ==
  {<<BEGIN(2, 1), i, END>> :
     i \in {JMP(9), CALL(0), CLOSURE(7, <<>>), CLOSURE(1, <<<<"Local", 1>>>>), LD("Local", 1),
            LD("Arg", 2), ST("Local", 1), LDA("Arg", 2), I("FAIL"), CLOSURE(1, <<<<"Access", 0>>>>)}}

Compiled == {Counter, List, Nested, Strings, Cycle, Countdown}
IllFormed == {Recursion, Underflow, OffTheEnd} \cup Failing \cup {TooManyRoots(3), TooManyRoots(4)}

-----------------------------------------------------------------------------
\* All bodies of main with three of these instructions, the last one of some that use
\* operands, after a string and a sexp.  The address of a local could outlive it.
Alphabet ==
  {CONST(1), DROP, DUP, LD("Local", 0), LD("Arg", 0), LDA("Global", 0),
   ST("Global", 0), ST("Local", 0), BINOP("Eq"), BINOP("Mod"), ELEM, STA,
   SEXP("s", 1), ARRAY(2), TAG("s", 1), IsArray(2), PATT("Boxed"), PATT("UnBoxed"), PATT("STRING"),
   I("PATT_STRCMP"), I("CALL_LENGTH"), I("CALL_STRING"), CJMPz(8), CALLC(1), CALL(9),
   CLOSURE(12, <<<<"Global", 0>>>>)}

Last == {STA, ELEM, CALL(9), I("CALL_STRING"), ARRAY(2), BINOP("Sub"), DROP}

Bodies ==
  {<<BEGIN(2, 1), Literal("a"), SEXP("s", 1), b[1], b[2], b[3], I("LINE"), END,
     BEGIN(1, 0), LD("Arg", 0), END,
     BEGIN(1, 0), LD("Arg", 0), LD("Access", 0), BINOP("Eq"), END>>
     : b \in Alphabet \X Alphabet \X Last}

\* Every kind of value as the literal and as the value of a string pattern: argc is
\* neither a number nor an object.
StringTests ==
  LET values == {Literal("a"), Literal("b"), CONST(1), ARRAY(0), LD("Arg", 0)} IN
    {<<BEGIN(2, 1), v, w, I("PATT_STRCMP"), END>> : v \in values, w \in values}

\* Characters of a string of length 1, in it and out of it.
Characters ==
  {<<BEGIN(2, 1), Literal("a"), CONST(k), ELEM, END>> : k \in -1..2}
    \cup {<<BEGIN(2, 1), Literal("a"), CONST(k), CONST(1), STA, END>> : k \in -1..1}

MCPrograms == Compiled \cup IllFormed \cup StringTests \cup Characters \cup Bodies

-----------------------------------------------------------------------------
(* Programs in which the runtime is used otherwise than it says             *)

\* fun () { if 1 then x else x fi := "a" }, where x is captured
AssignCaptured ==
  <<BEGIN(2, 0), CLOSURE(5, <<<<"Global", 0>>>>), CALLC(0), END,
    BEGIN(0, 0), LDA("Access", 0), Literal("a"), STA, END>>

\* case v of "a" -> 1 | _ -> 0 esac, for a value v that is no string
MatchString(v) ==
  <<BEGIN(2, 0), v, DUP, Literal("a"), I("PATT_STRCMP"), CJMPz(10),
    DROP, CONST(1), JMP(12), DROP, CONST(0), END>>

AddressPrograms == {AssignCaptured}
MatchPrograms   == {MatchString(ARRAY(0)), MatchString(CONST(1))}

=============================================================================
