------------------------------ MODULE GcLibrary ------------------------------
(***************************************************************************)
(* The library functions of runtime/runtime.c that allocate while they     *)
(* hold values: Lclone, Lsubstring, Li__Infix_4343 (++), LmakeArray and    *)
(* Ls__Infix_58 (:).  A caller pops their arguments from the virtual       *)
(* stack, so that what they register is all that a collection sees of      *)
(* them.  Together with module GcMutator, whose memory this is.            *)
(*                                                                         *)
(* The words LocalP and LocalQ of module GcMutator are the parameters;     *)
(* Ls__Infix_58 passes copies of its own, at ArgumentP and ArgumentQ, on.  *)
(***************************************************************************)
EXTENDS GcRefinement

CONSTANTS ArgumentP, ArgumentQ

ASSUME LibraryAssumption ==
  /\ {ArgumentP, ArgumentQ} \subseteq Words
  /\ ArgumentP > GlobalStop /\ ArgumentQ > GlobalStop
  /\ Cardinality({LocalP, LocalQ, ArgumentP, ArgumentQ}) = 4

VARIABLE copied  \* ids of the strings that the latest string was copied from

Parameter(p) == mem[HeaderOf(word[p])]

Operand(n) == word[top + n]

IsA(v, kind) == IsValidHeapPointer(v) /\ mem[HeaderOf(v)].kind = kind

\* A library function is called with words of the C stack set to arguments, which
\* replace the n topmost operands.
Enter(fn, kind, len, n, roots, arguments) ==
  /\ Depth >= n
  /\ Request(fn, kind, len, 0, roots)
  /\ word' = [w \in Words |-> IF w \in DOMAIN arguments THEN arguments[w] ELSE word[w]]
  /\ top' = top + n

-----------------------------------------------------------------------------
(* Up to the call of alloc()                                                *)

\* What Lclone registers, alone and with Bstring, which it calls for a string.
CloneRootsAlone(kind) == <<LocalP>>

CloneRoots(kind) == IF kind = "STRING" THEN <<LocalP, LocalQ>> ELSE <<LocalP>>

\* Bstring measures a string by strlen: a zero stored in it ends its clone.
CloneLens(o) == IF o.kind = "STRING" THEN 0 .. o.len ELSE {o.len}

CallClone ==
  /\ Depth >= 1 /\ IsValidHeapPointer(Operand(1))
  /\ LET o == mem[HeaderOf(Operand(1))]
         arguments == [w \in {LocalP, LocalQ} |->
                         IF w = LocalP \/ o.kind = "STRING" THEN Operand(1) ELSE word[w]]
     IN \E len \in CloneLens(o) :
          Enter("Lclone", o.kind, len, 1, CloneRoots(o.kind), arguments)

\* The sum of position and length is checked against the string's length before the
\* allocation.
CallSubstring ==
  /\ Depth >= 1 /\ IsA(Operand(1), "STRING")
  /\ \E len \in 0 .. mem[HeaderOf(Operand(1))].len :
       Enter("Lsubstring", "STRING", len, 1, <<LocalP>>, [w \in {LocalP} |-> Operand(1)])

CallConcatenation ==
  /\ Depth >= 2 /\ IsA(Operand(2), "STRING") /\ IsA(Operand(1), "STRING")
  /\ LET a == mem[HeaderOf(Operand(2))] b == mem[HeaderOf(Operand(1))] IN
       Enter("Li__Infix_4343", "STRING", a.len + b.len, 2, <<LocalP, LocalQ>>,
             [w \in {LocalP, LocalQ} |-> IF w = LocalP THEN Operand(2) ELSE Operand(1)])

CallMakeArray(n) ==
  /\ Depth >= 1 /\ Operand(1) = Number
  /\ Enter("LmakeArray", "ARRAY", n, 1, <<>>, <<>>)

\* LmakeArray takes a negative length, and Lsubstring a negative position or length;
\* ASSERT_STRING lets a number pass, and no function tells an address of a variable from
\* an object.
CallOutOfRange ==
  /\ Running /\ Depth >= 1
  /\ IsValidHeapPointer(Operand(1)) => IsA(Operand(1), "STRING")
  /\ phase' = "astray"
  /\ UNCHANGED <<heapVars, markVars, compactVars, it, fld, need, call, ids>>

\* Ls__Infix_58 registers its parameters; Bsexp reads the copies.
CallCons ==
  /\ Depth >= 2
  /\ Enter("Ls__Infix_58", "SEXP", 2, 2, <<LocalP, LocalQ>>,
           [w \in {LocalP, LocalQ, ArgumentP, ArgumentQ} |->
              IF w \in {LocalP, ArgumentP} THEN Operand(2) ELSE Operand(1)])

-----------------------------------------------------------------------------
(* From the return of alloc() on                                            *)

\* The parameters whose contents the function copies, which are strings or objects.
Sources ==
  CASE call.fn = "Li__Infix_4343" -> <<LocalP, LocalQ>>
    [] call.fn = "Lclone" /\ call.kind = "STRING" -> <<LocalQ>>
    [] call.fn = "Lclone" /\ call.kind # "STRING" -> <<LocalP>>
    [] call.fn = "Lsubstring" -> <<LocalP>>
    [] OTHER -> <<>>

\* What memcpy copies of an object's fields, and what array_size would have it copy of
\* a sexp, whose tag is a word as well.
CopiedByArraySize(o) ==
  IF o.kind = "SEXP" /\ o.len > 0 THEN [o.fields EXCEPT ![o.len] = Number] ELSE o.fields

Copied(o) == o.fields

\* The fields of the new object: copied with memcpy from what the parameter points to
\* by now, BOX(0), or arguments of Bsexp.  The characters of a string are not kept here.
NewFields ==
  CASE call.fn = "Lclone" /\ call.kind # "STRING" -> Copied(Parameter(Sources[1]))
    [] call.fn = "LmakeArray" -> [i \in 1..call.len |-> Number]
    [] call.fn = "Ls__Infix_58" -> <<word[ArgumentP], word[ArgumentQ]>>
    [] OTHER -> <<>>

CopiedIds ==
  IF call.kind = "STRING" THEN [i \in DOMAIN Sources |-> Parameter(Sources[i]).id] ELSE <<>>

LibraryReturn ==
  LET from == {HeaderOf(word[Sources[i]]) : i \in DOMAIN Sources} IN
    IF from \subseteq DOMAIN mem
      THEN FinishWith(ObjectWith(NewFields)) /\ copied' = CopiedIds
      ELSE phase' = "crash" /\ UNCHANGED <<heapVars, markVars, compactVars, it, fld, need, call, ids, copied>>

-----------------------------------------------------------------------------
LibraryFunctions == {"Lclone", "Lsubstring", "Li__Infix_4343", "LmakeArray", "Ls__Infix_58"}

InLibrary == call.fn \in LibraryFunctions

LibraryInit == RefinementInit /\ copied = <<>>

LibraryCalls ==
  \/ CallClone \/ CallSubstring \/ CallConcatenation \/ CallOutOfRange
  \/ \E n \in 0..MaxLen : CallMakeArray(n)

\* A step of the interpreter, or of one of its calls of the runtime.
InterpreterStep ==
  /\ Simple \/ Allocating \/ OutOfRange \/ (~InLibrary /\ Runtime)
  /\ copied' = IF phase' = "run" THEN <<>> ELSE copied

\* A step of a library function.
LibraryStep(calls) ==
  \/ calls /\ UNCHANGED copied
  \/ InLibrary /\ (StartCollection \/ Collect) /\ UNCHANGED copied
  \/ InLibrary /\ AtOnce(LibraryReturn)
  \/ InLibrary /\ AfterCollection(LibraryReturn) /\ (phase' = "crash" => UNCHANGED copied)

LibraryNext ==
  /\ InterpreterStep \/ LibraryStep(LibraryCalls)
  /\ Recorded

libraryVars == <<refinementVars, copied>>

\* A call that has begun is the only thing the process does.
LibrarySpec ==
  LibraryInit /\ [][LibraryNext]_libraryVars /\ WF_libraryVars(~Running /\ LibraryNext)

\* With ":" as a function as well.
ConsNext ==
  /\ InterpreterStep \/ LibraryStep(LibraryCalls \/ CallCons)
  /\ Recorded

ConsSpec == LibraryInit /\ [][ConsNext]_libraryVars

Library == INSTANCE ObjectLibrary WITH
  Ids <- 1..MaxAllocs, store <- view.store, stack <- view.stack, globals <- view.globals

-----------------------------------------------------------------------------
(* Properties                                                               *)

\* Wherever a collection happens in them, the functions make the objects they promise,
\* of the objects that were their arguments, and lose nothing of the caller's.
ImplementsLibrary == Library!LibrarySpec

\* gc.h:98-101: the addresses of the values that escape from the program's stack into
\* runtime functions are registered, so that a collection follows them.  When Bsexp
\* reads the arguments that Ls__Infix_58 has passed on, they are what p and q are.
EscapedValuesFollowed ==
  call.fn = "Ls__Infix_58" /\ phase = "alloc" =>
    word[ArgumentP] = word[LocalP] /\ word[ArgumentQ] = word[LocalQ]

-----------------------------------------------------------------------------
(* The inductive invariant from which MutatorNoCrash and RequestsWellFormed *)
(* follow for the library.                                                  *)

\* What a library function copies from stays registered, and an object, until it
\* does so: in the dump while a collection fixes the words.
SourcesKept ==
  \A i \in DOMAIN Sources :
    /\ Sources[i] \in RootWords(top, extra)
    /\ phase \in {"request"} \cup Scanning => HeaderOf(word[Sources[i]]) \in DOMAIN mem
    /\ phase \in Compacting \cup {"alloc"} => snapshot.roots[Sources[i]][1] = "object"

LibraryInv ==
  /\ MutatorInv
  /\ phase \in Collecting \cup {"request"} =>
       /\ call.fn \in Allocators \cup (LibraryFunctions \ {"Ls__Infix_58"})
       /\ SourcesKept

\* What a library function requests, and is to make, of the arguments it was called with.
LibraryKnown ==
  LET st == view.stack s == view.store IN
    /\ call.pops = 0
    /\ call.fn = "Lclone" =>
         \E id \in DOMAIN s : /\ st[1] = Library!Reference(id)
                             /\ s[id].kind = call.kind /\ call.len \in CloneLens(s[id])
    /\ call.fn = "Lsubstring" =>
         /\ call.kind = "STRING"
         /\ \E id \in DOMAIN s : /\ st[1] = Library!Reference(id)
                                /\ s[id].kind = "STRING" /\ call.len \in 0 .. s[id].len
    /\ call.fn = "Li__Infix_4343" =>
         /\ call.kind = "STRING"
         /\ \E a, b \in DOMAIN s : /\ st[2] = Library!Reference(a) /\ st[1] = Library!Reference(b)
                                  /\ s[a].kind = "STRING" /\ s[b].kind = "STRING"
                                  /\ call.len = s[a].len + s[b].len
    /\ call.fn = "LmakeArray" => call.kind = "ARRAY" /\ call.len \in 0..MaxLen

\* The same with the functions of the library, whose arguments are in parameters alone,
\* and what they have read of them before the allocation (LibraryKnown) stays true of them.
\* ImplementsLibrary follows, with LibraryInv.
LibraryGraphInv ==
  GraphInv /\ (phase \in Collecting \cup {"request"} /\ InLibrary => LibraryKnown)

=============================================================================
