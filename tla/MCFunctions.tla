---------------------------- MODULE MCFunctions ----------------------------
(***************************************************************************)
(* The functions of the interpreter and the runtime that are calculations  *)
(* on their own: numbers, tags, texts and comparison.  A behaviour is one  *)
(* of one part; the variables of the others stay idle.  Rendering and tags *)
(* share phase, rendering and comparison share store.                      *)
(***************************************************************************)
EXTENDS Arithmetic, TagHash, ObjectStore

CONSTANTS
  NearHalf,                                               \* Half of Comparison
  StringBufInit, TextWidth,                               \* Rendering
  Numbers, PlainWords, HashDepth, HalfWord, HashLimit     \* Comparison

VARIABLES
  part,
  function, value, todo, contents, ptr, len,              \* Rendering
  address,                                                \* Comparison
  store

-----------------------------------------------------------------------------
(* All structures of three objects, each of which refers to earlier ones,   *)
(* to print: strings, arrays, closures, lists, other sexps.                 *)

Printable(id) == {<<"number", 1>>} \cup {Reference(i) : i \in 1..(id - 1)}

PrintedObjects(id) ==
  {[kind |-> "STRING", fields |-> <<>>], [kind |-> "nil", fields |-> <<>>]}
    \cup {[kind |-> k, fields |-> <<v>>] : k \in {"ARRAY", "CLOSURE", "some"}, v \in Printable(id)}
    \cup {[kind |-> k, fields |-> <<v, w>>] :
            k \in {"ARRAY", "cons"}, v \in Printable(id), w \in Printable(id)}

MCNumbers == {-1, 1}

PrintedStores ==
  {<<a, b, c>> : a \in PrintedObjects(1), b \in PrintedObjects(2), c \in PrintedObjects(3)}

(* Structures of two or three objects to compare.  The third string has a   *)
(* zero where the first one ends.                                           *)

Comparable(id) == {<<"number", k>> : k \in Numbers} \cup {Reference(i) : i \in 1..(id - 1)}

ComparedObjects(id) ==
  {[tag |-> STRING_TAG, len |-> s[1], label |-> s[2], fields |-> <<>>] :
     s \in {<<1, 1>>, <<2, 2>>, <<2, 1>>}}
    \cup {[tag |-> t, len |-> IF t = CLOSURE_TAG THEN 2 ELSE 1, label |-> l, fields |-> <<v>>] :
            t \in {SEXP_TAG, CLOSURE_TAG}, l \in 1..2, v \in Comparable(id)}
    \cup {[tag |-> ARRAY_TAG, len |-> Len(f), label |-> 0, fields |-> f] :
            f \in {<<>>} \cup [1..1 -> Comparable(id)]}

\* The last object has two fields.
Pairs(id) ==
  {[tag |-> t, len |-> 2, label |-> IF t = ARRAY_TAG THEN 0 ELSE 1, fields |-> f] :
     t \in {ARRAY_TAG, SEXP_TAG}, f \in [1..2 -> Comparable(id)]}

ComparedStores ==
  {<<a, b>> : a \in ComparedObjects(1), b \in ComparedObjects(2)}
    \cup {<<a, b, c>> : a \in ComparedObjects(1), b \in ComparedObjects(2), c \in Pairs(3)}
    \cup {<<[tag |-> STRING_TAG, len |-> 1, label |-> 1, fields |-> <<>>], b, c>> :
             b \in Pairs(2), c \in Pairs(3)}

-----------------------------------------------------------------------------
R == INSTANCE Rendering WITH Stores <- PrintedStores
C == INSTANCE Comparison WITH
  Half <- NearHalf, Stores <- ComparedStores, Addresses <- {<<10, 20, 30>>, <<12, 14, 18>>}

IdleArithmetic == lhs = 0 /\ rhs = 0 /\ op = "none" /\ host = 0 /\ result = 0 /\ status = "idle"
IdleTags       == names = <<>> /\ tags = <<>> /\ h = 0 /\ limit = 0 /\ n = 0 /\ p = 0 /\ buf = <<>>
IdleRendering  == function = "none" /\ value = 0 /\ todo = <<>> /\ contents = <<>> /\ ptr = 0 /\ len = 0
IdleComparison == address = <<>>

FunctionsInit ==
  \/ /\ part = "arithmetic" /\ Init
     /\ IdleTags /\ IdleRendering /\ IdleComparison /\ store = <<>> /\ phase = "idle"
  \/ /\ part = "tags" /\ TagInit
     /\ IdleArithmetic /\ IdleRendering /\ IdleComparison /\ store = <<>>
  \/ /\ part = "rendering" /\ R!Init
     /\ IdleArithmetic /\ IdleTags /\ IdleComparison
  \/ /\ part = "comparison" /\ C!Init
     /\ IdleArithmetic /\ IdleTags /\ IdleRendering /\ phase = "idle"

tagHash    == <<names, tags, h, limit, n, p, buf>>
rendering  == <<function, value, todo, contents, ptr, len>>

FunctionsNext ==
  /\ UNCHANGED part
  /\ \/ part = "arithmetic" /\ Next /\ UNCHANGED <<tagHash, rendering, address, store, phase>>
     \/ part = "tags" /\ TagNext /\ UNCHANGED <<arithmeticVars, rendering, address, store>>
     \/ part = "rendering" /\ R!Next /\ UNCHANGED <<arithmeticVars, tagHash, address>>
     \/ part = "comparison" /\ C!Next /\ UNCHANGED <<arithmeticVars, tagHash, rendering, phase>>

functionsVars == <<part, arithmeticVars, tagHash, rendering, address, store, phase>>

\* Nothing but the function itself runs.
FunctionsSpec ==
  FunctionsInit /\ [][FunctionsNext]_functionsVars
    /\ WF_functionsVars(part = "rendering" /\ FunctionsNext)

-----------------------------------------------------------------------------
(* Properties: those of the modules, each of behaviours of its part.  Those  *)
(* of Arithmetic say nothing while status is "idle", and those of TagHash    *)
(* nothing without tags and failures.                                        *)

\* Lstring and Lstringcat lose no text while the buffer grows.
TextIsComplete == part = "rendering" => R!TextIsComplete

\* vprintStringBuf leaves a terminated string between any two pieces.
BufferTerminated == part = "rendering" => R!BufferTerminated

\* printValue and stringcat end on structures without cycles.
RenderingEnds == part = "rendering" => R!RenderingEnds

\* Lcompare returns 0 for equal structures only.
CompareIsEquality == part = "comparison" => C!CompareIsEquality

\* The signs of Lcompare are those of a linear order.
CompareIsOrder == part = "comparison" => C!CompareIsOrder

\* Lhash does not tell apart what Lcompare does not, unless a string has a zero in it.
EqualsHashAlike == part = "comparison" => C!EqualsHashAlike

\* A collection changes no result of Lcompare and Lhash.
CollectionsChangeNothing ==
  [][part = "comparison" => C!ResultsStay]_<<store, address>>

=============================================================================
