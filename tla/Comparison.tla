----------------------------- MODULE Comparison -----------------------------
(***************************************************************************)
(* Comparing and hashing structures: Lcompare, LflatCompare, LcompareTags  *)
(* and Lhash, between collections, which move objects and keep their order *)
(* (module GcCompact slides them down).                                    *)
(*                                                                         *)
(* A value is a reference to an object, <<"number", k>>, or <<"word", w>>, *)
(* a pointer that is not into the heap.  An object is [tag, len, label,    *)
(* fields]: len is the length in its header; label is the hash of a sexp's *)
(* tag, the code address of a closure, or where a string is in             *)
(* lexicographic order, its characters up to the first zero.               *)
(***************************************************************************)
EXTENDS ObjectStore, LamaNumbers

CONSTANTS
  Stores,      \* of objects that refer to objects with smaller identities
  Addresses,   \* [id |-> address], even and increasing
  Numbers, PlainWords,
  HashDepth,   \* HASH_DEPTH
  HalfWord,    \* 2 ^ (WORD_SIZE / 2)
  HashLimit    \* one more than the largest hash, 0x3fffff

VARIABLES store, address

comparisonVars == <<store, address>>

Number(k) == <<"number", k>>
IsNumber(v) == v[1] = "number"
InHeap(v) == v[1] = "object"
Object(v) == store[v[2]]

\* The values there are, and the machine word that each one is.
Values == {Reference(id) : id \in DOMAIN store} \cup {Number(k) : k \in Numbers}
            \cup {<<"word", w>> : w \in PlainWords}

Word(v) ==
  CASE IsNumber(v) -> boxInt(v[2])
    [] InHeap(v)   -> address[v[2]]
    [] OTHER       -> v[2]

\* BOX(x - y): what is left of a difference in a boxed number.
Difference(x, y) == ToNumber(x - y)

-----------------------------------------------------------------------------
(* Lcompare, as the number that it boxes                                    *)

RECURSIVE Lcompare(_, _), LexCompare(_, _, _)

\* The loop over the fields.
LexCompare(f, g, i) ==
  IF i > Len(f) THEN 0
  ELSE LET c == Lcompare(f[i], g[i]) IN IF c # 0 THEN c ELSE LexCompare(f, g, i + 1)

SkippingFirst(a, b) == LexCompare(a.fields, b.fields, 2)

FieldsCompared(a, b) == LexCompare(a.fields, b.fields, 1)

\* How an object's length tells it from one of the same label, and what would come of
\* a test for difference.
LengthsDiffer(a, b) == IF a.len # b.len THEN 1 ELSE 0

LengthsCompared(a, b) == Difference(a.len, b.len)

\* Objects of the same tag.  The label of an array is always the same, and strcmp
\* knows nothing of lengths.
ContentsCompared(a, b) ==
  IF a.label # b.label THEN Difference(a.label, b.label)
  ELSE IF a.tag # STRING_TAG /\ a.len # b.len THEN LengthsCompared(a, b)
  ELSE FieldsCompared(a, b)

Lcompare(p, q) ==
  IF Word(p) = Word(q) THEN 0
  ELSE IF IsNumber(p) /\ IsNumber(q) THEN Difference(p[2], q[2])
  ELSE IF IsNumber(p) THEN -1
  ELSE IF IsNumber(q) THEN 1
  ELSE IF InHeap(p) /\ InHeap(q)
    THEN IF Object(p).tag # Object(q).tag THEN Difference(Object(p).tag, Object(q).tag)
         ELSE ContentsCompared(Object(p), Object(q))
  ELSE IF InHeap(p) THEN -1
  ELSE IF InHeap(q) THEN 1
  ELSE Difference(Word(p), Word(q))

\* LflatCompare; the test of q when p is no number is ~UNBOXED(q), which always holds.
LflatCompare(p, q) ==
  IF IsNumber(p) THEN IF IsNumber(q) THEN Difference(p[2], q[2]) ELSE -1
  ELSE Difference(Word(p), Word(q))

\* LcompareTags of two sexps
LcompareTags(p, q) == Difference(Object(p).label, Object(q).label)

-----------------------------------------------------------------------------
(* Lhash                                                                    *)

Unsigned == HalfWord * HalfWord

\* HASH_APPEND: a rotation by half a word.
HASH_APPEND(acc, x) ==
  LET s == (acc + x) % Unsigned IN (s % HalfWord) * HalfWord + (s \div HalfWord)

RECURSIVE inner_hash(_, _, _), HashFields(_, _, _, _)

HashFields(depth, acc, f, i) ==
  IF i > Len(f) THEN acc ELSE HashFields(depth, inner_hash(depth, acc, f[i]), f, i + 1)

\* What an object's hash begins with, and what it would, were it identified by its place.
HashOfPlace(acc, v) == HASH_APPEND(HASH_APPEND(acc, Object(v).tag), address[v[2]])

HashOfHeader(acc, v) == HASH_APPEND(HASH_APPEND(acc, Object(v).tag), Object(v).len)

inner_hash(depth, acc, v) ==
  IF depth > HashDepth THEN acc
  ELSE IF IsNumber(v) THEN HASH_APPEND(acc, v[2])
  ELSE IF ~InHeap(v) THEN HASH_APPEND(acc, Word(v))
  ELSE LET begun == HashOfHeader(acc, v)
           labelled == IF Object(v).tag = ARRAY_TAG THEN begun ELSE HASH_APPEND(begun, Object(v).label)
       IN HashFields(depth + 1, labelled, Object(v).fields, 1)

Lhash(v) == inner_hash(0, 0, v) % HashLimit

-----------------------------------------------------------------------------
Init == store \in Stores /\ address \in Addresses

Collect == address' \in Addresses /\ UNCHANGED store

Next == Collect

Spec == Init /\ [][Next]_comparisonVars

-----------------------------------------------------------------------------
(* Properties                                                               *)

Sign(k) == IF k < 0 THEN -1 ELSE IF k > 0 THEN 1 ELSE 0

\* The difference of two numbers that the program compares fits in a number.
NumbersAreNear == \A j, k \in Numbers : j - k \in LNumber

\* What equality is: the same number or pointer, or objects of the same tag and label
\* with equal fields.
RECURSIVE Equal(_, _)

Equal(p, q) ==
  \/ p = q
  \/ /\ InHeap(p) /\ InHeap(q)
     /\ Object(p).tag = Object(q).tag /\ Object(p).label = Object(q).label
     /\ Len(Object(p).fields) = Len(Object(q).fields)
     /\ \A i \in DOMAIN Object(p).fields : Equal(Object(p).fields[i], Object(q).fields[i])

\* compare is 0 for equal structures and no others: it looks at all of both.
CompareIsEquality == \A p, q \in Values : Lcompare(p, q) = 0 <=> Equal(p, q)

\* A program may sort by it: its signs are those of a linear order.
CompareIsOrder ==
  NumbersAreNear =>
    LET c == [p \in Values |-> [q \in Values |-> Sign(Lcompare(p, q))]] IN
      \A p, q \in Values :
        /\ c[p][q] = -c[q][p]
        /\ \A r \in Values : c[p][q] <= 0 /\ c[q][r] <= 0 => c[p][r] <= 0

\* No string has a zero before its end: strings of the same characters, up to the first
\* zero, are of one length.
NoStringIsCut ==
  \A i, j \in DOMAIN store :
    store[i].tag = STRING_TAG /\ store[j].tag = STRING_TAG /\ store[i].label = store[j].label
      => store[i].len = store[j].len

\* A hash table may use both, as long as no program stores a zero in a string: what
\* compares as equal has one hash.
EqualsHashAlike ==
  NoStringIsCut => \A p, q \in Values : Lcompare(p, q) = 0 => Lhash(p) = Lhash(q)

ResultsStay ==
  \A p, q \in Values :
    /\ Lcompare(p, q)' = Lcompare(p, q)
    /\ Lhash(p)' = Lhash(p)
    /\ InHeap(p) /\ InHeap(q) => Sign(LflatCompare(p, q)') = Sign(LflatCompare(p, q))

\* A collection between two comparisons, or two hashes, of the same values does not
\* change them; flatCompare keeps its sign for two objects.
CollectionsChangeNothing == [][ResultsStay]_comparisonVars

=============================================================================
