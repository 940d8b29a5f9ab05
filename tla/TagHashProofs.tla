--------------------------- MODULE TagHashProofs ---------------------------
(***************************************************************************)
(* Whatever characters there are, and however many of them count: LtagHash *)
(* has a tag for every name that does not begin with '_', and the tags of  *)
(* two names are the same if and only if the names agree in what counts.   *)
(***************************************************************************)
EXTENDS TagHash, FiniteSetTheorems, TLAPS

-----------------------------------------------------------------------------
(* Least elements                                                           *)

\* A set of natural numbers that is not empty has a least element: the intervals below
\* its elements are finite sets, among which one includes no other.
LEMMA LeastElement ==
  ASSUME NEW T, T \subseteq Nat, T # {}
  PROVE  \E x \in T : \A y \in T : x <= y
<1> DEFINE I == {0 .. (m - 1) : m \in T}
           R == StrictSubsetOrdering(Nat)
<1>1. IsWellFoundedOn(R, FiniteSubsetsOf(Nat))
  BY FS_StrictSubsetOrderingWellFounded
<1>2. I \subseteq FiniteSubsetsOf(Nat) /\ I # {}
  <2>1. \A m \in T : IsFiniteSet(0 .. (m - 1)) /\ 0 .. (m - 1) \subseteq Nat
    BY FS_Interval
  <2> QED BY <2>1 DEF FiniteSubsetsOf
<1> HIDE DEF I, R
<1>3. PICK s \in I : \A t \in I : ~(<<t, s>> \in R)
  BY <1>1, <1>2, WFMin
<1>4. PICK x \in T : s = 0 .. (x - 1)
  BY DEF I
<1>5. ASSUME NEW y \in T, y < x
      PROVE  FALSE
  <2>1. 0 .. (y - 1) \in I /\ 0 .. (y - 1) \subseteq Nat /\ 0 .. (x - 1) \subseteq Nat
    BY DEF I
  <2>2. 0 .. (y - 1) \subseteq 0 .. (x - 1) /\ y \in 0 .. (x - 1) /\ y \notin 0 .. (y - 1)
    BY <1>5
  <2>3. <<0 .. (y - 1), s>> \in R
    BY <1>4, <2>1, <2>2 DEF R, StrictSubsetOrdering
  <2> QED BY <1>3, <2>1, <2>3
<1> QED BY <1>5

-----------------------------------------------------------------------------
(* Digits                                                                   *)

\* Shifting a digit in, and masking and shifting it out again.
LEMMA DigitBack ==
  ASSUME NEW r \in Nat \ {0}, NEW x \in Nat, NEW d \in 0 .. (r - 1)
  PROVE  r * x + d \in Nat /\ (r * x + d) % r = d /\ (r * x + d) \div r = x
<1>1. r * x + d \in Nat
  OBVIOUS
<1>2. (r * x + d) % r = d /\ (r * x + d) \div r = x
  OBVIOUS
<1> QED BY <1>1, <1>2

\* Two numbers with one last digit in common are the same if and only if the rest is.
LEMMA DigitsAgree ==
  ASSUME NEW r \in Nat \ {0}, NEW x \in Nat, NEW y \in Nat,
         NEW d \in 0 .. (r - 1), NEW e \in 0 .. (r - 1), r * x + d = r * y + e
  PROVE  x = y /\ d = e
<1>1. (r * x + d) % r = d /\ (r * x + d) \div r = x /\ (r * y + e) % r = e /\ (r * y + e) \div r = y
  BY DigitBack
<1> QED BY <1>1

\* The characters that count are the first ones of the name.
LEMMA PrefixProperties ==
  ASSUME NEW s \in Names
  PROVE  /\ Len(s) \in Nat /\ s \in [1..Len(s) -> 0..Radix] /\ s \in Seq(0..Radix)
         /\ Len(Prefix(s)) \in 0..Limit /\ Len(Prefix(s)) <= Len(s)
         /\ Len(Prefix(s)) = IF Len(s) < Limit THEN Len(s) ELSE Limit
         /\ Prefix(s) = [i \in 1..Len(Prefix(s)) |-> s[i]]
<1>1. PICK k \in 0..MaxLength : s \in [1..k -> 0..Radix]
  BY DEF Names
<1>2. k \in Nat /\ s \in Seq(0..Radix) /\ Len(s) = k
  BY <1>1, TagAssumption
<1>3. PICK m \in Nat : m = (IF Len(s) < Limit THEN Len(s) ELSE Limit) /\ m <= Len(s) /\ m <= Limit
  BY <1>2, TagAssumption
<1>4. Prefix(s) = SubSeq(s, 1, m)
  BY <1>3 DEF Prefix
<1>5. Len(SubSeq(s, 1, m)) = m /\ SubSeq(s, 1, m) = [i \in 1..m |-> s[i]]
  BY <1>2, <1>3
<1> QED BY <1>1, <1>2, <1>3, <1>4, <1>5, TagAssumption

\* The digits of a name are those of the part that counts.
LEMMA ValuesProperties ==
  ASSUME NEW s \in Names, NEW m \in Nat, m <= Len(s), NEW v \in [0..m -> Nat], Values(v, s, m),
         NEW k \in 1..m
  PROVE  /\ s[k] \in 0..(Radix - 1) /\ v[k - 1] \in Nat /\ v[k] \in Nat
         /\ v[k] = Radix * v[k - 1] + s[k]
<1>1. k \in 1..Len(s) /\ s[k] \in 0..Radix /\ s[k] # Radix /\ v[k] = Radix * v[k - 1] + s[k]
  <2>1. Len(s) \in Nat /\ s \in [1..Len(s) -> 0..Radix]
    BY PrefixProperties
  <2>2. k \in 1..Len(s)
    BY <2>1
  <2> QED BY <2>1, <2>2 DEF Values
<1>2. k \in 0..m /\ k - 1 \in 0..m
  OBVIOUS
<1> QED BY <1>1, <1>2, TagAssumption

\* The beginnings that two names have in common stand for the same numbers.
LEMMA SamePrefixSameValue ==
  ASSUME NEW s \in Names, NEW t \in Names, NEW m \in Nat, m <= Len(s), m <= Len(t),
         NEW v \in [0..m -> Nat], NEW w \in [0..m -> Nat], Values(v, s, m), Values(w, t, m),
         \A k \in 1..m : s[k] = t[k]
  PROVE  v[m] = w[m]
<1> SUFFICES ASSUME v[m] # w[m] PROVE FALSE
  OBVIOUS
<1> DEFINE D == {k \in 0..m : v[k] # w[k]}
<1>1. PICK k \in D : \A j \in D : k <= j
  <2>1. m \in D /\ D \subseteq Nat
    OBVIOUS
  <2> HIDE DEF D
  <2> QED BY <2>1, LeastElement
<1>2. k \in 0..m /\ v[k] # w[k] /\ k # 0
  BY <1>1 DEF Values
<1>3. k \in 1..m /\ k - 1 \in 0..m /\ k - 1 \notin D
  BY <1>1, <1>2
<1>4. v[k - 1] = w[k - 1] /\ s[k] = t[k]
  BY <1>3
<1>5. v[k] = Radix * v[k - 1] + s[k] /\ w[k] = Radix * w[k - 1] + t[k]
  BY <1>3, ValuesProperties
<1> QED BY <1>2, <1>4, <1>5

\* Names that stand for the same number have, from the end, the same digits, and they
\* are of the same length if none of their beginnings stands for 0.
LEMMA SameValueSamePrefix ==
  ASSUME NEW s \in Names, NEW t \in Names, NEW l \in Nat, NEW m \in Nat, l <= Len(s), m <= Len(t),
         NEW v \in [0..l -> Nat], NEW w \in [0..m -> Nat], Values(v, s, l), Values(w, t, m),
         Positive(v, l), Positive(w, m), v[l] = w[m]
  PROVE  l = m /\ \A k \in 1..m : s[k] = t[k]
<1> DEFINE D == {k \in 0..l : k <= m /\ v[l - k] # w[m - k]}
<1>1. D = {}
  <2> SUFFICES ASSUME D # {} PROVE FALSE
    OBVIOUS
  <2>1. PICK k \in D : \A j \in D : k <= j
    <3>1. D \subseteq Nat
      OBVIOUS
    <3> HIDE DEF D
    <3> QED BY <3>1, LeastElement
  <2>2. k \in 0..l /\ k <= m /\ v[l - k] # w[m - k] /\ k # 0
    BY <2>1
  <2>3. k - 1 \in 0..l /\ k - 1 <= m /\ k - 1 \notin D
    <3>1. k \in 1..l /\ k <= m
      BY <2>2
    <3>2. k - 1 \in 0..l /\ k - 1 <= m /\ ~(k <= k - 1)
      BY ONLY <3>1
    <3> HIDE DEF D
    <3> QED BY <2>1, <3>2
  <2>4. v[l - (k - 1)] = w[m - (k - 1)]
    BY <2>3
  <2>5. PICK i \in 1..l, j \in 1..m : i = l - (k - 1) /\ j = m - (k - 1) /\ i - 1 = l - k /\ j - 1 = m - k
    BY <2>2
  <2>6. /\ s[i] \in 0..(Radix - 1) /\ v[i - 1] \in Nat /\ v[i] = Radix * v[i - 1] + s[i]
        /\ t[j] \in 0..(Radix - 1) /\ w[j - 1] \in Nat /\ w[j] = Radix * w[j - 1] + t[j]
    BY ValuesProperties
  <2>7. v[i - 1] = w[j - 1]
    <3>1. Radix * v[i - 1] + s[i] = Radix * w[j - 1] + t[j]
      BY <2>4, <2>5, <2>6
    <3>2. PICK x, y, d, e : x = v[i - 1] /\ y = w[j - 1] /\ d = s[i] /\ e = t[j]
      OBVIOUS
    <3>3. /\ x \in Nat /\ y \in Nat /\ d \in 0..(Radix - 1) /\ e \in 0..(Radix - 1)
          /\ Radix * x + d = Radix * y + e
      BY <2>6, <3>1, <3>2
    <3>4. x = y
      BY ONLY <3>3, DigitsAgree, TagAssumption
    <3> QED BY <3>2, <3>4
  <2> QED BY <2>2, <2>5, <2>7
<1>2. \A k \in 0..l : k <= m => v[l - k] = w[m - k]
  BY <1>1
<1> HIDE DEF D
<1>3. v[0] = 0 /\ w[0] = 0 /\ (\A k \in 1..l : v[k] # 0) /\ (\A k \in 1..m : w[k] # 0)
  BY DEF Values, Positive
<1>4. l = m
  <2>1. CASE l < m
    <3>1. v[l - l] = w[m - l] /\ m - l \in 1..m /\ l - l = 0
      BY <1>2, <2>1
    <3> QED BY <1>3, <3>1
  <2>2. CASE m < l
    <3>1. v[l - m] = w[m - m] /\ l - m \in 1..l /\ m - m = 0
      BY <1>2, <2>2
    <3> QED BY <1>3, <3>1
  <2> QED BY <2>1, <2>2
<1>5. ASSUME NEW k \in 1..m PROVE s[k] = t[k]
  <2>1. PICK i \in 0..l : i = l - k /\ l - i = k /\ m - i = k /\ i <= m
    BY <1>4
  <2>2. PICK j \in 0..l : j = l - k + 1 /\ l - j = k - 1 /\ m - j = k - 1 /\ j <= m
    BY <1>4
  <2>3. v[k] = w[k] /\ v[k - 1] = w[k - 1]
    BY <1>2, <2>1, <2>2
  <2>4. /\ s[k] \in 0..(Radix - 1) /\ v[k - 1] \in Nat /\ v[k] = Radix * v[k - 1] + s[k]
        /\ t[k] \in 0..(Radix - 1) /\ w[k - 1] \in Nat /\ w[k] = Radix * w[k - 1] + t[k]
    BY <1>4, ValuesProperties
  <2>5. PICK x, y, d, e : x = v[k - 1] /\ y = w[k - 1] /\ d = s[k] /\ e = t[k]
    OBVIOUS
  <2>6. /\ x \in Nat /\ y \in Nat /\ d \in 0..(Radix - 1) /\ e \in 0..(Radix - 1)
        /\ Radix * x + d = Radix * y + e
    BY <2>3, <2>4, <2>5
  <2>7. d = e
    BY ONLY <2>6, DigitsAgree, TagAssumption
  <2> QED BY <2>5, <2>7
<1> QED BY <1>4, <1>5

\* Hence tags tell names apart, if what was returned stands for the names.
LEMMA ReturnedDistinguish ==
  ASSUME names \in Names \X Names, ReturnedInv(1), ReturnedInv(2)
  PROVE  tags[1] = tags[2] <=> Prefix(names[1]) = Prefix(names[2])
<1> DEFINE s == names[1]
           t == names[2]
           l == Len(Prefix(s))
           m == Len(Prefix(t))
<1>1. s \in Names /\ t \in Names
  OBVIOUS
<1>2. PICK v \in [0..l -> Nat] : Values(v, s, l) /\ Positive(v, l) /\ tags[1] = v[l]
  BY DEF ReturnedInv
<1>3. PICK w \in [0..m -> Nat] : Values(w, t, m) /\ Positive(w, m) /\ tags[2] = w[m]
  BY DEF ReturnedInv
<1>4. /\ l \in Nat /\ m \in Nat /\ l <= Len(s) /\ m <= Len(t)
      /\ Prefix(s) = [i \in 1..l |-> s[i]] /\ Prefix(t) = [i \in 1..m |-> t[i]]
  BY <1>1, PrefixProperties, TagAssumption
<1> HIDE DEF s, t, l, m
<1>5. ASSUME tags[1] = tags[2] PROVE Prefix(s) = Prefix(t)
  <2>1. l = m /\ \A k \in 1..m : s[k] = t[k]
    <3>1. /\ s \in Names /\ t \in Names /\ l \in Nat /\ m \in Nat /\ l <= Len(s) /\ m <= Len(t)
          /\ v \in [0..l -> Nat] /\ w \in [0..m -> Nat] /\ Values(v, s, l) /\ Values(w, t, m)
          /\ Positive(v, l) /\ Positive(w, m) /\ v[l] = w[m]
      BY <1>1, <1>2, <1>3, <1>4, <1>5
    <3> QED BY ONLY SMTT(30), <3>1, SameValueSamePrefix
  <2> QED BY <1>4, <2>1
<1>6. ASSUME Prefix(s) = Prefix(t) PROVE tags[1] = tags[2]
  <2>1. l = m /\ \A k \in 1..m : s[k] = t[k]
    BY <1>4, <1>6
  <2>2. v[l] = w[l]
    <3>1. /\ s \in Names /\ t \in Names /\ l \in Nat /\ l <= Len(s) /\ l <= Len(t)
          /\ v \in [0..l -> Nat] /\ w \in [0..l -> Nat] /\ Values(v, s, l) /\ Values(w, t, l)
          /\ \A k \in 1..l : s[k] = t[k]
      BY <1>1, <1>2, <1>3, <1>4, <2>1
    <3> QED BY ONLY <3>1, SamePrefixSameValue
  <2> QED BY <1>2, <1>3, <2>1, <2>2
<1> QED BY <1>4, <1>5, <1>6 DEF s, t

-----------------------------------------------------------------------------
(* The loops                                                                *)

\* The name of the call that is running.
LEMMA CurrentName ==
  ASSUME TagInv, phase \in {"hash", "dehash"}
  PROVE  /\ name \in Names /\ Len(name) \in Nat /\ name \in [1..Len(name) -> 0..Radix]
         /\ Counted \in 0..Limit /\ Counted <= Len(name)
         /\ Counted = (IF Len(name) < Limit THEN Len(name) ELSE Limit)
         /\ Prefix(name) = [i \in 1..Counted |-> name[i]]
         /\ Len(tags) \in 0..1 /\ tags \in Seq(Nat)
<1>1. Len(tags) \in 0..1 /\ names \in Names \X Names /\ tags \in Seq(Nat)
  BY DEF TagInv
<1>2. name \in Names
  <2>1. PICK i \in {1, 2} : i = Len(tags) + 1
    BY <1>1
  <2> QED BY <1>1, <2>1 DEF name
<1> HIDE DEF name
<1> QED BY <1>1, <1>2, PrefixProperties DEF Counted

\* While a call is running nothing changes of the names and of what was returned.
LEMMA CallsKept ==
  ASSUME TagInv, UNCHANGED <<names, tags>>
  PROVE  /\ name' = name /\ Counted' = Counted
         /\ names' \in Names \X Names /\ tags' \in Seq(Nat) /\ \A c \in 1..Len(tags') : ReturnedInv(c)'
BY DEF TagInv, name, Counted, ReturnedInv

LEMMA HashCharacterStep == TagInv /\ HashCharacter => TagInv'
<1> SUFFICES ASSUME TagInv, HashCharacter PROVE TagInv'
  OBVIOUS
<1>1. /\ phase = "hash" /\ limit < Len(name) /\ limit <= Limit - 1
      /\ UNCHANGED <<names, tags, n, p, buf>> /\ limit \in Nat
  BY TagAssumption DEF HashCharacter, Another, TagInv
<1>2. /\ Len(name) \in Nat /\ name \in [1..Len(name) -> 0..Radix] /\ Len(tags) \in 0..1
      /\ limit + 1 \in 1..Counted /\ limit + 1 \in 1..Len(name)
      /\ Prefix(name) = [i \in 1..Counted |-> name[i]]
  <2>1. /\ Len(name) \in Nat /\ name \in [1..Len(name) -> 0..Radix] /\ Len(tags) \in 0..1
        /\ Counted = (IF Len(name) < Limit THEN Len(name) ELSE Limit)
        /\ Prefix(name) = [i \in 1..Counted |-> name[i]]
    BY <1>1, CurrentName
  <2>2. PICK l, c : l = Len(name) /\ c = Counted
    OBVIOUS
  <2>3. limit + 1 \in 1..c /\ limit + 1 \in 1..l
    BY <1>1, <2>1, <2>2, TagAssumption
  <2> QED BY <2>1, <2>2, <2>3
<1>3. /\ name' = name /\ names' \in Names \X Names /\ tags' \in Seq(Nat)
      /\ \A c \in 1..Len(tags') : ReturnedInv(c)'
  BY <1>1, CallsKept
<1>4. buf' \in [0..(Limit - 1) -> 0..Radix] /\ Len(tags') \in 0..1
  BY <1>1, <1>2 DEF TagInv
<1>5. CASE name[limit + 1] = Radix
  <2>1. phase' = "failed" /\ limit' = limit
    BY <1>5 DEF HashCharacter
  <2>2. NamesHaveTags'
    <3>1. ~WellNamed(name)
      BY <1>2, <1>5 DEF WellNamed
    <3> QED BY <1>3, <3>1 DEF NamesHaveTags, WellNamed, Prefix
  <2> QED BY <1>1, <1>3, <1>4, <2>1, <2>2 DEF TagInv
<1>6. CASE name[limit + 1] # Radix
  <2>1. phase' = "hash" /\ h' = Radix * h + name[limit + 1] /\ limit' = limit + 1
    BY <1>1, <1>6 DEF HashCharacter
  <2>2. PICK v \in [0..limit -> Nat] :
          /\ Values(v, name, limit) /\ h = v[limit]
          /\ name # <<>> /\ name[1] # 0 => Positive(v, limit)
    BY <1>1 DEF TagInv, HashInv
  <2>3. name[limit + 1] \in Nat /\ h \in Nat /\ h' \in Nat
    BY SMTT(30), <1>1, <1>2, <2>1, <2>2, TagAssumption
  <2>4. PICK w : w = [i \in 0..(limit + 1) |-> IF i = limit + 1 THEN h' ELSE v[i]]
    OBVIOUS
  <2>5. w \in [0..(limit + 1) -> Nat] /\ w[limit + 1] = h' /\ \A i \in 0..limit : w[i] = v[i]
    BY <1>1, <2>2, <2>3, <2>4
  <2>6. Values(w, name, limit + 1)
    <3>1. w[0] = 0
      BY <1>1, <2>2, <2>5 DEF Values
    <3>2. ASSUME NEW k \in 1..(limit + 1)
          PROVE  name[k] # Radix /\ w[k] = Radix * w[k - 1] + name[k]
      <4>1. CASE k = limit + 1
        <5>1. k - 1 = limit /\ limit \in 0..limit
          BY <1>1, <4>1
        <5> QED BY <1>6, <2>1, <2>2, <2>5, <4>1, <5>1
      <4>2. CASE k # limit + 1
        <5>1. k \in 1..limit /\ k \in 0..limit /\ k - 1 \in 0..limit
          BY <1>1, <4>2
        <5> QED BY <2>2, <2>5, <5>1 DEF Values
      <4> QED BY <4>1, <4>2
    <3> QED BY <3>1, <3>2 DEF Values
  <2>7. ASSUME name # <<>>, name[1] # 0 PROVE Positive(w, limit + 1)
    <3> SUFFICES ASSUME NEW k \in 1..(limit + 1) PROVE w[k] # 0
      BY DEF Positive
    <3>1. \A i \in 1..limit : v[i] # 0
      BY <2>2, <2>7 DEF Positive
    <3>2. CASE k # limit + 1
      <4>1. k \in 1..limit /\ k \in 0..limit
        BY <1>1, <3>2
      <4> QED BY <2>5, <3>1, <4>1
    <3>3. CASE k = limit + 1 /\ limit = 0
      <4>1. w[k] = Radix * h + name[1] /\ h = 0
        BY <2>1, <2>2, <2>5, <3>3 DEF Values
      <4>2. Radix * h = 0
        BY <4>1, TagAssumption
      <4> QED BY <2>3, <2>7, <3>3, <4>1, <4>2
    <3>4. CASE k = limit + 1 /\ limit # 0
      <4>1. h # 0
        BY <1>1, <2>2, <3>1, <3>4
      <4>2. PICK x \in Nat, d \in Nat : x = h /\ d = name[limit + 1] /\ x # 0 /\ w[k] = Radix * x + d
        BY <2>1, <2>3, <2>5, <3>4, <4>1
      <4>3. Radix * x + d # 0
        BY ONLY <4>2, TagAssumption
      <4> QED BY <4>2, <4>3
    <3> QED BY <3>2, <3>3, <3>4
  <2>8. HashInv'
    <3>1. w \in [0..limit' -> Nat] /\ Values(w, name', limit') /\ h' = w[limit']
      BY <1>3, <2>1, <2>5, <2>6
    <3>2. name' # <<>> /\ name'[1] # 0 => Positive(w, limit')
      BY <1>3, <2>1, <2>7
    <3> QED BY <3>1, <3>2 DEF HashInv
  <2>9. limit' <= Len(name') /\ limit' \in 0..Limit
    BY <1>1, <1>2, <1>3, <2>1, TagAssumption
  <2> QED BY <1>3, <1>4, <2>1, <2>8, <2>9 DEF TagInv, NamesHaveTags
<1> QED BY <1>5, <1>6

LEMMA StartDehashStep == TagInv /\ StartDehash => TagInv'
<1> SUFFICES ASSUME TagInv, StartDehash PROVE TagInv'
  OBVIOUS
<1>1. /\ phase = "hash" /\ ~(limit < Len(name) /\ limit <= Limit - 1) /\ limit <= Len(name)
      /\ phase' = "dehash" /\ n' = h /\ p' = Limit /\ UNCHANGED <<names, tags, h, limit, buf>>
      /\ limit \in 0..Limit
  BY DEF StartDehash, Another, TagInv
<1>2. Counted = limit /\ Len(tags) \in 0..1
  <2>1. /\ Len(name) \in Nat /\ Len(tags) \in 0..1
        /\ Counted = (IF Len(name) < Limit THEN Len(name) ELSE Limit)
    BY <1>1, CurrentName
  <2>2. PICK l, c : l = Len(name) /\ c = Counted
    OBVIOUS
  <2>3. c = limit
    BY <1>1, <2>1, <2>2, TagAssumption
  <2> QED BY <2>1, <2>2, <2>3
<1>3. /\ name' = name /\ Counted' = Counted /\ names' \in Names \X Names /\ tags' \in Seq(Nat)
      /\ \A c \in 1..Len(tags') : ReturnedInv(c)'
  BY <1>1, CallsKept
<1>4. DehashInv'
  <2>1. PICK v \in [0..limit -> Nat] :
          /\ Values(v, name, limit) /\ h = v[limit]
          /\ name # <<>> /\ name[1] # 0 => Positive(v, limit)
    BY <1>1 DEF TagInv, HashInv
  <2>2. PICK k \in 0..limit : k = limit
    BY <1>1
  <2>3. /\ v \in [0..Counted' -> Nat] /\ k \in 0..Counted'
        /\ Values(v, name', Counted') /\ h' = v[Counted'] /\ n' = v[k]
        /\ name' # <<>> /\ name'[1] # 0 => Positive(v, Counted')
    BY <1>1, <1>2, <1>3, <2>1, <2>2
  <2>4. p' = Limit - Counted' + k /\ \A i \in (k + 1)..Counted' : FALSE
    BY <1>1, <1>2, <1>3, <2>2, TagAssumption
  <2> QED BY <2>3, <2>4 DEF DehashInv
<1> QED BY <1>1, <1>2, <1>3, <1>4 DEF TagInv, NamesHaveTags

LEMMA DehashDigitStep == TagInv /\ DehashDigit => TagInv'
<1> SUFFICES ASSUME TagInv, DehashDigit PROVE TagInv'
  OBVIOUS
<1>1. /\ phase = "dehash" /\ n # 0 /\ phase' = "dehash"
      /\ buf' = [buf EXCEPT ![p - 1] = n % Radix] /\ p' = p - 1 /\ n' = n \div Radix
      /\ UNCHANGED <<names, tags, h, limit>>
      /\ buf \in [0..(Limit - 1) -> 0..Radix]
  BY DEF DehashDigit, DigitAtEnd, TagInv
<1>2. PICK c : c = Counted
  OBVIOUS
<1>3. /\ name \in Names /\ Len(name) \in Nat /\ c \in 0..Limit /\ c \in Nat /\ c <= Len(name)
      /\ Len(tags) \in 0..1
  <2>1. /\ name \in Names /\ Len(name) \in Nat /\ c \in 0..Limit /\ c <= Len(name)
        /\ Len(tags) \in 0..1
    BY <1>1, <1>2, CurrentName
  <2> QED BY <2>1, TagAssumption
<1>4. /\ name' = name /\ Counted' = c /\ names' \in Names \X Names /\ tags' \in Seq(Nat)
      /\ \A i \in 1..Len(tags') : ReturnedInv(i)'
  BY <1>1, <1>2, CallsKept
<1>5. PICK v \in [0..c -> Nat], k \in 0..c :
        /\ Values(v, name, c) /\ h = v[c]
        /\ name # <<>> /\ name[1] # 0 => Positive(v, c)
        /\ p = Limit - c + k /\ n = v[k]
        /\ \A i \in (k + 1)..c : v[i] # 0 /\ buf[Limit - c + i - 1] = name[i]
  BY <1>1, <1>2 DEF TagInv, DehashInv
<1>6. k \in 1..c /\ k - 1 \in 0..c
  <2>1. k # 0
    BY <1>1, <1>5 DEF Values
  <2> QED BY <1>3, <2>1
<1>7. n % Radix = name[k] /\ n' = v[k - 1] /\ name[k] \in 0..Radix
  <2>1. /\ name[k] \in 0..(Radix - 1) /\ v[k - 1] \in Nat /\ v[k] = Radix * v[k - 1] + name[k]
    BY <1>3, <1>5, <1>6, ValuesProperties
  <2>2. PICK x, d : x = v[k - 1] /\ d = name[k]
    OBVIOUS
  <2>3. (Radix * x + d) % Radix = d /\ (Radix * x + d) \div Radix = x /\ d \in 0..Radix
    <3>1. x \in Nat /\ d \in 0..(Radix - 1)
      BY <2>1, <2>2
    <3> QED BY ONLY <3>1, DigitBack, TagAssumption
  <2> QED BY <1>1, <1>5, <2>1, <2>2, <2>3
<1>8. p - 1 \in 0..(Limit - 1) /\ p' = Limit - c + (k - 1)
  BY <1>1, <1>3, <1>5, <1>6, TagAssumption
<1>9. buf' \in [0..(Limit - 1) -> 0..Radix]
  BY <1>1, <1>7, <1>8
<1>10. ASSUME NEW i \in (k - 1 + 1)..c PROVE v[i] # 0 /\ buf'[Limit - c + i - 1] = name[i]
  <2>1. PICK a : a = Limit - c + i - 1
    OBVIOUS
  <2>2. CASE i = k
    <3>1. a = p - 1
      BY <1>3, <1>5, <2>1, <2>2, TagAssumption
    <3> QED BY <1>1, <1>5, <1>7, <1>8, <2>1, <2>2, <3>1
  <2>3. CASE i # k
    <3>1. i \in (k + 1)..c
      BY <1>3, <1>6, <2>3
    <3>2. a \in 0..(Limit - 1) /\ a # p - 1
      BY <1>3, <1>5, <1>6, <2>1, <3>1, TagAssumption
    <3>3. buf'[a] = buf[a]
      BY <1>1, <3>2
    <3> QED BY <1>5, <2>1, <3>1, <3>3
  <2> QED BY <2>2, <2>3
<1>11. DehashInv'
  <2>1. PICK j \in 0..c : j = k - 1
    BY <1>6
  <2>2. /\ v \in [0..Counted' -> Nat] /\ j \in 0..Counted'
        /\ Values(v, name', Counted') /\ h' = v[Counted'] /\ n' = v[j] /\ p' = Limit - Counted' + j
        /\ name' # <<>> /\ name'[1] # 0 => Positive(v, Counted')
    BY <1>1, <1>4, <1>5, <1>7, <1>8, <2>1
  <2>3. \A i \in (j + 1)..Counted' : v[i] # 0 /\ buf'[Limit - Counted' + i - 1] = name'[i]
    BY <1>4, <1>10, <2>1
  <2> QED BY <2>2, <2>3 DEF DehashInv
<1> QED BY <1>1, <1>3, <1>4, <1>9, <1>11 DEF TagInv, NamesHaveTags

\* What de_hash returns is the part of the name that counts when all of its digits have
\* been written, and shorter otherwise.
LEMMA DehashedIsPrefix ==
  ASSUME TagInv, phase = "dehash", n = 0
  PROVE  /\ name # <<>> /\ name[1] # 0 => ~Differs
         /\ ~Differs => \E v \in [0..Counted -> Nat] :
              Values(v, name, Counted) /\ h = v[Counted] /\ Positive(v, Counted)
         /\ name = <<>> => ~Differs
<1>1. PICK c : c = Counted
  OBVIOUS
<1>2. /\ Len(name) \in Nat /\ c \in Nat /\ c <= Limit /\ c <= Len(name)
      /\ Prefix(name) = [i \in 1..c |-> name[i]]
  <2>1. /\ Len(name) \in Nat /\ c \in 0..Limit /\ c <= Len(name)
        /\ Prefix(name) = [i \in 1..c |-> name[i]]
    BY <1>1, CurrentName
  <2> QED BY <2>1, TagAssumption
<1>3. PICK v \in [0..c -> Nat], k \in 0..c :
        /\ Values(v, name, c) /\ h = v[c]
        /\ name # <<>> /\ name[1] # 0 => Positive(v, c)
        /\ p = Limit - c + k /\ n = v[k]
        /\ \A i \in (k + 1)..c : v[i] # 0 /\ buf[Limit - c + i - 1] = name[i]
  BY <1>1 DEF TagInv, DehashInv
<1>4. Limit - p = c - k /\ Dehashed = [i \in 1..(c - k) |-> buf[p + i - 1]]
  BY <1>2, <1>3, TagAssumption DEF Dehashed
<1>5. ASSUME k = 0 PROVE ~Differs
  <2>1. c - k = c
    BY <1>2, <1>5
  <2>2. ASSUME NEW i \in 1..c PROVE buf[p + i - 1] = name[i]
    <3>1. i \in (k + 1)..c /\ p + i - 1 = Limit - c + i - 1
      BY <1>2, <1>3, <1>5, TagAssumption
    <3> QED BY <1>3, <3>1
  <2>3. Dehashed = [i \in 1..c |-> name[i]]
    BY <1>4, <2>1, <2>2
  <2> QED BY <1>2, <2>3 DEF Differs
<1>6. ASSUME name # <<>>, name[1] # 0 PROVE ~Differs
  <2>1. k = 0
    <3>1. \A i \in 1..c : v[i] # 0
      BY <1>3, <1>6 DEF Positive
    <3> QED BY <1>2, <1>3, <3>1
  <2> QED BY <1>5, <2>1
<1>7. ASSUME name = <<>> PROVE ~Differs
  <2>1. c = 0 /\ k = 0
    BY <1>2, <1>7
  <2> QED BY <1>5, <2>1
<1>8. ASSUME ~Differs PROVE Positive(v, c)
  <2>1. [i \in 1..c |-> name[i]] = [i \in 1..(c - k) |-> buf[p + i - 1]]
    BY <1>2, <1>4, <1>8 DEF Differs
  <2>2. k = 0
    <3>1. 1..c = 1..(c - k) /\ c \in Nat /\ k \in 0..c
      BY <1>2, <2>1
    <3>2. c \in 1..c => c \in 1..(c - k)
      BY <3>1
    <3> QED BY ONLY <3>1, <3>2
  <2>3. \A i \in 1..c : v[i] # 0
    BY <1>3, <2>2
  <2> QED BY <2>3 DEF Positive
<1> QED BY <1>1, <1>3, <1>6, <1>7, <1>8

LEMMA ReturnStep == TagInv /\ Return => TagInv'
<1> SUFFICES ASSUME TagInv, Return PROVE TagInv'
  OBVIOUS
<1>1. phase = "dehash" /\ n = 0 /\ UNCHANGED <<names, n, p, buf>>
  BY DEF Return
<1>2. /\ name \in Names /\ Counted \in Nat /\ Len(tags) \in 0..1 /\ tags \in Seq(Nat)
  <2>1. /\ name \in Names /\ Counted \in 0..Limit /\ Len(tags) \in 0..1 /\ tags \in Seq(Nat)
    BY <1>1, CurrentName
  <2> QED BY <2>1, TagAssumption
<1>3. /\ names' \in Names \X Names /\ buf' \in [0..(Limit - 1) -> 0..Radix]
      /\ limit \in 0..Limit /\ \A c \in 1..Len(tags) : ReturnedInv(c)
  BY <1>1 DEF TagInv
<1>4. CASE Differs
  <2>1. phase' = "failed" /\ UNCHANGED <<tags, h, limit>>
    BY <1>4 DEF Return
  <2>2. ~WellNamed(name)
    BY <1>1, <1>4, DehashedIsPrefix DEF WellNamed
  <2>3. NamesHaveTags' /\ \A c \in 1..Len(tags') : ReturnedInv(c)'
    BY <1>1, <2>1, <2>2, CallsKept DEF NamesHaveTags, WellNamed, Prefix
  <2> QED BY <1>2, <1>3, <2>1, <2>3 DEF TagInv
<1>5. CASE ~Differs
  <2>1. /\ tags' = Append(tags, h) /\ h' = 0 /\ limit' = 0
        /\ phase' = IF Len(tags) = 1 THEN "done" ELSE "hash"
    BY <1>5 DEF Return
  <2>2. PICK v \in [0..Counted -> Nat] :
          Values(v, name, Counted) /\ h = v[Counted] /\ Positive(v, Counted)
    BY <1>1, <1>5, DehashedIsPrefix
  <2>3. h \in Nat
    BY <1>2, <2>2
  <2>4. /\ tags' \in Seq(Nat) /\ Len(tags') = Len(tags) + 1 /\ tags'[Len(tags) + 1] = h
        /\ \A c \in 1..Len(tags) : tags'[c] = tags[c]
    BY <1>2, <2>1, <2>3
  <2>5. ASSUME NEW c, c = Len(tags) + 1 PROVE ReturnedInv(c)'
    <3>1. names'[c] = name /\ tags'[c] = v[Counted] /\ Len(Prefix(names'[c])) = Counted
      BY <1>1, <2>2, <2>4, <2>5 DEF name, Counted
    <3>2. PICK s, m : s = names'[c] /\ m = Len(Prefix(names'[c]))
      OBVIOUS
    <3>3. v \in [0..m -> Nat] /\ Values(v, s, m) /\ Positive(v, m) /\ tags'[c] = v[m]
      BY <2>2, <3>1, <3>2
    <3>4. \E w \in [0..m -> Nat] : Values(w, s, m) /\ Positive(w, m) /\ tags'[c] = w[m]
      BY <3>3
    <3> QED BY <3>2, <3>4 DEF ReturnedInv
  <2>6. ASSUME NEW c \in 1..Len(tags') PROVE ReturnedInv(c)'
    <3>1. CASE c = Len(tags) + 1
      BY <2>5, <3>1
    <3>2. CASE c # Len(tags) + 1
      <4>1. c \in 1..Len(tags) /\ tags'[c] = tags[c]
        BY <1>2, <2>4, <3>2
      <4> QED BY <1>1, <1>3, <4>1 DEF ReturnedInv
    <3> QED BY <3>1, <3>2
  <2>7. HashInv'
    <3>1. PICK v0 : v0 = [i \in 0..0 |-> 0]
      OBVIOUS
    <3>2. v0 \in [0..limit' -> Nat] /\ v0[0] = 0 /\ h' = v0[limit'] /\ 1..limit' = {}
      BY <2>1, <3>1
    <3> QED BY <3>2 DEF HashInv, Values, Positive
  <2>8. CASE Len(tags) = 1
    BY <1>2, <1>3, <2>1, <2>4, <2>6, <2>8, TagAssumption DEF TagInv, NamesHaveTags
  <2>9. CASE Len(tags) = 0
    <3>1. phase' = "hash" /\ Len(tags') \in 0..1
      BY <2>1, <2>4, <2>9
    <3>2. limit' <= Len(name') /\ limit' \in 0..Limit
      <4>1. name' \in Names
        <5>1. PICK i \in {1, 2} : i = Len(tags') + 1
          BY <2>4, <2>9
        <5> QED BY <1>3, <5>1 DEF name
      <4>2. Len(name') \in Nat
        BY <4>1, PrefixProperties
      <4> QED BY <2>1, <4>2, TagAssumption
    <3> QED BY <1>3, <2>4, <2>6, <2>7, <3>1, <3>2 DEF TagInv, NamesHaveTags
  <2> QED BY <1>2, <2>8, <2>9
<1> QED BY <1>4, <1>5

LEMMA TagInitially == TagInit => TagInv
<1> SUFFICES ASSUME TagInit PROVE TagInv
  OBVIOUS
<1>1. /\ names \in Names \X Names /\ tags = <<>> /\ phase = "hash" /\ h = 0 /\ limit = 0
      /\ buf = [i \in 0..(Limit - 1) |-> 0]
  BY DEF TagInit
<1>2. tags \in Seq(Nat) /\ Len(tags) = 0 /\ buf \in [0..(Limit - 1) -> 0..Radix]
  BY <1>1, TagAssumption
<1>3. limit <= Len(name) /\ limit \in 0..Limit
  <2>1. name \in Names
    BY <1>1, <1>2 DEF name
  <2>2. Len(name) \in Nat
    BY <2>1, PrefixProperties
  <2> QED BY <1>1, <2>2, TagAssumption
<1>4. HashInv
  <2>1. PICK v : v = [i \in 0..0 |-> 0]
    OBVIOUS
  <2>2. v \in [0..limit -> Nat] /\ v[0] = 0 /\ h = v[limit] /\ 1..limit = {}
    BY <1>1, <2>1
  <2> QED BY <2>2 DEF HashInv, Values, Positive
<1> QED BY <1>1, <1>2, <1>3, <1>4 DEF TagInv, NamesHaveTags

LEMMA TagStutters == TagInv /\ UNCHANGED tagVars => TagInv'
<1> SUFFICES ASSUME TagInv, UNCHANGED tagVars PROVE TagInv'
  OBVIOUS
<1>1. UNCHANGED <<names, tags, h, limit, n, p, buf, phase>>
  BY DEF tagVars
<1>2. /\ name' = name /\ Counted' = Counted /\ names' \in Names \X Names /\ tags' \in Seq(Nat)
      /\ \A c \in 1..Len(tags') : ReturnedInv(c)'
  BY <1>1, CallsKept
<1>3. (HashInv' <=> HashInv) /\ (DehashInv' <=> DehashInv)
  BY <1>1, <1>2 DEF HashInv, DehashInv
<1>4. NamesHaveTags'
  BY <1>1, <1>2 DEF TagInv, NamesHaveTags, WellNamed, Prefix
<1> QED BY <1>1, <1>2, <1>3, <1>4 DEF TagInv

\* The inductive invariant of both calls: what has been read of a name, and what has been
\* written of it, stands for the same number.
THEOREM TagInvariant == TagSpec => []TagInv
<1>1. TagInv /\ [TagNext]_tagVars => TagInv'
  BY HashCharacterStep, StartDehashStep, DehashDigitStep, ReturnStep, TagStutters DEF TagNext
<1> QED BY <1>1, TagInitially, PTL DEF TagSpec

\* LtagHash fails for no name of chars that does not begin with '_', whatever the call
\* before has left in the buffer of de_hash.
THEOREM WellNamedHaveTags == TagSpec => []NamesHaveTags
<1>1. TagInv => NamesHaveTags
  BY DEF TagInv
<1> QED BY <1>1, TagInvariant, PTL

\* Btag and the pattern tests, which compare tags, compare the names of constructors up
\* to the characters that count.
THEOREM TagsAreNames == TagSpec => []TagsDistinguish
<1>1. TagInv => TagsDistinguish
  <2> SUFFICES ASSUME TagInv, Len(tags) = 2
               PROVE  tags[1] = tags[2] <=> Prefix(names[1]) = Prefix(names[2])
    BY DEF TagsDistinguish
  <2>1. names \in Names \X Names /\ ReturnedInv(1) /\ ReturnedInv(2)
    BY DEF TagInv
  <2> QED BY <2>1, ReturnedDistinguish
<1> QED BY <1>1, TagInvariant, PTL
=============================================================================
