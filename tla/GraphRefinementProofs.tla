------------------------ MODULE GraphRefinementProofs ------------------------
(***************************************************************************)
(* The memory of runtime/, with its addresses, its garbage and its         *)
(* collections, implements the graph of objects of module ObjectGraph, for *)
(* any number of operands, fields and allocations.                         *)
(*                                                                         *)
(* First what forgetting unreachable objects commutes with, then what a    *)
(* dump of the memory is a picture of, then the invariant GraphInv of      *)
(* module GcRefinement, then the refinement, step by step, and last the    *)
(* same of a program that calls the library functions of GcLibrary.        *)
(***************************************************************************)
EXTENDS GcMutatorProofs, SequenceTheorems

-----------------------------------------------------------------------------
(* Stores                                                                   *)

\* What is reachable contains what the roots refer to, and with an object what its
\* fields refer to.
LEMMA ReachableClosed ==
  ASSUME NEW s, NEW R
  PROVE  /\ Graph!ReachableIds(s, R) \subseteq DOMAIN s
         /\ \A k \in DOMAIN s : Graph!Reference(k) \in R => k \in Graph!ReachableIds(s, R)
         /\ \A j \in Graph!ReachableIds(s, R), k \in DOMAIN s :
              Graph!Reference(k) \in Graph!FieldsOf(s, j) => k \in Graph!ReachableIds(s, R)
<1>1. Graph!ReachableIds(s, R) \subseteq DOMAIN s
  BY DEF Graph!ReachableIds
<1>2. ASSUME NEW k \in DOMAIN s, Graph!Reference(k) \in R
      PROVE  k \in Graph!ReachableIds(s, R)
  BY <1>2, Zenon DEF Graph!ReachableIds
<1>3. ASSUME NEW j \in Graph!ReachableIds(s, R), NEW k \in DOMAIN s,
             Graph!Reference(k) \in Graph!FieldsOf(s, j)
      PROVE  k \in Graph!ReachableIds(s, R)
  <2> SUFFICES ASSUME NEW S \in SUBSET DOMAIN s,
                      {i \in DOMAIN s : Graph!Reference(i) \in R} \subseteq S,
                      \A g \in S : {i \in DOMAIN s : Graph!Reference(i) \in Graph!FieldsOf(s, g)} \subseteq S
               PROVE  k \in S
    BY DEF Graph!ReachableIds
  <2>1. j \in S
    BY DEF Graph!ReachableIds
  <2> QED BY <1>3, <2>1
<1> QED BY <1>1, <1>2, <1>3

\* A store s that is part of t, without references to what is only in t, retains the
\* same for roots without such references.
LEMMA RetainedAgree ==
  ASSUME NEW s, NEW t, NEW R, DOMAIN s \subseteq DOMAIN t,
         \A k \in DOMAIN s : s[k] = t[k],
         \A k \in DOMAIN t : Graph!Reference(k) \in R => k \in DOMAIN s,
         \A k \in DOMAIN t, j \in DOMAIN s : Graph!Reference(k) \in Graph!FieldsOf(s, j) => k \in DOMAIN s
  PROVE  Graph!Retained(s, R) = Graph!Retained(t, R)
<1>0. \A j \in DOMAIN s : Graph!FieldsOf(s, j) = Graph!FieldsOf(t, j)
  BY DEF Graph!FieldsOf
<1>1. ASSUME NEW k \in Graph!ReachableIds(s, R) PROVE k \in Graph!ReachableIds(t, R)
  <2>1. k \in DOMAIN s /\ k \in DOMAIN t
    BY ReachableClosed
  <2> SUFFICES ASSUME NEW T \in SUBSET DOMAIN t,
                      {i \in DOMAIN t : Graph!Reference(i) \in R} \subseteq T,
                      \A g \in T : {i \in DOMAIN t : Graph!Reference(i) \in Graph!FieldsOf(t, g)} \subseteq T
               PROVE  k \in T
    BY <2>1 DEF Graph!ReachableIds
  <2>2. \A S \in SUBSET DOMAIN s :
          (/\ {i \in DOMAIN s : Graph!Reference(i) \in R} \subseteq S
           /\ \A g \in S : {i \in DOMAIN s : Graph!Reference(i) \in Graph!FieldsOf(s, g)} \subseteq S)
            => k \in S
    BY DEF Graph!ReachableIds
  <2>3. {i \in DOMAIN s : Graph!Reference(i) \in R} \subseteq T \cap DOMAIN s
    OBVIOUS
  <2>4. \A g \in T \cap DOMAIN s :
          {i \in DOMAIN s : Graph!Reference(i) \in Graph!FieldsOf(s, g)} \subseteq T \cap DOMAIN s
    BY <1>0
  <2> QED BY <2>2, <2>3, <2>4
<1>2. ASSUME NEW k \in Graph!ReachableIds(t, R) PROVE k \in Graph!ReachableIds(s, R)
  <2>1. \A T \in SUBSET DOMAIN t :
          (/\ {i \in DOMAIN t : Graph!Reference(i) \in R} \subseteq T
           /\ \A g \in T : {i \in DOMAIN t : Graph!Reference(i) \in Graph!FieldsOf(t, g)} \subseteq T)
            => k \in T
    BY DEF Graph!ReachableIds
  <2>2. k \in DOMAIN s
    <3>1. {i \in DOMAIN t : Graph!Reference(i) \in R} \subseteq DOMAIN s
      OBVIOUS
    <3>2. \A g \in DOMAIN s : {i \in DOMAIN t : Graph!Reference(i) \in Graph!FieldsOf(t, g)} \subseteq DOMAIN s
      BY <1>0
    <3> QED BY <2>1, <3>1, <3>2
  <2> SUFFICES ASSUME NEW S \in SUBSET DOMAIN s,
                      {i \in DOMAIN s : Graph!Reference(i) \in R} \subseteq S,
                      \A g \in S : {i \in DOMAIN s : Graph!Reference(i) \in Graph!FieldsOf(s, g)} \subseteq S
               PROVE  k \in S
    BY <2>2 DEF Graph!ReachableIds
  <2>3. S \in SUBSET DOMAIN t /\ {i \in DOMAIN t : Graph!Reference(i) \in R} \subseteq S
    OBVIOUS
  <2>4. \A g \in S : {i \in DOMAIN t : Graph!Reference(i) \in Graph!FieldsOf(t, g)} \subseteq S
    BY <1>0
  <2> QED BY <2>1, <2>3, <2>4
<1>3. Graph!ReachableIds(s, R) = Graph!ReachableIds(t, R)
  BY <1>1, <1>2
<1>4. \A k \in Graph!ReachableIds(s, R) : s[k] = t[k]
  BY ReachableClosed
<1> QED BY <1>3, <1>4 DEF Graph!Retained

\* Garbage may be forgotten before the roots change, as long as the new ones are
\* reachable.
LEMMA RetainedAgain ==
  ASSUME NEW s, NEW R, NEW Q,
         \A k \in DOMAIN s : Graph!Reference(k) \in Q => k \in Graph!ReachableIds(s, R)
  PROVE  Graph!Retained(Graph!Retained(s, R), Q) = Graph!Retained(s, Q)
<1>1. PICK t : t = Graph!Retained(s, R)
  OBVIOUS
<1>2. DOMAIN t = Graph!ReachableIds(s, R) /\ \A k \in DOMAIN t : t[k] = s[k]
  BY <1>1 DEF Graph!Retained
<1>3. DOMAIN t \subseteq DOMAIN s
  BY <1>2, ReachableClosed
<1>4. \A k \in DOMAIN s, j \in DOMAIN t : Graph!Reference(k) \in Graph!FieldsOf(t, j) => k \in DOMAIN t
  <2>1. \A j \in DOMAIN t : Graph!FieldsOf(t, j) = Graph!FieldsOf(s, j)
    BY <1>2 DEF Graph!FieldsOf
  <2> QED BY <1>2, <2>1, ReachableClosed
<1>5. Graph!Retained(t, Q) = Graph!Retained(s, Q)
  BY <1>2, <1>3, <1>4, RetainedAgree
<1> QED BY <1>1, <1>5

\* It may also be forgotten before an object is made, or changed, of what is reachable.
LEMMA RetainedWith ==
  ASSUME NEW s, NEW R, NEW Q, NEW new, NEW o,
         \A k \in DOMAIN s :
           Graph!Reference(k) \in Q \/ (\E i \in DOMAIN o.fields : o.fields[i] = Graph!Reference(k))
             => k = new \/ k \in Graph!ReachableIds(s, R)
  PROVE  Graph!Retained(Graph!WithObject(Graph!Retained(s, R), new, o), Q)
           = Graph!Retained(Graph!WithObject(s, new, o), Q)
<1>1. PICK t : t = Graph!WithObject(Graph!Retained(s, R), new, o)
  OBVIOUS
<1>2. PICK u : u = Graph!WithObject(s, new, o)
  OBVIOUS
<1>3. /\ DOMAIN t = Graph!ReachableIds(s, R) \cup {new}
      /\ \A k \in DOMAIN t : t[k] = IF k = new THEN o ELSE s[k]
  BY <1>1 DEF Graph!WithObject, Graph!Retained
<1>4. DOMAIN u = DOMAIN s \cup {new} /\ \A k \in DOMAIN u : u[k] = IF k = new THEN o ELSE s[k]
  BY <1>2 DEF Graph!WithObject
<1>5. DOMAIN t \subseteq DOMAIN u /\ \A k \in DOMAIN t : t[k] = u[k]
  BY <1>3, <1>4, ReachableClosed
<1>6. \A k \in DOMAIN u : Graph!Reference(k) \in Q => k \in DOMAIN t
  BY <1>3, <1>4
<1>7. ASSUME NEW k \in DOMAIN u, NEW j \in DOMAIN t, Graph!Reference(k) \in Graph!FieldsOf(t, j)
      PROVE  k \in DOMAIN t
  <2>1. CASE k = new
    BY <1>3, <2>1
  <2>2. CASE k # new /\ j = new
    <3>1. k \in DOMAIN s /\ \E i \in DOMAIN o.fields : o.fields[i] = Graph!Reference(k)
      BY <1>3, <1>4, <1>7, <2>2 DEF Graph!FieldsOf
    <3> QED BY <1>3, <3>1
  <2>3. CASE k # new /\ j # new
    <3>1. k \in DOMAIN s /\ j \in Graph!ReachableIds(s, R)
      BY <1>3, <1>4, <2>3
    <3>2. Graph!Reference(k) \in Graph!FieldsOf(s, j)
      BY <1>3, <1>7, <2>3 DEF Graph!FieldsOf
    <3> QED BY <1>3, <3>1, <3>2, ReachableClosed
  <2> QED BY <2>1, <2>2, <2>3
<1>8. Graph!Retained(t, Q) = Graph!Retained(u, Q)
  BY <1>5, <1>6, <1>7, RetainedAgree
<1> QED BY <1>1, <1>2, <1>8

\* Only the references among the roots matter.
LEMMA RetainedByReferences ==
  ASSUME NEW s, NEW R, NEW Q,
         \A k \in DOMAIN s : Graph!Reference(k) \in R <=> Graph!Reference(k) \in Q
  PROVE  Graph!Retained(s, R) = Graph!Retained(s, Q)
<1>1. {i \in DOMAIN s : Graph!Reference(i) \in R} = {i \in DOMAIN s : Graph!Reference(i) \in Q}
  OBVIOUS
<1>2. Graph!ReachableIds(s, R) = Graph!ReachableIds(s, Q)
  BY <1>1 DEF Graph!ReachableIds
<1> QED BY <1>2 DEF Graph!Retained

-----------------------------------------------------------------------------
(* Stacks                                                                   *)

\* s with its first n elements replaced by those of v.
Exchanged(s, n, v) ==
  [i \in 1 .. (Len(v) + Len(s) - n) |-> IF i <= Len(v) THEN v[i] ELSE s[n + i - Len(v)]]

\* The forms in which the instructions write it.
LEMMA ExchangeForms ==
  ASSUME NEW V, NEW s, s \in Seq(V), NEW n \in 0 .. Len(s), NEW v, v \in Seq(V)
  PROVE  v \o SubSeq(s, n + 1, Len(s)) = Exchanged(s, n, v)
<1>1. PICK r : r = SubSeq(s, n + 1, Len(s))
  OBVIOUS
<1>2. r \in Seq(V) /\ Len(r) = Len(s) - n /\ \A i \in 1 .. (Len(s) - n) : r[i] = s[n + i]
  BY <1>1
<1>3. /\ v \o r \in Seq(V) /\ Len(v \o r) = Len(v) + Len(s) - n
      /\ \A i \in 1 .. (Len(v) + Len(s) - n) : (v \o r)[i] = IF i <= Len(v) THEN v[i] ELSE s[n + i - Len(v)]
  <2>1. v \o r \in Seq(V) /\ Len(v \o r) = Len(v) + Len(r)
    BY <1>2, ConcatProperties
  <2>2. \A i \in 1 .. (Len(v) + Len(r)) : (v \o r)[i] = IF i <= Len(v) THEN v[i] ELSE r[i - Len(v)]
    BY <1>2, ConcatProperties
  <2>0. Len(v) \in Nat /\ Len(r) \in Nat /\ Len(s) \in Nat
    BY <1>2
  <2>3. PICK a, b, c : a = Len(v) /\ b = Len(r) /\ c = Len(s) /\ a \in Nat /\ b \in Nat /\ c \in Nat
    BY <2>0, Zenon
  <2>4. a + b = a + c - n
    BY <1>2, <2>3
  <2>5. ASSUME NEW i \in 1 .. (a + c - n)
        PROVE  (v \o r)[i] = IF i <= a THEN v[i] ELSE s[n + i - a]
    <3>1. CASE i <= a
      BY <2>2, <2>3, <2>4, <3>1
    <3>2. CASE ~(i <= a)
      <4>1. i - a \in 1 .. (c - n) /\ n + (i - a) = n + i - a
        BY <2>3, <3>2
      <4>2. (v \o r)[i] = r[i - a]
        BY <2>2, <2>3, <2>4, <3>2
      <4> QED BY <1>2, <2>3, <3>2, <4>1, <4>2
    <3> QED BY <3>1, <3>2
  <2> QED BY <2>1, <2>3, <2>4, <2>5
<1>4. PICK u : u = v \o r
  OBVIOUS
<1>5. u = [i \in 1 .. Len(u) |-> u[i]] /\ Len(u) = Len(v) + Len(s) - n
  <2>1. u \in Seq(V) /\ Len(u) = Len(v) + Len(s) - n
    BY <1>3, <1>4, Zenon
  <2>2. u = [i \in 1 .. Len(u) |-> u[i]]
    BY ONLY <2>1
  <2> QED BY <2>1, <2>2
<1>6. [i \in 1 .. Len(u) |-> u[i]] = Exchanged(s, n, v)
  BY <1>3, <1>4, <1>5 DEF Exchanged
<1> QED BY <1>1, <1>4, <1>5, <1>6

LEMMA PushedForm ==
  ASSUME NEW V, NEW s, s \in Seq(V), NEW v, v \in Seq(V)
  PROVE  v \o s = Exchanged(s, 0, v)
<1>1. SubSeq(s, 0 + 1, Len(s)) = s
  OBVIOUS
<1>2. 0 \in 0 .. Len(s)
  OBVIOUS
<1>3. v \o SubSeq(s, 0 + 1, Len(s)) = Exchanged(s, 0, v)
  BY <1>2, ExchangeForms
<1> QED BY <1>1, <1>3

LEMMA PoppedForm ==
  ASSUME NEW V, NEW s, s \in Seq(V), NEW n \in 0 .. Len(s)
  PROVE  SubSeq(s, n + 1, Len(s)) = Exchanged(s, n, <<>>)
<1>1. SubSeq(s, n + 1, Len(s)) = [i \in 1 .. (Len(s) - n) |-> s[n + i]]
  OBVIOUS
<1>2. Exchanged(s, n, <<>>) = [i \in 1 .. (Len(s) - n) |-> s[n + i]]
  BY DEF Exchanged
<1> QED BY <1>1, <1>2

LEMMA TailForm ==
  ASSUME NEW V, NEW s, s \in Seq(V), s # <<>>
  PROVE  Tail(s) = Exchanged(s, 1, <<>>) /\ Len(s) >= 1 /\ Head(s) = s[1]
<1>1. Len(s) >= 1 /\ Head(s) = s[1]
  OBVIOUS
<1>2. Tail(s) = [i \in 1 .. (Len(s) - 1) |-> s[1 + i]]
  <2>1. Tail(s) = SubSeq(s, 2, Len(s))
    BY TailIsSubSeq
  <2>2. SubSeq(s, 1 + 1, Len(s)) = [i \in 1 .. (Len(s) - 1) |-> s[1 + i]]
    BY <1>1
  <2>3. 1 + 1 = 2
    OBVIOUS
  <2> QED BY ONLY <2>1, <2>2, <2>3
<1>3. Exchanged(s, 1, <<>>) = [i \in 1 .. (Len(s) - 1) |-> s[1 + i]]
  BY DEF Exchanged
<1> QED BY <1>1, <1>2, <1>3

\* What is left of a concatenation without its first part.
LEMMA RestOfConcatenation ==
  ASSUME NEW V, NEW a, a \in Seq(V), NEW b, b \in Seq(V)
  PROVE  /\ a \o b \in Seq(V) /\ Len(a \o b) = Len(a) + Len(b)
         /\ \A i \in 1 .. Len(a) : (a \o b)[i] = a[i]
         /\ \A i \in 1 .. Len(b) : (a \o b)[Len(a) + i] = b[i]
         /\ SubSeq(a \o b, Len(a) + 1, Len(a \o b)) = b
<1>1. /\ a \o b \in Seq(V) /\ Len(a \o b) = Len(a) + Len(b)
      /\ \A i \in 1 .. Len(a) : (a \o b)[i] = a[i]
      /\ \A i \in 1 .. Len(b) : (a \o b)[Len(a) + i] = b[i]
  OBVIOUS
<1>2. PICK c : c = a \o b
  OBVIOUS
<1>3. SubSeq(c, Len(a) + 1, Len(c)) = [i \in 1 .. Len(b) |-> c[Len(a) + i]]
  BY <1>1, <1>2
<1>4. [i \in 1 .. Len(b) |-> c[Len(a) + i]] = b
  BY <1>1, <1>2
<1> QED BY <1>1, <1>2, <1>3, <1>4

-----------------------------------------------------------------------------
(* Dumps                                                                    *)

\* The dump of the objects at the headers in S is a picture of them.
ObjectAt(h) ==
  [kind |-> mem[h].kind, len |-> mem[h].len,
   fields |-> [i \in DOMAIN mem[h].fields |-> Denotes(mem[h].fields[i])]]

Pictured(S) ==
  /\ DOMAIN StoreOf(Dump(S)) = {mem[h].id : h \in S}
  /\ \A h \in S : StoreOf(Dump(S))[mem[h].id] = ObjectAt(h)
  /\ StoreOf(Dump(S)) = [id \in {mem[h].id : h \in S} |-> StoreOf(Dump(S))[id]]

StoreNow == StoreOf(Dump(DOMAIN mem))
IdentifiedNow == Identified(Dump(DOMAIN mem))

LEMMA DumpPictures ==
  ASSUME NEW S, Identified(Dump(S))
  PROVE  Pictured(S)
<1>1. PICK D : D = Dump(S)
  OBVIOUS
<1>2. D.objects = {DumpObject(S, h) : h \in S}
  BY <1>1 DEF Dump
<1>3. PICK st : st = StoreOf(D)
  OBVIOUS
<1>4. \A h \in S : DumpObject(S, h).id = mem[h].id
  BY DEF DumpObject
<1>5. {r.id : r \in D.objects} = {mem[h].id : h \in S}
  BY <1>2, <1>4
<1>6. DOMAIN st = {mem[h].id : h \in S} /\ st = [id \in {mem[h].id : h \in S} |-> st[id]]
  BY <1>3, <1>5 DEF StoreOf
<1>7. ASSUME NEW h \in S PROVE st[mem[h].id] = ObjectAt(h)
  <2>1. PICK k, d : k = mem[h].id /\ d = DumpObject(S, h)
    OBVIOUS
  <2>2. d \in D.objects /\ d.id = k /\ k \in {r.id : r \in D.objects}
    BY <1>2, <1>4, <2>1
  <2>3. PICK r : r = CHOOSE q \in D.objects : q.id = k
    OBVIOUS
  <2>4. r \in D.objects /\ r.id = k
    BY <2>2, <2>3
  <2>5. r = d
    BY <1>1, <2>2, <2>4 DEF Identified
  <2>6. st[k] = [kind |-> r.kind, len |-> r.len, fields |-> r.fields]
    BY <1>3, <2>2, <2>3 DEF StoreOf
  <2>7. [kind |-> d.kind, len |-> d.len, fields |-> d.fields] = ObjectAt(h)
    BY <2>1 DEF DumpObject, ObjectAt
  <2> QED BY <2>1, <2>5, <2>6, <2>7
<1> QED BY <1>1, <1>3, <1>6, <1>7 DEF Pictured

LEMMA PicturedNow == IdentifiedNow => Pictured(DOMAIN mem)
BY DumpPictures DEF IdentifiedNow

PicturedStore ==
  /\ DOMAIN StoreNow = {mem[h].id : h \in DOMAIN mem}
  /\ \A h \in DOMAIN mem : StoreNow[mem[h].id] = ObjectAt(h)
  /\ StoreNow = [id \in {mem[h].id : h \in DOMAIN mem} |-> StoreNow[id]]

LEMMA StorePictured == IdentifiedNow => PicturedStore
BY PicturedNow DEF Pictured, PicturedStore, StoreNow

\* Objects that a dump tells apart are at different addresses, and the other way round.
Distinct == \A g, h \in DOMAIN mem : mem[g].id = mem[h].id => g = h

LEMMA IdsDistinct ==
  ASSUME IsFiniteSet(DOMAIN mem), DOMAIN mem \subseteq Nat, IdentifiedNow
  PROVE  Distinct /\ \A h \in DOMAIN mem : mem[h].id \in 1..ids
<1>1. PICK D : D = Dump(DOMAIN mem)
  OBVIOUS
<1>2. D.objects = {DumpObject(DOMAIN mem, h) : h \in DOMAIN mem}
  BY <1>1 DEF Dump
<1>3. \A h \in DOMAIN mem : DumpObject(DOMAIN mem, h).id = mem[h].id
  BY DEF DumpObject
<1>0. (\A r \in D.objects : r.id \in 1..ids) /\ \A q, r \in D.objects : q.id = r.id => q = r
  BY <1>1, Zenon DEF IdentifiedNow, Identified
<1>4. \A h \in DOMAIN mem : mem[h].id \in 1..ids
  <2> SUFFICES ASSUME NEW h \in DOMAIN mem PROVE mem[h].id \in 1..ids
    OBVIOUS
  <2>1. DumpObject(DOMAIN mem, h) \in D.objects
    BY <1>2
  <2>2. DumpObject(DOMAIN mem, h).id \in 1..ids
    BY <1>0, <2>1, Zenon
  <2> QED BY <1>3, <2>2, Zenon
<1>5. ASSUME NEW g \in DOMAIN mem, NEW h \in DOMAIN mem, mem[g].id = mem[h].id, g < h
      PROVE  FALSE
  <2>1. DumpObject(DOMAIN mem, g) = DumpObject(DOMAIN mem, h)
    <3>1. PICK d, e : d = DumpObject(DOMAIN mem, g) /\ e = DumpObject(DOMAIN mem, h)
      OBVIOUS
    <3>2. d \in D.objects /\ e \in D.objects
      BY <1>2, <3>1
    <3>3. d.id = e.id
      BY <1>3, <1>5, <3>1
    <3> QED BY <1>0, <3>1, <3>2, <3>3, Zenon
  <2>2. PICK A, B : A = {x \in DOMAIN mem : x < g} /\ B = {x \in DOMAIN mem : x < h}
    OBVIOUS
  <2>3. Cardinality(A) = Cardinality(B)
    <3>1. /\ DumpObject(DOMAIN mem, g).rank = Cardinality({x \in DOMAIN mem : x < g})
          /\ DumpObject(DOMAIN mem, h).rank = Cardinality({x \in DOMAIN mem : x < h})
      BY DEF DumpObject
    <3> QED BY <2>1, <2>2, <3>1, Zenon
  <2>4. IsFiniteSet(B) /\ A \subseteq B /\ g \in B /\ g \notin A
    <3>1. B \subseteq DOMAIN mem /\ A \subseteq B /\ g \in B /\ g \notin A
      BY <1>5, <2>2
    <3> QED BY <3>1, FS_Subset
  <2>5. A = B
    BY <2>3, <2>4, FS_Subset
  <2> QED BY <2>4, <2>5
<1>6. Distinct
  <2> SUFFICES ASSUME NEW g \in DOMAIN mem, NEW h \in DOMAIN mem, mem[g].id = mem[h].id PROVE g = h
    BY DEF Distinct
  <2>1. g \in Nat /\ h \in Nat
    OBVIOUS
  <2> QED BY <1>5, <2>1
<1> QED BY <1>4, <1>6

LEMMA DistinctIdentifies ==
  ASSUME Distinct, NEW S \in SUBSET DOMAIN mem, \A h \in S : mem[h].id \in 1..ids
  PROVE  Identified(Dump(S))
<1>1. PICK D : D = Dump(S)
  OBVIOUS
<1>2. D.objects = {DumpObject(S, h) : h \in S}
  BY <1>1 DEF Dump
<1>3. \A h \in S : DumpObject(S, h).id = mem[h].id
  BY DEF DumpObject
<1> QED BY <1>1, <1>2, <1>3 DEF Identified, Distinct

-----------------------------------------------------------------------------
(* What is reachable, by addresses and by identities                        *)

RootsNow == {Denotes(word[a]) : a \in RootWords(top, extra)}

\* Whatever the collector takes for a pointer is one.
Pointing(v) == IsValidHeapPointer(v) => HeaderOf(v) \in DOMAIN mem
AllPoint ==
  /\ \A a \in RootWords(top, extra) : Pointing(word[a])
  /\ \A h \in DOMAIN mem : \A i \in DOMAIN mem[h].fields : Pointing(mem[h].fields[i])

LEMMA DenotesObject ==
  ASSUME Distinct, NEW v, Pointing(v), NEW h \in DOMAIN mem
  PROVE  Denotes(v) = Graph!Reference(mem[h].id) <=> IsValidHeapPointer(v) /\ HeaderOf(v) = h
<1>1. CASE IsValidHeapPointer(v)
  <2>1. Denotes(v) = <<"object", mem[HeaderOf(v)].id>> /\ HeaderOf(v) \in DOMAIN mem
    BY <1>1 DEF Denotes, Pointing
  <2>2. Denotes(v) = <<"object", mem[h].id>> <=> mem[HeaderOf(v)].id = mem[h].id
    BY ONLY <2>1
  <2>3. mem[HeaderOf(v)].id = mem[h].id <=> HeaderOf(v) = h
    BY <2>1, Zenon DEF Distinct
  <2> QED BY <1>1, <2>2, <2>3 DEF Graph!Reference
<1>2. CASE ~IsValidHeapPointer(v)
  <2>1. Denotes(v)[1] = "word"
    BY <1>2 DEF Denotes
  <2>2. Graph!Reference(mem[h].id)[1] = "object"
    BY DEF Graph!Reference
  <2> QED BY <1>2, <2>1, <2>2
<1> QED BY <1>1, <1>2

\* A set of headers is closed when the set of the identities is.
ClosedIds(T) ==
  /\ {i \in DOMAIN StoreNow : Graph!Reference(i) \in RootsNow} \subseteq T
  /\ \A j \in T : {i \in DOMAIN StoreNow : Graph!Reference(i) \in Graph!FieldsOf(StoreNow, j)} \subseteq T

LEMMA FieldsDenote ==
  ASSUME Pictured(DOMAIN mem), NEW h \in DOMAIN mem
  PROVE  Graph!FieldsOf(StoreNow, mem[h].id) = {Denotes(mem[h].fields[i]) : i \in DOMAIN mem[h].fields}
<1>1. StoreNow[mem[h].id] = ObjectAt(h)
  BY DEF Pictured, StoreNow
<1>2. PICK o : o = ObjectAt(h)
  OBVIOUS
<1>3. /\ DOMAIN o.fields = DOMAIN mem[h].fields
      /\ \A i \in DOMAIN mem[h].fields : o.fields[i] = Denotes(mem[h].fields[i])
  BY <1>2 DEF ObjectAt
<1> QED BY <1>1, <1>2, <1>3 DEF Graph!FieldsOf

LEMMA ClosedAlike ==
  ASSUME Distinct, Pictured(DOMAIN mem), AllPoint,
         NEW S \in SUBSET DOMAIN mem, NEW T, T = {mem[h].id : h \in S}
  PROVE  Closed(S) <=> ClosedIds(T)
<1>1. \A h \in DOMAIN mem : h \in S <=> mem[h].id \in T
  BY DEF Distinct
<1>2. DOMAIN StoreNow = {mem[h].id : h \in DOMAIN mem}
  BY DEF Pictured, StoreNow
<1>3. ASSUME Closed(S) PROVE ClosedIds(T)
  <2>1. ASSUME NEW i \in DOMAIN StoreNow, Graph!Reference(i) \in RootsNow PROVE i \in T
    <3>1. PICK h \in DOMAIN mem : i = mem[h].id
      BY <1>2
    <3>2. PICK a \in RootWords(top, extra) : Graph!Reference(i) = Denotes(word[a])
      BY <2>1 DEF RootsNow
    <3>3. IsValidHeapPointer(word[a]) /\ HeaderOf(word[a]) = h
      BY <3>1, <3>2, DenotesObject DEF AllPoint
    <3> QED BY <1>1, <1>3, <3>1, <3>3 DEF Closed
  <2>2. ASSUME NEW j \in T, NEW i \in DOMAIN StoreNow, Graph!Reference(i) \in Graph!FieldsOf(StoreNow, j)
        PROVE  i \in T
    <3>1. PICK h \in DOMAIN mem : i = mem[h].id
      BY <1>2
    <3>2. PICK g \in S : j = mem[g].id
      OBVIOUS
    <3>3. PICK k \in DOMAIN mem[g].fields : Graph!Reference(i) = Denotes(mem[g].fields[k])
      BY <2>2, <3>2, FieldsDenote
    <3>4. IsValidHeapPointer(mem[g].fields[k]) /\ HeaderOf(mem[g].fields[k]) = h
      BY <3>1, <3>3, DenotesObject DEF AllPoint
    <3> QED BY <1>1, <1>3, <3>1, <3>4 DEF Closed
  <2> QED BY <2>1, <2>2 DEF ClosedIds
<1>4. ASSUME ClosedIds(T) PROVE Closed(S)
  <2>1. ASSUME NEW a \in RootWords(top, extra), IsValidHeapPointer(word[a])
        PROVE  HeaderOf(word[a]) \in S
    <3>1. PICK h \in DOMAIN mem : h = HeaderOf(word[a])
      BY <2>1 DEF AllPoint, Pointing
    <3>2. Denotes(word[a]) = Graph!Reference(mem[h].id)
      BY <2>1, <3>1, DenotesObject DEF AllPoint
    <3>3. mem[h].id \in T
      BY <1>2, <1>4, <3>2 DEF ClosedIds, RootsNow
    <3> QED BY <1>1, <3>1, <3>3
  <2>2. ASSUME NEW g \in S, NEW k \in DOMAIN mem[g].fields, IsValidHeapPointer(mem[g].fields[k])
        PROVE  HeaderOf(mem[g].fields[k]) \in S
    <3>1. PICK h \in DOMAIN mem : h = HeaderOf(mem[g].fields[k])
      BY <2>2 DEF AllPoint, Pointing
    <3>2. Denotes(mem[g].fields[k]) = Graph!Reference(mem[h].id)
      BY <2>2, <3>1, DenotesObject DEF AllPoint
    <3>3. Graph!Reference(mem[h].id) \in Graph!FieldsOf(StoreNow, mem[g].id)
      BY <3>2, FieldsDenote
    <3>4. mem[h].id \in T
      BY <1>2, <1>4, <3>3 DEF ClosedIds
    <3> QED BY <1>1, <3>1, <3>4
  <2> QED BY <2>1, <2>2 DEF Closed
<1> QED BY <1>3, <1>4

LEMMA ReachableAlike ==
  ASSUME Distinct, Pictured(DOMAIN mem), AllPoint
  PROVE  Graph!ReachableIds(StoreNow, RootsNow) = {mem[h].id : h \in Reachable}
<1>0. DOMAIN StoreNow = {mem[h].id : h \in DOMAIN mem}
  BY DEF Pictured, StoreNow
<1>1. Graph!ReachableIds(StoreNow, RootsNow)
        = {id \in DOMAIN StoreNow : \A T \in SUBSET DOMAIN StoreNow : ClosedIds(T) => id \in T}
  BY DEF Graph!ReachableIds, ClosedIds
<1>2. ASSUME NEW h \in Reachable PROVE mem[h].id \in Graph!ReachableIds(StoreNow, RootsNow)
  <2>1. h \in DOMAIN mem
    BY DEF Reachable
  <2> SUFFICES ASSUME NEW T \in SUBSET DOMAIN StoreNow, ClosedIds(T) PROVE mem[h].id \in T
    BY <1>0, <1>1, <2>1
  <2>2. PICK S : S = {g \in DOMAIN mem : mem[g].id \in T}
    OBVIOUS
  <2>3. T = {mem[g].id : g \in S} /\ S \in SUBSET DOMAIN mem
    BY <1>0, <2>2
  <2>4. Closed(S)
    BY <2>3, ClosedAlike
  <2>5. h \in S
    BY <2>3, <2>4 DEF Reachable
  <2> QED BY <2>3, <2>5
<1>3. ASSUME NEW id \in Graph!ReachableIds(StoreNow, RootsNow) PROVE id \in {mem[h].id : h \in Reachable}
  <2>1. PICK h \in DOMAIN mem : id = mem[h].id
    BY <1>0, <1>1
  <2> SUFFICES ASSUME NEW S \in SUBSET DOMAIN mem, Closed(S) PROVE h \in S
    BY <2>1 DEF Reachable
  <2>2. PICK T : T = {mem[g].id : g \in S}
    OBVIOUS
  <2>3. T \in SUBSET DOMAIN StoreNow
    BY <1>0, <2>2
  <2>4. ClosedIds(T)
    BY <2>2, ClosedAlike
  <2>5. id \in T
    BY <1>1, <2>3, <2>4
  <2> QED BY <2>1, <2>2, <2>5 DEF Distinct
<1> QED BY <1>2, <1>3

\* When the marking is over the dump has lost nothing that the roots reach.
LEMMA MarkedRetained ==
  ASSUME Distinct, Pictured(DOMAIN mem), Pictured(Marked), AllPoint, Closed(Marked)
  PROVE  Graph!Retained(StoreOf(Dump(Marked)), RootsNow) = Graph!Retained(StoreNow, RootsNow)
<1>1. PICK s, T : s = StoreOf(Dump(Marked)) /\ T = {mem[h].id : h \in Marked}
  OBVIOUS
<1>2. DOMAIN s = T /\ \A h \in Marked : s[mem[h].id] = ObjectAt(h)
  BY <1>1 DEF Pictured
<1>3. DOMAIN StoreNow = {mem[h].id : h \in DOMAIN mem} /\ \A h \in DOMAIN mem : StoreNow[mem[h].id] = ObjectAt(h)
  BY DEF Pictured, StoreNow
<1>4. Marked \in SUBSET DOMAIN mem
  BY DEF Marked
<1>5. DOMAIN s \subseteq DOMAIN StoreNow /\ \A k \in DOMAIN s : s[k] = StoreNow[k]
  BY <1>1, <1>2, <1>3, <1>4
<1>6. ClosedIds(T)
  BY <1>1, <1>4, ClosedAlike
<1>7. \A k \in DOMAIN StoreNow : Graph!Reference(k) \in RootsNow => k \in DOMAIN s
  BY <1>2, <1>6 DEF ClosedIds
<1>8. \A k \in DOMAIN StoreNow, j \in DOMAIN s :
        Graph!Reference(k) \in Graph!FieldsOf(s, j) => k \in DOMAIN s
  <2>1. \A j \in DOMAIN s : Graph!FieldsOf(s, j) = Graph!FieldsOf(StoreNow, j)
    BY <1>5 DEF Graph!FieldsOf
  <2> QED BY <1>2, <1>6, <2>1 DEF ClosedIds
<1>9. Graph!Retained(s, RootsNow) = Graph!Retained(StoreNow, RootsNow)
  BY <1>5, <1>7, <1>8, RetainedAgree
<1> QED BY <1>1, <1>9

-----------------------------------------------------------------------------
(* The view of the program between two instructions                         *)

StackNow == [i \in 1..Depth |-> Denotes(word[top + i])]
GlobalsNow == [g \in Globals |-> Denotes(word[g])]

ViewIs ==
  View = [store |-> Graph!Retained(StoreNow, RootsNow), stack |-> StackNow, globals |-> GlobalsNow]

LEMMA HeapPoints ==
  ASSUME FieldsPointToObjects(mem, heap.begin, heap.current),
         RootsPointToObjects(mem, heap.begin, heap.current, word, top, extra)
  PROVE  AllPoint
BY DEF FieldsPointToObjects, RootsPointToObjects, PointsToObject, AllPoint, Pointing,
       IsValidHeapPointer, InChunk

LEMMA RunPoints == RunInv /\ extra = <<>> => AllPoint
<1> SUFFICES ASSUME RunInv, extra = <<>> PROVE AllPoint
  OBVIOUS
<1>1. /\ HeapConsistent /\ ProcessInv /\ FieldsSound /\ WordsSound(word, RootWords(top, <<>>))
      /\ RootWords(top, <<>>) \subseteq Words /\ word \in [Words -> Int]
      /\ \A h \in DOMAIN mem : mem[h] \in Object
  BY DEF RunInv, HeapConsistent, ProcessInv
<1>2. \A a \in RootWords(top, <<>>) : Pointing(word[a])
  BY <1>1, SoundPointer DEF WordsSound, Pointing
<1>3. ASSUME NEW h \in DOMAIN mem, NEW i \in DOMAIN mem[h].fields PROVE Pointing(mem[h].fields[i])
  <2>1. mem[h].fields[i] \in Int
    BY <1>1 DEF Object
  <2> QED BY <1>1, <2>1, SoundPointer DEF FieldsSound, Pointing
<1> QED BY <1>2, <1>3 DEF AllPoint

LEMMA RunDistinct == RunInv /\ IdentifiedNow => Distinct /\ \A h \in DOMAIN mem : mem[h].id \in 1..ids
<1> SUFFICES ASSUME RunInv, IdentifiedNow PROVE Distinct /\ \A h \in DOMAIN mem : mem[h].id \in 1..ids
  OBVIOUS
<1>1. IsFiniteSet(DOMAIN mem) /\ DOMAIN mem \subseteq Nat
  BY DEF RunInv, HeapConsistent
<1> QED BY <1>1, IdsDistinct

\* The objects that the program can reach, by their identities.
LEMMA ViewPictured == RunInv /\ extra = <<>> /\ IdentifiedNow => ViewIs
<1> SUFFICES ASSUME RunInv, extra = <<>>, IdentifiedNow PROVE ViewIs
  OBVIOUS
<1>1. Distinct /\ Pictured(DOMAIN mem) /\ AllPoint
  BY RunDistinct, PicturedNow, RunPoints
<1>2. PICK I : I = {mem[h].id : h \in Reachable}
  OBVIOUS
<1>3. Graph!ReachableIds(StoreNow, RootsNow) = I
  BY <1>1, <1>2, ReachableAlike
<1>4. Reachable \subseteq DOMAIN mem
  BY DEF Reachable
<1>5. PICK s : s = [id \in {mem[h].id : h \in Reachable} |->
                 LET h == CHOOSE g \in Reachable : mem[g].id = id IN
                   [kind |-> mem[h].kind, len |-> mem[h].len,
                    fields |-> [i \in DOMAIN mem[h].fields |-> Denotes(mem[h].fields[i])]]]
  OBVIOUS
<1>6. s = [id \in I |-> ObjectAt(CHOOSE g \in Reachable : mem[g].id = id)]
  BY <1>2, <1>5, Zenon DEF ObjectAt
<1>7. ASSUME NEW id \in I
      PROVE  ObjectAt(CHOOSE g \in Reachable : mem[g].id = id) = StoreNow[id]
  <2>1. PICK h : h = CHOOSE g \in Reachable : mem[g].id = id
    OBVIOUS
  <2>2. h \in Reachable /\ mem[h].id = id
    BY <1>2, <2>1
  <2>3. StoreNow[mem[h].id] = ObjectAt(h)
    BY <1>1, <1>4, <2>2 DEF Pictured, StoreNow
  <2> QED BY <2>1, <2>2, <2>3
<1>8. s = [id \in I |-> StoreNow[id]]
  BY <1>6, <1>7
<1>9. s = Graph!Retained(StoreNow, RootsNow)
  BY <1>3, <1>8 DEF Graph!Retained
<1>10. View = [store |-> s, stack |-> StackNow, globals |-> GlobalsNow]
  BY <1>5, Zenon DEF View, StackNow, GlobalsNow
<1> QED BY <1>9, <1>10 DEF ViewIs

\* Its roots are its operands and its global variables.
LEMMA RootsOfView ==
  ASSUME top \in Nat, extra = <<>>
  PROVE  RootsNow = {StackNow[i] : i \in 1..Depth} \cup {GlobalsNow[g] : g \in Globals}
<1>1. RootWords(top, extra) = ((top + 1) .. (StackBottom - 1)) \cup Globals
  BY OperandsAndGlobals
<1>2. {Denotes(word[a]) : a \in (top + 1) .. (StackBottom - 1)} = {StackNow[i] : i \in 1..Depth}
  <2>1. ASSUME NEW a \in (top + 1) .. (StackBottom - 1)
        PROVE  Denotes(word[a]) \in {StackNow[i] : i \in 1..Depth}
    <3>1. PICK i : i = a - top
      OBVIOUS
    <3>2. i \in 1..Depth /\ top + i = a
      BY <3>1, Layout DEF Depth
    <3> QED BY <3>2 DEF StackNow
  <2>2. ASSUME NEW i \in 1..Depth
        PROVE  StackNow[i] \in {Denotes(word[a]) : a \in (top + 1) .. (StackBottom - 1)}
    <3>1. top + i \in (top + 1) .. (StackBottom - 1)
      BY Layout DEF Depth
    <3> QED BY <3>1 DEF StackNow
  <2> QED BY <2>1, <2>2
<1>3. {Denotes(word[a]) : a \in Globals} = {GlobalsNow[g] : g \in Globals}
  BY DEF GlobalsNow
<1> QED BY <1>1, <1>2, <1>3 DEF RootsNow

-----------------------------------------------------------------------------
(* Instructions that do not allocate                                        *)

\* What a value denotes depends on where the objects are and on who they are.
LEMMA DenotesAlike ==
  ASSUME heap' = heap, DOMAIN mem' = DOMAIN mem, SameIds(mem, mem'), NEW v, Pointing(v)
  PROVE  Denotes(v)' = Denotes(v)
BY DEF Denotes, Pointing, IsValidHeapPointer, InChunk, SameIds

LEMMA NumberDenotes ==
  ASSUME ProcessInv, NEW v \in Int, v < GlobalStop
  PROVE  Denotes(v) = <<"word", v>> /\ \A k : Denotes(v) # Graph!Reference(k)
<1>1. ~IsValidHeapPointer(v)
  BY Layout DEF ProcessInv, IsValidHeapPointer, InChunk
<1>2. Denotes(v) = <<"word", v>>
  BY <1>1 DEF Denotes
<1>3. \A k : Graph!Reference(k) # <<"word", v>>
  BY DEF Graph!Reference
<1> QED BY <1>2, <1>3

\* The operands after a change of the stack, with d for what the new ones denote.
LEMMA StackAfter ==
  ASSUME top \in Nat, top < StackBottom, NEW w, NEW n \in Nat, n <= Depth,
         NEW vs \in Seq(Int), Replace(w, n, vs),
         top + n - Len(vs) \in Nat,
         (top + n - Len(vs) + 1) .. (StackBottom - 1) \subseteq Words,
         NEW d, DOMAIN d = 1 .. Len(vs), Len(d) = Len(vs),
         \A i \in 1 .. Len(vs) : Denotes(vs[i])' = d[i],
         \A a \in (top + n + 1) .. (StackBottom - 1) : Denotes(w[a])' = Denotes(word[a])
  PROVE  StackNow' = Exchanged(StackNow, n, d)
<1>11. Len(vs) \in Nat
  BY ONLY vs \in Seq(Int)
<1>1. PICK m \in Nat : m = Len(vs)
  BY ONLY <1>11
<1>2. PICK t \in Nat : t = top + n - m
  BY <1>1
<1>0. PICK u : u = word'
  OBVIOUS
<1>3. /\ top' = t
      /\ \A a \in Words : u[a] = IF a \in t + 1 .. top + n THEN vs[a - t] ELSE w[a]
  BY <1>0, <1>1, <1>2 DEF Replace
<1>4. PICK k \in Nat : k = Depth
  BY Layout DEF Depth
<1>5. Depth' = m + k - n /\ k = StackBottom - 1 - top /\ StackBottom \in Nat
  BY <1>2, <1>3, <1>4, Layout DEF Depth
<1>6. StackNow = [i \in 1..k |-> Denotes(word[top + i])]
  BY <1>4 DEF StackNow
<1>7. Len(StackNow) = k
  BY <1>6
<1>8. Exchanged(StackNow, n, d) = [i \in 1 .. (m + k - n) |-> IF i <= m THEN d[i] ELSE StackNow[n + i - m]]
  BY <1>1, <1>7 DEF Exchanged
<1>9. ASSUME NEW i \in 1 .. (m + k - n)
      PROVE  Denotes(u[t + i])' = IF i <= m THEN d[i] ELSE StackNow[n + i - m]
  <2>1. t + i \in Words /\ t + i \in Nat
    <3>1. t + i \in (t + 1) .. (StackBottom - 1)
      BY <1>2, <1>5
    <3>2. (t + 1) .. (StackBottom - 1) \subseteq Words
      BY <1>1, <1>2
    <3> QED BY <3>1, <3>2
  <2>2. CASE i <= m
    <3>1. t + i \in t + 1 .. top + n /\ t + i - t = i /\ i \in 1..m
      BY <1>2, <2>2
    <3>2. u[t + i] = vs[i]
      BY <1>3, <2>1, <3>1
    <3>3. Denotes(vs[i])' = d[i]
      BY <1>1, <3>1
    <3>4. Denotes(u[t + i])' = Denotes(vs[i])'
      BY <3>2, Zenon
    <3> QED BY <2>2, <3>3, <3>4
  <2>3. CASE ~(i <= m)
    <3>1. PICK a, j : a = t + i /\ j = n + i - m
      OBVIOUS
    <3>2. a \notin t + 1 .. top + n /\ a = top + j /\ j \in 1..k /\ a \in (top + n + 1) .. (StackBottom - 1)
      BY <1>2, <1>5, <2>3, <3>1
    <3>3. u[a] = w[a]
      BY <1>3, <2>1, <3>1, <3>2
    <3>4. Denotes(w[a])' = Denotes(word[a])
      BY <3>2
    <3>5. StackNow[j] = Denotes(word[a])
      BY <1>6, <3>2
    <3>6. Denotes(u[t + i])' = Denotes(w[a])'
      BY <3>1, <3>3, Zenon
    <3> QED BY <2>3, <3>1, <3>4, <3>5, <3>6
  <2> QED BY <2>2, <2>3
<1>10. StackNow' = [i \in 1 .. (m + k - n) |-> Denotes(u[t + i])']
  BY <1>0, <1>3, <1>5 DEF StackNow, Denotes, IsValidHeapPointer
<1> QED BY <1>8, <1>9, <1>10

\* The state between two instructions.
ProgramAt == RunInv /\ extra = <<>> /\ IdentifiedNow /\ view = View

LEMMA BetweenView == ProgramAt => ViewIs
BY ViewPictured DEF ProgramAt

RootsAre == RootsNow = {StackNow[i] : i \in 1..Depth} \cup {GlobalsNow[g] : g \in Globals}

LEMMA BetweenRoots == ProgramAt => RootsAre
BY RootsOfView DEF ProgramAt, RootsAre, RunInv, ProcessInv

DistinctNow == Distinct /\ \A h \in DOMAIN mem : mem[h].id \in 1..ids

LEMMA NowDistinct == RunInv /\ IdentifiedNow => DistinctNow
BY RunDistinct DEF DistinctNow

LEMMA DistinctNowIdentifies == DistinctNow => IdentifiedNow
<1> SUFFICES ASSUME DistinctNow PROVE IdentifiedNow
  OBVIOUS
<1>1. PICK S : S = DOMAIN mem
  OBVIOUS
<1>2. S \in SUBSET DOMAIN mem
  BY <1>1
<1>3. Identified(Dump(S))
  BY <1>1, <1>2, DistinctIdentifies DEF DistinctNow
<1> QED BY <1>1, <1>3 DEF IdentifiedNow

LEMMA StillDistinct ==
  ASSUME DistinctNow, DOMAIN mem' = DOMAIN mem, SameIds(mem, mem'), ids' = ids
  PROVE  DistinctNow' /\ IdentifiedNow'
<1>1. DistinctNow'
  BY DEF DistinctNow, Distinct, SameIds
<1> QED BY <1>1, DistinctNowIdentifies, PTL

\* A value that the program can get at, or that is no reference.
Known(d) ==
  \A k \in DOMAIN StoreNow :
    d = Graph!Reference(k) => k \in Graph!ReachableIds(StoreNow, RootsNow)

LEMMA OperandsKnown ==
  /\ \A a \in RootWords(top, extra) : Known(Denotes(word[a]))
  /\ \A w : Known(<<"word", w>>)
<1>1. ASSUME NEW a \in RootWords(top, extra) PROVE Known(Denotes(word[a]))
  <2>1. Denotes(word[a]) \in RootsNow
    BY DEF RootsNow
  <2> QED BY <2>1, ReachableClosed DEF Known
<1>2. \A k, w : <<"word", w>> # Graph!Reference(k)
  BY DEF Graph!Reference
<1> QED BY <1>1, <1>2 DEF Known

\* What the view becomes, from any store that retains the same.
LEMMA BecomeFrom ==
  ASSUME ProgramAt', NEW s, Graph!Retained(s, RootsNow') = Graph!Retained(StoreNow', RootsNow')
  PROVE  Graph!Become(s, StackNow', GlobalsNow')
<1>1. ViewIs' /\ RootsAre'
  BY BetweenView, BetweenRoots, PTL
<1>2. view' = View'
  BY DEF ProgramAt
<1>3. PICK st, gl, R, t : st = StackNow' /\ gl = GlobalsNow' /\ R = RootsNow' /\ t = StoreNow'
  OBVIOUS
<1>4. view' = [store |-> Graph!Retained(t, R), stack |-> st, globals |-> gl]
  BY <1>1, <1>2, <1>3 DEF ViewIs
<1>5. R = {st[i] : i \in DOMAIN st} \cup {gl[g] : g \in Globals}
  BY <1>1, <1>3 DEF RootsAre, StackNow
<1>6. Graph!Retained(s, R) = Graph!Retained(t, R)
  BY <1>3
<1>7. view'.store = Graph!Retained(s, R) /\ view'.stack = st /\ view'.globals = gl
  BY <1>4, <1>6
<1>8. Graph!Become(s, st, gl)
  BY <1>5, <1>7 DEF Graph!Become
<1> QED BY <1>3, <1>8

\* What is on the stack is known, when what replaces operands is.
LEMMA ExchangedKnown ==
  ASSUME ProgramAt, NEW n \in Nat, n <= Depth, NEW d, Len(d) \in Nat,
         \A i \in 1 .. Len(d) : Known(d[i]), NEW st, st = Exchanged(StackNow, n, d)
  PROVE  \A i \in DOMAIN st : Known(st[i])
<1> SUFFICES ASSUME NEW i \in DOMAIN st PROVE Known(st[i])
  OBVIOUS
<1>1. /\ top \in Nat /\ top < StackBottom /\ extra = <<>>
  BY DEF ProgramAt, RunInv, ProcessInv
<1>2. PICK m \in Nat : m = Len(d)
  OBVIOUS
<1>3. PICK k \in Nat : k = Depth /\ top + k = StackBottom - 1
  BY <1>1, Layout DEF Depth
<1>4. PICK s : s = StackNow
  OBVIOUS
<1>5. s = [j \in 1..k |-> Denotes(word[top + j])] /\ Len(s) = k
  BY <1>3, <1>4 DEF StackNow
<1>6. st = [j \in 1 .. (m + k - n) |-> IF j <= m THEN d[j] ELSE s[n + j - m]]
  BY <1>2, <1>4, <1>5 DEF Exchanged
<1>7. CASE i <= m
  BY <1>2, <1>6, <1>7
<1>8. CASE ~(i <= m)
  <2>1. PICK j \in 1..k : j = n + i - m
    BY <1>3, <1>6, <1>8
  <2>2. st[i] = Denotes(word[top + j])
    BY <1>5, <1>6, <1>8, <2>1
  <2>3. top + j \in (top + 1) .. (StackBottom - 1)
    BY <1>1, <1>3
  <2>4. top + j \in RootWords(top, extra)
    BY <1>1, <2>3, OperandsAndGlobals
  <2> QED BY <2>2, <2>4, OperandsKnown
<1> QED BY <1>7, <1>8

\* An instruction that replaces the n topmost operands by what d denotes, and may assign
\* variables (w instead of word).
LEMMA InstructionView ==
  ASSUME ProgramAt, ProgramAt', UNCHANGED <<mem, heap>>,
         NEW w, NEW n \in Nat, n <= Depth, NEW vs \in Seq(Int), Replace(w, n, vs),
         Len(vs) <= n \/ Room(Len(vs) - n),
         \A a \in (top + 1) .. (StackBottom - 1) : w[a] = word[a],
         NEW d, DOMAIN d = 1 .. Len(vs), Len(d) = Len(vs),
         \A i \in 1 .. Len(vs) : Denotes(vs[i]) = d[i] /\ Known(d[i]),
         \A g \in Globals : Known(Denotes(w[g]))
  PROVE  Graph!Become(view.store, Exchanged(view.stack, n, d), [g \in Globals |-> Denotes(w[g])])
<1>1. /\ top \in Nat /\ top < StackBottom /\ RootWords(top, <<>>) \subseteq Words
      /\ ViewIs /\ view = View /\ Len(vs) \in Nat /\ extra = <<>>
  BY BetweenView DEF ProgramAt, RunInv, ProcessInv
<1>2. \A v : Denotes(v)' = Denotes(v)
  BY DEF Denotes, IsValidHeapPointer, InChunk
<1>3. /\ top + n - Len(vs) \in Nat
      /\ (top + n - Len(vs) + 1) .. (StackBottom - 1) \subseteq Words
      /\ top' = top + n - Len(vs)
  <2>1. CASE Len(vs) <= n
    <3>1. (top + 1) .. (StackBottom - 1) \subseteq Words
      BY <1>1, OperandsAndGlobals
    <3>2. top + n - Len(vs) >= top /\ top + n - Len(vs) \in Nat
      BY <1>1, <2>1
    <3> QED BY <1>1, <3>1, <3>2, Layout DEF Replace
  <2>2. CASE Room(Len(vs) - n)
    <3>1. PICK k \in Int : k = Len(vs) - n
      BY <1>1
    <3>2. top - k \in Nat /\ (top - k + 1) .. (StackBottom - 1) \subseteq Words
      BY <1>1, <2>2, <3>1, RoomForOperands
    <3>3. top - k = top + n - Len(vs)
      BY <1>1, <3>1
    <3> QED BY <3>2, <3>3 DEF Replace
  <2> QED BY <2>1, <2>2
<1>4. \A a \in (top + n + 1) .. (StackBottom - 1) : Denotes(w[a])' = Denotes(word[a])
  BY <1>1, <1>2, Layout
<1>5. PICK st : st = Exchanged(StackNow, n, d)
  OBVIOUS
<1>6. StackNow' = st
  BY <1>1, <1>2, <1>3, <1>4, <1>5, StackAfter
<1>7. PICK gl : gl = [g \in Globals |-> Denotes(w[g])]
  OBVIOUS
<1>8. GlobalsNow' = gl
  <2>1. ASSUME NEW g \in Globals PROVE Denotes(word'[g]) = Denotes(w[g])
    <3>1. g \in Words /\ g \notin top + n - Len(vs) + 1 .. top + n
      BY <1>1, Layout DEF Depth
    <3> QED BY <3>1 DEF Replace
  <2>2. GlobalsNow' = [g \in Globals |-> Denotes(word'[g])]
    BY DEF GlobalsNow, Denotes, IsValidHeapPointer, InChunk
  <2> QED BY <1>7, <2>1, <2>2
<1>9. StoreNow' = StoreNow
  BY DEF StoreNow, StoreOf, Dump, DumpObject, Denotes, IsValidHeapPointer, InChunk
<1>10. \A g \in Globals : Known(gl[g])
  BY <1>7
<1>11. ASSUME NEW i \in DOMAIN st PROVE Known(st[i])
  BY <1>5, ExchangedKnown
<1>12. PICK s, R, Q : s = StoreNow /\ R = RootsNow /\ Q = RootsNow'
  OBVIOUS
<1>13. Q = {st[i] : i \in DOMAIN st} \cup {gl[g] : g \in Globals}
  <2>1. RootsAre'
    BY BetweenRoots, PTL
  <2> QED BY <1>6, <1>8, <1>12, <2>1 DEF RootsAre, StackNow
<1>14. \A k \in DOMAIN s : Graph!Reference(k) \in Q => k \in Graph!ReachableIds(s, R)
  BY <1>10, <1>11, <1>12, <1>13 DEF Known
<1>15. PICK v : v = Graph!Retained(s, R)
  OBVIOUS
<1>16. Graph!Retained(v, Q) = Graph!Retained(s, Q)
  BY <1>14, <1>15, RetainedAgain
<1>17. Graph!Become(v, StackNow', GlobalsNow')
  BY <1>9, <1>12, <1>16, BecomeFrom
<1>18. view.store = v /\ view.stack = StackNow
  BY <1>1, <1>12, <1>15 DEF ViewIs
<1> QED BY <1>5, <1>6, <1>7, <1>8, <1>17, <1>18

Denoted == {Denotes(v) : v \in Int}

\* The parts of the view.
LEMMA ViewParts ==
  ASSUME ProgramAt
  PROVE  /\ view.store = Graph!Retained(StoreNow, RootsNow)
         /\ view.stack \in Seq(Denoted) /\ Len(view.stack) = Depth /\ Depth \in Nat
         /\ DOMAIN view.stack = 1..Depth
         /\ \A i \in 1..Depth : view.stack[i] = Denotes(word[top + i])
         /\ view.globals = [g \in Globals |-> Denotes(word[g])]
         /\ \A i \in 1..Depth : word[top + i] \in Int /\ Known(view.stack[i])
         /\ \A g \in Globals : word[g] \in Int /\ Known(Denotes(word[g]))
<1>1. ViewIs /\ view = View /\ RunInv /\ extra = <<>>
  BY BetweenView DEF ProgramAt
<1>2. top \in Nat /\ top < StackBottom /\ RootWords(top, <<>>) \subseteq Words /\ word \in [Words -> Int]
  BY <1>1 DEF RunInv, ProcessInv
<1>3. Depth \in Nat /\ top + Depth = StackBottom - 1
  BY <1>2, Layout DEF Depth
<1>4. /\ view.store = Graph!Retained(StoreNow, RootsNow)
      /\ view.stack = StackNow /\ view.globals = GlobalsNow
  BY <1>1 DEF ViewIs
<1>5. ASSUME NEW i \in 1..Depth PROVE word[top + i] \in Int /\ top + i \in RootWords(top, extra)
  <2>1. top + i \in (top + 1) .. (StackBottom - 1)
    BY <1>2, <1>3
  <2>2. top + i \in RootWords(top, <<>>)
    BY <1>2, <2>1, OperandsAndGlobals
  <2> QED BY <1>1, <1>2, <2>2
<1>6. ASSUME NEW g \in Globals PROVE word[g] \in Int /\ g \in RootWords(top, extra)
  <2>1. g \in RootWords(top, <<>>)
    BY <1>2, OperandsAndGlobals
  <2> QED BY <1>1, <1>2, <2>1
<1>7. PICK k \in Nat : k = Depth
  BY <1>3
<1>8. StackNow = [i \in 1..k |-> Denotes(word[top + i])]
  BY <1>7 DEF StackNow
<1>9. \A i \in 1..k : Denotes(word[top + i]) \in Denoted
  BY <1>5, <1>7 DEF Denoted
<1>10. StackNow \in Seq(Denoted) /\ Len(StackNow) = k /\ DOMAIN StackNow = 1..k
  BY <1>8, <1>9
<1> QED BY <1>3, <1>4, <1>5, <1>6, <1>7, <1>8, <1>10, OperandsKnown DEF GlobalsNow

\* Values are pushed.
LEMMA PushView ==
  ASSUME ProgramAt, ProgramAt', UNCHANGED <<mem, heap>>,
         NEW vs \in Seq(Int), Replace(word, 0, vs), Room(Len(vs)),
         NEW d \in Seq(Denoted), Len(d) = Len(vs),
         \A i \in 1 .. Len(vs) : Denotes(vs[i]) = d[i] /\ Known(d[i])
  PROVE  Graph!Become(view.store, d \o view.stack, view.globals)
<1>1. PICK st : st = view.stack
  OBVIOUS
<1>2. st \in Seq(Denoted)
  BY <1>1, ViewParts
<1>3. d \o st = Exchanged(st, 0, d)
  BY <1>2, PushedForm
<1>4. DOMAIN d = 1 .. Len(vs) /\ Len(vs) \in Nat /\ Len(vs) - 0 = Len(vs)
  OBVIOUS
<1>5. PICK n \in Nat : n = 0
  OBVIOUS
<1>6. Depth \in Nat /\ n <= Depth
  BY <1>5, ViewParts
<1>7. Replace(word, n, vs) /\ Room(Len(vs) - n)
  BY <1>4, <1>5
<1>8. Graph!Become(view.store, Exchanged(view.stack, n, d), [g \in Globals |-> Denotes(word[g])])
  BY <1>4, <1>6, <1>7, ViewParts, InstructionView
<1> QED BY <1>1, <1>3, <1>5, <1>8, ViewParts

\* Values replace operands, and a variable may be assigned.
LEMMA ReplaceView ==
  ASSUME ProgramAt, ProgramAt', UNCHANGED <<mem, heap>>,
         NEW w, NEW n \in Nat, n <= Depth,
         NEW vs \in Seq(Int), Replace(w, n, vs), Len(vs) <= n,
         \A a \in (top + 1) .. (StackBottom - 1) : w[a] = word[a],
         NEW d \in Seq(Denoted), Len(d) = Len(vs),
         \A i \in 1 .. Len(vs) : Denotes(vs[i]) = d[i] /\ Known(d[i]),
         \A g \in Globals : Known(Denotes(w[g]))
  PROVE  Graph!Become(view.store, d \o Graph!Pop(n), [g \in Globals |-> Denotes(w[g])])
<1>1. PICK st : st = view.stack
  OBVIOUS
<1>2. st \in Seq(Denoted) /\ n \in 0 .. Len(st)
  BY <1>1, ViewParts
<1>3. d \o SubSeq(st, n + 1, Len(st)) = Exchanged(st, n, d)
  BY <1>2, ExchangeForms
<1>4. DOMAIN d = 1 .. Len(vs)
  OBVIOUS
<1>5. Graph!Become(view.store, Exchanged(view.stack, n, d), [g \in Globals |-> Denotes(w[g])])
  BY <1>4, InstructionView
<1>6. Graph!Pop(n) = SubSeq(st, n + 1, Len(st))
  BY <1>1 DEF Graph!Pop
<1> QED BY <1>1, <1>3, <1>5, <1>6

LEMMA PushNumberView ==
  ASSUME ProgramAt, ProgramAt', PushNumber
  PROVE  Graph!PushNumber
<1>1. PICK vs, d : /\ vs = <<Number>> /\ d = <<Denotes(Number)>>
                   /\ Replace(word, 0, vs) /\ Room(1) /\ UNCHANGED <<mem, heap>>
  BY Zenon DEF PushNumber, UnchangedHeap
<1>2. Denotes(Number) = <<"word", Number>> /\ Number \in Int
  BY NumberDenotes, Layout DEF ProgramAt, RunInv
<1>3. Denotes(Number) \in Denoted /\ Known(Denotes(Number))
  BY <1>2, OperandsKnown DEF Denoted
<1>4. /\ vs \in Seq(Int) /\ Len(vs) = 1 /\ d \in Seq(Denoted) /\ Len(d) = 1
      /\ \A i \in 1..1 : vs[i] = Number /\ d[i] = Denotes(Number)
  BY ONLY <1>1, <1>2, <1>3
<1>5. Graph!Become(view.store, d \o view.stack, view.globals)
  BY <1>1, <1>3, <1>4, PushView
<1>6. d = <<Graph!Number>>
  BY <1>1, <1>2 DEF Graph!Number, Number
<1> QED BY <1>5, <1>6 DEF Graph!PushNumber, Graph!Push

\* One operand is pushed.
LEMMA PushOneView ==
  ASSUME ProgramAt, ProgramAt', UNCHANGED <<mem, heap>>, Room(1),
         NEW v \in Int, Known(Denotes(v)), NEW vs, vs = <<v>>, Replace(word, 0, vs)
  PROVE  Graph!Become(view.store, <<Denotes(v)>> \o view.stack, view.globals)
<1>1. PICK d, e : d = <<e>> /\ e = Denotes(v)
  OBVIOUS
<1>2. e \in Denoted
  BY <1>1 DEF Denoted
<1>3. /\ vs \in Seq(Int) /\ Len(vs) = 1 /\ d \in Seq(Denoted) /\ Len(d) = 1
      /\ \A i \in 1..1 : vs[i] = v /\ d[i] = e
  BY ONLY <1>1, <1>2, v \in Int, vs = <<v>>
<1>4. Graph!Become(view.store, d \o view.stack, view.globals)
  BY <1>1, <1>3, PushView
<1> QED BY <1>1, <1>4

LEMMA DupView ==
  ASSUME ProgramAt, ProgramAt', Dup
  PROVE  Graph!Dup
<1>1. PICK vs : /\ vs = <<word[top + 1]>> /\ Depth > 0
                /\ Replace(word, 0, vs) /\ Room(1) /\ UNCHANGED <<mem, heap>>
  BY Zenon DEF Dup, UnchangedHeap
<1>2. 1 \in 1..Depth
  BY <1>1, ViewParts
<1>3. PICK v \in Int : v = word[top + 1] /\ view.stack[1] = Denotes(v) /\ Known(Denotes(v))
  BY <1>2, ViewParts
<1>4. Graph!Become(view.store, <<Denotes(v)>> \o view.stack, view.globals)
  BY <1>1, <1>3, PushOneView
<1>5. view.stack # <<>> /\ Head(view.stack) = Denotes(v)
  <2>1. PICK s : s = view.stack
    OBVIOUS
  <2>2. s \in Seq(Denoted) /\ Len(s) > 0 /\ s[1] = Denotes(v)
    BY <1>1, <1>3, <2>1, ViewParts
  <2>3. s # <<>> /\ Head(s) = s[1]
    BY <2>2
  <2> QED BY <2>1, <2>2, <2>3
<1> QED BY <1>4, <1>5 DEF Graph!Dup, Graph!Push

LEMMA LoadView ==
  ASSUME ProgramAt, ProgramAt', NEW g \in Globals, Load(g)
  PROVE  Graph!Load(g)
<1>1. PICK vs, v : /\ vs = <<v>> /\ v = word[g]
                   /\ Replace(word, 0, vs) /\ Room(1) /\ UNCHANGED <<mem, heap>>
  BY Zenon DEF Load, UnchangedHeap
<1>2. v \in Int /\ Known(Denotes(v)) /\ view.globals[g] = Denotes(v)
  BY <1>1, ViewParts
<1>3. Graph!Become(view.store, <<Denotes(v)>> \o view.stack, view.globals)
  BY <1>1, <1>2, PushOneView
<1> QED BY <1>2, <1>3 DEF Graph!Load, Graph!Push

LEMMA LoadAddressView ==
  ASSUME ProgramAt, ProgramAt', NEW g \in Globals, LoadAddress(g)
  PROVE  Graph!LoadAddress(g)
<1>1. PICK vs, d, e : /\ vs = <<g, g>> /\ d = <<e, e>> /\ e = Denotes(g)
                      /\ Replace(word, 0, vs) /\ Room(2) /\ UNCHANGED <<mem, heap>>
  BY Zenon DEF LoadAddress, UnchangedHeap
<1>2. g \in Int /\ e = <<"word", g>>
  BY <1>1, NumberDenotes, Layout DEF ProgramAt, RunInv
<1>3. e \in Denoted /\ Known(e)
  BY <1>1, <1>2, OperandsKnown DEF Denoted
<1>4. /\ vs \in Seq(Int) /\ Len(vs) = 2 /\ d \in Seq(Denoted) /\ Len(d) = 2
      /\ \A i \in 1..2 : vs[i] = g /\ d[i] = e
  BY ONLY <1>1, <1>2, <1>3
<1>5. Graph!Become(view.store, d \o view.stack, view.globals)
  BY <1>1, <1>3, <1>4, PushView
<1> QED BY <1>1, <1>2, <1>5 DEF Graph!LoadAddress, Graph!Address

LEMMA LocalsView ==
  ASSUME ProgramAt, ProgramAt', NEW n \in 1..MaxLocals, Locals(n)
  PROVE  Graph!Locals(n)
<1>1. PICK vs, d, e : /\ vs = [i \in 1..n |-> Number] /\ d = [i \in 1..n |-> e] /\ e = Denotes(Number)
                      /\ Replace(word, 0, vs) /\ Room(n) /\ UNCHANGED <<mem, heap>>
  BY Zenon DEF Locals, InitialLocals, UnchangedHeap
<1>2. e = <<"word", Number>> /\ Number \in Int /\ n \in Nat
  BY <1>1, NumberDenotes, Layout DEF ProgramAt, RunInv
<1>3. e \in Denoted /\ Known(e)
  BY <1>1, <1>2, OperandsKnown DEF Denoted
<1>4. /\ vs \in Seq(Int) /\ Len(vs) = n /\ d \in Seq(Denoted) /\ Len(d) = n
      /\ \A i \in 1..n : vs[i] = Number /\ d[i] = e
  <2>1. \A i \in 1..n : vs[i] = Number /\ d[i] = e
    BY <1>1
  <2>2. vs \in Seq(Int) /\ Len(vs) = n
    BY <1>1, <1>2
  <2>3. d \in Seq(Denoted) /\ Len(d) = n
    <3>1. d = [i \in 1..n |-> e]
      BY <1>1
    <3>2. PICK V : V = Denoted
      OBVIOUS
    <3>3. e \in V
      BY <1>3, <3>2
    <3>4. d \in Seq(V) /\ Len(d) = n
      BY ONLY <1>2, <3>1, <3>3
    <3> QED BY <3>2, <3>4
  <2> QED BY <2>1, <2>2, <2>3
<1>5. Graph!Become(view.store, d \o view.stack, view.globals)
  BY <1>1, <1>3, <1>4, PushView
<1>6. d = [i \in 1..n |-> Graph!Number]
  BY <1>1, <1>2 DEF Graph!Number, Number
<1> QED BY <1>5, <1>6 DEF Graph!Locals

LEMMA DropView ==
  ASSUME ProgramAt, ProgramAt', Drop
  PROVE  Graph!Drop
<1>1. PICK vs, n : /\ vs = <<>> /\ Depth > 0 /\ n = 1
                   /\ Replace(word, n, vs) /\ UNCHANGED <<mem, heap>>
  BY Zenon DEF Drop, UnchangedHeap
<1>2. /\ vs \in Seq(Int) /\ Len(vs) = 0 /\ vs \in Seq(Denoted) /\ n \in Nat /\ n <= Depth /\ Len(vs) <= n
      /\ \A i \in 1 .. Len(vs) : FALSE
  BY <1>1, ViewParts
<1>3. Graph!Become(view.store, vs \o Graph!Pop(n), [g \in Globals |-> Denotes(word[g])])
  BY <1>1, <1>2, ViewParts, ReplaceView
<1>4. PICK s : s = view.stack
  OBVIOUS
<1>5. s \in Seq(Denoted) /\ Len(s) > 0 /\ s # <<>>
  BY <1>1, <1>4, ViewParts
<1>6. Graph!Pop(1) = Tail(s)
  <2>1. SubSeq(s, 1 + 1, Len(s)) = Exchanged(s, 1, <<>>)
    <3>1. 1 \in 0 .. Len(s)
      BY <1>5
    <3> QED BY <1>5, <3>1, PoppedForm
  <2>2. Tail(s) = Exchanged(s, 1, <<>>)
    BY <1>5, TailForm
  <2> QED BY <1>4, <2>1, <2>2 DEF Graph!Pop
<1>7. Tail(s) \in Seq(Denoted)
  BY <1>5
<1>8. <<>> \o Tail(s) = Tail(s)
  BY <1>7
<1> QED BY <1>1, <1>3, <1>4, <1>5, <1>6, <1>8, ViewParts DEF Graph!Drop

LEMMA StoreView ==
  ASSUME ProgramAt, ProgramAt', NEW g \in Globals, Store(g)
  PROVE  Graph!Store(g)
<1>1. /\ word' = [word EXCEPT ![g] = word[top + 1]] /\ top' = top /\ Depth > 0
      /\ UNCHANGED <<mem, heap>>
  BY DEF Store, UnchangedHeap
<1>2. top \in Nat /\ word \in [Words -> Int]
  BY DEF ProgramAt, RunInv, ProcessInv
<1>3. PICK w, vs, n : w = word' /\ vs = <<>> /\ n = 0
  OBVIOUS
<1>4. w \in [Words -> Int] /\ \A a \in Words : w[a] = IF a = g THEN word[top + 1] ELSE word[a]
  <2>1. word[top + 1] \in Int
    <3>1. 1 \in 1..Depth
      BY <1>1, ViewParts
    <3> QED BY <3>1, ViewParts
  <2> QED BY <1>1, <1>2, <1>3, <2>1, Layout
<1>5. Replace(w, n, vs)
  <2>1. Len(vs) = 0 /\ top + n - Len(vs) = top /\ top + n = top
    BY <1>2, <1>3
  <2>2. \A a \in Words : a \notin top + 1 .. top
    BY <1>2, Layout
  <2>3. w = [a \in Words |-> w[a]]
    BY <1>4
  <2> QED BY <1>1, <1>3, <2>1, <2>2, <2>3 DEF Replace
<1>6. /\ vs \in Seq(Int) /\ Len(vs) = 0 /\ vs \in Seq(Denoted) /\ n \in Nat /\ n <= Depth /\ Len(vs) <= n
      /\ \A i \in 1 .. Len(vs) : FALSE
  BY <1>3, ViewParts
<1>7. \A a \in (top + 1) .. (StackBottom - 1) : w[a] = word[a]
  <2> SUFFICES ASSUME NEW a \in (top + 1) .. (StackBottom - 1) PROVE w[a] = word[a]
    OBVIOUS
  <2>1. a # g
    BY <1>2, Layout
  <2>2. a \in Words
    BY <1>2, OperandsAndGlobals DEF ProgramAt, RunInv, ProcessInv
  <2> QED BY <1>4, <2>1, <2>2
<1>8. PICK v : v = Denotes(word[top + 1]) /\ v = view.stack[1] /\ Known(v)
  <2>1. 1 \in 1..Depth
    BY <1>1, ViewParts
  <2> QED BY <2>1, ViewParts
<1>9. \A f \in Globals : Known(Denotes(w[f])) /\ Denotes(w[f]) = IF f = g THEN v ELSE Denotes(word[f])
  <2>1. Globals \subseteq Words
    BY Layout
  <2> QED BY <1>4, <1>8, <2>1, ViewParts
<1>10. Graph!Become(view.store, vs \o Graph!Pop(n), [f \in Globals |-> Denotes(w[f])])
  BY <1>1, <1>5, <1>6, <1>7, <1>9, ReplaceView
<1>11. PICK s : s = view.stack /\ s \in Seq(Denoted) /\ Len(s) > 0
  BY <1>1, ViewParts
<1>12. <<>> \o SubSeq(s, 0 + 1, Len(s)) = s /\ s # <<>> /\ Head(s) = v
  BY <1>8, <1>11
<1>13. [f \in Globals |-> Denotes(w[f])] = [view.globals EXCEPT ![g] = v]
  <2>1. view.globals = [f \in Globals |-> Denotes(word[f])]
    BY ViewParts
  <2> QED BY <1>9, <2>1
<1> QED BY <1>3, <1>10, <1>11, <1>12, <1>13 DEF Graph!Store, Graph!Pop

LEMMA StoreAtView ==
  ASSUME ProgramAt, ProgramAt', NEW g \in Globals, StoreAt(g)
  PROVE  Graph!SetGlobal(g)
<1>1. PICK w, vs, n, x : /\ x = word[top + 1] /\ w = [word EXCEPT ![g] = x] /\ vs = <<x>> /\ n = 3
                         /\ Replace(w, n, vs)
  BY Zenon DEF StoreAt
<1>2. Depth >= 3 /\ word[top + 3] = g /\ UNCHANGED <<mem, heap>>
  BY Zenon DEF StoreAt, UnchangedHeap
<1>3. top \in Nat /\ word \in [Words -> Int]
  BY DEF ProgramAt, RunInv, ProcessInv
<1>4. 1 \in 1..Depth /\ 3 \in 1..Depth /\ Depth \in Nat
  BY <1>2, ViewParts
<1>5. PICK v : v = Denotes(x) /\ v = view.stack[1] /\ Known(v) /\ x \in Int
  BY <1>1, <1>4, ViewParts
<1>6. \A a \in Words : w[a] = IF a = g THEN x ELSE word[a]
  BY <1>1, <1>3, Layout
<1>7. \A a \in (top + 1) .. (StackBottom - 1) : w[a] = word[a]
  <2> SUFFICES ASSUME NEW a \in (top + 1) .. (StackBottom - 1) PROVE w[a] = word[a]
    OBVIOUS
  <2>1. a # g
    BY <1>3, Layout
  <2>2. a \in Words
    BY <1>3, OperandsAndGlobals DEF ProgramAt, RunInv, ProcessInv
  <2> QED BY <1>6, <2>1, <2>2
<1>8. \A f \in Globals : Known(Denotes(w[f])) /\ Denotes(w[f]) = IF f = g THEN v ELSE Denotes(word[f])
  <2>1. Globals \subseteq Words
    BY Layout
  <2> QED BY <1>5, <1>6, <2>1, ViewParts
<1>9. PICK d : d = <<v>>
  OBVIOUS
<1>10. v \in Denoted
  BY <1>5 DEF Denoted
<1>11. /\ vs \in Seq(Int) /\ Len(vs) = 1 /\ d \in Seq(Denoted) /\ Len(d) = 1
       /\ \A i \in 1..1 : vs[i] = x /\ d[i] = v
  BY ONLY <1>1, <1>5, <1>9, <1>10
<1>12. n \in Nat /\ n <= Depth /\ Len(vs) <= n
  BY <1>1, <1>2, <1>11
<1>13. Graph!Become(view.store, d \o Graph!Pop(n), [f \in Globals |-> Denotes(w[f])])
  <2>1. \A i \in 1 .. Len(vs) : Denotes(vs[i]) = d[i] /\ Known(d[i])
    BY <1>5, <1>11
  <2>2. d \in Seq(Denoted) /\ Len(d) = Len(vs) /\ vs \in Seq(Int)
    BY <1>11
  <2>3. Replace(w, n, vs) /\ UNCHANGED <<mem, heap>>
    BY <1>1, <1>2
  <2>4. \A f \in Globals : Known(Denotes(w[f]))
    BY <1>8
  <2> QED BY <1>7, <1>12, <2>1, <2>2, <2>3, <2>4, ReplaceView
<1>14. view.stack[3] = Graph!Address(g)
  <2>1. view.stack[3] = Denotes(word[top + 3])
    BY <1>4, ViewParts
  <2>2. g \in Int /\ g < GlobalStop
    BY Layout
  <2> QED BY <1>2, <2>1, <2>2, NumberDenotes DEF ProgramAt, RunInv, Graph!Address
<1>15. [f \in Globals |-> Denotes(w[f])] = [view.globals EXCEPT ![g] = v]
  <2>1. view.globals = [f \in Globals |-> Denotes(word[f])]
    BY ViewParts
  <2> QED BY <1>8, <2>1
<1>16. Len(view.stack) >= 3
  BY <1>2, ViewParts
<1> QED BY <1>1, <1>5, <1>9, <1>13, <1>14, <1>15, <1>16 DEF Graph!SetGlobal

\* The object that an operand refers to, in the view.
LEMMA ContainerView ==
  ASSUME ProgramAt, NEW k \in 1..Depth, IsValidHeapPointer(word[top + k]),
         NEW h, h = HeaderOf(word[top + k])
  PROVE  /\ h \in DOMAIN mem /\ mem[h].id \in DOMAIN view.store
         /\ view.stack[k] = Graph!Reference(mem[h].id)
         /\ view.store[mem[h].id] = ObjectAt(h)
         /\ DOMAIN ObjectAt(h).fields = DOMAIN mem[h].fields
         /\ \A i \in DOMAIN mem[h].fields :
              /\ mem[h].fields[i] \in Int
              /\ ObjectAt(h).fields[i] = Denotes(mem[h].fields[i])
              /\ Known(Denotes(mem[h].fields[i]))
<1>1. RunInv /\ IdentifiedNow /\ extra = <<>> /\ k \in Nat \ {0} /\ k <= Depth
  BY ViewParts DEF ProgramAt
<1>2. h \in DOMAIN mem /\ \A i \in DOMAIN mem[h].fields : mem[h].fields[i] \in Int
  BY <1>1, ContainerIsObject
<1>3. view.stack[k] = Denotes(word[top + k]) /\ Known(view.stack[k])
  BY ViewParts
<1>4. Denotes(word[top + k]) = Graph!Reference(mem[h].id)
  BY DEF Denotes, Graph!Reference
<1>5. Pictured(DOMAIN mem)
  BY <1>1, PicturedNow
<1>6. mem[h].id \in DOMAIN StoreNow /\ StoreNow[mem[h].id] = ObjectAt(h)
  BY <1>2, <1>5 DEF Pictured, StoreNow
<1>7. PICK id : id = mem[h].id
  OBVIOUS
<1>8. id \in Graph!ReachableIds(StoreNow, RootsNow)
  BY <1>3, <1>4, <1>6, <1>7 DEF Known
<1>9. id \in DOMAIN view.store /\ view.store[id] = StoreNow[id]
  BY <1>8, ViewParts DEF Graph!Retained
<1>10. /\ DOMAIN ObjectAt(h).fields = DOMAIN mem[h].fields
       /\ \A i \in DOMAIN mem[h].fields : ObjectAt(h).fields[i] = Denotes(mem[h].fields[i])
  BY DEF ObjectAt
<1>11. ASSUME NEW i \in DOMAIN mem[h].fields PROVE Known(Denotes(mem[h].fields[i]))
  <2>1. Denotes(mem[h].fields[i]) \in Graph!FieldsOf(StoreNow, id)
    BY <1>2, <1>5, <1>7, FieldsDenote
  <2> QED BY <1>8, <2>1, ReachableClosed DEF Known
<1> QED BY <1>2, <1>3, <1>4, <1>6, <1>7, <1>9, <1>10, <1>11

LEMMA ElemView ==
  ASSUME ProgramAt, ProgramAt', NEW i \in 1..MaxLen, Elem(i)
  PROVE  \E id \in DOMAIN view.store : i \in DOMAIN view.store[id].fields /\ Graph!GetField(id, i)
<1>1. PICK h : h = HeaderOf(word[top + 2])
  OBVIOUS
<1>2. Depth >= 2 /\ IsValidHeapPointer(word[top + 2])
  BY Zenon DEF Elem
<1>3. 2 \in 1..Depth
  BY <1>2, ViewParts
<1>4. h \in DOMAIN mem
  BY <1>1, <1>2, <1>3, ContainerView
<1>5. PICK vs, n, x : /\ x = mem[h].fields[i] /\ vs = <<x>> /\ n = 2 /\ i \in DOMAIN mem[h].fields
                      /\ Replace(word, n, vs) /\ UNCHANGED <<mem, heap>>
  BY <1>1, <1>4, Zenon DEF Elem, Reading, UnchangedHeap
<1>6. PICK id, v : id = mem[h].id /\ v = Denotes(x)
  OBVIOUS
<1>7. /\ id \in DOMAIN view.store /\ view.stack[2] = Graph!Reference(id)
      /\ i \in DOMAIN view.store[id].fields /\ view.store[id].fields[i] = v
      /\ x \in Int /\ Known(v)
  BY <1>1, <1>2, <1>3, <1>5, <1>6, ContainerView
<1>8. PICK d : d = <<v>>
  OBVIOUS
<1>9. v \in Denoted
  BY <1>6, <1>7 DEF Denoted
<1>10. /\ vs \in Seq(Int) /\ Len(vs) = 1 /\ d \in Seq(Denoted) /\ Len(d) = 1
       /\ \A j \in 1..1 : vs[j] = x /\ d[j] = v
  BY ONLY <1>5, <1>7, <1>8, <1>9
<1>11. Graph!Become(view.store, d \o Graph!Pop(n), [g \in Globals |-> Denotes(word[g])])
  <2>1. \A j \in 1 .. Len(vs) : Denotes(vs[j]) = d[j] /\ Known(d[j])
    BY <1>6, <1>7, <1>10
  <2>2. n \in Nat /\ n <= Depth /\ Len(vs) <= n /\ Len(d) = Len(vs)
    BY <1>2, <1>5, <1>10
  <2>3. Replace(word, n, vs) /\ UNCHANGED <<mem, heap>>
    BY <1>5
  <2>4. vs \in Seq(Int) /\ d \in Seq(Denoted)
    BY <1>10
  <2> QED BY <2>1, <2>2, <2>3, <2>4, ViewParts, ReplaceView
<1>12. Graph!GetField(id, i)
  <2>1. Len(view.stack) >= 2
    BY <1>2, ViewParts
  <2> QED BY <1>5, <1>7, <1>8, <1>11, <2>1, ViewParts DEF Graph!GetField
<1> QED BY <1>7, <1>12

\* One operand v takes the place of n of them.
LEMMA ReplaceOneView ==
  ASSUME ProgramAt, ProgramAt', UNCHANGED <<mem, heap>>,
         NEW n \in Nat \ {0}, n <= Depth,
         NEW v \in Int, Known(Denotes(v)), Replace(word, n, <<v>>)
  PROVE  Graph!Become(view.store, <<Denotes(v)>> \o Graph!Pop(n), view.globals)
<1>1. PICK vs, e, d : vs = <<v>> /\ e = Denotes(v) /\ d = <<e>>
  OBVIOUS
<1>2. e \in Denoted
  BY <1>1 DEF Denoted
<1>3. /\ vs \in Seq(Int) /\ Len(vs) = 1 /\ d \in Seq(Denoted) /\ Len(d) = 1
      /\ \A j \in 1..1 : vs[j] = v /\ d[j] = e
  BY ONLY <1>1, <1>2, v \in Int
<1>4. \A j \in 1 .. Len(vs) : Denotes(vs[j]) = d[j] /\ Known(d[j])
  BY <1>1, <1>3
<1>5. Len(vs) <= n /\ Len(d) = Len(vs)
  BY <1>3
<1>6. vs \in Seq(Int) /\ d \in Seq(Denoted) /\ Replace(word, n, vs)
  BY <1>1, <1>3
<1>7. Graph!Become(view.store, d \o Graph!Pop(n), [g \in Globals |-> Denotes(word[g])])
  <2>1. n \in Nat /\ n <= Depth /\ Len(vs) <= n
    BY <1>5
  <2> QED BY <1>4, <1>5, <1>6, <2>1, ViewParts, ReplaceView
<1>8. view.globals = [g \in Globals |-> Denotes(word[g])]
  BY ViewParts
<1> QED BY <1>1, <1>7, <1>8

LEMMA ElemCharView ==
  ASSUME ProgramAt, ProgramAt', ElemChar
  PROVE  \E id \in DOMAIN view.store : Graph!GetChar(id)
<1>1. PICK h, id : h = HeaderOf(word[top + 2]) /\ id = mem[h].id
  OBVIOUS
<1>2. Depth >= 2 /\ IsValidHeapPointer(word[top + 2])
  BY Zenon DEF ElemChar
<1>3. 2 \in 1..Depth
  BY <1>2, ViewParts
<1>4. /\ h \in DOMAIN mem /\ id \in DOMAIN view.store /\ view.stack[2] = Graph!Reference(id)
      /\ view.store[id] = ObjectAt(h)
  BY <1>1, <1>2, <1>3, ContainerView
<1>5. mem[h].kind = "STRING" /\ Replace(word, 2, <<Number>>) /\ UNCHANGED <<mem, heap>>
  BY <1>1, <1>4, Zenon DEF ElemChar, Reading, UnchangedHeap
<1>6. Denotes(Number) = Graph!Number /\ Number \in Int /\ Known(Denotes(Number))
  BY NumberDenotes, OperandsKnown, Layout DEF ProgramAt, RunInv, Graph!Number, Number
<1>7. Graph!Become(view.store, <<Graph!Number>> \o Graph!Pop(2), view.globals)
  BY <1>2, <1>5, <1>6, ReplaceOneView
<1>8. view.store[id].kind = "STRING" /\ Len(view.stack) >= 2
  BY <1>2, <1>4, <1>5, ViewParts DEF ObjectAt
<1> QED BY <1>4, <1>7, <1>8 DEF Graph!GetChar

LEMMA StoreCharView ==
  ASSUME ProgramAt, ProgramAt', StoreChar
  PROVE  \E id \in DOMAIN view.store : Graph!SetChar(id)
<1>1. PICK h, id, v : h = HeaderOf(word[top + 3]) /\ id = mem[h].id /\ v = word[top + 1]
  OBVIOUS
<1>2. Depth >= 3 /\ IsValidHeapPointer(word[top + 3])
  BY Zenon DEF StoreChar
<1>3. 1 \in 1..Depth /\ 3 \in 1..Depth
  BY <1>2, ViewParts
<1>4. /\ h \in DOMAIN mem /\ id \in DOMAIN view.store /\ view.stack[3] = Graph!Reference(id)
      /\ view.store[id] = ObjectAt(h)
  BY <1>1, <1>2, <1>3, ContainerView
<1>5. mem[h].kind = "STRING" /\ mem[h].len > 0 /\ Replace(word, 3, <<v>>) /\ UNCHANGED <<mem, heap>>
  BY <1>1, <1>4, Zenon DEF StoreChar, Reading, UnchangedHeap
<1>6. v \in Int /\ Denotes(v) = view.stack[1] /\ Known(Denotes(v))
  BY <1>1, <1>3, ViewParts
<1>7. Graph!Become(view.store, <<view.stack[1]>> \o Graph!Pop(3), view.globals)
  BY <1>2, <1>5, <1>6, ReplaceOneView
<1>8. view.store[id].kind = "STRING" /\ view.store[id].len > 0 /\ Len(view.stack) >= 3
  BY <1>2, <1>4, <1>5, ViewParts DEF ObjectAt
<1> QED BY <1>4, <1>7, <1>8 DEF Graph!SetChar

\* The store, when one object has become another one.
LEMMA StoreChanged ==
  ASSUME Distinct, PicturedStore, PicturedStore', DOMAIN mem' = DOMAIN mem, SameIds(mem, mem'),
         NEW h \in DOMAIN mem, NEW id, id = mem[h].id, NEW o,
         \A g \in DOMAIN mem : ObjectAt(g)' = IF g = h THEN o ELSE ObjectAt(g),
         NEW s, s = StoreNow, NEW t, t = StoreNow'
  PROVE  t = Graph!WithObject(s, id, o)
<1>1. PICK ident : ident = [g \in DOMAIN mem |-> mem[g].id]
  OBVIOUS
<1>2. \A g \in DOMAIN mem : mem[g].id = ident[g] /\ mem'[g].id = ident[g]
  BY <1>1 DEF SameIds
<1>3. /\ DOMAIN s = {mem[g].id : g \in DOMAIN mem}
      /\ \A g \in DOMAIN mem : s[mem[g].id] = ObjectAt(g)
  BY Zenon DEF PicturedStore
<1>4. /\ DOMAIN t = {mem'[g].id : g \in DOMAIN mem'}
      /\ \A g \in DOMAIN mem' : t[mem'[g].id] = ObjectAt(g)'
      /\ t = [k \in {mem'[g].id : g \in DOMAIN mem'} |-> t[k]]
  BY Zenon DEF PicturedStore
<1>5. /\ DOMAIN s = {ident[g] : g \in DOMAIN mem}
      /\ \A g \in DOMAIN mem : s[ident[g]] = ObjectAt(g)
  BY <1>2, <1>3
<1>6. /\ DOMAIN t = {ident[g] : g \in DOMAIN mem}
      /\ \A g \in DOMAIN mem : t[ident[g]] = ObjectAt(g)'
      /\ t = [k \in DOMAIN t |-> t[k]]
  BY <1>2, <1>4
<1>7. \A g \in DOMAIN mem : g = h <=> ident[g] = id
  BY <1>2 DEF Distinct
<1>8. DOMAIN t = DOMAIN s \cup {id}
  BY <1>2, <1>5, <1>6
<1>9. \A k \in DOMAIN t : t[k] = IF k = id THEN o ELSE s[k]
  BY <1>5, <1>6, <1>7
<1>10. t = [k \in DOMAIN s \cup {id} |-> IF k = id THEN o ELSE s[k]]
  BY <1>6, <1>8, <1>9
<1> QED BY <1>10 DEF Graph!WithObject

LEMMA StoreElemView ==
  ASSUME ProgramAt, ProgramAt', NEW i \in 1..MaxLen, StoreElem(i)
  PROVE  \E id \in DOMAIN view.store : i \in DOMAIN view.store[id].fields /\ Graph!SetField(id, i)
<1>1. PICK h, v : h = HeaderOf(word[top + 3]) /\ v = word[top + 1]
  OBVIOUS
<1>2. Depth >= 3 /\ IsValidHeapPointer(word[top + 3])
  BY Zenon DEF StoreElem
<1>3. 1 \in 1..Depth /\ 3 \in 1..Depth
  BY <1>2, ViewParts
<1>4. h \in DOMAIN mem
  BY <1>1, <1>2, <1>3, ContainerView
<1>5. PICK vs, n : /\ vs = <<v>> /\ n = 3 /\ i \in DOMAIN mem[h].fields
                   /\ mem' = [mem EXCEPT ![h].fields[i] = v]
                   /\ Replace(word, n, vs) /\ heap' = heap
  BY <1>1, <1>4, Zenon DEF StoreElem, Reading, UnchangedHeap
<1>6. /\ top \in Nat /\ top < StackBottom /\ RootWords(top, <<>>) \subseteq Words /\ extra = <<>>
      /\ \A g \in DOMAIN mem : mem[g] \in Object
  BY DEF ProgramAt, RunInv, ProcessInv, HeapConsistent
<1>7. /\ DOMAIN mem' = DOMAIN mem /\ \A g \in DOMAIN mem : g # h => mem'[g] = mem[g]
      /\ mem'[h] = [mem[h] EXCEPT !.fields = [mem[h].fields EXCEPT ![i] = v]]
  BY <1>4, <1>5
<1>8. /\ mem'[h].kind = mem[h].kind /\ mem'[h].len = mem[h].len /\ mem'[h].id = mem[h].id
      /\ mem'[h].fields = [mem[h].fields EXCEPT ![i] = v]
  BY <1>4, <1>6, <1>7 DEF Object
<1>9. SameIds(mem, mem')
  BY <1>7, <1>8 DEF SameIds
<1>10. \A x : Pointing(x) => Denotes(x)' = Denotes(x)
  BY <1>5, <1>7, <1>9, DenotesAlike
<1>11. AllPoint
  BY RunPoints DEF ProgramAt
<1>12. PICK id, e : id = mem[h].id /\ e = Denotes(v)
  OBVIOUS
<1>13. v \in Int /\ view.stack[1] = e /\ Known(e) /\ Denotes(v)' = e
  <2>1. v \in Int /\ view.stack[1] = e /\ Known(e)
    BY <1>1, <1>3, <1>12, ViewParts
  <2>2. top + 1 \in RootWords(top, extra)
    <3>1. top + 1 \in (top + 1) .. (StackBottom - 1)
      BY <1>2, <1>6, Layout DEF Depth
    <3> QED BY <1>6, <3>1, OperandsAndGlobals
  <2> QED BY <1>1, <1>10, <1>11, <1>12, <2>1, <2>2 DEF AllPoint
<1>14. PICK d : d = <<e>>
  OBVIOUS
<1>15. /\ vs \in Seq(Int) /\ Len(vs) = 1 /\ DOMAIN d = 1..1 /\ Len(d) = 1 /\ d \in Seq({e})
       /\ \A j \in 1..1 : vs[j] = v /\ d[j] = e
  BY ONLY <1>5, <1>13, <1>14
<1>16. PICK st, gl, s, t, r, R, Q :
         /\ st = Exchanged(StackNow, n, d) /\ gl = GlobalsNow /\ s = StoreNow /\ t = StoreNow'
         /\ r = Graph!Retained(s, R) /\ R = RootsNow /\ Q = RootsNow'
  OBVIOUS
<1>17. StackNow' = st
  <2>1. n \in Nat /\ n <= Depth
    BY <1>2, <1>5
  <2>2. top + n - Len(vs) \in Nat /\ (top + n - Len(vs) + 1) .. (StackBottom - 1) \subseteq Words
    <3>1. top + n - Len(vs) = top + 2
      <4>1. n = 3 /\ Len(vs) = 1 /\ top \in Nat
        BY <1>5, <1>6, <1>15
      <4>2. PICK l : l = Len(vs)
        OBVIOUS
      <4>3. l = 1
        BY <4>1, <4>2
      <4>4. top + n - l = top + 2
        BY ONLY <4>1, <4>3
      <4> QED BY <4>2, <4>4
    <3>2. (top + 2 + 1) .. (StackBottom - 1) \subseteq (top + 1) .. (StackBottom - 1)
      BY <1>6, Layout
    <3> QED BY <1>6, <3>1, <3>2, OperandsAndGlobals
  <2>3. PICK w : w = word
    OBVIOUS
  <2>4. ASSUME NEW a \in (top + n + 1) .. (StackBottom - 1)
        PROVE  Denotes(w[a])' = Denotes(word[a])
    <3>1. a \in (top + 1) .. (StackBottom - 1)
      BY SMTT(30), <1>5, <1>6, Layout
    <3>2. a \in RootWords(top, extra)
      BY <1>6, <3>1, OperandsAndGlobals
    <3>3. PICK x : x = w[a]
      OBVIOUS
    <3>4. Pointing(x) /\ x = word[a]
      BY <1>11, <2>3, <3>2, <3>3 DEF AllPoint
    <3> QED BY <1>10, <3>3, <3>4
  <2>5. Replace(w, n, vs)
    BY <1>5, <2>3
  <2>6. \A j \in 1 .. Len(vs) : Denotes(vs[j])' = d[j]
    BY <1>13, <1>15
  <2>7. vs \in Seq(Int) /\ DOMAIN d = 1 .. Len(vs) /\ Len(d) = Len(vs)
    BY <1>15
  <2>8. StackNow' = Exchanged(StackNow, n, d)
    BY <1>6, <2>1, <2>2, <2>4, <2>5, <2>6, <2>7, StackAfter
  <2> QED BY <1>16, <2>8
<1>18. GlobalsNow' = gl
  <2>1. PICK u : u = word'
    OBVIOUS
  <2>2. ASSUME NEW g \in Globals PROVE Denotes(u[g])' = Denotes(word[g])
    <3>1. g \in Words /\ g \notin top + n - Len(vs) + 1 .. top + n
      <4>1. n = 3 /\ Depth >= 3
        BY <1>2, <1>5
      <4>2. g > top + n
        BY <1>6, <4>1, Layout DEF Depth
      <4>3. g \in Words /\ g \in Nat
        BY Layout
      <4>4. top \in Nat
        BY <1>6
      <4>5. PICK m \in Nat : m = n - 1
        BY <4>1
      <4>6. n - Len(vs) = m
        BY <1>15, <4>1, <4>5
      <4> QED BY ONLY <4>2, <4>3, <4>4, <4>1, <1>15
    <3>2. u[g] = word[g]
      BY <1>5, <2>1, <3>1 DEF Replace
    <3>3. Pointing(u[g])
      <4>1. g \in RootWords(top, extra)
        BY <1>6, OperandsAndGlobals
      <4> QED BY <1>11, <3>2, <4>1 DEF AllPoint
    <3>4. Denotes(u[g])' = Denotes(u[g])
      BY <1>10, <3>3
    <3> QED BY <3>2, <3>4
  <2>3. GlobalsNow' = [g \in Globals |-> Denotes(u[g])']
    BY <2>1 DEF GlobalsNow, Denotes, IsValidHeapPointer
  <2>4. GlobalsNow = [g \in Globals |-> Denotes(word[g])]
    BY DEF GlobalsNow
  <2> QED BY <1>16, <2>2, <2>3, <2>4
\* The store, with one field of one object changed.
<1>19. PICK o : o = [kind |-> mem[h].kind, len |-> mem[h].len,
                    fields |-> [ObjectAt(h).fields EXCEPT ![i] = e]]
  OBVIOUS
<1>20. /\ id \in DOMAIN view.store /\ view.stack[3] = Graph!Reference(id)
       /\ view.store[id] = ObjectAt(h)
       /\ DOMAIN ObjectAt(h).fields = DOMAIN mem[h].fields
       /\ \A j \in DOMAIN mem[h].fields :
            /\ ObjectAt(h).fields[j] = Denotes(mem[h].fields[j])
            /\ Known(Denotes(mem[h].fields[j]))
  BY <1>1, <1>2, <1>3, <1>12, ContainerView
<1>21. ASSUME NEW g \in DOMAIN mem PROVE ObjectAt(g)' = IF g = h THEN o ELSE ObjectAt(g)
  <2>1. PICK F, G : F = mem[g].fields /\ G = mem'[g].fields
    OBVIOUS
  <2>2. ObjectAt(g)' = [kind |-> mem'[g].kind, len |-> mem'[g].len,
                        fields |-> [j \in DOMAIN G |-> Denotes(G[j])']]
    BY <2>1 DEF ObjectAt, Denotes, IsValidHeapPointer
  <2>3. \A j \in DOMAIN F : Denotes(F[j])' = Denotes(F[j])
    BY <1>10, <1>11, <2>1 DEF AllPoint
  <2>4. CASE g = h
    <3>1. G = [F EXCEPT ![i] = v] /\ DOMAIN G = DOMAIN F /\ i \in DOMAIN F
      BY <1>5, <1>8, <2>1, <2>4
    <3>2. \A j \in DOMAIN F : Denotes(G[j])' = IF j = i THEN e ELSE Denotes(F[j])
      <4> SUFFICES ASSUME NEW j \in DOMAIN F
                   PROVE  Denotes(G[j])' = IF j = i THEN e ELSE Denotes(F[j])
        OBVIOUS
      <4>1. CASE j = i
        <5>1. G[j] = v
          BY <3>1, <4>1
        <5>2. Denotes(G[j])' = Denotes(v)'
          BY <5>1, Zenon
        <5> QED BY <1>13, <4>1, <5>2
      <4>2. CASE j # i
        <5>1. G[j] = F[j]
          BY <3>1, <4>2
        <5>2. Denotes(G[j])' = Denotes(F[j])'
          BY <5>1, Zenon
        <5> QED BY <2>3, <4>2, <5>2
      <4> QED BY <4>1, <4>2
    <3>3. [ObjectAt(h).fields EXCEPT ![i] = e] = [j \in DOMAIN G |-> Denotes(G[j])']
      BY <1>20, <2>1, <2>4, <3>1, <3>2
    <3> QED BY <1>8, <1>19, <2>2, <2>4, <3>3
  <2>5. CASE g # h
    <3>1. G = F /\ mem'[g] = mem[g]
      BY <1>7, <2>1, <2>5
    <3>2. ObjectAt(g) = [kind |-> mem[g].kind, len |-> mem[g].len,
                         fields |-> [j \in DOMAIN F |-> Denotes(F[j])]]
      BY <2>1 DEF ObjectAt
    <3>3. [j \in DOMAIN G |-> Denotes(G[j])'] = [j \in DOMAIN F |-> Denotes(F[j])]
      BY <2>3, <3>1
    <3> QED BY <2>2, <2>5, <3>1, <3>2, <3>3
  <2> QED BY <2>4, <2>5
<1>22. Distinct /\ PicturedStore /\ PicturedStore'
  <2>1. Distinct /\ PicturedStore
    BY RunDistinct, StorePictured DEF ProgramAt
  <2>2. IdentifiedNow'
    BY DEF ProgramAt
  <2>3. PicturedStore'
    BY <2>2, StorePictured, PTL
  <2> QED BY <2>1, <2>3
<1>23. t = Graph!WithObject(s, id, o)
  <2>1. DOMAIN mem' = DOMAIN mem
    BY <1>7
  <2> QED BY <1>4, <1>9, <1>12, <1>16, <1>21, <1>22, <2>1, StoreChanged
<1>24. /\ \A j \in DOMAIN st : Known(st[j])
       /\ \A g \in Globals : Known(gl[g])
       /\ \A j \in DOMAIN o.fields : Known(o.fields[j])
  <2>1. \A j \in 1 .. Len(d) : Known(d[j])
    BY <1>13, <1>15
  <2>2. n \in Nat /\ n <= Depth /\ Len(d) \in Nat
    BY <1>2, <1>5, <1>15
  <2>3. \A j \in DOMAIN st : Known(st[j])
    BY <1>16, <2>1, <2>2, ExchangedKnown
  <2>4. ASSUME NEW g \in Globals PROVE Known(gl[g])
    <3>1. gl[g] = Denotes(word[g])
      BY <1>16 DEF GlobalsNow
    <3>2. Known(Denotes(word[g]))
      BY ViewParts
    <3> QED BY <3>1, <3>2
  <2>5. ASSUME NEW j \in DOMAIN o.fields PROVE Known(o.fields[j])
    <3>1. PICK f : f = ObjectAt(h).fields
      OBVIOUS
    <3>2. o.fields = [f EXCEPT ![i] = e]
      BY <1>19, <3>1
    <3>3. j \in DOMAIN f /\ o.fields[j] = IF j = i THEN e ELSE f[j]
      BY <3>2
    <3>4. Known(f[j])
      BY <1>20, <3>1, <3>3
    <3> QED BY <1>13, <3>3, <3>4
  <2> QED BY <2>3, <2>4, <2>5
<1>25. Q = {st[j] : j \in DOMAIN st} \cup {gl[g] : g \in Globals}
  <2>1. RootsAre'
    BY BetweenRoots, PTL
  <2>2. PICK k : k = Depth'
    OBVIOUS
  <2>3. st = [j \in 1..k |-> Denotes(word[top + j])'] /\ DOMAIN st = 1..k
    BY <1>17, <2>2 DEF StackNow, Denotes, IsValidHeapPointer, HeaderOf
  <2>4. Q = {st[j] : j \in 1..k} \cup {gl[g] : g \in Globals}
    BY <1>16, <1>17, <1>18, <2>1, <2>2 DEF RootsAre
  <2> QED BY <2>3, <2>4
<1>26. ASSUME NEW k \in DOMAIN s,
              Graph!Reference(k) \in Q \/ \E j \in DOMAIN o.fields : o.fields[j] = Graph!Reference(k)
       PROVE  k = id \/ k \in Graph!ReachableIds(s, R)
  <2>1. PICK x : x = Graph!Reference(k) /\ Known(x)
    BY <1>24, <1>25, <1>26
  <2> QED BY <1>16, <2>1 DEF Known
<1>27. Graph!Retained(Graph!WithObject(r, id, o), Q) = Graph!Retained(t, Q)
  <2>1. Graph!Retained(Graph!WithObject(Graph!Retained(s, R), id, o), Q)
          = Graph!Retained(Graph!WithObject(s, id, o), Q)
    BY <1>26, RetainedWith
  <2> QED BY <1>16, <1>23, <2>1
<1>28. PICK x : x = Graph!WithObject(r, id, o)
  OBVIOUS
<1>29. Graph!Become(x, st, gl)
  <2>1. Graph!Retained(x, RootsNow') = Graph!Retained(StoreNow', RootsNow')
    BY <1>16, <1>27, <1>28
  <2>2. Graph!Become(x, StackNow', GlobalsNow')
    BY <2>1, BecomeFrom
  <2> QED BY <1>17, <1>18, <2>2
\* The same in the words of SetField.
<1>30. PICK u : u = view.stack
  OBVIOUS
<1>31. view.store = r /\ u = StackNow /\ view.globals = gl /\ u \in Seq(Denoted) /\ Len(u) = Depth
  <2>1. view = [store |-> r, stack |-> StackNow, globals |-> gl]
    BY <1>16, BetweenView DEF ViewIs, ProgramAt
  <2> QED BY <1>30, <2>1, ViewParts
<1>32. x = [view.store EXCEPT ![id].fields[i] = e]
  <2>1. PICK ob : ob = ObjectAt(h)
    OBVIOUS
  <2>2. r[id] = ob /\ id \in DOMAIN r /\ r = [k \in DOMAIN r |-> r[k]]
    BY <1>16, <1>20, <1>31, <2>1 DEF Graph!Retained
  <2>3. ob = [kind |-> mem[h].kind, len |-> mem[h].len, fields |-> ob.fields]
    BY <2>1 DEF ObjectAt
  <2>4. o = [ob EXCEPT !.fields = [ob.fields EXCEPT ![i] = e]]
    BY <1>19, <2>1, <2>3
  <2>5. DOMAIN r \cup {id} = DOMAIN r
    BY <2>2
  <2>6. x = [k \in DOMAIN r |-> IF k = id THEN o ELSE r[k]]
    BY <1>28, <2>5, Zenon DEF Graph!WithObject
  <2>7. x = [r EXCEPT ![id] = o]
    BY <2>2, <2>6
  <2> QED BY <1>31, <2>2, <2>4, <2>7
<1>33. st = <<e>> \o SubSeq(u, 4, Len(u))
  <2>1. PICK V : V = Denoted
    OBVIOUS
  <2>2. PICK k \in Nat : k = Depth /\ k >= 3
    BY <1>2, ViewParts
  <2>3. d \in Seq(V)
    <3>1. e \in V
      BY <1>12, <1>13, <2>1 DEF Denoted
    <3> QED BY ONLY <1>14, <3>1
  <2>4. u \in Seq(V) /\ n \in 0 .. Len(u) /\ n + 1 = 4
    BY <1>5, <1>31, <2>1, <2>2
  <2>5. d \o SubSeq(u, n + 1, Len(u)) = Exchanged(u, n, d)
    BY <2>3, <2>4, ExchangeForms
  <2> QED BY <1>14, <1>16, <1>31, <2>4, <2>5
<1>34. Graph!SetField(id, i)
  <2>1. Len(view.stack) >= 3 /\ i \in DOMAIN view.store[id].fields /\ view.stack[3] = Graph!Reference(id)
    BY <1>2, <1>5, <1>20, ViewParts
  <2>2. Graph!Become([view.store EXCEPT ![id].fields[i] = e], <<e>> \o SubSeq(u, 4, Len(u)), view.globals)
    BY <1>29, <1>31, <1>32, <1>33
  <2>3. SubSeq(u, 4, Len(u)) = Graph!Pop(3)
    BY <1>30 DEF Graph!Pop
  <2>4. view.stack[1] = e
    BY <1>13
  <2> QED BY <2>1, <2>2, <2>3, <2>4 DEF Graph!SetField
<1> QED BY <1>5, <1>20, <1>34

-----------------------------------------------------------------------------
(* Instructions that do not allocate                                        *)

\* Marking has not begun, or is not over.
BeforeMarked == phase \in Between \cup Scanning

IdentifiedLatest == Identified(Latest)

LEMMA LatestNow == BeforeMarked => Latest = Dump(DOMAIN mem)
BY DEF BeforeMarked, Latest

LEMMA NowLatest ==
  /\ BeforeMarked /\ IdentifiedLatest => IdentifiedNow
  /\ BeforeMarked /\ IdentifiedNow => IdentifiedLatest
BY LatestNow DEF IdentifiedLatest, IdentifiedNow

LEMMA BetweenInstructions == Running /\ MutatorInv /\ GraphInv => ProgramAt
<1> SUFFICES ASSUME Running, MutatorInv, GraphInv PROVE ProgramAt
  OBVIOUS
<1>1. phase = "run" /\ BeforeMarked
  BY DEF Running, BeforeMarked, Between
<1>2. IdentifiedLatest /\ extra = <<>> /\ view = View
  BY <1>1 DEF GraphInv, IdentifiedLatest
<1> QED BY <1>1, <1>2, NowLatest, RunningInv DEF ProgramAt

LEMMA RunningGraph == Running /\ ProgramAt => GraphInv
<1> SUFFICES ASSUME Running, ProgramAt PROVE GraphInv
  OBVIOUS
<1>1. phase = "run" /\ BeforeMarked
  BY DEF Running, BeforeMarked, Between
<1>2. IdentifiedLatest
  BY <1>1, NowLatest DEF ProgramAt
<1>3. ~(phase \in Collecting \cup {"request"})
  BY <1>1 DEF Collecting, Scanning, Compacting
<1> QED BY <1>1, <1>2, <1>3 DEF GraphInv, IdentifiedLatest, ProgramAt

\* These instructions leave the objects where they are.
LEMMA SimpleKeeps ==
  ASSUME RunInv, Simple
  PROVE  DOMAIN mem' = DOMAIN mem /\ SameIds(mem, mem') /\ UNCHANGED <<ids, extra>>
<1>1. CASE \/ PushNumber \/ Dup \/ Drop
           \/ \E g \in Globals : Load(g) \/ Store(g) \/ LoadAddress(g) \/ StoreAt(g)
           \/ \E n \in 1..MaxLocals : Locals(n)
  <2>1. UNCHANGED <<mem, extra>>
    BY <1>1 DEF PushNumber, Dup, Drop, Load, Store, LoadAddress, StoreAt, Locals, UnchangedHeap
  <2> QED BY <2>1 DEF Simple, SameIds
<1>2. ASSUME NEW i \in 1..MaxLen, Elem(i) \/ StoreElem(i)
      PROVE  DOMAIN mem' = DOMAIN mem /\ SameIds(mem, mem') /\ UNCHANGED extra
  <2>1. CASE Elem(i)
    <3>1. PICK h : h = HeaderOf(word[top + 2])
      OBVIOUS
    <3>2. Depth >= 2 /\ IsValidHeapPointer(word[top + 2])
      BY <2>1, Zenon DEF Elem
    <3>3. h \in DOMAIN mem
      BY <3>1, <3>2, ContainerIsObject DEF Depth
    <3>4. UNCHANGED <<mem, extra>>
      BY <2>1, <3>1, <3>3, Zenon DEF Elem, Reading, UnchangedHeap
    <3> QED BY <3>4 DEF SameIds
  <2>2. CASE StoreElem(i)
    <3>1. PICK h, v : h = HeaderOf(word[top + 3]) /\ v = word[top + 1]
      OBVIOUS
    <3>2. Depth >= 3 /\ IsValidHeapPointer(word[top + 3])
      BY <2>2, Zenon DEF StoreElem
    <3>3. h \in DOMAIN mem
      BY <3>1, <3>2, ContainerIsObject DEF Depth
    <3>4. UNCHANGED extra /\ mem' = [mem EXCEPT ![h].fields[i] = v]
      BY <2>2, <3>1, <3>3, Zenon DEF StoreElem, Reading, UnchangedHeap
    <3>5. mem[h] \in Object
      BY <3>3 DEF RunInv, HeapConsistent
    <3>6. mem'[h].id = mem[h].id
      BY <3>3, <3>4, <3>5 DEF Object
    <3> QED BY <3>3, <3>4, <3>6 DEF SameIds
  <2> QED BY <1>2, <2>1, <2>2
<1>3. CASE ElemChar \/ StoreChar
  <2>1. CASE ElemChar
    <3>1. Depth >= 2 /\ IsValidHeapPointer(word[top + 2])
      BY <2>1, Zenon DEF ElemChar
    <3>2. HeaderOf(word[top + 2]) \in DOMAIN mem
      BY <3>1, ContainerIsObject DEF Depth
    <3>3. UNCHANGED <<mem, extra>>
      BY <2>1, <3>2, Zenon DEF ElemChar, Reading, UnchangedHeap
    <3> QED BY <3>3 DEF Simple, SameIds
  <2>2. CASE StoreChar
    <3>1. Depth >= 3 /\ IsValidHeapPointer(word[top + 3])
      BY <2>2, Zenon DEF StoreChar
    <3>2. HeaderOf(word[top + 3]) \in DOMAIN mem
      BY <3>1, ContainerIsObject DEF Depth
    <3>3. UNCHANGED <<mem, extra>>
      BY <2>2, <3>2, Zenon DEF StoreChar, Reading, UnchangedHeap
    <3> QED BY <3>3 DEF Simple, SameIds
  <2> QED BY <1>3, <2>1, <2>2
<1> QED BY <1>1, <1>2, <1>3 DEF Simple

\* What they do to the words and objects, they do to the view.
LEMMA SimpleView ==
  ASSUME ProgramAt, ProgramAt', Simple
  PROVE  Graph!Next
<1>1. CASE PushNumber
  BY <1>1, PushNumberView DEF Graph!Next
<1>2. CASE Dup
  BY <1>2, DupView DEF Graph!Next
<1>3. CASE Drop
  BY <1>3, DropView DEF Graph!Next
<1>4. ASSUME NEW g \in Globals, Load(g) \/ Store(g) \/ LoadAddress(g) \/ StoreAt(g)
      PROVE  Graph!Next
  <2>1. Graph!Load(g) \/ Graph!Store(g) \/ Graph!LoadAddress(g) \/ Graph!SetGlobal(g)
    BY <1>4, LoadView, StoreView, LoadAddressView, StoreAtView
  <2> QED BY <2>1, Zenon DEF Graph!Next
<1>5. ASSUME NEW n \in 1..MaxLocals, Locals(n) PROVE Graph!Next
  <2>1. Graph!Locals(n)
    BY <1>5, LocalsView
  <2> QED BY <2>1, Zenon DEF Graph!Next
<1>6. ASSUME NEW i \in 1..MaxLen, Elem(i) \/ StoreElem(i) PROVE Graph!Next
  <2>1. \E id \in DOMAIN view.store :
          i \in DOMAIN view.store[id].fields /\ (Graph!GetField(id, i) \/ Graph!SetField(id, i))
    BY <1>6, ElemView, StoreElemView, Zenon
  <2> QED BY <2>1, Zenon DEF Graph!Next
<1>7. CASE ElemChar \/ StoreChar
  <2>1. \E id \in DOMAIN view.store : Graph!GetChar(id) \/ Graph!SetChar(id)
    BY <1>7, ElemCharView, StoreCharView, Zenon
  <2> QED BY <2>1, Zenon DEF Graph!Next
<1> QED BY <1>1, <1>2, <1>3, <1>4, <1>5, <1>6, <1>7, Zenon DEF Simple

\* A step of the program that does not allocate.
LEMMA SimpleRefines ==
  ASSUME MutatorInv, GraphInv, Simple, Recorded
  PROVE  GraphInv' /\ Graph!Next /\ phase' = "run"
<1>1. Running
  BY DEF Simple, Running, PushNumber, Dup, Drop, Load, Store, LoadAddress, StoreAt, Locals, Elem, StoreElem,
         ElemChar, StoreChar
<1>2. ProgramAt
  BY <1>1, BetweenInstructions
<1>3. RunInv' /\ phase' = "run"
  BY SimpleStep
<1>4. view' = View'
  BY <1>3 DEF Recorded
<1>5. DOMAIN mem' = DOMAIN mem /\ SameIds(mem, mem') /\ ids' = ids /\ extra' = extra
  BY <1>2, SimpleKeeps DEF ProgramAt
<1>6. IdentifiedNow'
  BY <1>2, <1>5, NowDistinct, StillDistinct DEF ProgramAt
<1>7. ProgramAt'
  BY <1>2, <1>3, <1>4, <1>5, <1>6 DEF ProgramAt
<1>8. Running'
  BY <1>3 DEF Running
<1>9. GraphInv'
  BY <1>7, <1>8, RunningGraph, PTL
<1> QED BY <1>2, <1>3, <1>7, <1>9, SimpleView

-----------------------------------------------------------------------------
(* Requests                                                                 *)

\* What ViewKept says before the marking is over, of words instead of dumps.
ArgumentsNow == [i \in 1 .. FieldCount(call.kind, call.len) |-> Denotes(word[top + i])]
RemainingNow == [i \in 1 .. (Depth - call.pops) |-> Denotes(word[top + call.pops + i])]

Reversed(s) == [i \in 1 .. Len(s) |-> s[Len(s) + 1 - i]]

\* The operands of an instruction that has called fn, from its arguments or from what it
\* has popped.
BeforeCall(fn, args, popped) == IF fn \in {"Barray", "Bsexp"} THEN Reversed(args) ELSE popped

\* What the functions have popped is in their parameters.
PoppedIn(fn, w) ==
  CASE fn \in {"Lstring", "Lclone", "Lsubstring"} -> <<Denotes(w[LocalP])>>
    [] fn = "Li__Infix_4343" -> <<Denotes(w[LocalQ]), Denotes(w[LocalP])>>
    [] fn = "LmakeArray" -> <<Graph!Number>>
    [] OTHER -> <<>>

PoppedNow == PoppedIn(call.fn, word)

\* The parameters that a collection in the call of fn has to find, and Lclone's two of a
\* string that are the same.
Parameters(fn) ==
  CASE fn \in {"Lstring", "Lclone", "Lsubstring"} -> {LocalP}
    [] fn = "Li__Infix_4343" -> {LocalP, LocalQ}
    [] OTHER -> {}

ClonesString(fn, kind) == fn = "Lclone" /\ kind = "STRING"

Captured(args) ==
  \A i \in DOMAIN args :
    \/ \E j \in DOMAIN view.stack : args[i] = view.stack[j]
    \/ \E g \in Globals : args[i] = view.globals[g]

KeptNow ==
  /\ view = [store |-> Graph!Retained(StoreNow, RootsNow),
             stack |-> BeforeCall(call.fn, ArgumentsNow, PoppedNow) \o RemainingNow,
             globals |-> GlobalsNow]
  /\ call.fn = "Bclosure" => Captured(ArgumentsNow)
  /\ ClonesString(call.fn, call.kind) => Denotes(word[LocalQ]) = Denotes(word[LocalP])

CallReady ==
  /\ top \in Nat /\ top < StackBottom /\ CallInv
  /\ Parameters(call.fn) \subseteq RootWords(top, extra)
  /\ ClonesString(call.fn, call.kind) => LocalQ \in RootWords(top, extra)

NowKept == ViewKept(Dump(DOMAIN mem))
AtRequest == phase = "request"

\* What a dump of all the objects says of a call, in words.
LEMMA DumpWords ==
  ASSUME top \in Nat, top < StackBottom, CallInv,
         NEW D, D = Dump(DOMAIN mem)
  PROVE  /\ call.fn \in Allocators => ArgumentsOf(D) = ArgumentsNow
         /\ Remaining(D) = RemainingNow
         /\ RootValues(D) = RootsNow /\ StoreOf(D) = StoreNow
         /\ [g \in Globals |-> D.roots[g]] = GlobalsNow
         /\ D.roots = [a \in RootWords(top, extra) |-> Denotes(word[a])]
<1>2. PICK R : R = RootWords(top, extra)
  OBVIOUS
<1>3. D.roots = [a \in R |-> Denotes(word[a])]
  BY <1>2 DEF Dump
<1>4. ((top + 1) .. (StackBottom - 1)) \cup Globals \subseteq R
  BY <1>2, OperandsAndGlobals DEF RootWords
<1>5. PICK k \in Nat, p \in Nat :
        k = Depth - call.pops /\ p = call.pops /\ top + p + k = StackBottom - 1
  BY Layout DEF CallInv, Depth
<1>6. ASSUME call.fn \in Allocators PROVE ArgumentsOf(D) = ArgumentsNow
  <2>0. PICK f \in Nat : f = FieldCount(call.kind, call.len) /\ f <= p
    BY <1>5, <1>6 DEF CallInv
  <2>1. \A i \in 1..f : D.roots[top + i] = Denotes(word[top + i])
    <3> SUFFICES ASSUME NEW i \in 1..f PROVE D.roots[top + i] = Denotes(word[top + i])
      OBVIOUS
    <3>1. top + i \in (top + 1) .. (StackBottom - 1)
      BY <1>5, <2>0
    <3>2. top + i \in R
      BY <1>4, <3>1
    <3> QED BY <1>3, <3>2
  <2>2. ArgumentsOf(D) = [i \in 1..f |-> D.roots[top + i]]
    BY <2>0 DEF ArgumentsOf
  <2>3. ArgumentsNow = [i \in 1..f |-> Denotes(word[top + i])]
    BY <2>0 DEF ArgumentsNow
  <2> QED BY <2>1, <2>2, <2>3
<1>7. Remaining(D) = RemainingNow
  <2>1. \A i \in 1..k : D.roots[top + p + i] = Denotes(word[top + p + i])
    <3> SUFFICES ASSUME NEW i \in 1..k PROVE D.roots[top + p + i] = Denotes(word[top + p + i])
      OBVIOUS
    <3>1. top + p + i \in (top + 1) .. (StackBottom - 1)
      BY <1>5
    <3>2. top + p + i \in R
      BY <1>4, <3>1
    <3> QED BY <1>3, <3>2
  <2>2. Remaining(D) = [i \in 1..k |-> D.roots[top + p + i]]
    BY <1>5 DEF Remaining
  <2>3. RemainingNow = [i \in 1..k |-> Denotes(word[top + p + i])]
    BY <1>5 DEF RemainingNow
  <2> QED BY <2>1, <2>2, <2>3
<1>9. RootValues(D) = RootsNow
  BY <1>2, <1>3 DEF RootValues, RootsNow
<1>10. [g \in Globals |-> D.roots[g]] = GlobalsNow
  BY <1>3, <1>4 DEF GlobalsNow
<1>11. StoreOf(D) = StoreNow
  BY DEF StoreNow
<1> QED BY <1>2, <1>3, <1>6, <1>7, <1>9, <1>10, <1>11

LEMMA ViewKeptNow == KeptNow /\ CallReady => NowKept
<1> SUFFICES ASSUME KeptNow, CallReady PROVE NowKept
  OBVIOUS
<1>1. PICK D : D = Dump(DOMAIN mem)
  OBVIOUS
<1>2. /\ call.fn \in Allocators => ArgumentsOf(D) = ArgumentsNow
      /\ Remaining(D) = RemainingNow
      /\ RootValues(D) = RootsNow /\ StoreOf(D) = StoreNow
      /\ [g \in Globals |-> D.roots[g]] = GlobalsNow
      /\ D.roots = [a \in RootWords(top, extra) |-> Denotes(word[a])]
  BY <1>1, DumpWords DEF CallReady
<1>3. OperandsBefore(D) = BeforeCall(call.fn, ArgumentsNow, PoppedNow)
  <2>1. CASE call.fn \in {"Barray", "Bsexp"}
    BY <1>2, <2>1 DEF OperandsBefore, BeforeCall, Reversed, Allocators
  <2>2. CASE call.fn \notin {"Barray", "Bsexp"}
    <3>1. \A a \in Parameters(call.fn) : D.roots[a] = Denotes(word[a])
      BY <1>2 DEF CallReady
    <3>2. Popped(D) = PoppedNow
      BY <3>1 DEF Popped, PoppedNow, PoppedIn, Parameters
    <3> QED BY <2>2, <3>2 DEF OperandsBefore, BeforeCall
  <2> QED BY <2>1, <2>2
<1>4. call.fn = "Lclone" /\ call.kind = "STRING" => D.roots[LocalQ] = D.roots[LocalP]
  <2> SUFFICES ASSUME ClonesString(call.fn, call.kind) PROVE D.roots[LocalQ] = D.roots[LocalP]
    BY DEF ClonesString
  <2>1. LocalP \in RootWords(top, extra) /\ LocalQ \in RootWords(top, extra)
    BY DEF CallReady, Parameters, ClonesString
  <2> QED BY <1>2, <2>1 DEF KeptNow
<1>5. call.fn = "Bclosure" =>
        ArgumentsOf(D) = ArgumentsNow /\ Captured(ArgumentsNow)
  BY <1>2 DEF KeptNow, Allocators
<1>6. view = [store |-> Graph!Retained(StoreOf(D), RootValues(D)),
              stack |-> OperandsBefore(D) \o Remaining(D),
              globals |-> [g \in Globals |-> D.roots[g]]]
  BY <1>2, <1>3 DEF KeptNow
<1>7. ViewKept(D)
  BY <1>4, <1>5, <1>6 DEF ViewKept, Captured
<1> QED BY <1>1, <1>7 DEF NowKept

\* And back, except that what has been popped is what the dump has of it.
KeptWith(popped) ==
  /\ view = [store |-> Graph!Retained(StoreNow, RootsNow),
             stack |-> BeforeCall(call.fn, ArgumentsNow, popped) \o RemainingNow,
             globals |-> GlobalsNow]
  /\ call.fn = "Bclosure" => Captured(ArgumentsNow)

LEMMA NowKeptWith ==
  ASSUME NowKept, top \in Nat, top < StackBottom, CallInv
  PROVE  KeptWith(Popped(Dump(DOMAIN mem)))
<1>1. PICK D : D = Dump(DOMAIN mem)
  OBVIOUS
<1>2. /\ call.fn \in Allocators => ArgumentsOf(D) = ArgumentsNow
      /\ Remaining(D) = RemainingNow
      /\ RootValues(D) = RootsNow /\ StoreOf(D) = StoreNow
      /\ [g \in Globals |-> D.roots[g]] = GlobalsNow
  BY <1>1, DumpWords
<1>3. PICK p : p = Popped(D)
  OBVIOUS
<1>4. OperandsBefore(D) = BeforeCall(call.fn, ArgumentsNow, p)
  BY <1>2, <1>3 DEF OperandsBefore, BeforeCall, Reversed, Allocators
<1>5. ViewKept(D)
  BY <1>1 DEF NowKept
<1>6. call.fn = "Bclosure" => ArgumentsOf(D) = ArgumentsNow
  BY <1>2 DEF Allocators
<1>7. KeptWith(p)
  <2>1. view = [store |-> Graph!Retained(StoreOf(D), RootValues(D)),
                stack |-> OperandsBefore(D) \o Remaining(D),
                globals |-> [g \in Globals |-> D.roots[g]]]
    BY <1>5, Zenon DEF ViewKept
  <2>2. call.fn = "Bclosure" => Captured(ArgumentsOf(D))
    BY <1>5, Zenon DEF ViewKept, Captured
  <2>3. view = [store |-> Graph!Retained(StoreNow, RootsNow),
                stack |-> BeforeCall(call.fn, ArgumentsNow, p) \o RemainingNow, globals |-> GlobalsNow]
    BY <1>2, <1>4, <2>1
  <2>4. call.fn = "Bclosure" => Captured(ArgumentsNow)
    BY <1>6, <2>2
  <2> QED BY <2>3, <2>4 DEF KeptWith
<1> QED BY <1>1, <1>3, <1>7

LEMMA RequestGraph == AtRequest /\ IdentifiedNow /\ CallKnown /\ NowKept => GraphInv
<1> SUFFICES ASSUME AtRequest, IdentifiedNow, CallKnown, NowKept PROVE GraphInv
  OBVIOUS
<1>1. phase = "request" /\ BeforeMarked
  BY DEF AtRequest, BeforeMarked, Between
<1>2. IdentifiedLatest /\ ViewKept(Latest)
  BY <1>1, NowLatest, LatestNow DEF NowKept
<1> QED BY <1>1, <1>2 DEF GraphInv, IdentifiedLatest

\* The objects are what they were, and where they were.
LEMMA SameStore ==
  ASSUME PicturedStore, PicturedStore', UNCHANGED <<mem, heap>>
  PROVE  StoreNow' = StoreNow
<1>1. PICK s, t : s = StoreNow /\ t = StoreNow'
  OBVIOUS
<1>2. /\ DOMAIN s = {mem[g].id : g \in DOMAIN mem}
      /\ \A g \in DOMAIN mem : s[mem[g].id] = ObjectAt(g)
      /\ s = [id \in {mem[g].id : g \in DOMAIN mem} |-> s[id]]
  BY <1>1, Zenon DEF PicturedStore
<1>3. /\ DOMAIN t = {mem'[g].id : g \in DOMAIN mem'}
      /\ \A g \in DOMAIN mem' : t[mem'[g].id] = ObjectAt(g)'
      /\ t = [k \in {mem'[g].id : g \in DOMAIN mem'} |-> t[k]]
  BY <1>1, Zenon DEF PicturedStore
<1>4. \A g \in DOMAIN mem : ObjectAt(g)' = ObjectAt(g)
  BY DEF ObjectAt, Denotes, IsValidHeapPointer
<1> QED BY <1>1, <1>2, <1>3, <1>4

\* What the words w and the top t leave of the operands, when fn has f arguments there and
\* will pop as many as pops.
ArgumentsIn(w, t, f) == [i \in 1..f |-> Denotes(w[t + i])]
RestIn(w, t, pops) == [i \in 1 .. (StackBottom - 1 - t - pops) |-> Denotes(w[t + pops + i])]

SameOperands(fn, w, t, f, pops) ==
  StackNow = BeforeCall(fn, ArgumentsIn(w, t, f), PoppedIn(fn, w)) \o RestIn(w, t, pops)

\* The roots, with those registered, are what they were, and numbers.
SameRoots(w, t, roots) ==
  /\ \A g \in Globals : w[g] = word[g]
  /\ \A a \in RootWords(t, roots) :
       w[a] \in Int /\ (w[a] < GlobalStop \/ \E b \in RootWords(top, <<>>) : w[a] = word[b])
  /\ \A b \in RootWords(top, <<>>) :
       word[b] < GlobalStop \/ \E a \in RootWords(t, roots) : word[b] = w[a]

SameCaptures(fn, w, t, f, roots) ==
  /\ fn = "Bclosure" => \A i \in 1..f : \E b \in RootWords(top, <<>>) : w[t + i] = word[b]
  /\ Parameters(fn) \subseteq RootWords(t, roots)

SameClone(fn, kind, w, t, roots) ==
  ClonesString(fn, kind) => w[LocalQ] = w[LocalP] /\ LocalQ \in RootWords(t, roots)

\* A call in a state where w is in memory instead of word, with t for the top: what the
\* instruction has moved on the stack, or registered, is what the program had.
LEMMA RequestKept ==
  ASSUME ProgramAt, RunInv, MutatorInv', NEW fn, NEW kind, NEW len, NEW pops, NEW roots,
         Request(fn, kind, len, pops, roots), phase' = "request", view' = view, CallKnown',
         NEW w, w = word', NEW t, t = top', NEW f, f = FieldCount(kind, len),
         SameOperands(fn, w, t, f, pops), SameRoots(w, t, roots), SameCaptures(fn, w, t, f, roots),
         SameClone(fn, kind, w, t, roots)
  PROVE  GraphInv'
<1>1. PICK k, args, rest :
        /\ k = StackBottom - 1 - t - pops /\ args = ArgumentsIn(w, t, f) /\ rest = RestIn(w, t, pops)
  OBVIOUS
<1>2. /\ args = [i \in 1..f |-> Denotes(w[t + i])]
      /\ rest = [i \in 1..k |-> Denotes(w[t + pops + i])]
      /\ StackNow = BeforeCall(fn, args, PoppedIn(fn, w)) \o rest
  BY <1>1 DEF ArgumentsIn, RestIn, SameOperands
<1>3. /\ \A g \in Globals : w[g] = word[g]
      /\ \A a \in RootWords(t, roots) :
           w[a] \in Int /\ (w[a] < GlobalStop \/ \E b \in RootWords(top, <<>>) : w[a] = word[b])
      /\ \A b \in RootWords(top, <<>>) :
           word[b] < GlobalStop \/ \E a \in RootWords(t, roots) : word[b] = w[a]
  BY Zenon DEF SameRoots
<1>4. /\ fn = "Bclosure" => \A i \in 1..f : \E b \in RootWords(top, <<>>) : w[t + i] = word[b]
      /\ Parameters(fn) \subseteq RootWords(t, roots)
  BY Zenon DEF SameCaptures
<1>5. /\ UNCHANGED <<mem, heap, ids>> /\ extra' = roots
      /\ call' = [fn |-> fn, pops |-> pops, kind |-> kind, len |-> len]
  BY DEF Request
<1>6. call'.fn = fn /\ call'.kind = kind /\ call'.len = len /\ call'.pops = pops
  BY <1>5
<1>7. \A v : Denotes(v)' = Denotes(v)
  BY <1>5 DEF Denotes, IsValidHeapPointer
<1>8. ArgumentsNow' = args
  <2>1. ArgumentsNow' = [i \in 1 .. f |-> Denotes(w[t + i])']
    BY <1>6 DEF ArgumentsNow, Denotes, IsValidHeapPointer
  <2> QED BY <1>7, <1>2, <2>1
<1>9. RemainingNow' = rest
  <2>1. Depth' - pops = k
    BY <1>1, Layout DEF Depth
  <2>2. RemainingNow' = [i \in 1 .. k |-> Denotes(w[t + pops + i])']
    BY <1>6, <2>1 DEF RemainingNow, Denotes, IsValidHeapPointer
  <2> QED BY <1>7, <1>2, <2>2
<1>10. GlobalsNow' = GlobalsNow
  <2>1. GlobalsNow' = [g \in Globals |-> Denotes(w[g])']
    BY DEF GlobalsNow, Denotes, IsValidHeapPointer
  <2> QED BY <1>7, <1>3, <2>1 DEF GlobalsNow
<1>11. PoppedNow' = PoppedIn(fn, w)
  <2>1. \A a : (Denotes(w[a]))' = Denotes(w[a])
    BY <1>7
  <2>2. PoppedNow' = PoppedIn(fn, w)'
    BY <1>6, Zenon DEF PoppedNow, PoppedIn
  <2>3. PoppedIn(fn, w)' = PoppedIn(fn, w)
    BY <2>1 DEF PoppedIn
  <2> QED BY <2>2, <2>3
<1>12. /\ DistinctNow' /\ IdentifiedNow'
  <2>1. DOMAIN mem' = DOMAIN mem /\ SameIds(mem, mem')
    BY <1>5 DEF SameIds
  <2> QED BY <1>5, <2>1, NowDistinct, StillDistinct DEF ProgramAt
<1>13. StoreNow' = StoreNow
  <2>1. PicturedStore /\ PicturedStore'
    <3>1. PicturedStore
      BY StorePictured DEF ProgramAt
    <3>2. PicturedStore'
      BY <1>12, StorePictured, PTL
    <3> QED BY <3>1, <3>2
  <2> QED BY <1>5, <2>1, SameStore
<1>14. PICK s, R, Q : s = StoreNow /\ R = RootsNow /\ Q = RootsNow'
  OBVIOUS
<1>15. /\ R = {Denotes(word[b]) : b \in RootWords(top, <<>>)}
       /\ Q = {Denotes(w[a]) : a \in RootWords(t, roots)}
  <2>1. extra = <<>>
    BY DEF ProgramAt
  <2>2. R = {Denotes(word[b]) : b \in RootWords(top, <<>>)}
    BY <1>14, <2>1 DEF RootsNow
  <2>3. Q = {Denotes(w[a])' : a \in RootWords(t, roots)}
    BY <1>5, <1>14 DEF RootsNow, Denotes, IsValidHeapPointer
  <2> QED BY <1>7, <2>2, <2>3
<1>16. ASSUME NEW j \in DOMAIN s PROVE Graph!Reference(j) \in R <=> Graph!Reference(j) \in Q
  <2>1. ASSUME Graph!Reference(j) \in R PROVE Graph!Reference(j) \in Q
    <3>1. PICK b \in RootWords(top, <<>>) : Graph!Reference(j) = Denotes(word[b])
      BY <1>15, <2>1
    <3>2. PICK v \in Int : v = word[b]
      BY DEF RunInv, ProcessInv
    <3>3. ~(v < GlobalStop)
      BY <3>1, <3>2, NumberDenotes DEF RunInv
    <3>4. PICK a \in RootWords(t, roots) : word[b] = w[a]
      BY <1>3, <3>2, <3>3
    <3> QED BY <1>15, <3>1, <3>4
  <2>2. ASSUME Graph!Reference(j) \in Q PROVE Graph!Reference(j) \in R
    <3>1. PICK a \in RootWords(t, roots) : Graph!Reference(j) = Denotes(w[a])
      BY <1>15, <2>2
    <3>2. PICK v \in Int : v = w[a]
      BY <1>3
    <3>3. ~(v < GlobalStop)
      BY <3>1, <3>2, NumberDenotes DEF RunInv
    <3>4. PICK b \in RootWords(top, <<>>) : w[a] = word[b]
      BY <1>3, <3>2, <3>3
    <3> QED BY <1>15, <3>1, <3>4
  <2> QED BY <2>1, <2>2
<1>17. Graph!Retained(StoreNow', RootsNow') = Graph!Retained(StoreNow, RootsNow)
  BY <1>13, <1>14, <1>16, RetainedByReferences
<1>18. view = [store |-> Graph!Retained(StoreNow, RootsNow), stack |-> StackNow, globals |-> GlobalsNow]
  BY BetweenView DEF ProgramAt, ViewIs
<1>19. fn = "Bclosure" => Captured(ArgumentsNow)'
  <2> SUFFICES ASSUME fn = "Bclosure", NEW i \in 1..f
               PROVE  \/ \E j \in DOMAIN view.stack : args[i] = view.stack[j]
                      \/ \E g \in Globals : args[i] = view.globals[g]
    BY <1>8, <1>2 DEF Captured
  <2>1. PICK b \in RootWords(top, <<>>) : args[i] = Denotes(word[b])
    BY <1>2, <1>4
  <2>2. top \in Nat /\ top < StackBottom
    BY DEF RunInv, ProcessInv
  <2>3. CASE b \in Globals
    <3>1. view.globals[b] = Denotes(word[b])
      BY <2>3, ViewParts
    <3> QED BY <2>1, <2>3, <3>1
  <2>4. CASE b \in (top + 1) .. (StackBottom - 1)
    <3>1. PICK d \in Nat : d = Depth /\ top + d = StackBottom - 1
      BY <2>2, Layout DEF Depth
    <3>2. PICK j \in 1..d : b = top + j
      <4>1. b - top \in 1..d /\ b = top + (b - top)
        BY ONLY <2>2, <2>4, <3>1
      <4> QED BY <4>1
    <3>3. view.stack[j] = Denotes(word[b]) /\ j \in DOMAIN view.stack
      BY <3>1, <3>2, ViewParts
    <3> QED BY <2>1, <3>3
  <2> QED BY <2>2, <2>3, <2>4, OperandsAndGlobals
<1>24. ClonesString(fn, kind) => (Denotes(word[LocalQ]) = Denotes(word[LocalP]))'
  BY SMTT(30) DEF SameClone
<1>20. KeptNow'
  BY <1>6, <1>8, <1>9, <1>10, <1>11, <1>17, <1>18, <1>19, <1>2, <1>24 DEF KeptNow
<1>21. CallReady'
  <2>1. CallInv' /\ ProcessInv'
    BY DEF MutatorInv, Between, Collecting
  <2> QED BY <1>5, <1>6, <1>4, <2>1 DEF CallReady, ProcessInv, SameClone
<1>22. NowKept'
  BY <1>20, <1>21, ViewKeptNow, PTL
<1>23. AtRequest'
  BY DEF AtRequest
<1> QED BY <1>12, <1>22, <1>23, RequestGraph, PTL

LEMMA Concatenated ==
  ASSUME NEW V, NEW a, a \in Seq(V), NEW b, b \in Seq(V),
         NEW m, m = Len(a), NEW n, n = Len(b), NEW c, c = a \o b
  PROVE  /\ c \in Seq(V) /\ Len(c) = m + n
         /\ \A i \in 1..m : c[i] = a[i]
         /\ \A i \in 1..n : c[m + i] = b[i]
<1>1. /\ a \o b \in Seq(V) /\ Len(a \o b) = Len(a) + Len(b)
      /\ \A i \in 1 .. Len(a) : (a \o b)[i] = a[i]
      /\ \A i \in 1 .. Len(b) : (a \o b)[Len(a) + i] = b[i]
  OBVIOUS
<1> QED BY <1>1

\* The operands again, when before is what the instruction has popped or rearranged.
LEMMA OperandsAgain ==
  ASSUME RunInv, NEW fn, NEW w, NEW t \in Nat, NEW f, NEW p \in Nat, t + p < StackBottom, top <= t + p,
         \A a \in (t + p + 1) .. (StackBottom - 1) : w[a] = word[a],
         NEW before, before = BeforeCall(fn, ArgumentsIn(w, t, f), PoppedIn(fn, w)),
         DOMAIN before = 1 .. (t + p - top), before = [i \in DOMAIN before |-> before[i]],
         \A i \in 1 .. (t + p - top) : before[i] = Denotes(word[top + i])
  PROVE  SameOperands(fn, w, t, f, p)
<1>1. /\ top \in Nat /\ top < StackBottom /\ word \in [Words -> Int]
      /\ (top + 1) .. (StackBottom - 1) \subseteq Words
  BY OperandsAndGlobals DEF RunInv, ProcessInv
<1>2. PICK d \in Nat, b \in Nat, k \in Nat :
        d = StackBottom - 1 - top /\ b = t + p - top /\ k = StackBottom - 1 - t - p /\ d = b + k
        /\ top + b = t + p
  <2>1. StackBottom \in Nat
    BY Layout
  <2>2. PICK e \in Nat : e = top
    BY <1>1
  <2>3. /\ StackBottom - 1 - e \in Nat /\ t + p - e \in Nat /\ StackBottom - 1 - t - p \in Nat
        /\ StackBottom - 1 - e = (t + p - e) + (StackBottom - 1 - t - p) /\ e + (t + p - e) = t + p
    <3>1. e <= t + p
      BY <2>2
    <3> QED BY ONLY <2>1, <3>1, t \in Nat, p \in Nat, e \in Nat, t + p < StackBottom
  <2> QED BY <2>2, <2>3
<1>3. PICK s, rest, V : s = StackNow /\ rest = RestIn(w, t, p) /\ V = Denoted
  OBVIOUS
<1>4. s = [i \in 1..d |-> Denotes(word[top + i])] /\ rest = [i \in 1..k |-> Denotes(w[t + p + i])]
  BY <1>2, <1>3 DEF StackNow, Depth, RestIn
<1>5. ASSUME NEW i \in 1..d PROVE s[i] = Denotes(word[top + i]) /\ s[i] \in V
  <2>1. top + i \in (top + 1) .. (StackBottom - 1)
    <3>1. StackBottom \in Nat /\ top \in Nat /\ d = StackBottom - 1 - top
      BY <1>1, <1>2, Layout
    <3> QED BY ONLY <3>1, i \in 1..d
  <2>2. word[top + i] \in Int
    BY <1>1, <2>1
  <2> QED BY <1>3, <1>4, <2>2 DEF Denoted
<1>6. s \in Seq(V) /\ Len(s) = d
  <2>1. s = [i \in 1..d |-> s[i]]
    BY <1>4
  <2> QED BY ONLY <1>5, <2>1, d \in Nat
<1>7. ASSUME NEW i \in 1..k PROVE rest[i] = s[b + i] /\ rest[i] \in V
  <2>1. b + i \in 1..d /\ top + (b + i) = t + p + i
    BY <1>1, <1>2
  <2>2. t + p + i \in (t + p + 1) .. (StackBottom - 1)
    <3>1. StackBottom \in Nat /\ k = StackBottom - 1 - t - p
      BY <1>2, Layout
    <3> QED BY ONLY <3>1, i \in 1..k, t \in Nat, p \in Nat
  <2>3. rest[i] = Denotes(word[t + p + i])
    BY <1>4, <2>2
  <2> QED BY <1>5, <2>1, <2>3
<1>8. rest \in Seq(V) /\ Len(rest) = k
  <2>1. rest = [i \in 1..k |-> rest[i]]
    BY <1>4
  <2> QED BY ONLY <1>7, <2>1, k \in Nat
<1>9. ASSUME NEW i \in 1..b PROVE s[i] = before[i] /\ before[i] \in V
  <2>1. i \in 1..d
    BY <1>2
  <2> QED BY <1>2, <1>5, <2>1
<1>10. before \in Seq(V) /\ Len(before) = b
  <2>1. before = [i \in 1..b |-> before[i]]
    BY <1>2
  <2> QED BY ONLY <1>9, <2>1, b \in Nat
<1>11. PICK c : c = before \o rest
  OBVIOUS
<1>12. /\ c \in Seq(V) /\ Len(c) = d
       /\ \A i \in 1..b : c[i] = before[i]
       /\ \A i \in 1..k : c[b + i] = rest[i]
  <2>1. d = b + k
    BY <1>2
  <2>2. before \in Seq(V) /\ rest \in Seq(V) /\ b = Len(before) /\ k = Len(rest)
    BY <1>8, <1>10
  <2>3. /\ c \in Seq(V) /\ Len(c) = b + k
        /\ \A i \in 1..b : c[i] = before[i]
        /\ \A i \in 1..k : c[b + i] = rest[i]
    BY ONLY <1>11, <2>2, Concatenated
  <2> QED BY <2>1, <2>3
<1>13. ASSUME NEW i \in 1..d PROVE s[i] = c[i]
  <2>1. CASE i <= b
    BY <1>9, <1>12, <2>1
  <2>2. CASE ~(i <= b)
    <3>1. PICK j \in 1..k : i = b + j
      <4>1. i - b \in 1..k /\ i = b + (i - b)
        BY ONLY <1>2, <2>2, i \in 1..d, d \in Nat, b \in Nat, k \in Nat
      <4> QED BY <4>1
    <3> QED BY <1>7, <1>12, <3>1
  <2> QED BY <2>1, <2>2
<1>14. s = c
  BY ONLY <1>6, <1>12, <1>13, d \in Nat
<1> QED BY <1>3, <1>11, <1>14 DEF SameOperands

\* The words that a collection after a request will read.
LEMMA RequestedWords ==
  ASSUME MutatorInv', phase' = "request", NEW w, w = word', NEW t, t = top', NEW x, x = extra'
  PROVE  /\ t \in Nat /\ t < StackBottom /\ w \in [Words -> Int]
         /\ RootWords(t, x) \subseteq Words
         /\ RootWords(t, x) = RootWords(t, <<>>) \cup {x[i] : i \in DOMAIN x}
         /\ RootWords(t, <<>>) = ((t + 1) .. (StackBottom - 1)) \cup Globals
<1>1. ProcessInv' /\ RootsInv'
  BY DEF MutatorInv, Between
<1>2. t \in Nat /\ t < StackBottom /\ w \in [Words -> Int] /\ RootWords(t, <<>>) \subseteq Words
  BY <1>1 DEF ProcessInv
<1>3. x \in Seq(Words)
  BY <1>1 DEF RootsInv
<1>4. RootWords(t, <<>>) = ((t + 1) .. (StackBottom - 1)) \cup Globals
  BY <1>2, OperandsAndGlobals
<1>5. RootWords(t, x) = RootWords(t, <<>>) \cup {x[i] : i \in DOMAIN x}
  BY <1>4 DEF RootWords, Globals
<1> QED BY <1>2, <1>3, <1>4, <1>5

LEMMA CallStringKept ==
  ASSUME ProgramAt, MutatorInv', NEW len \in StringLens, CallString(len), phase' = "request", view' = view
  PROVE  GraphInv'
<1>1. PICK roots : roots = <<LocalQ>>
  OBVIOUS
<1>2. PICK fn \in Allocators, p \in Nat : fn = "Bstring" /\ p = 0
  BY DEF Allocators
<1>3. /\ Request(fn, "STRING", len, p, roots)
      /\ word' = [word EXCEPT ![LocalQ] = CString] /\ top' = top
  BY <1>1, <1>2, Zenon DEF CallString
<1>4. extra' = roots /\ ids' = ids /\ ids < MaxAllocs
      /\ call' = [fn |-> fn, pops |-> p, kind |-> "STRING", len |-> len]
  BY <1>3 DEF Request
<1>5. CallKnown'
  BY <1>2, <1>4, Layout DEF CallKnown
<1>6. PICK w, t : w = word' /\ t = top'
  OBVIOUS
<1>7. /\ t \in Nat /\ t < StackBottom /\ w \in [Words -> Int] /\ RootWords(t, roots) \subseteq Words
      /\ RootWords(t, roots) = RootWords(t, <<>>) \cup {roots[i] : i \in DOMAIN roots}
      /\ RootWords(t, <<>>) = ((t + 1) .. (StackBottom - 1)) \cup Globals
  BY <1>4, <1>6, RequestedWords
<1>8. RunInv /\ word \in [Words -> Int]
  BY DEF ProgramAt, RunInv, ProcessInv
<1>9. \A a \in RootWords(t, <<>>) : w[a] = word[a]
  <2>1. \A a \in RootWords(t, <<>>) : a # LocalQ
    BY <1>7, Layout
  <2> QED BY <1>3, <1>6, <1>7, <1>8, <2>1
<1>10. w[LocalQ] = CString /\ {roots[i] : i \in DOMAIN roots} = {LocalQ}
  BY <1>1, <1>3, <1>6, <1>8, Layout
<1>11. PICK f \in Nat : f = FieldCount("STRING", len)
  BY StringSizes, Layout
<1>12. SameOperands(fn, w, t, f, p)
  <2>1. \A a \in (t + p + 1) .. (StackBottom - 1) : w[a] = word[a]
    BY <1>2, <1>7, <1>9
  <2>2. top <= t + p /\ t + p < StackBottom /\ t + p - top = 0
    BY <1>2, <1>3, <1>6, <1>7
  <2>3. PICK before : before = <<>>
    OBVIOUS
  <2>4. before = BeforeCall(fn, ArgumentsIn(w, t, f), PoppedIn(fn, w))
    BY <1>2, <2>3 DEF BeforeCall, PoppedIn
  <2>5. DOMAIN before = 1 .. (t + p - top) /\ before = [i \in DOMAIN before |-> before[i]]
    BY <2>2, <2>3
  <2>6. \A i \in 1 .. (t + p - top) : before[i] = Denotes(word[top + i])
    BY <2>2
  <2> QED BY <1>7, <1>8, <2>1, <2>2, <2>4, <2>5, <2>6, OperandsAgain
<1>13. SameRoots(w, t, roots)
  BY <1>3, <1>6, <1>7, <1>9, <1>10, Layout DEF SameRoots
<1>14. SameCaptures(fn, w, t, f, roots)
  BY <1>2 DEF SameCaptures, Parameters
<1>15. SameClone(fn, "STRING", w, t, roots)
  BY <1>2 DEF SameClone, ClonesString
<1> QED BY <1>3, <1>5, <1>6, <1>8, <1>11, <1>12, <1>13, <1>14, <1>15, RequestKept

LEMMA CallLstringKept ==
  ASSUME ProgramAt, MutatorInv', NEW len \in StringLens, CallLstring(len), phase' = "request", view' = view
  PROVE  GraphInv'
<1>1. PICK roots, v : roots = <<LocalP, LocalQ>> /\ v = word[top + 1]
  OBVIOUS
<1>2. PICK fn \in Allocators, p \in Nat : fn = "Lstring" /\ p = 0
  BY DEF Allocators
<1>3. /\ Request(fn, "STRING", len, p, roots)
      /\ word' = [word EXCEPT ![LocalP] = v, ![LocalQ] = CString] /\ top' = top + 1
  BY <1>1, <1>2, Zenon DEF CallLstring
<1>4. extra' = roots /\ ids' = ids /\ ids < MaxAllocs
      /\ call' = [fn |-> fn, pops |-> p, kind |-> "STRING", len |-> len]
  BY <1>3 DEF Request
<1>5. CallKnown'
  BY <1>2, <1>4, Layout DEF CallKnown
<1>6. PICK w, t : w = word' /\ t = top'
  OBVIOUS
<1>7. /\ t \in Nat /\ t < StackBottom /\ w \in [Words -> Int] /\ RootWords(t, roots) \subseteq Words
      /\ RootWords(t, roots) = RootWords(t, <<>>) \cup {roots[i] : i \in DOMAIN roots}
      /\ RootWords(t, <<>>) = ((t + 1) .. (StackBottom - 1)) \cup Globals
  BY <1>4, <1>6, RequestedWords
<1>8. RunInv /\ word \in [Words -> Int] /\ top \in Nat /\ t = top + 1
      /\ RootWords(top, <<>>) = ((top + 1) .. (StackBottom - 1)) \cup Globals
  BY <1>3, <1>6, OperandsAndGlobals DEF ProgramAt, RunInv, ProcessInv
<1>9. \A a \in RootWords(t, <<>>) : w[a] = word[a]
  <2>1. \A a \in RootWords(t, <<>>) : a # LocalQ /\ a # LocalP /\ a \in Words
    <3> SUFFICES ASSUME NEW a \in RootWords(t, <<>>) PROVE a # LocalQ /\ a # LocalP /\ a \in Words
      OBVIOUS
    <3>1. a \in Words
      BY <1>7
    <3>2. a < GlobalStop
      <4>1. CASE a \in Globals
        BY <4>1, Layout
      <4>2. CASE a \in (t + 1) .. (StackBottom - 1)
        <5>1. /\ StackBottom \in Nat /\ GlobalStart \in Nat /\ GlobalStop \in Nat
              /\ StackBottom < GlobalStart /\ GlobalStart <= GlobalStop
          BY Layout
        <5>2. t \in Nat
          BY <1>7
        <5> QED BY ONLY <4>2, <5>1, <5>2
      <4> QED BY <1>7, <4>1, <4>2
    <3>3. a \in Nat /\ LocalP \in Nat /\ LocalQ \in Nat /\ GlobalStop \in Nat
          /\ LocalP > GlobalStop /\ LocalQ > GlobalStop
      BY <3>1, Layout
    <3> QED BY ONLY <3>1, <3>2, <3>3
  <2> QED BY <1>3, <1>6, <1>8, <2>1
<1>10. w[LocalQ] = CString /\ w[LocalP] = v /\ {roots[i] : i \in DOMAIN roots} = {LocalP, LocalQ}
  <2>1. w[LocalQ] = CString /\ w[LocalP] = v
    BY <1>3, <1>6, <1>8, Layout
  <2>2. {roots[i] : i \in DOMAIN roots} = {LocalP, LocalQ}
    BY ONLY <1>1
  <2> QED BY <2>1, <2>2
<1>11. PICK f \in Nat : f = FieldCount("STRING", len)
  BY StringSizes, Layout
<1>12. SameOperands(fn, w, t, f, p)
  <2>1. \A a \in (t + p + 1) .. (StackBottom - 1) : w[a] = word[a]
    BY <1>2, <1>7, <1>9
  <2>2. top <= t + p /\ t + p < StackBottom /\ t + p - top = 1
    BY <1>2, <1>7, <1>8
  <2>3. PICK before : before = <<Denotes(v)>>
    OBVIOUS
  <2>4. before = BeforeCall(fn, ArgumentsIn(w, t, f), PoppedIn(fn, w))
    BY <1>2, <1>10, <2>3 DEF BeforeCall, PoppedIn
  <2>5. DOMAIN before = 1 .. (t + p - top) /\ before = [i \in DOMAIN before |-> before[i]]
    BY <2>2, <2>3
  <2>6. \A i \in 1 .. (t + p - top) : before[i] = Denotes(word[top + i])
    <3>1. before[1] = Denotes(word[top + 1])
      BY <1>1, <2>3
    <3>2. t + p - top = 1
      BY <2>2
    <3> QED BY ONLY <3>1, <3>2
  <2> QED BY <1>7, <1>8, <2>1, <2>2, <2>4, <2>5, <2>6, OperandsAgain
<1>13. SameRoots(w, t, roots)
  <2>1. top + 1 \in RootWords(top, <<>>)
    <3>1. top + 1 \in (top + 1) .. (StackBottom - 1)
      BY <1>7, <1>8, Layout
    <3> QED BY <1>8, <3>1
  <2>2. ASSUME NEW a \in RootWords(t, roots)
        PROVE  w[a] \in Int /\ (w[a] < GlobalStop \/ \E b \in RootWords(top, <<>>) : w[a] = word[b])
    <3>1. w[a] \in Int
      BY <1>7
    <3>2. CASE a = LocalP
      BY <1>1, <1>10, <2>1, <3>1, <3>2
    <3>3. CASE a = LocalQ
      BY <1>10, <3>1, <3>3, Layout
    <3>4. CASE a \in RootWords(t, <<>>)
      <4>1. a \in RootWords(top, <<>>)
        BY <1>7, <1>8, <3>4, Layout
      <4> QED BY <1>9, <3>1, <3>4, <4>1
    <3> QED BY <1>7, <1>10, <3>2, <3>3, <3>4
  <2>3. ASSUME NEW b \in RootWords(top, <<>>)
        PROVE  \E a \in RootWords(t, roots) : word[b] = w[a]
    <3>1. CASE b = top + 1
      BY <1>1, <1>7, <1>10, <3>1
    <3>2. CASE b # top + 1
      <4>1. b \in RootWords(t, <<>>)
        BY <1>7, <1>8, <3>2, Layout
      <4> QED BY <1>7, <1>9, <4>1
    <3> QED BY <3>1, <3>2
  <2>4. \A g \in Globals : w[g] = word[g]
    BY <1>7, <1>9
  <2> QED BY <2>2, <2>3, <2>4 DEF SameRoots
<1>14. SameCaptures(fn, w, t, f, roots)
  BY <1>2, <1>7, <1>10 DEF SameCaptures, Parameters
<1>15. SameClone(fn, "STRING", w, t, roots)
  BY <1>2 DEF SameClone, ClonesString
<1> QED BY <1>3, <1>5, <1>6, <1>8, <1>11, <1>12, <1>13, <1>14, <1>15, RequestKept

\* Barray's arguments, and Bsexp's, are the operands in the opposite order.
LEMMA RearrangedKept ==
  ASSUME ProgramAt, MutatorInv', phase' = "request", view' = view, CallKnown',
         NEW fn \in {"Barray", "Bsexp"}, NEW kind, NEW n \in Nat, n <= Depth, FieldCount(kind, n) = n,
         NEW m \in {n, n + 1}, NEW roots, roots = <<>>, Request(fn, kind, n, m, roots),
         NEW vs, Len(vs) = m, \A i \in 1..n : vs[i] = word[top + n + 1 - i],
         m = n + 1 => vs[n + 1] = Number, Replace(word, n, vs)
  PROVE  GraphInv'
<1>1. RunInv /\ extra' = roots
  BY DEF ProgramAt, Request
<1>2. PICK w, t, e : w = word' /\ t = top' /\ e = top
  OBVIOUS
<1>3. /\ t \in Nat /\ t < StackBottom /\ w \in [Words -> Int] /\ RootWords(t, roots) \subseteq Words
      /\ RootWords(t, <<>>) = ((t + 1) .. (StackBottom - 1)) \cup Globals
  BY <1>1, <1>2, RequestedWords
<1>4. /\ word \in [Words -> Int] /\ e \in Nat /\ e < StackBottom /\ e + n <= StackBottom - 1
      /\ RootWords(e, <<>>) = ((e + 1) .. (StackBottom - 1)) \cup Globals
      /\ RootWords(e, <<>>) \subseteq Words
  BY <1>1, <1>2, OperandsAndGlobals, Layout DEF RunInv, ProcessInv, Depth
<1>5. StackBottom \in Nat /\ m \in Nat /\ t + m = e + n /\ t <= e
  BY <1>2, <1>3, <1>4, Layout DEF Replace
<1>6. \A a \in Words : w[a] = IF a \in t + 1 .. e + n THEN vs[a - t] ELSE word[a]
  <2>1. top + n - Len(vs) = t
    BY <1>2 DEF Replace
  <2> QED BY <1>2, <2>1 DEF Replace
<1>7. /\ (t + 1) .. (StackBottom - 1) \subseteq Words
      /\ \A a \in (e + n + 1) .. (StackBottom - 1) : a \in Words /\ w[a] = word[a]
  <2>1. (t + 1) .. (StackBottom - 1) \subseteq Words
    BY <1>1, <1>2, <1>3
  <2>2. ASSUME NEW a \in (e + n + 1) .. (StackBottom - 1) PROVE a \in Words /\ w[a] = word[a]
    <3>1. a \in (t + 1) .. (StackBottom - 1) /\ a \notin t + 1 .. e + n
      BY ONLY <1>3, <1>4, <1>5, n \in Nat, a \in (e + n + 1) .. (StackBottom - 1)
    <3> QED BY <1>6, <2>1, <3>1
  <2> QED BY <2>1, <2>2
<1>8. ASSUME NEW i \in 1..n PROVE t + i \in Words /\ w[t + i] = word[e + n + 1 - i]
  <2>1. PICK a : a = t + i
    OBVIOUS
  <2>2. a \in (t + 1) .. (StackBottom - 1) /\ a \in t + 1 .. e + n /\ a - t = i
    BY ONLY <1>3, <1>4, <1>5, <2>1, n \in Nat, m \in {n, n + 1}, i \in 1..n
  <2>3. a \in Words
    BY <1>7, <2>2
  <2>4. w[a] = vs[i]
    BY ONLY <1>6, <2>2, <2>3
  <2> QED BY <1>2, <2>1, <2>3, <2>4
\* The operands.
<1>9. SameOperands(fn, w, t, n, m)
  <2>1. PICK args : args = ArgumentsIn(w, t, n)
    OBVIOUS
  <2>2. args = [i \in 1..n |-> Denotes(w[t + i])] /\ Len(args) = n
    BY <2>1 DEF ArgumentsIn
  <2>3. PICK before : before = Reversed(args)
    OBVIOUS
  <2>4. before = [i \in 1..n |-> args[n + 1 - i]]
    BY <2>2, <2>3 DEF Reversed
  <2>5. before = BeforeCall(fn, ArgumentsIn(w, t, n), PoppedIn(fn, w))
    BY <2>1, <2>3 DEF BeforeCall, PoppedIn
  <2>6. ASSUME NEW i \in 1..n PROVE before[i] = Denotes(word[e + i])
    <3>1. PICK j \in 1..n : j = n + 1 - i /\ e + n + 1 - j = e + i
      <4>1. n + 1 - i \in 1..n /\ e + n + 1 - (n + 1 - i) = e + i
        BY <1>4
      <4> QED BY <4>1
    <3>2. before[i] = Denotes(w[t + j])
      BY <2>2, <2>4, <3>1
    <3>3. w[t + j] = word[e + i]
      BY <1>8, <3>1
    <3> QED BY <3>2, <3>3
  <2>7. t + m < StackBottom /\ top <= t + m /\ t + m - top = n
    <3>1. t + m < StackBottom /\ e <= t + m /\ t + m - e = n
      BY ONLY <1>3, <1>4, <1>5, n \in Nat
    <3> QED BY <1>2, <3>1
  <2>8. \A a \in (t + m + 1) .. (StackBottom - 1) : w[a] = word[a]
    BY <1>5, <1>7
  <2>9. DOMAIN before = 1 .. (t + m - top) /\ before = [i \in DOMAIN before |-> before[i]]
    BY <2>4, <2>7
  <2>10. \A i \in 1 .. (t + m - top) : before[i] = Denotes(word[top + i])
    BY <1>2, <2>6, <2>7
  <2>11. RunInv /\ t \in Nat /\ m \in Nat
    BY <1>1, <1>3, <1>5
  <2> QED BY ONLY <2>5, <2>7, <2>8, <2>9, <2>10, <2>11, OperandsAgain
\* The roots.
<1>10. \A g \in Globals : g \in Words /\ w[g] = word[g]
  <2> SUFFICES ASSUME NEW g \in Globals PROVE g \in Words /\ w[g] = word[g]
    OBVIOUS
  <2>1. g \in Words /\ g \in Nat /\ g > StackBottom
    BY Layout
  <2>2. g \notin t + 1 .. e + n
    BY ONLY <1>3, <1>4, <1>5, <2>1, n \in Nat
  <2> QED BY <1>6, <2>1, <2>2
<1>11. ASSUME NEW a \in RootWords(t, roots)
       PROVE  w[a] \in Int /\ (w[a] < GlobalStop \/ \E b \in RootWords(e, <<>>) : w[a] = word[b])
  <2>1. w[a] \in Int
    BY <1>3
  <2>2. CASE a \in Globals
    BY <1>4, <1>10, <2>1, <2>2
  <2>3. CASE a \in (e + n + 1) .. (StackBottom - 1)
    <3>1. a \in (e + 1) .. (StackBottom - 1)
      BY ONLY <1>4, <1>5, <2>3, n \in Nat
    <3> QED BY <1>4, <1>7, <2>1, <2>3, <3>1
  <2>4. CASE a \in (t + 1) .. (e + n)
    <3>1. PICK i \in 1..m : a = t + i
      <4>1. a - t \in 1..m /\ a = t + (a - t)
        BY ONLY <1>3, <1>4, <1>5, <2>4, n \in Nat
      <4> QED BY <4>1
    <3>2. CASE i <= n
      <4>1. e + n + 1 - i \in (e + 1) .. (StackBottom - 1)
        BY ONLY <1>4, <1>5, <3>2, n \in Nat, m \in Nat, i \in 1..m
      <4>2. w[a] = word[e + n + 1 - i]
        BY <1>5, <1>8, <3>1, <3>2
      <4> QED BY <1>4, <2>1, <4>1, <4>2
    <3>3. CASE ~(i <= n)
      <4>1. m = n + 1 /\ i = n + 1 /\ a - t = i /\ a \in t + 1 .. e + n
        BY ONLY <1>3, <1>4, <1>5, <2>4, <3>1, <3>3, n \in Nat, m \in {n, n + 1}, i \in 1..m
      <4>2. a \in Words
        BY <1>3
      <4>3. w[a] = Number
        BY <1>6, <4>1, <4>2
      <4> QED BY <2>1, <4>3, Layout
    <3> QED BY <3>2, <3>3
  <2>5. a \in Globals \/ a \in (t + 1) .. (StackBottom - 1)
    BY <1>3
  <2>6. a \in (t + 1) .. (StackBottom - 1) => a \in (e + n + 1) .. (StackBottom - 1) \/ a \in (t + 1) .. (e + n)
    BY ONLY <1>3, <1>4, <1>5, n \in Nat
  <2> QED BY <2>2, <2>3, <2>4, <2>5, <2>6
<1>12. ASSUME NEW b \in RootWords(e, <<>>) PROVE \E a \in RootWords(t, roots) : word[b] = w[a]
  <2>1. (t + 1) .. (StackBottom - 1) \subseteq RootWords(t, roots) /\ Globals \subseteq RootWords(t, roots)
    BY <1>3
  <2>2. CASE b \in Globals
    BY <1>10, <2>1, <2>2
  <2>3. CASE b \in (e + n + 1) .. (StackBottom - 1)
    <3>1. b \in (t + 1) .. (StackBottom - 1)
      BY ONLY <1>3, <1>4, <1>5, <2>3, n \in Nat
    <3> QED BY <1>7, <2>1, <2>3, <3>1
  <2>4. CASE b \in (e + 1) .. (e + n)
    <3>1. PICK i \in 1..n : b = e + n + 1 - i
      <4>1. e + n + 1 - b \in 1..n /\ b = e + n + 1 - (e + n + 1 - b)
        BY ONLY <1>4, <2>4, n \in Nat
      <4> QED BY <4>1
    <3>2. t + i \in (t + 1) .. (StackBottom - 1)
      BY ONLY <1>3, <1>4, <1>5, n \in Nat, m \in {n, n + 1}, i \in 1..n
    <3>3. w[t + i] = word[b]
      BY <1>8, <3>1
    <3> QED BY <2>1, <3>2, <3>3
  <2>5. b \in (e + 1) .. (StackBottom - 1) => b \in (e + n + 1) .. (StackBottom - 1) \/ b \in (e + 1) .. (e + n)
    BY ONLY <1>4, <1>5, n \in Nat
  <2> QED BY <1>4, <2>2, <2>3, <2>4, <2>5
<1>13. SameRoots(w, t, roots)
  BY <1>2, <1>10, <1>11, <1>12 DEF SameRoots
<1>14. SameCaptures(fn, w, t, n, roots)
  BY DEF SameCaptures, Parameters
<1>15. SameClone(fn, kind, w, t, roots)
  BY DEF SameClone, ClonesString
<1> QED BY <1>1, <1>2, <1>9, <1>13, <1>14, <1>15, RequestKept

LEMMA CallArrayKept ==
  ASSUME ProgramAt, MutatorInv', NEW n \in 0..MaxLen, CallArray(n), phase' = "request", view' = view
  PROVE  GraphInv'
<1>1. PICK fn, kind, roots : fn = "Barray" /\ kind = "ARRAY" /\ roots = <<>>
  OBVIOUS
<1>2. PICK vs : vs = [i \in 1..n |-> word[top + n + 1 - i]]
  OBVIOUS
<1>3. Request(fn, kind, n, n, roots) /\ Replace(word, n, vs) /\ n <= Depth
  BY <1>1, <1>2, Zenon DEF CallArray
<1>4. n \in Nat /\ MaxLen \in Nat
  BY Layout
<1>5. Len(vs) = n /\ \A i \in 1..n : vs[i] = word[top + n + 1 - i]
  BY <1>2, <1>4
<1>6. FieldCount(kind, n) = n
  BY <1>1, <1>4 DEF FieldCount
<1>7. CallKnown'
  <2>1. ids' = ids /\ ids < MaxAllocs /\ call' = [fn |-> fn, pops |-> n, kind |-> kind, len |-> n]
    BY <1>3 DEF Request
  <2> QED BY <1>1, <2>1 DEF CallKnown
<1>8. fn \in {"Barray", "Bsexp"} /\ n \in {n, n + 1} /\ n # n + 1
  BY <1>1, <1>4
<1> QED BY <1>1, <1>3, <1>4, <1>5, <1>6, <1>7, <1>8, RearrangedKept

LEMMA CallSexpKept ==
  ASSUME ProgramAt, MutatorInv', NEW n \in 0..MaxLen, CallSexp(n), phase' = "request", view' = view
  PROVE  GraphInv'
<1>1. PICK fn, kind, roots : fn = "Bsexp" /\ kind = "SEXP" /\ roots = <<>>
  OBVIOUS
<1>2. PICK vs, m : m = n + 1
                   /\ vs = [i \in 1..(n + 1) |-> IF i <= n THEN word[top + n + 1 - i] ELSE Number]
  OBVIOUS
<1>3. Request(fn, kind, n, m, roots) /\ Replace(word, n, vs) /\ n <= Depth
  BY <1>1, <1>2, Zenon DEF CallSexp, SexpPops
<1>4. n \in Nat /\ MaxLen \in Nat
  BY Layout
<1>5. Len(vs) = m /\ vs[n + 1] = Number /\ \A i \in 1..n : vs[i] = word[top + n + 1 - i]
  BY <1>2, <1>4
<1>6. FieldCount(kind, n) = n
  BY <1>1, <1>4 DEF FieldCount
<1>7. CallKnown'
  <2>1. ids' = ids /\ ids < MaxAllocs /\ call' = [fn |-> fn, pops |-> m, kind |-> kind, len |-> n]
    BY <1>3 DEF Request
  <2> QED BY <1>1, <1>2, <2>1 DEF CallKnown
<1>8. fn \in {"Barray", "Bsexp"} /\ m \in {n, n + 1}
  BY <1>1, <1>2
<1> QED BY <1>1, <1>3, <1>4, <1>5, <1>6, <1>7, <1>8, RearrangedKept

\* Bclosure's arguments are copies of what the operands, or the variables, are; what it
\* registers are other operands, or numbers above the bottom of the stack.
LEMMA CallClosureKept ==
  ASSUME ProgramAt, MutatorInv', NEW n \in 0..MaxLen, CallClosure(n), phase' = "request", view' = view
  PROVE  GraphInv'
<1>1. PICK vars \in [1..n -> Operands \cup Globals] : Capture([i \in 1..n |-> word[vars[i]]])
  BY Zenon DEF CallClosure
<1>2. PICK vs, k, roots :
        /\ vs = [i \in 1..n |-> word[vars[i]]] /\ k = Len(vs)
        /\ roots = [i \in 1..k |-> top - k + ArgssOffset + i - 1]
        /\ Room(k + 1) /\ Replace(word, 0, vs) /\ Request("Bclosure", "CLOSURE", k + 1, k, roots)
  BY <1>1, Zenon DEF Capture
<1>3. n \in Nat /\ MaxLen \in Nat /\ k = n
  BY <1>2, Layout
<1>4. PICK fn, kind, len :
        fn \in Allocators /\ fn = "Bclosure" /\ kind = "CLOSURE" /\ len = n + 1
  BY DEF Allocators
<1>5. /\ Request(fn, kind, len, n, roots)
      /\ roots = [i \in 1..n |-> top - n + ArgssOffset + i - 1]
  BY <1>2, <1>3, <1>4
<1>6. /\ extra' = roots /\ ids' = ids /\ ids < MaxAllocs
      /\ call' = [fn |-> fn, pops |-> n, kind |-> kind, len |-> len]
  BY <1>5 DEF Request
<1>7. CallKnown'
  BY <1>3, <1>4, <1>6 DEF CallKnown
<1>8. FieldCount(kind, len) = n
  BY <1>3, <1>4 DEF FieldCount
<1>9. PICK w, t, e : w = word' /\ t = top' /\ e = top
  OBVIOUS
<1>10. /\ t \in Nat /\ t < StackBottom /\ w \in [Words -> Int] /\ RootWords(t, roots) \subseteq Words
       /\ RootWords(t, roots) = RootWords(t, <<>>) \cup {roots[i] : i \in DOMAIN roots}
       /\ RootWords(t, <<>>) = ((t + 1) .. (StackBottom - 1)) \cup Globals
  BY <1>6, <1>9, RequestedWords
<1>11. /\ word \in [Words -> Int] /\ e \in Nat /\ e < StackBottom /\ SpareUnboxed(word)
       /\ RootWords(e, <<>>) = ((e + 1) .. (StackBottom - 1)) \cup Globals
       /\ RootWords(e, <<>>) \subseteq Words /\ RunInv
  BY <1>9, OperandsAndGlobals DEF ProgramAt, RunInv, ProcessInv, HeapConsistent
<1>12. StackBottom \in Nat /\ t + n = e
  <2>1. t = e + 0 - Len(vs)
    BY <1>2, <1>9 DEF Replace
  <2> QED BY <1>2, <1>3, <1>10, <1>11, <2>1, Layout
<1>13. \A a \in Words : w[a] = IF a \in t + 1 .. e THEN vs[a - t] ELSE word[a]
  <2>1. e + 0 - Len(vs) = t /\ e + 0 = e
    <3>1. Len(vs) = n
      BY <1>2, <1>3
    <3> QED BY ONLY <1>3, <1>10, <1>11, <1>12, <3>1
  <2> QED BY <1>2, <1>9, <2>1 DEF Replace
<1>14. \A a \in Words : a > e => w[a] = word[a]
  <2> SUFFICES ASSUME NEW a \in Words, a > e PROVE w[a] = word[a]
    OBVIOUS
  <2>1. a \in Nat
    BY Layout
  <2>2. a \notin t + 1 .. e
    BY ONLY <1>11, <2>1, a > e
  <2> QED BY <1>13, <2>2
<1>15. ASSUME NEW a \in t + 1 .. e
       PROVE  \E b \in RootWords(e, <<>>) : w[a] = word[b]
  <2>1. PICK i \in 1..n : a - t = i
    <3>1. a - t \in 1..n
      BY ONLY <1>3, <1>10, <1>11, <1>12, a \in t + 1 .. e
    <3> QED BY <3>1
  <2>2. a \in (t + 1) .. (StackBottom - 1)
    BY ONLY <1>10, <1>11, <1>12, a \in t + 1 .. e
  <2>3. a \in Words
    BY <1>10, <2>2
  <2>4. w[a] = word[vars[i]]
    BY <1>2, <1>13, <2>1, <2>3
  <2>5. vars[i] \in RootWords(e, <<>>)
    BY <1>9, <1>11 DEF Operands
  <2> QED BY <2>4, <2>5
\* The operands.
<1>16. SameOperands(fn, w, t, n, n)
  <2>1. ASSUME NEW a \in (t + n + 1) .. (StackBottom - 1) PROVE w[a] = word[a]
    <3>1. a \in (e + 1) .. (StackBottom - 1) /\ a > e
      BY ONLY <1>11, <1>12, a \in (t + n + 1) .. (StackBottom - 1)
    <3>2. a \in Words
      BY <1>11, <3>1
    <3> QED BY <1>14, <3>1, <3>2
  <2>2. PICK before : before = <<>>
    OBVIOUS
  <2>3. before = BeforeCall(fn, ArgumentsIn(w, t, n), PoppedIn(fn, w))
    BY <1>4, <2>2 DEF BeforeCall, PoppedIn
  <2>4. t + n < StackBottom /\ top <= t + n /\ t + n - top = 0
    <3>1. t + n < StackBottom /\ e <= t + n /\ t + n - e = 0
      BY ONLY <1>3, <1>10, <1>11, <1>12
    <3> QED BY <1>9, <3>1
  <2>5. DOMAIN before = 1 .. (t + n - top) /\ before = [i \in DOMAIN before |-> before[i]]
    BY <2>2, <2>4
  <2>6. \A i \in 1 .. (t + n - top) : before[i] = Denotes(word[top + i])
    BY <2>4
  <2>7. RunInv /\ t \in Nat /\ n \in Nat
    BY <1>3, <1>10, <1>11
  <2> QED BY ONLY <2>1, <2>3, <2>4, <2>5, <2>6, <2>7, OperandsAgain
\* The roots.
<1>17. \A g \in Globals : g \in Words /\ g > e
  BY <1>9, <1>11, Layout
<1>18. ASSUME NEW a \in RootWords(t, <<>>)
       PROVE  \E b \in RootWords(e, <<>>) : w[a] = word[b]
  <2>1. CASE a \in Globals
    BY <1>11, <1>14, <1>17, <2>1
  <2>2. CASE a \in (t + 1) .. (StackBottom - 1)
    <3>1. a \in t + 1 .. e \/ (a \in (e + 1) .. (StackBottom - 1) /\ a > e)
      BY ONLY <1>10, <1>11, <1>12, <2>2
    <3>2. a \in Words
      BY <1>10
    <3> QED BY <1>11, <1>14, <1>15, <3>1, <3>2
  <2> QED BY <1>10, <2>1, <2>2
<1>19. ASSUME NEW a \in RootWords(t, roots)
       PROVE  w[a] \in Int /\ (w[a] < GlobalStop \/ \E b \in RootWords(e, <<>>) : w[a] = word[b])
  <2>1. a \in Words /\ w[a] \in Int
    BY <1>10
  <2>2. CASE a \in RootWords(t, <<>>)
    BY <1>18, <2>1, <2>2
  <2>3. ASSUME NEW i \in 1..n, a = roots[i], a \notin RootWords(t, <<>>)
        PROVE  w[a] < GlobalStop
    <3>1. PICK o \in Nat : o = ArgssOffset /\ o >= 1
      BY Layout
    <3>2. a = t + o + i - 1
      <4>1. a = e - n + o + i - 1
        BY <1>5, <1>9, <2>3, <3>1
      <4> QED BY ONLY <1>3, <1>10, <1>11, <1>12, <3>1, <4>1, i \in 1..n
    <3>3. ~(a \in (t + 1) .. (StackBottom - 1))
      BY <1>10, <2>3
    <3>4. a \in StackBottom .. (StackBottom + o - 2) /\ a > e
      BY ONLY <1>3, <1>10, <1>11, <1>12, <3>1, <3>2, <3>3, i \in 1..n
    <3>5. a \in Spare
      BY <3>1, <3>4 DEF Spare
    <3>6. word[a] \in Int /\ word[a] < 0 /\ w[a] = word[a]
      BY <1>11, <1>14, <2>1, <3>4, <3>5 DEF SpareUnboxed, IsUnboxed
    <3> QED BY <3>6, Layout
  <2>4. DOMAIN roots = 1..n
    BY <1>5
  <2> QED BY <1>10, <2>1, <2>2, <2>3, <2>4
<1>20. ASSUME NEW b \in RootWords(e, <<>>) PROVE \E a \in RootWords(t, roots) : word[b] = w[a]
  <2>1. b \in Words
    BY <1>11
  <2>2. CASE b \in Globals
    BY <1>10, <1>14, <1>17, <2>1, <2>2
  <2>3. CASE b \in (e + 1) .. (StackBottom - 1)
    <3>1. b \in (t + 1) .. (StackBottom - 1) /\ b > e
      BY ONLY <1>3, <1>10, <1>11, <1>12, <2>3
    <3> QED BY <1>10, <1>14, <2>1, <3>1
  <2> QED BY <1>11, <2>2, <2>3
<1>21. SameRoots(w, t, roots)
  BY <1>9, <1>14, <1>17, <1>19, <1>20 DEF SameRoots
<1>22. SameCaptures(fn, w, t, n, roots)
  <2>1. ASSUME NEW i \in 1..n PROVE \E b \in RootWords(top, <<>>) : w[t + i] = word[b]
    <3>1. t + i \in t + 1 .. e
      BY ONLY <1>3, <1>10, <1>11, <1>12, i \in 1..n
    <3> QED BY <1>9, <1>15, <3>1
  <2> QED BY <1>4, <2>1 DEF SameCaptures, Parameters
<1>23. SameClone(fn, "CLOSURE", w, t, roots)
  BY <1>4 DEF SameClone, ClonesString
<1> QED BY <1>23, <1>3, <1>4, <1>5, <1>7, <1>8, <1>9, <1>11, <1>16, <1>21, <1>22, RequestKept

\* Up to the call of the runtime, an instruction changes nothing for the program.
LEMMA AllocatingKept ==
  ASSUME MutatorInv, GraphInv, Allocating, Recorded
  PROVE  GraphInv' /\ view' = view /\ phase' \in {"request", "exit"}
<1>1. Running /\ phase' \in {"request", "exit"}
  <2>1. ASSUME NEW fn, NEW kind, NEW len, NEW pops, NEW roots, Request(fn, kind, len, pops, roots)
        PROVE  Running /\ phase' \in {"request", "exit"}
    BY <2>1 DEF Request
  <2>2. \E fn, kind, len, pops, roots : Request(fn, kind, len, pops, roots)
    BY Zenon DEF Allocating, CallString, CallLstring, CallArray, CallSexp, CallClosure, Capture
  <2> QED BY <2>1, <2>2, Zenon
<1>2. ProgramAt
  BY <1>1, BetweenInstructions
<1>3. MutatorInv'
  BY AllocatingStep
<1>4. view' = view
  BY <1>1 DEF Recorded
<1>5. CASE phase' = "request"
  <2>1. ASSUME NEW len \in StringLens, CallString(len) \/ CallLstring(len) PROVE GraphInv'
    BY <1>2, <1>3, <1>4, <1>5, <2>1, CallStringKept, CallLstringKept
  <2>2. ASSUME NEW n \in 0..MaxLen, CallArray(n) \/ CallSexp(n) \/ CallClosure(n) PROVE GraphInv'
    BY <1>2, <1>3, <1>4, <1>5, <2>2, CallArrayKept, CallSexpKept, CallClosureKept
  <2> QED BY <1>1, <1>4, <2>1, <2>2 DEF Allocating
<1>6. CASE phase' = "exit"
  BY <1>4, <1>6 DEF GraphInv, Collecting, Scanning, Compacting
<1> QED BY <1>1, <1>4, <1>5, <1>6

-----------------------------------------------------------------------------
(* A collection                                                             *)

LEMMA GraphStays ==
  ASSUME NEW D, CallKnown, ViewKept(D), Identified(D), Latest' = D,
         phase' \in Collecting \cup {"request"}, UNCHANGED <<call, ids, top, extra, view>>
  PROVE  GraphInv'
<1>1. CallKnown'
  BY DEF CallKnown
<1>2. /\ RootValues(D)' = RootValues(D)
      /\ ArgumentsOf(D)' = ArgumentsOf(D) /\ Remaining(D)' = Remaining(D)
  BY DEF RootValues, ArgumentsOf, Remaining, RootWords, Depth
<1>3. OperandsBefore(D)' = OperandsBefore(D)
  <2>1. Popped(D)' = Popped(D)
    BY DEF Popped, Graph!Number
  <2> QED BY <1>2, <2>1, Zenon DEF OperandsBefore
<1>4. ViewKept(D)'
  <2>1. PICK s, k, args : s = Graph!Retained(StoreOf(D), RootValues(D)) /\ args = ArgumentsOf(D)
                          /\ k = OperandsBefore(D) \o Remaining(D)
    OBVIOUS
  <2>2. /\ s = Graph!Retained(StoreOf(D), RootValues(D))' /\ args = ArgumentsOf(D)'
        /\ k = (OperandsBefore(D) \o Remaining(D))'
    BY <1>2, <1>3, <2>1 DEF StoreOf, Graph!Retained
  <2>3. /\ view = [store |-> s, stack |-> k, globals |-> [g \in Globals |-> D.roots[g]]]
        /\ call.fn = "Bclosure" =>
             \A i \in DOMAIN args : \/ \E j \in DOMAIN view.stack : args[i] = view.stack[j]
                                   \/ \E g \in Globals : args[i] = view.globals[g]
        /\ ClonesString(call.fn, call.kind) => D.roots[LocalQ] = D.roots[LocalP]
    BY <2>1, Zenon DEF ViewKept, ClonesString
  <2>4. /\ view' = [store |-> s, stack |-> k, globals |-> [g \in Globals |-> D.roots[g]]]
        /\ call'.fn = "Bclosure" =>
             \A i \in DOMAIN args : \/ \E j \in DOMAIN view'.stack : args[i] = view'.stack[j]
                                   \/ \E g \in Globals : args[i] = view'.globals[g]
        /\ ClonesString(call'.fn, call'.kind) => D.roots[LocalQ] = D.roots[LocalP]
    BY <2>3
  <2> QED BY <2>2, <2>4, Zenon DEF ViewKept, ClonesString
<1>5. Identified(D)'
  BY DEF Identified
<1>6. Identified(Latest)' /\ ViewKept(Latest)'
  BY <1>4, <1>5, Zenon
<1>7. phase' # "run"
  BY DEF Collecting, Scanning, Compacting
<1> QED BY <1>1, <1>6, <1>7 DEF GraphInv

\* What an instruction computes with depends on the words that a dump has, and on the
\* objects that they reach.
LEMMA KeptAlike ==
  ASSUME NEW D, NEW E, E.roots = D.roots,
         Graph!Retained(StoreOf(E), RootValues(D)) = Graph!Retained(StoreOf(D), RootValues(D)),
         ViewKept(D)
  PROVE  ViewKept(E)
<1>1. RootValues(E) = RootValues(D) /\ ArgumentsOf(E) = ArgumentsOf(D) /\ Remaining(E) = Remaining(D)
  BY DEF RootValues, ArgumentsOf, Remaining
<1>2. OperandsBefore(E) = OperandsBefore(D)
  <2>1. Popped(E) = Popped(D)
    BY Zenon DEF Popped
  <2> QED BY <1>1, <2>1, Zenon DEF OperandsBefore
<1>3. Graph!Retained(StoreOf(E), RootValues(E)) = Graph!Retained(StoreOf(D), RootValues(D))
  BY <1>1, Zenon
<1>4. [g \in Globals |-> E.roots[g]] = [g \in Globals |-> D.roots[g]]
  BY Zenon
<1>5. PICK s, k, gs, args : /\ s = Graph!Retained(StoreOf(D), RootValues(D)) /\ args = ArgumentsOf(D)
                            /\ k = OperandsBefore(D) \o Remaining(D)
                            /\ gs = [g \in Globals |-> D.roots[g]]
  OBVIOUS
<1>6. /\ s = Graph!Retained(StoreOf(E), RootValues(E)) /\ args = ArgumentsOf(E)
      /\ k = OperandsBefore(E) \o Remaining(E)
      /\ gs = [g \in Globals |-> E.roots[g]]
  BY <1>1, <1>2, <1>3, <1>4, <1>5
<1>7. /\ view = [store |-> s, stack |-> k, globals |-> gs]
      /\ call.fn = "Bclosure" =>
           \A i \in DOMAIN args : \/ \E j \in DOMAIN view.stack : args[i] = view.stack[j]
                                 \/ \E g \in Globals : args[i] = view.globals[g]
      /\ ClonesString(call.fn, call.kind) => E.roots[LocalQ] = E.roots[LocalP]
  BY <1>5, Zenon DEF ViewKept, ClonesString
<1> QED BY <1>6, <1>7, Zenon DEF ViewKept, ClonesString

\* The objects that mark_phase leaves unmarked are nothing to the program.
LEMMA MarkedKept ==
  ASSUME IsFiniteSet(DOMAIN mem), DOMAIN mem \subseteq Nat, HeapInv, Closed(Marked),
         IdentifiedNow, NowKept
  PROVE  Identified(Dump(Marked)) /\ ViewKept(Dump(Marked))
<1>1. Distinct /\ \A h \in DOMAIN mem : mem[h].id \in 1..ids
  BY IdsDistinct
<1>2. Marked \in SUBSET DOMAIN mem
  BY DEF Marked
<1>3. Identified(Dump(Marked))
  BY <1>1, <1>2, DistinctIdentifies
<1>4. Pictured(Marked) /\ Pictured(DOMAIN mem)
  BY <1>2, <1>3, DumpPictures, PicturedNow
<1>5. AllPoint
  BY HeapPoints DEF HeapInv
<1>6. Graph!Retained(StoreOf(Dump(Marked)), RootsNow) = Graph!Retained(StoreNow, RootsNow)
  BY <1>1, <1>4, <1>5, MarkedRetained
<1>7. PICK D, E : D = Dump(DOMAIN mem) /\ E = Dump(Marked)
  OBVIOUS
<1>8. E.roots = D.roots /\ D.roots = [a \in RootWords(top, extra) |-> Denotes(word[a])]
  BY <1>7 DEF Dump
<1>9. RootValues(D) = RootsNow
  BY <1>8 DEF RootValues, RootsNow
<1>10. Graph!Retained(StoreOf(E), RootValues(D)) = Graph!Retained(StoreOf(D), RootValues(D))
  BY <1>6, <1>7, <1>9, Zenon DEF StoreNow
<1>11. ViewKept(E)
  BY <1>7, <1>8, <1>10, KeptAlike DEF NowKept
<1> QED BY <1>3, <1>7, <1>11

\* Marking changes no dump of all the objects.
LEMMA DumpUnmarked ==
  ASSUME UNCHANGED <<heap, word, top, extra>>, SameShape(mem, mem'), SameIds(mem, mem'), AllPoint
  PROVE  Dump(DOMAIN mem)' = Dump(DOMAIN mem)
<1>1. DOMAIN mem' = DOMAIN mem /\ RootWords(top, extra)' = RootWords(top, extra)
  BY DEF SameShape, RootWords
<1>2. \A v : Pointing(v) => Denotes(v)' = Denotes(v)
  BY <1>1, DenotesAlike
<1>3. ASSUME NEW h \in DOMAIN mem
      PROVE  DumpObject(DOMAIN mem, h)' = DumpObject(DOMAIN mem, h)
  <2>1. /\ mem'[h].kind = mem[h].kind /\ mem'[h].len = mem[h].len /\ mem'[h].id = mem[h].id
        /\ mem'[h].fields = mem[h].fields
    BY DEF SameShape, SameIds
  <2>2. PICK fs, ds : fs = mem[h].fields /\ ds = [i \in DOMAIN fs |-> Denotes(fs[i])]
    OBVIOUS
  <2>3. ASSUME NEW i \in DOMAIN fs PROVE Denotes(mem[h].fields[i])' = ds[i]
    <3>1. PICK v : v = fs[i]
      OBVIOUS
    <3>2. Pointing(v) /\ ds[i] = Denotes(v)
      BY <2>2, <3>1 DEF AllPoint
    <3>3. mem'[h].fields[i] = v
      BY <2>1, <2>2, <3>1
    <3>4. Denotes(v)' = Denotes(v)
      BY <1>2, <3>2
    <3>5. Denotes(mem[h].fields[i])' = Denotes(v)'
      BY <3>3, Zenon
    <3> QED BY <3>2, <3>4, <3>5
  <2>4. [i \in DOMAIN mem[h].fields |-> Denotes(mem[h].fields[i])]' = ds
    <3>1. DOMAIN mem'[h].fields = DOMAIN fs
      BY <2>1, <2>2
    <3>2. [i \in DOMAIN mem[h].fields |-> Denotes(mem[h].fields[i])]' = [i \in DOMAIN fs |-> ds[i]]
      BY <2>3, <3>1
    <3> QED BY <2>2, <3>2
  <2>5. [rank |-> Cardinality({g \in DOMAIN mem : g < h}),
         id |-> mem[h].id, kind |-> mem[h].kind, len |-> mem[h].len, fields |-> ds] = DumpObject(DOMAIN mem, h)
    BY <2>2 DEF DumpObject
  <2>6. Cardinality({g \in DOMAIN mem : g < h})' = Cardinality({g \in DOMAIN mem : g < h})
    BY <1>1
  <2>7. [rank |-> Cardinality({g \in DOMAIN mem : g < h}),
         id |-> mem[h].id, kind |-> mem[h].kind, len |-> mem[h].len, fields |-> ds] = DumpObject(DOMAIN mem, h)'
    BY <2>1, <2>4, <2>6, Zenon DEF DumpObject
  <2> QED BY <2>5, <2>7
<1>4. {DumpObject(DOMAIN mem, h) : h \in DOMAIN mem}' = {DumpObject(DOMAIN mem, h) : h \in DOMAIN mem}
  BY <1>1, <1>3
<1>5. ASSUME NEW a \in RootWords(top, extra) PROVE Denotes(word[a])' = Denotes(word[a])
  <2>1. PICK v : v = word[a]
    OBVIOUS
  <2>2. Pointing(v) /\ word'[a] = v
    BY <2>1 DEF AllPoint
  <2>3. Denotes(word[a])' = Denotes(v)'
    BY <2>2, Zenon
  <2> QED BY <1>2, <2>1, <2>2, <2>3
<1>6. [a \in RootWords(top, extra) |-> Denotes(word[a])]' = [a \in RootWords(top, extra) |-> Denotes(word[a])]
  BY <1>1, <1>5
<1>7. [a \in Words \ RootWords(top, extra) |-> word[a]]' = [a \in Words \ RootWords(top, extra) |-> word[a]]
  BY <1>1
<1> QED BY <1>4, <1>6, <1>7, Zenon DEF Dump

\* A turn of a loop of the collector changes nothing for the program.
LEMMA CollectingKept ==
  ASSUME MutatorInv, GraphInv, StartCollection \/ Collect, Recorded
  PROVE  GraphInv' /\ view' = view
<1>1. /\ phase \in {"request"} \cup Scanning \cup Compacting /\ phase' # "run"
      /\ UNCHANGED <<call, ids, top, extra>>
  <2>1. CASE StartCollection
    BY <2>1 DEF StartCollection, heapVars
  <2>2. CASE Collect
    <3>1. UNCHANGED <<top, extra>>
      <4>1. CASE MarkNext
        BY <4>1, MarkingLeavesWords
      <4>2. CASE CompactNext
        <5>1. phase \in Collecting
          BY <2>2, CollectGoesOn DEF Collecting
        <5>2. heap \in [begin : Nat, current : Nat, size : Nat]
          BY <5>1 DEF MutatorInv, ProcessInv, Collecting, Scanning, Compacting
        <5> QED BY <4>2, <5>2, CompactingLeaves
      <4> QED BY <2>2, <4>1, <4>2 DEF Collect
    <3> QED BY <2>2, <3>1, CollectGoesOn DEF Collect
  <2> QED BY <2>1, <2>2
<1>2. view' = view /\ snapshot' = DumpAfterMarking
  BY <1>1 DEF Recorded
<1>3. CallKnown /\ ViewKept(Latest) /\ Identified(Latest)
  BY <1>1 DEF GraphInv, Collecting, Scanning, Compacting
<1>4. CASE StartCollection
  <2>1. PICK D : D = Dump(DOMAIN mem)
    OBVIOUS
  <2>2. phase = "request" /\ phase' = "scanStack" /\ UNCHANGED <<mem, heap, word, top, extra>>
    BY <1>4 DEF StartCollection, heapVars
  <2>3. Latest = D
    BY <2>1, <2>2 DEF Latest, Between
  <2>4. Dump(DOMAIN mem)' = D
    BY <2>1, <2>2, DumpUnchanged
  <2>5. Latest' = D /\ phase' \in Collecting
    BY <2>2, <2>4 DEF Latest, Scanning, Collecting
  <2>6. ViewKept(D) /\ Identified(D)
    BY <1>3, <2>3
  <2> QED BY <1>1, <1>2, <1>3, <2>5, <2>6, GraphStays
<1>5. CASE Collect
  <2>1. CollectInv /\ phase \in Scanning \cup Compacting
    BY <1>5, CollectGoesOn DEF MutatorInv, Collecting
  <2>2. CollectInv'
    BY <1>2, <1>5, <2>1, CollectStep DEF CollectNext, Collect
  <2>3. phase' \in Scanning \cup Compacting \cup {"alloc", "exit"}
    BY <2>2 DEF CollectInv, StandingInv, CollectTypeOK, CollectNoCrash
  <2>4. CASE phase' = "exit"
    BY <1>2, <2>4 DEF GraphInv, Collecting, Scanning, Compacting
  <2>5. CASE MarkNext /\ phase' # "exit"
    <3>1. /\ UNCHANGED <<heap, word, top, extra>> /\ phase \in Scanning
          /\ phase' = "compute" => phase = "scanGlobals" /\ mem' = mem
      BY <2>5, MarkingLeavesWords
    <3>2. /\ ScanInv /\ MarkInv /\ MarkTypeOK /\ HeapInv
          /\ IsFiniteSet(DOMAIN mem) /\ DOMAIN mem \subseteq Nat
      BY <2>1, <3>1 DEF CollectInv, StandingInv, ScanInv, MarkInv
    <3>3. AllPoint
      BY <3>2, HeapPoints DEF HeapInv
    <3>4. PICK D, E : D = Dump(DOMAIN mem) /\ E = Dump(Marked)
      OBVIOUS
    <3>5. Latest = D /\ Identified(D) /\ ViewKept(D)
      <4>1. Latest = D
        BY <3>1, <3>4 DEF Latest
      <4> QED BY <1>3, <4>1, Zenon
    <3>6. MarkInv'
      BY <2>5, <3>2, MarkStep
    <3>7. phase' \in Scanning \cup {"compute"}
      BY <3>6 DEF MarkInv, MarkTypeOK, LoopInv, Scanning
    <3>8. CASE phase' \in Scanning
      <4>1. Dump(DOMAIN mem)' = D
        BY <2>5, <3>1, <3>2, <3>3, <3>4, MarkingLeavesFields, DumpUnmarked
      <4>2. Latest' = D /\ phase' \in Collecting
        BY <3>8, <4>1 DEF Latest, Collecting
      <4> QED BY <1>1, <1>2, <1>3, <3>5, <4>2, GraphStays
    <3>9. CASE phase' = "compute"
      <4>1. (phase = "compute")'
        BY <3>9
      <4>2. Closed(Marked)'
        BY <3>6, <4>1, MarkedIsClosed, PTL
      <4>3. Closed(Marked)
        BY <3>1, <3>9, <4>2 DEF Closed, Marked, RootWords, IsValidHeapPointer, InChunk
      <4>4. IdentifiedNow /\ NowKept
        BY <3>4, <3>5, Zenon DEF IdentifiedNow, NowKept
      <4>5. Identified(E) /\ ViewKept(E)
        BY <3>2, <3>4, <4>3, <4>4, MarkedKept
      <4>6. Latest' = E /\ phase' \in Collecting
        BY <1>2, <3>1, <3>4, <3>9 DEF Latest, Between, Scanning, Compacting, Collecting, DumpAfterMarking
      <4> QED BY <1>1, <1>2, <1>3, <4>5, <4>6, GraphStays
    <3> QED BY <3>7, <3>8, <3>9
  <2>6. CASE CompactNext /\ phase' # "exit"
    <3>1. heap \in [begin : Nat, current : Nat, size : Nat]
      BY <2>1 DEF MutatorInv, ProcessInv, Scanning, Compacting
    <3>2. phase \in Compacting /\ phase' \notin Scanning
      BY <2>6, <3>1, CompactingLeaves
    <3>3. phase' \in Compacting \cup {"alloc"}
      BY <2>3, <2>6, <3>2
    <3>4. PICK D : D = snapshot
      OBVIOUS
    <3>5. Latest = D /\ Latest' = D
      BY <1>2, <3>2, <3>3, <3>4 DEF Latest, DumpAfterMarking, Between, Scanning, Compacting
    <3>6. Identified(D) /\ ViewKept(D)
      BY <1>3, <3>5, Zenon
    <3>7. phase' \in Collecting
      BY <3>3 DEF Collecting
    <3> QED BY <1>1, <1>2, <1>3, <3>5, <3>6, <3>7, GraphStays
  <2> QED BY <1>2, <1>5, <2>4, <2>5, <2>6 DEF Collect
<1> QED BY <1>2, <1>4, <1>5

-----------------------------------------------------------------------------
(* The return of a call                                                     *)

\* An object o has been put at the end c of the heap.
Appends(o, c) ==
  /\ HeapConsistent /\ ProcessInv /\ need \in Nat /\ need >= 2
  /\ c = heap.current /\ o.id = ids + 1
  /\ mem' = [h \in DOMAIN mem \cup {c} |-> IF h = c THEN o ELSE mem[h]]
  /\ heap' = [heap EXCEPT !.current = @ + need]
  /\ ids' = ids + 1

LEMMA AppendedHeap ==
  ASSUME NEW o, NEW c, Appends(o, c)
  PROVE  /\ c \in Nat /\ c \notin DOMAIN mem /\ heap.begin \in Nat /\ GlobalStop <= heap.begin
         /\ heap.begin <= c
         /\ heap'.begin = heap.begin /\ heap'.current = c + need
         /\ DOMAIN mem' = DOMAIN mem \cup {c} /\ mem'[c] = o
         /\ \A h \in DOMAIN mem : mem'[h] = mem[h]
         /\ \A h \in DOMAIN mem : heap.begin <= h /\ h \in Nat /\ h + 2 <= c
<1>1. /\ c \in Nat /\ heap.begin \in Nat /\ GlobalStop <= heap.begin /\ heap.begin <= c
      /\ heap'.begin = heap.begin /\ heap'.current = c + need
      /\ DOMAIN mem' = DOMAIN mem \cup {c} /\ mem'[c] = o
      /\ \A h \in DOMAIN mem : h # c => mem'[h] = mem[h]
  BY DEF Appends, HeapConsistent, ProcessInv, Walkable
<1>2. ASSUME NEW h \in DOMAIN mem
      PROVE  heap.begin <= h /\ h \in Nat /\ h + 2 <= c
  <2>1. /\ h \in Nat /\ mem[h] \in Object /\ SizeWords(mem[h].kind, mem[h].len) > 0
        /\ heap.begin <= h /\ NextObj(mem, h) <= c
    BY DEF Appends, HeapConsistent, Walkable
  <2>2. ObjWords(mem[h]) \in Int /\ ObjWords(mem[h]) >= 2
    <3>1. mem[h].kind \in Kinds /\ mem[h].len \in Nat
      BY <2>1 DEF Object
    <3> QED BY <2>1, <3>1 DEF ObjWords, SizeWords, HeaderWords, Kinds
  <2> QED BY <1>1, <2>1, <2>2 DEF NextObj
<1>3. c \notin DOMAIN mem
  BY <1>1, <1>2
<1> QED BY <1>1, <1>2, <1>3

\* It gets the next identity, and nothing else denotes another value than before.
LEMMA AppendedDenotes ==
  ASSUME NEW o, NEW c, Appends(o, c)
  PROVE  /\ \A v \in Int : Sound(v) => Denotes(v)' = Denotes(v)
         /\ Denotes(ContentOf(c))' = Graph!Reference(ids + 1)
<1>1. PICK b, n \in Nat : b = heap.begin /\ n = need /\ n >= 2 /\ GlobalStop <= b /\ b \in Nat
  BY AppendedHeap DEF Appends
<1>2. /\ c \in Nat /\ b <= c /\ c \notin DOMAIN mem
      /\ heap'.begin = b /\ heap'.current = c + n /\ heap.begin = b /\ heap.current = c
      /\ mem'[c] = o
      /\ \A h \in DOMAIN mem : mem'[h] = mem[h] /\ b <= h /\ h \in Nat /\ h + 2 <= c
  BY <1>1, AppendedHeap DEF Appends
<1>3. ASSUME NEW v \in Int, Sound(v) PROVE Denotes(v)' = Denotes(v)
  <2>1. CASE v < GlobalStop
    <3>1. v < b
      BY <1>1, <2>1, Layout
    <3> QED BY <1>2, <3>1 DEF Denotes, IsValidHeapPointer, InChunk
  <2>2. CASE HeaderOf(v) \in DOMAIN mem
    <3>1. mem'[HeaderOf(v)] = mem[HeaderOf(v)] /\ b <= v /\ v <= c /\ v <= c + n /\ v >= 0
      BY <1>1, <1>2, <2>2 DEF HeaderOf, HeaderWords
    <3> QED BY <1>2, <3>1 DEF Denotes, IsValidHeapPointer, InChunk
  <2> QED BY <1>3, <2>1, <2>2 DEF Sound
<1>4. PICK v : v = ContentOf(c)
  OBVIOUS
<1>5. v = c + 2 /\ HeaderOf(v) = c
  BY <1>2, <1>4 DEF ContentOf, HeaderOf, HeaderWords
<1>6. IsValidHeapPointer(v)'
  BY <1>1, <1>2, <1>5 DEF IsValidHeapPointer, InChunk, IsUnboxed
<1>7. Denotes(v)' = <<"object", mem'[c].id>>
  BY <1>5, <1>6 DEF Denotes
<1>8. Denotes(v)' = Graph!Reference(ids + 1)
  BY <1>2, <1>7 DEF Appends, Graph!Reference
<1> QED BY <1>3, <1>4, <1>8

LEMMA AppendedIds ==
  ASSUME NEW o, NEW c, Appends(o, c), IdentifiedNow
  PROVE  DistinctNow /\ IdentifiedNow'
<1>1. IsFiniteSet(DOMAIN mem) /\ DOMAIN mem \subseteq Nat
  BY DEF Appends, HeapConsistent
<1>2. DistinctNow
  BY <1>1, IdsDistinct DEF DistinctNow
<1>3. ids \in Nat /\ ids' = ids + 1 /\ mem'[c].id = ids + 1
  BY AppendedHeap DEF Appends, ProcessInv
<1>4. DOMAIN mem' = DOMAIN mem \cup {c} /\ \A h \in DOMAIN mem : mem'[h] = mem[h]
  BY AppendedHeap
<1>5. \A h \in DOMAIN mem : mem'[h].id = mem[h].id /\ mem[h].id \in 1..ids
  BY <1>2, <1>4 DEF DistinctNow
<1>6. \A h \in DOMAIN mem' : mem'[h].id \in 1..ids'
  BY <1>3, <1>4, <1>5
<1>7. \A g, h \in DOMAIN mem' : mem'[g].id = mem'[h].id => g = h
  <2> SUFFICES ASSUME NEW g \in DOMAIN mem', NEW h \in DOMAIN mem', mem'[g].id = mem'[h].id PROVE g = h
    OBVIOUS
  <2>1. CASE g = c \/ h = c
    BY <1>3, <1>4, <1>5, <2>1
  <2>2. CASE g \in DOMAIN mem /\ h \in DOMAIN mem
    BY <1>2, <1>5, <2>2 DEF DistinctNow, Distinct
  <2> QED BY <1>4, <2>1, <2>2
<1>8. DistinctNow'
  BY <1>6, <1>7 DEF DistinctNow, Distinct
<1>9. IdentifiedNow'
  BY <1>8, DistinctNowIdentifies, PTL
<1> QED BY <1>2, <1>9

\* What the new object is to the program.
Picture(o) ==
  [kind |-> o.kind, len |-> o.len, fields |-> [i \in DOMAIN o.fields |-> Denotes(o.fields[i])]]

LEMMA AppendedStore ==
  ASSUME NEW o, NEW c, Appends(o, c), IdentifiedNow, o \in Object,
         \A i \in DOMAIN o.fields : Sound(o.fields[i]),
         NEW s, s = StoreNow, NEW t, t = StoreNow', NEW r, r = Picture(o), NEW id, id = ids + 1
  PROVE  t = Graph!WithObject(s, id, r)
<1>1. DistinctNow /\ IdentifiedNow'
  BY AppendedIds
<1>2. PicturedStore /\ PicturedStore'
  BY <1>1, StorePictured, PTL
<1>3. /\ DOMAIN s = {mem[g].id : g \in DOMAIN mem}
      /\ \A g \in DOMAIN mem : s[mem[g].id] = ObjectAt(g)
  BY <1>2, Zenon DEF PicturedStore
<1>4. /\ DOMAIN t = {mem'[g].id : g \in DOMAIN mem'}
      /\ \A g \in DOMAIN mem' : t[mem'[g].id] = ObjectAt(g)'
      /\ t = [k \in {mem'[g].id : g \in DOMAIN mem'} |-> t[k]]
  BY <1>2, Zenon DEF PicturedStore
<1>5. /\ DOMAIN mem' = DOMAIN mem \cup {c} /\ mem'[c] = o /\ o.id = id
      /\ \A g \in DOMAIN mem : mem'[g] = mem[g]
  BY AppendedHeap DEF Appends
<1>6. ASSUME NEW g \in DOMAIN mem', NEW x, x = mem'[g], x \in Object,
             \A i \in DOMAIN x.fields : Sound(x.fields[i])
      PROVE  ObjectAt(g)' = Picture(x)
  <2>1. PICK fs, ds : fs = x.fields /\ ds = [i \in DOMAIN fs |-> Denotes(fs[i])]
    OBVIOUS
  <2>2. fs \in Seq(Int)
    BY <1>6, <2>1 DEF Object
  <2>3. ASSUME NEW i \in DOMAIN fs PROVE Denotes(mem[g].fields[i])' = ds[i]
    <3>1. PICK v : v = fs[i]
      OBVIOUS
    <3>2. v \in Int /\ Sound(v) /\ ds[i] = Denotes(v)
      BY <1>6, <2>1, <2>2, <3>1
    <3>3. mem'[g].fields[i] = v
      BY <1>6, <2>1, <3>1
    <3>4. Denotes(v)' = Denotes(v)
      BY <3>2, AppendedDenotes
    <3>5. Denotes(mem[g].fields[i])' = Denotes(v)'
      BY <3>3, Zenon
    <3> QED BY <3>2, <3>4, <3>5
  <2>4. [i \in DOMAIN mem[g].fields |-> Denotes(mem[g].fields[i])]' = ds
    <3>1. DOMAIN mem'[g].fields = DOMAIN fs
      BY <1>6, <2>1
    <3>2. [i \in DOMAIN mem[g].fields |-> Denotes(mem[g].fields[i])]' = [i \in DOMAIN fs |-> ds[i]]
      BY <2>3, <3>1
    <3> QED BY <2>1, <3>2
  <2>5. [kind |-> x.kind, len |-> x.len, fields |-> ds] = Picture(x)
    BY <2>1 DEF Picture
  <2>6. [kind |-> x.kind, len |-> x.len, fields |-> ds] = ObjectAt(g)'
    BY <1>6, <2>4, Zenon DEF ObjectAt
  <2> QED BY <2>5, <2>6
<1>7. \A g \in DOMAIN mem : ObjectAt(g)' = ObjectAt(g)
  <2> SUFFICES ASSUME NEW g \in DOMAIN mem PROVE ObjectAt(g)' = ObjectAt(g)
    OBVIOUS
  <2>1. PICK x : x = mem[g]
    OBVIOUS
  <2>2. x \in Object /\ \A i \in DOMAIN x.fields : Sound(x.fields[i])
    BY <2>1 DEF Appends, HeapConsistent, FieldsSound
  <2>3. g \in DOMAIN mem' /\ x = mem'[g]
    BY <1>5, <2>1
  <2>4. ObjectAt(g)' = Picture(x)
    BY <1>6, <2>2, <2>3
  <2>5. ObjectAt(g) = Picture(x)
    BY <2>1, Zenon DEF ObjectAt, Picture
  <2> QED BY <2>4, <2>5
<1>8. ObjectAt(c)' = r
  <2>1. c \in DOMAIN mem' /\ o = mem'[c]
    BY <1>5
  <2>2. ObjectAt(c)' = Picture(o)
    BY <1>6, <2>1
  <2> QED BY <2>2
<1>9. PICK ident : ident = [g \in DOMAIN mem \cup {c} |-> IF g = c THEN id ELSE mem[g].id]
  OBVIOUS
<1>10. c \notin DOMAIN mem
  BY AppendedHeap
<1>11. ident[c] = id /\ \A g \in DOMAIN mem : ident[g] = mem[g].id /\ ident[g] = mem'[g].id /\ ident[g] # id
  <2>1. \A g \in DOMAIN mem : mem[g].id \in 1..ids /\ ids \in Nat
    BY <1>1 DEF DistinctNow, Appends, ProcessInv
  <2>2. \A g \in DOMAIN mem : mem[g].id # id
    BY <2>1
  <2> QED BY <1>5, <1>9, <1>10, <2>2
<1>12. /\ DOMAIN s = {ident[g] : g \in DOMAIN mem}
       /\ \A g \in DOMAIN mem : s[ident[g]] = ObjectAt(g)
  BY <1>3, <1>11
<1>13. /\ DOMAIN t = {ident[g] : g \in DOMAIN mem \cup {c}}
       /\ \A g \in DOMAIN mem : t[ident[g]] = ObjectAt(g)
       /\ t[id] = r
       /\ t = [k \in DOMAIN t |-> t[k]]
  BY <1>4, <1>5, <1>7, <1>8, <1>11
<1>14. DOMAIN t = DOMAIN s \cup {id}
  BY <1>11, <1>12, <1>13
<1>15. \A k \in DOMAIN t : t[k] = IF k = id THEN r ELSE s[k]
  BY <1>11, <1>12, <1>13
<1>16. t = [k \in DOMAIN s \cup {id} |-> IF k = id THEN r ELSE s[k]]
  BY <1>13, <1>14, <1>15
<1> QED BY <1>16 DEF Graph!WithObject

\* The result of a call: an object of values that the program has, in place of the operands.
LEMMA ResultBecomes ==
  ASSUME HeapConsistent, ProcessInv, CallInv, Fits, obj = NoObj,
         WordsSound(word, RootWords(top, extra)), RootWords(top, extra) \subseteq Words,
         NEW o \in Object, ~o.mark, ~o.enq, ObjWords(o) = need, o.id = ids + 1,
         \A i \in DOMAIN o.fields : Sound(o.fields[i]),
         FinishWith(o), IdentifiedNow, view' = View',
         view.store = Graph!Retained(StoreNow, RootsNow), view.globals = GlobalsNow,
         NEW r, r = Picture(o), \A i \in DOMAIN r.fields : Known(r.fields[i]),
         NEW id, id = ids + 1
  PROVE  /\ ProgramAt'
         /\ Graph!Become(Graph!WithObject(view.store, id, r), <<Graph!Reference(id)>> \o RemainingNow, view.globals)
<1>1. PICK c : c = heap.current
  OBVIOUS
<1>3. PICK k \in Nat, p \in Nat :
        k = Depth - call.pops /\ p = call.pops /\ top + p + k = StackBottom - 1
  <2>1. /\ call.pops \in Nat
        /\ call.pops <= Depth /\ top \in Nat /\ StackBottom \in Nat
    BY Layout DEF CallInv, ProcessInv
  <2>2. Depth - call.pops \in Nat /\ top + call.pops + (Depth - call.pops) = StackBottom - 1
    BY <2>1 DEF Depth
  <2> QED BY <2>1, <2>2
<1>4. /\ top \in Nat /\ top < StackBottom /\ p <= Depth /\ top + p >= 1
      /\ (top + p) .. (StackBottom - 1) \subseteq Words
      /\ ((top + 1) .. (StackBottom - 1)) \cup Globals \subseteq RootWords(top, extra)
  BY <1>3, OperandsAndGlobals DEF ProcessInv, CallInv, RootWords
<1>8. Appends(o, c)
  <2>1. need \in Nat /\ need >= 2
    BY DEF CallInv, SizeWords, HeaderWords, Kinds
  <2>2. /\ mem' = [h \in DOMAIN mem \cup {c} |-> IF h = c THEN o ELSE mem[h]]
        /\ heap' = [heap EXCEPT !.current = @ + need] /\ ids' = ids + 1
    BY <1>1, Zenon DEF FinishWith
  <2> QED BY <1>1, <2>1, <2>2 DEF Appends
<1>9. RunInv' /\ phase' = "run"
  BY Finished
<1>10. IdentifiedNow' /\ extra' = <<>>
  BY <1>8, AppendedIds, Zenon DEF FinishWith
<1>11. ProgramAt'
  BY <1>9, <1>10 DEF ProgramAt
<1>12. PICK s, t : s = StoreNow /\ t = StoreNow'
  OBVIOUS
<1>13. t = Graph!WithObject(s, id, r)
  BY <1>8, <1>12, AppendedStore
<1>14. PICK w, vs, d :
         /\ w = [word EXCEPT ![LocalP] = Number, ![LocalQ] = Number]
         /\ vs = <<ContentOf(c)>> /\ d = <<Graph!Reference(id)>>
         /\ Replace(w, p, vs)
  BY <1>1, <1>3, Zenon DEF FinishWith
<1>15. \A a \in Words : a <= GlobalStop => w[a] = word[a]
  BY <1>14, Layout DEF ProcessInv
<1>16. /\ \A v \in Int : Sound(v) => Denotes(v)' = Denotes(v)
       /\ Denotes(ContentOf(c))' = Graph!Reference(id)
  BY <1>8, AppendedDenotes
<1>17. ASSUME NEW a \in ((top + 1) .. (StackBottom - 1)) \cup Globals
       PROVE  w[a] = word[a] /\ Denotes(w[a])' = Denotes(word[a]) /\ Known(Denotes(word[a])) /\ a \in Words
  <2>1. a <= GlobalStop /\ a \in RootWords(top, extra)
    BY <1>4, Layout
  <2>2. PICK v : v = word[a]
    OBVIOUS
  <2>3. a \in Words /\ w[a] = v /\ v \in Int /\ Sound(v)
    BY <1>15, <2>1, <2>2 DEF WordsSound, ProcessInv
  <2>4. Denotes(v)' = Denotes(v)
    BY <1>16, <2>3
  <2>5. Denotes(w[a])' = Denotes(v)'
    BY <2>3, Zenon
  <2> QED BY <2>1, <2>2, <2>3, <2>4, <2>5, OperandsKnown
<1>18. vs \in Seq(Int) /\ Len(vs) = 1 /\ DOMAIN d = 1..1 /\ Len(d) = 1 /\ d[1] = Graph!Reference(id) /\ vs[1] = ContentOf(c)
  <2>1. ContentOf(c) \in Int
    <3>1. c \in Nat
      BY <1>8, AppendedHeap
    <3> QED BY ONLY <3>1 DEF ContentOf, HeaderWords
  <2> QED BY ONLY <1>14, <2>1
<1>19. StackNow' = Exchanged(StackNow, p, d)
  <2>1. top + p - Len(vs) \in Nat /\ (top + p - Len(vs) + 1) .. (StackBottom - 1) \subseteq Words
    <3>1. top + p - Len(vs) = top + p - 1 /\ top + p - 1 + 1 = top + p
      BY <1>4, <1>18
    <3> QED BY <1>4, <3>1
  <2>2. \A i \in 1 .. Len(vs) : Denotes(vs[i])' = d[i]
    <3> SUFFICES ASSUME NEW i \in 1 .. Len(vs) PROVE Denotes(vs[i])' = d[i]
      OBVIOUS
    <3>1. vs[i] = ContentOf(c) /\ d[i] = Graph!Reference(id)
      BY <1>18
    <3>2. Denotes(vs[i])' = Denotes(ContentOf(c))'
      BY <3>1, Zenon
    <3> QED BY <1>16, <3>1, <3>2
  <2>3. \A a \in (top + p + 1) .. (StackBottom - 1) : Denotes(w[a])' = Denotes(word[a])
    <3> SUFFICES ASSUME NEW a \in (top + p + 1) .. (StackBottom - 1) PROVE Denotes(w[a])' = Denotes(word[a])
      OBVIOUS
    <3>1. a \in (top + 1) .. (StackBottom - 1)
      BY <1>3, <1>4
    <3> QED BY <1>17, <3>1
  <2>4. DOMAIN d = 1 .. Len(vs) /\ Len(d) = Len(vs) /\ vs \in Seq(Int)
    BY <1>18
  <2>5. Replace(w, p, vs) /\ top \in Nat /\ top < StackBottom /\ p <= Depth
    BY <1>4, <1>14
  <2>6. vs \in Seq(Int)
    BY <1>18
  <2> HIDE <1>14
  <2> QED BY <2>1, <2>2, <2>3, <2>4, <2>5, <2>6, StackAfter
<1>20. PICK st, rest, gl, R, Q : /\ st = StackNow' /\ rest = RemainingNow /\ gl = GlobalsNow
                              /\ R = RootsNow /\ Q = RootsNow'
  OBVIOUS
<1>21. rest = [i \in 1..k |-> Denotes(word[top + p + i])]
  BY <1>3, <1>20 DEF RemainingNow
<1>22. st = d \o rest /\ \A i \in DOMAIN st : st[i] = Graph!Reference(id) \/ \E j \in 1..k : st[i] = rest[j]
  <2>1. PICK q : q = StackNow
    OBVIOUS
  <2>2. Depth = p + k
    BY <1>3, <1>4, Layout DEF Depth
  <2>3. q = [i \in 1 .. (p + k) |-> Denotes(word[top + i])] /\ Len(q) = p + k
    BY <2>1, <2>2 DEF StackNow
  <2>4. st = [i \in 1 .. (1 + k) |-> IF i <= 1 THEN d[i] ELSE q[p + i - 1]]
    <3>1. 1 + (p + k) - p = 1 + k
      OBVIOUS
    <3> QED BY <1>18, <1>19, <1>20, <2>1, <2>3, <3>1 DEF Exchanged
  <2>5. \A i \in 1 .. (1 + k) : ~(i <= 1) => i - 1 \in 1..k /\ q[p + i - 1] = rest[i - 1]
    <3> SUFFICES ASSUME NEW i \in 1 .. (1 + k), ~(i <= 1) PROVE i - 1 \in 1..k /\ q[p + i - 1] = rest[i - 1]
      OBVIOUS
    <3>1. i - 1 \in 1..k /\ p + i - 1 \in 1 .. (p + k) /\ top + p + (i - 1) = top + (p + i - 1)
      BY <1>4
    <3> QED BY <1>21, <2>3, <3>1
  <2>6. PICK V, m : V = {rest[i] : i \in 1..k} \cup {Graph!Reference(id)} /\ m = d \o rest
    OBVIOUS
  <2>7. d \o rest = [i \in 1 .. (1 + k) |-> IF i <= 1 THEN d[i] ELSE rest[i - 1]]
    <3>1. rest = [i \in 1..k |-> rest[i]] /\ Len(rest) = k
      BY <1>21
    <3>2. rest \in Seq(V)
      <4>1. \A i \in 1..k : rest[i] \in V
        BY ONLY <2>6
      <4> QED BY ONLY <3>1, <4>1, k \in Nat
    <3>3. d \in Seq(V)
      BY ONLY <1>14, <2>6
    <3>4. m \in Seq(V) /\ Len(m) = 1 + k /\ (\A i \in 1..1 : m[i] = d[i]) /\ \A i \in 1..k : m[1 + i] = rest[i]
      <4>1. Len(d) = 1 /\ k = Len(rest) /\ m = d \o rest
        BY <1>18, <2>6, <3>1
      <4>2. PICK e : e = 1
        OBVIOUS
      <4>3. e = Len(d)
        BY <4>1, <4>2
      <4>4. m \in Seq(V) /\ Len(m) = e + k /\ (\A i \in 1..e : m[i] = d[i]) /\ \A i \in 1..k : m[e + i] = rest[i]
        <5>1. k = Len(rest)
          BY <4>1
        <5>2. m = d \o rest
          BY <4>1
        <5> QED BY ONLY <3>2, <3>3, <4>3, <5>1, <5>2, Concatenated
      <4> QED BY ONLY <4>2, <4>4
    <3>5. m = [i \in 1 .. (1 + k) |-> m[i]]
      BY ONLY <3>4, k \in Nat
    <3>6. \A i \in 1 .. (1 + k) : m[i] = IF i <= 1 THEN d[i] ELSE rest[i - 1]
      BY ONLY <3>4, k \in Nat
    <3> QED BY ONLY <2>6, <3>5, <3>6
  <2>8. \A i \in 1 .. (1 + k) : i <= 1 => d[i] = Graph!Reference(id)
    <3>1. d[1] = Graph!Reference(id)
      BY <1>18
    <3>2. \A i \in 1 .. (1 + k) : i <= 1 => i = 1
      BY ONLY k \in Nat
    <3> QED BY <3>1, <3>2, Zenon
  <2>9. st = d \o rest
    BY <2>4, <2>5, <2>7
  <2> QED BY <2>4, <2>5, <2>8, <2>9
<1>23. GlobalsNow' = gl
  <2>1. ASSUME NEW g \in Globals PROVE Denotes(word[g])' = gl[g]
    <3>1. g \in Words /\ g \notin top + p - Len(vs) + 1 .. top + p
      BY SMTT(30), <1>3, <1>4, <1>17, <1>18, Layout
    <3>2. word'[g] = w[g]
      BY <1>14, <3>1 DEF Replace
    <3>3. Denotes(word[g])' = Denotes(w[g])'
      BY <3>2, Zenon
    <3> QED BY <1>17, <1>20, <3>3 DEF GlobalsNow
  <2>2. GlobalsNow' = [g \in Globals |-> Denotes(word[g])']
    BY DEF GlobalsNow
  <2>3. [g \in Globals |-> gl[g]] = gl
    BY <1>20 DEF GlobalsNow
  <2> QED BY <2>1, <2>2, <2>3
<1>24. \A i \in 1..k : Known(rest[i])
  <2> SUFFICES ASSUME NEW i \in 1..k PROVE Known(rest[i])
    OBVIOUS
  <2>1. top + p + i \in (top + 1) .. (StackBottom - 1)
    BY <1>3, <1>4
  <2> QED BY <1>17, <1>21, <2>1
<1>25. \A g \in Globals : Known(gl[g])
  BY <1>17, <1>20 DEF GlobalsNow
<1>27. Q = {st[i] : i \in DOMAIN st} \cup {gl[g] : g \in Globals}
  <2>1. RootsAre'
    BY <1>11, BetweenRoots, PTL
  <2> QED BY <1>20, <1>23, <2>1 DEF RootsAre, StackNow
<1>28. ASSUME NEW k1 \in DOMAIN s,
              Graph!Reference(k1) \in Q \/ (\E i \in DOMAIN r.fields : r.fields[i] = Graph!Reference(k1))
       PROVE  k1 = id \/ k1 \in Graph!ReachableIds(s, R)
  <2>1. CASE Graph!Reference(k1) = Graph!Reference(id)
    BY <2>1 DEF Graph!Reference
  <2>2. CASE \E v : v = Graph!Reference(k1) /\ Known(v)
    BY <1>12, <1>20, <2>2 DEF Known
  <2> QED BY <1>22, <1>24, <1>25, <1>27, <1>28, <2>1, <2>2
<1>29. PICK v : v = Graph!Retained(s, R)
  OBVIOUS
<1>30. PICK u : u = Graph!WithObject(v, id, r)
  OBVIOUS
<1>31. Graph!Retained(u, Q) = Graph!Retained(t, Q)
  BY <1>13, <1>28, <1>29, <1>30, RetainedWith
<1>32. Graph!Become(u, StackNow', GlobalsNow')
  BY <1>11, <1>12, <1>20, <1>31, BecomeFrom
<1> QED BY <1>11, <1>12, <1>14, <1>20, <1>22, <1>23, <1>29, <1>30, <1>32

\* The same of the functions that make an object of their arguments.
LEMMA ReturnBecomes ==
  ASSUME HeapConsistent, ProcessInv, CallInv, Fits, obj = NoObj, call.fn \in Allocators,
         WordsSound(word, RootWords(top, extra)), RootWords(top, extra) \subseteq Words,
         Finish, IdentifiedNow, view' = View',
         view.store = Graph!Retained(StoreNow, RootsNow), view.globals = GlobalsNow,
         NEW r, r = [kind |-> call.kind, len |-> call.len, fields |-> ArgumentsNow],
         NEW id, id = ids + 1
  PROVE  /\ ProgramAt'
         /\ Graph!Become(Graph!WithObject(view.store, id, r), <<Graph!Reference(id)>> \o RemainingNow, view.globals)
<1>1. PICK o : o = NewObject
  OBVIOUS
<1>2. /\ o \in Object /\ ~o.mark /\ ~o.enq /\ ObjWords(o) = need
      /\ \A i \in DOMAIN o.fields : Sound(o.fields[i])
      /\ FinishWith(o)
  BY <1>1, NewObjectIsSound DEF Finish
<1>3. PICK f \in Nat : f = FieldCount(call.kind, call.len) /\ f <= Depth
  BY Layout DEF CallInv, ProcessInv, Depth
<1>4. o.kind = call.kind /\ o.len = call.len /\ o.id = id /\ o.fields = [i \in 1..f |-> word[top + i]]
  BY <1>1, <1>3 DEF NewObject, ObjectWith, Arguments
<1>5. ArgumentsNow = [i \in 1..f |-> Denotes(word[top + i])]
  BY <1>3 DEF ArgumentsNow
<1>6. r = Picture(o)
  <2>1. [i \in DOMAIN o.fields |-> Denotes(o.fields[i])] = ArgumentsNow
    BY <1>4, <1>5
  <2> QED BY <1>4, <2>1, Zenon DEF Picture
<1>7. \A i \in DOMAIN r.fields : Known(r.fields[i])
  <2>1. r.fields = [i \in 1..f |-> Denotes(word[top + i])]
    BY <1>5
  <2> SUFFICES ASSUME NEW i \in 1..f PROVE Known(Denotes(word[top + i]))
    BY <2>1
  <2>2. top + i \in (top + 1) .. (StackBottom - 1)
    BY <1>3, Layout DEF ProcessInv, Depth
  <2>3. top + i \in RootWords(top, extra)
    BY <2>2, OperandsAndGlobals DEF ProcessInv, RootWords
  <2> QED BY <2>3, OperandsKnown
<1> QED BY <1>2, <1>4, <1>6, <1>7, ResultBecomes

\* Where the values that the call has been given are in the stack.
Collects(st, n, args, rest) ==
  n <= Len(st) /\ SubSeq(st, n + 1, Len(st)) = rest /\ \A i \in 1..n : st[n + 1 - i] = args[i]

LEMMA CollectedOperands ==
  ASSUME NEW V, NEW args, args \in Seq(V), NEW rest, rest \in Seq(V),
         NEW n \in Nat, n = Len(args), NEW a, a = Reversed(args), NEW st, st = a \o rest
  PROVE  Collects(st, n, args, rest)
<1>1. PICK m \in Nat : m = Len(rest)
  OBVIOUS
<1>3. /\ a = [i \in 1..n |-> args[n + 1 - i]] /\ \A i \in 1..n : args[i] \in V
      /\ args = [i \in 1..n |-> args[i]]
  BY DEF Reversed
<1>4. \A i \in 1..n : n + 1 - i \in 1..n
  OBVIOUS
<1>5. a \in Seq(V) /\ Len(a) = n
  <2>1. \A i \in 1..n : a[i] \in V
    BY <1>3, <1>4
  <2>2. a = [i \in 1..n |-> a[i]]
    BY ONLY <1>3
  <2> QED BY ONLY <2>1, <2>2, n \in Nat
<1>6. n = Len(a) /\ m = Len(rest) /\ st = a \o rest
  BY <1>1, <1>5
<1>0. a \in Seq(V)
  BY <1>5
<1>7. st \in Seq(V) /\ Len(st) = n + m /\ (\A i \in 1..n : st[i] = a[i]) /\ \A i \in 1..m : st[n + i] = rest[i]
  BY ONLY <1>0, <1>6, rest \in Seq(V), Concatenated
<1>8. SubSeq(a \o rest, Len(a) + 1, Len(a \o rest)) = rest
  BY <1>5, RestOfConcatenation
<1>9. \A i \in 1..n : st[n + 1 - i] = args[i]
  <2> SUFFICES ASSUME NEW i \in 1..n PROVE st[n + 1 - i] = args[i]
    OBVIOUS
  <2>1. n + 1 - i \in 1..n /\ n + 1 - (n + 1 - i) = i
    OBVIOUS
  <2>2. a[n + 1 - i] = args[n + 1 - (n + 1 - i)]
    BY <1>3, <2>1
  <2> QED BY <1>7, <2>1, <2>2
<1>10. n <= Len(st)
  BY <1>1, <1>7
<1>11. SubSeq(st, n + 1, Len(st)) = rest
  BY <1>6, <1>8, Zenon
<1> QED BY <1>9, <1>10, <1>11, Zenon DEF Collects

\* What is known of a call at its return.
LEMMA ReturnWords ==
  ASSUME ProcessInv, CallInv,
         NEW V, V = Denoted, NEW args, args = ArgumentsNow, NEW rest, rest = RemainingNow
  PROVE  /\ rest \in Seq(V)
         /\ call.fn \in Allocators => args \in Seq(V) /\ Len(args) = FieldCount(call.kind, call.len)
<1>1. PICK k \in Nat, p \in Nat : k = Depth - call.pops /\ p = call.pops /\ top + p + k = StackBottom - 1
  <2>1. /\ call.pops \in Nat
        /\ call.pops <= Depth /\ top \in Nat /\ StackBottom \in Nat
    BY Layout DEF CallInv, ProcessInv
  <2>2. Depth - call.pops \in Nat /\ top + call.pops + (Depth - call.pops) = StackBottom - 1
    BY <2>1 DEF Depth
  <2> QED BY <2>1, <2>2
<1>2. \A a \in (top + 1) .. (StackBottom - 1) : word[a] \in Int
  BY OperandsAndGlobals DEF ProcessInv
<1>3. top \in Nat
  BY DEF ProcessInv
<1>4. rest = [i \in 1..k |-> Denotes(word[top + p + i])] /\ rest = [i \in 1..k |-> rest[i]]
  BY <1>1 DEF RemainingNow
<1>5. \A i \in 1..k : rest[i] \in V
  <2> SUFFICES ASSUME NEW i \in 1..k PROVE Denotes(word[top + p + i]) \in V
    BY <1>4
  <2>1. top + p + i \in (top + 1) .. (StackBottom - 1)
    BY <1>1, <1>3
  <2> QED BY <1>2, <2>1 DEF Denoted
<1>6. rest \in Seq(V)
  BY ONLY <1>4, <1>5, k \in Nat
<1>7. ASSUME call.fn \in Allocators
      PROVE  args \in Seq(V) /\ Len(args) = FieldCount(call.kind, call.len)
  <2>1. PICK f \in Nat : f = FieldCount(call.kind, call.len) /\ f <= p
    BY <1>1, <1>7 DEF CallInv
  <2>2. args = [i \in 1..f |-> Denotes(word[top + i])] /\ args = [i \in 1..f |-> args[i]]
    BY <2>1 DEF ArgumentsNow
  <2>3. \A i \in 1..f : args[i] \in V
    <3> SUFFICES ASSUME NEW i \in 1..f PROVE Denotes(word[top + i]) \in V
      BY <2>2
    <3>1. top + i \in (top + 1) .. (StackBottom - 1)
      BY <1>1, <1>3, <2>1
    <3> QED BY <1>2, <3>1 DEF Denoted
  <2>4. args \in Seq(V) /\ Len(args) = f
    BY ONLY <2>2, <2>3, f \in Nat
  <2> QED BY <2>1, <2>4
<1> QED BY <1>6, <1>7

\* The dump that the invariant speaks of is, when the call has its memory, of the heap as
\* it is.
LEMMA ReturnKnown ==
  ASSUME MutatorInv, GraphInv, (phase = "request" /\ Fits) \/ phase = "alloc"
  PROVE  /\ IdentifiedNow /\ NowKept /\ CallKnown
         /\ WordsSound(word, RootWords(top, extra)) /\ RootWords(top, extra) \subseteq Words
<1>1. CASE phase = "request"
  <2>1. ProcessInv /\ RootsInv
    BY <1>1 DEF MutatorInv, Between
  <2>2. RootWords(top, extra) \subseteq Words
    <3>1. \A i \in DOMAIN extra : extra[i] \in Words
      BY <2>1 DEF RootsInv
    <3> QED BY <2>1, <3>1 DEF ProcessInv, RootWords
  <2>3. Latest = Dump(DOMAIN mem)
    BY <1>1, LatestNow DEF BeforeMarked, Between
  <2>4. Identified(Latest) /\ CallKnown /\ ViewKept(Latest)
    BY <1>1 DEF GraphInv
  <2> QED BY <2>1, <2>2, <2>3, <2>4 DEF RootsInv, IdentifiedNow, NowKept
<1>2. CASE phase = "alloc"
  <2>1. CollectInv /\ phase \notin Between \cup Scanning
    BY <1>2 DEF MutatorInv, Collecting, Between, Scanning
  <2>2. Latest = Dump(DOMAIN mem)
    BY <1>2, <2>1 DEF CollectInv, CollectPreservesGraph, Latest
  <2>3. Identified(Latest) /\ CallKnown /\ ViewKept(Latest)
    BY <1>2 DEF GraphInv, Collecting
  <2> QED BY <1>2, <2>2, <2>3, CollectedIsConsistent DEF IdentifiedNow, NowKept
<1> QED BY <1>1, <1>2

\* The object is the one that the abstract instruction makes.
LEMMA MadeObject ==
  ASSUME HeapConsistent, ProcessInv, CallInv, CallKnown, call.fn \in Allocators,
         NEW popped, KeptWith(popped),
         call.fn = "Bclosure" => popped = <<>>, call.fn = "Bstring" => popped = <<>>,
         call.fn = "Lstring" => \E v : popped = <<v>>, NEW id, id \in (1..MaxAllocs) \ DOMAIN view.store,
         NEW r, r = [kind |-> call.kind, len |-> call.len, fields |-> ArgumentsNow],
         Graph!Become(Graph!WithObject(view.store, id, r), <<Graph!Reference(id)>> \o RemainingNow, view.globals)
  PROVE  Graph!Next
<1>1. PICK V, args, rest, st : /\ V = Denoted /\ args = ArgumentsNow /\ rest = RemainingNow
                              /\ st = view.stack
  OBVIOUS
<1>2. args \in Seq(V) /\ Len(args) = FieldCount(call.kind, call.len) /\ rest \in Seq(V)
  BY <1>1, ReturnWords
<1>3. st = BeforeCall(call.fn, args, popped) \o rest
  BY <1>1 DEF KeptWith
<1>4. Graph!Become(Graph!WithObject(view.store, id, r), <<Graph!Reference(id)>> \o rest, view.globals)
  BY <1>1
<1>5. MaxLen \in Nat /\ StringLens \subseteq Nat
  BY MutatorAssumption
<1>6. r.kind = call.kind /\ r.len = call.len /\ r.fields = args
  BY <1>1
<1>7. CASE call.fn \in {"Barray", "Bsexp"}
  <2>1. PICK n \in 0..MaxLen : n = call.len
    BY <1>7 DEF CallKnown
  <2>2. Len(args) = n /\ n \in Nat /\ st = Reversed(args) \o rest /\ call.kind \in {"ARRAY", "SEXP"}
    <3>1. call.kind \in {"ARRAY", "SEXP"} /\ FieldCount(call.kind, call.len) = n
      BY <1>7, <2>1 DEF CallKnown, FieldCount
    <3>2. BeforeCall(call.fn, args, popped) = Reversed(args)
      BY <1>7 DEF BeforeCall
    <3> QED BY <1>2, <1>3, <1>5, <3>1, <3>2
  <2>3. n <= Len(st) /\ SubSeq(st, n + 1, Len(st)) = rest /\ [i \in 1..n |-> st[n + 1 - i]] = args
    <3>1. args \in Seq(V)
      BY <1>2
    <3>2. rest \in Seq(V)
      BY <1>2
    <3>3. n \in Nat
      BY <2>2
    <3>4. n = Len(args)
      BY <2>2
    <3>5. PICK a : a = Reversed(args)
      OBVIOUS
    <3>8. st = a \o rest
      BY <2>2, <3>5
    <3>6. n <= Len(st) /\ SubSeq(st, n + 1, Len(st)) = rest /\ \A i \in 1..n : st[n + 1 - i] = args[i]
      <4>1. Collects(st, n, args, rest)
        BY ONLY <3>1, <3>2, <3>3, <3>4, <3>5, <3>8, CollectedOperands
      <4> QED BY ONLY <4>1, Zenon DEF Collects
    <3>7. args = [i \in 1..n |-> args[i]]
      BY ONLY <3>1, <3>4
    <3> QED BY <3>6, <3>7
  <2>4. Graph!Pop(n) = rest
    BY <1>1, <2>3 DEF Graph!Pop
  <2>5. [kind |-> call.kind, len |-> n, fields |-> [i \in 1..n |-> view.stack[n + 1 - i]]] = r
    BY <1>1, <2>1, <2>3
  <2>6. Graph!Collect(call.kind, n, id)
    BY <1>1, <1>4, <2>3, <2>4, <2>5 DEF Graph!Collect
  <2> QED BY <2>1, <2>2, <2>6 DEF Graph!Next
<1>8. CASE call.fn = "Bclosure"
  <2>1. PICK n \in 0..MaxLen : n = call.len - 1 /\ call.len = n + 1
    BY <1>5, <1>8 DEF CallKnown
  <2>2. Len(args) = n /\ n \in Nat /\ call.kind = "CLOSURE" /\ call.fn \notin {"Barray", "Bsexp", "Lstring"}
    BY <1>2, <1>5, <1>8, <2>1 DEF CallKnown, FieldCount
  <2>3. st = rest
    <3>1. BeforeCall(call.fn, args, popped) = <<>>
      BY <1>8, <2>2 DEF BeforeCall
    <3> QED BY <1>2, <1>3, <3>1
  <2>4. Captured(args)
    BY <1>1, <1>8 DEF KeptWith
  <2>5. PICK W : W = {view.stack[i] : i \in DOMAIN view.stack} \cup {view.globals[g] : g \in Globals}
    OBVIOUS
  <2>6. args \in [1..n -> W]
    <3>1. DOMAIN args = 1..n /\ args = [i \in 1..n |-> args[i]]
      BY <1>2, <2>2
    <3>2. \A i \in 1..n : args[i] \in W
      BY <2>4, <2>5, <3>1 DEF Captured
    <3> QED BY <3>1, <3>2
  <2>7. r = [kind |-> "CLOSURE", len |-> n + 1, fields |-> args]
    BY <1>1, <2>1, <2>2
  <2>8. Graph!Close(n, id)
    BY <1>1, <1>4, <2>3, <2>5, <2>6, <2>7 DEF Graph!Close
  <2> QED BY <2>8 DEF Graph!Next
<1>9. CASE call.fn \in {"Bstring", "Lstring"}
  <2>1. /\ call.kind = "STRING" /\ call.len \in StringLens /\ Len(args) = 0
    BY <1>2, <1>9 DEF CallKnown, FieldCount
  <2>2. args = <<>>
    BY <1>2, <2>1
  <2>3. r = [kind |-> "STRING", len |-> call.len, fields |-> <<>>]
    BY <1>1, <2>1, <2>2
  <2>4. PICK n \in 0..1 : n <= Len(st) /\ SubSeq(st, n + 1, Len(st)) = rest
    <3>1. CASE call.fn = "Bstring"
      <4>1. BeforeCall(call.fn, args, popped) = <<>>
        BY <3>1 DEF BeforeCall
      <4>2. st = rest
        BY <1>2, <1>3, <4>1
      <4> QED BY <1>2, <4>2
    <3>2. CASE call.fn = "Lstring"
      <4>1. PICK v, U, a : popped = <<v>> /\ U = V \cup {v} /\ a = <<v>>
        BY <3>2
      <4>2. a \in Seq(U) /\ rest \in Seq(U) /\ st = a \o rest /\ Len(a) = 1
        <5>1. BeforeCall(call.fn, args, popped) = a
          BY <3>2, <4>1 DEF BeforeCall
        <5>2. a \in Seq(U) /\ Len(a) = 1
          BY ONLY <4>1
        <5>3. rest \in Seq(U)
          BY ONLY <1>2, <4>1
        <5> QED BY <1>3, <5>1, <5>2, <5>3
      <4>3. Len(a \o rest) = Len(a) + Len(rest) /\ SubSeq(a \o rest, Len(a) + 1, Len(a \o rest)) = rest
        <5>1. a \in Seq(U)
          BY <4>2
        <5>2. rest \in Seq(U)
          BY <4>2
        <5> QED BY ONLY <5>1, <5>2, RestOfConcatenation
      <4>4. 1 <= Len(st)
        BY <4>2, <4>3
      <4>5. SubSeq(st, 1 + 1, Len(st)) = rest
        BY <4>2, <4>3
      <4> QED BY <4>4, <4>5
    <3> QED BY <1>9, <3>1, <3>2
  <2>5. Graph!Pop(n) = rest
    BY <1>1, <2>4 DEF Graph!Pop
  <2>6. Graph!Literal(n, call.len, id)
    BY <1>1, <1>4, <2>3, <2>4, <2>5 DEF Graph!Literal
  <2> QED BY <2>1, <2>6 DEF Graph!Next
<1> QED BY <1>7, <1>8, <1>9 DEF Allocators

\* A call that returns does to the program what the abstract instruction does.
LEMMA ReturnRefines ==
  ASSUME MutatorInv, GraphInv, (phase = "request" /\ Fits) \/ phase = "alloc",
         call.fn \in Allocators, Finish, Recorded
  PROVE  GraphInv' /\ Graph!Next
<1>1. HeapConsistent /\ ProcessInv /\ CallInv /\ Fits /\ obj = NoObj
  BY AllocatedIsConsistent
<1>2. /\ IdentifiedNow /\ NowKept /\ CallKnown
      /\ WordsSound(word, RootWords(top, extra)) /\ RootWords(top, extra) \subseteq Words
  BY ReturnKnown
<1>3. PICK popped : /\ KeptWith(popped)
                    /\ call.fn = "Bclosure" => popped = <<>>
                    /\ call.fn = "Bstring" => popped = <<>>
                    /\ call.fn = "Lstring" => \E v : popped = <<v>>
  <2>1. PICK D : D = Dump(DOMAIN mem)
    OBVIOUS
  <2>2. KeptWith(Popped(D))
    BY <1>1, <1>2, <2>1, NowKeptWith DEF ProcessInv
  <2>3. /\ call.fn \in {"Bclosure", "Bstring"} => Popped(D) = <<>>
        /\ call.fn = "Lstring" => Popped(D) = <<D.roots[LocalP]>>
    BY DEF Popped
  <2> QED BY <2>2, <2>3
<1>4. phase' = "run"
  BY DEF Finish, FinishWith
<1>5. view' = View'
  BY <1>4 DEF Recorded
<1>6. PICK id, r : id = ids + 1 /\ r = [kind |-> call.kind, len |-> call.len, fields |-> ArgumentsNow]
  OBVIOUS
<1>7. view.store = Graph!Retained(StoreNow, RootsNow) /\ view.globals = GlobalsNow
  BY <1>3 DEF KeptWith
<1>8. /\ ProgramAt'
      /\ Graph!Become(Graph!WithObject(view.store, id, r), <<Graph!Reference(id)>> \o RemainingNow, view.globals)
  BY <1>1, <1>2, <1>5, <1>6, <1>7, ReturnBecomes
<1>9. Running'
  BY <1>4 DEF Running
<1>10. GraphInv'
  BY <1>8, <1>9, RunningGraph, PTL
<1>11. id \in (1..MaxAllocs) \ DOMAIN view.store
  <2>1. ids \in Nat /\ ids < MaxAllocs /\ MaxAllocs \in Nat
    BY <1>1, <1>2, MutatorAssumption DEF ProcessInv, CallKnown
  <2>2. DOMAIN view.store \subseteq DOMAIN StoreNow
    BY <1>7, ReachableClosed DEF Graph!Retained
  <2>3. DOMAIN StoreNow = {mem[h].id : h \in DOMAIN mem}
    BY <1>2, StorePictured DEF PicturedStore
  <2>4. \A h \in DOMAIN mem : mem[h].id \in 1..ids
    BY <1>1, <1>2, IdsDistinct DEF HeapConsistent
  <2>5. id \notin DOMAIN view.store
    BY <1>6, <2>1, <2>2, <2>3, <2>4
  <2>6. id \in 1..MaxAllocs
    BY <1>6, <2>1
  <2> QED BY <2>5, <2>6
<1>12. Graph!Next
  BY <1>1, <1>2, <1>3, <1>6, <1>8, <1>11, MadeObject
<1> QED BY <1>10, <1>12

-----------------------------------------------------------------------------
(* The refinement                                                           *)

\* A step that changes nothing.
LEMMA GraphStutters ==
  ASSUME MutatorInv, GraphInv, UNCHANGED refinementVars
  PROVE  GraphInv'
<1>1. /\ UNCHANGED <<mem, heap, word, top, extra, phase, call, ids, view, snapshot>>
      /\ UNCHANGED <<mutatorVars, snapshot>>
  BY DEF refinementVars, mutatorVars, gcVars, heapVars, markVars, compactVars
<1>2. Dump(DOMAIN mem)' = Dump(DOMAIN mem)
  BY <1>1, DumpUnchanged
<1>3. CASE phase \in {"exit", "astray"}
  BY <1>1, <1>3 DEF GraphInv, Collecting, Scanning, Compacting
<1>4. CASE phase \in Collecting \cup {"request"}
  <2>1. PICK D : D = Latest
    OBVIOUS
  <2>2. Latest' = D
    BY <1>1, <1>2, <2>1 DEF Latest
  <2>3. CallKnown /\ ViewKept(Latest) /\ Identified(Latest)
    BY <1>4 DEF GraphInv, Collecting, Scanning, Compacting
  <2>4. ViewKept(D) /\ Identified(D)
    BY <2>1, <2>3, Zenon
  <2> QED BY <1>1, <1>4, <2>2, <2>3, <2>4, GraphStays
<1>5. CASE phase = "run"
  <2>1. Running /\ Running'
    BY <1>1, <1>5 DEF Running
  <2>2. ProgramAt
    BY <2>1, BetweenInstructions
  <2>3. MutatorInv'
    BY <1>1, MutatorStutters
  <2>4. RunInv'
    BY <2>1, <2>3, RunningInv, PTL
  <2>5. IdentifiedNow'
    <3>1. PICK D : D = Dump(DOMAIN mem) /\ Identified(D)
      BY <2>2 DEF ProgramAt, IdentifiedNow
    <3>2. Identified(D)'
      BY <1>1, <3>1 DEF Identified
    <3>3. Dump(DOMAIN mem)' = D
      BY <1>2, <3>1
    <3> QED BY <3>2, <3>3, Zenon DEF IdentifiedNow
  <2>6. View' = View
    BY <1>1 DEF View, Reachable, Closed, Globals, Denotes, IsValidHeapPointer, InChunk, RootWords, Depth
  <2>7. ProgramAt'
    BY <1>1, <2>2, <2>4, <2>5, <2>6, Zenon DEF ProgramAt
  <2> QED BY <2>1, <2>7, RunningGraph, PTL
<1> QED BY <1>3, <1>4, <1>5 DEF MutatorInv, Between, Collecting

\* Of a program that has gone astray nothing is said.
LEMMA AstrayKept ==
  ASSUME OutOfRange, Recorded
  PROVE  GraphInv' /\ view' = view /\ phase' = "astray"
<1>1. phase' = "astray"
  BY DEF OutOfRange
<1> QED BY <1>1 DEF GraphInv, Recorded, Collecting, Scanning, Compacting

\* A call that has its memory returns, or exits.
LEMMA AllocatedKept ==
  ASSUME MutatorInv, GraphInv, (phase = "request" /\ Fits) \/ phase = "alloc",
         call.fn \in Allocators, Return, Recorded
  PROVE  GraphInv' /\ (view' = view \/ Graph!Next)
<1>1. CASE PoolOverflow
  <2>1. phase' = "exit" /\ view' = view
    BY <1>1 DEF PoolOverflow, Recorded
  <2> QED BY <2>1 DEF GraphInv, Collecting, Scanning, Compacting
<1>2. CASE Finish
  BY <1>2, ReturnRefines
<1> QED BY <1>1, <1>2 DEF Return

\* The steps of the interpreter, of the runtime and of the collector are steps of the
\* graph of objects, or none.
LEMMA GraphStep ==
  ASSUME ProgramInv, GraphInv, [RefinementNext]_refinementVars
  PROVE  GraphInv' /\ (view' = view \/ Graph!Next)
<1>1. MutatorInv
  BY DEF ProgramInv
<1>2. CASE UNCHANGED refinementVars
  BY <1>1, <1>2, GraphStutters DEF refinementVars
<1>3. CASE RefinementNext
  <2>1. Recorded /\ (Simple \/ Allocating \/ Runtime \/ OutOfRange)
    BY <1>3 DEF RefinementNext, MutatorNext
  <2>2. CASE Simple
    BY <1>1, <2>1, <2>2, SimpleRefines
  <2>3. CASE Allocating
    BY <1>1, <2>1, <2>3, AllocatingKept
  <2>4. CASE AllocateAtOnce
    <3>1. phase = "request" /\ Fits /\ Return
      BY <2>4 DEF AllocateAtOnce, AtOnce
    <3>2. call.fn \in Allocators
      BY <3>1 DEF ProgramInv
    <3> QED BY <1>1, <2>1, <3>1, <3>2, AllocatedKept
  <2>5. CASE AllocateAfterCollection
    <3>1. phase = "alloc"
      BY <2>5 DEF AllocateAfterCollection, AfterCollection
    <3>2. call.fn \in Allocators
      BY <3>1 DEF ProgramInv, Collecting
    <3>3. Return
      BY <1>1, <2>5, <3>1, AllocatedIsConsistent DEF AllocateAfterCollection, AfterCollection
    <3> QED BY <1>1, <2>1, <3>1, <3>2, <3>3, AllocatedKept
  <2>6. CASE StartCollection \/ Collect
    BY <1>1, <2>1, <2>6, CollectingKept
  <2>7. CASE OutOfRange
    BY <2>1, <2>7, AstrayKept
  <2> QED BY <2>1, <2>2, <2>3, <2>4, <2>5, <2>6, <2>7 DEF Runtime
<1> QED BY <1>2, <1>3

\* The program starts with no objects.
LEMMA GraphInitially == RefinementInit => GraphInv /\ Graph!Init
<1> SUFFICES ASSUME RefinementInit PROVE GraphInv /\ Graph!Init
  OBVIOUS
<1>1. PICK im \in Images : /\ mem = im.mem /\ heap = im.heap /\ word = im.word /\ top = im.top
                          /\ extra = im.extra
  BY DEF RefinementInit, MutatorInit
<1>2. /\ DOMAIN mem = {} /\ (\A a \in Words : word[a] = Number)
      /\ top = StackBottom - 1 /\ extra = <<>>
  BY <1>1, ProgramAssumption
<1>3. MutatorInv /\ phase = "run" /\ view = View
  BY MutatorInitially DEF RefinementInit
<1>4. Running
  BY <1>3 DEF Running
<1>5. RunInv
  BY <1>3, <1>4, RunningInv
<1>6. Dump(DOMAIN mem).objects = {}
  BY <1>2 DEF Dump
<1>7. IdentifiedNow
  BY <1>6 DEF IdentifiedNow, Identified
<1>8. ProgramAt
  BY <1>2, <1>3, <1>5, <1>7 DEF ProgramAt
<1>9. view.store = Graph!Retained(StoreNow, RootsNow) /\ view.stack = StackNow /\ view.globals = GlobalsNow
  BY <1>3, <1>8, BetweenView DEF ViewIs
<1>10. view.store = [id \in {} |-> {}]
  <2>1. DOMAIN StoreNow = {}
    BY <1>6 DEF StoreNow, StoreOf
  <2>2. Graph!ReachableIds(StoreNow, RootsNow) = {}
    BY <2>1, ReachableClosed
  <2> QED BY <1>9, <2>2 DEF Graph!Retained
<1>11. view.stack = <<>>
  <2>1. StackBottom \in Nat
    BY Layout
  <2>2. Depth = 0
    BY ONLY <1>2, <2>1 DEF Depth
  <2>3. StackNow = [i \in 1..0 |-> Denotes(word[top + i])]
    BY <2>2 DEF StackNow
  <2> QED BY <1>9, <2>3
<1>12. view.globals = [g \in Globals |-> Graph!Number]
  <2>1. Number \in Int /\ Number < GlobalStop
    BY Layout DEF Number
  <2>2. Denotes(Number) = Graph!Number
    BY <1>5, <2>1, NumberDenotes DEF RunInv, Graph!Number, Number
  <2>3. \A g \in Globals : g \in Words
    BY <1>5 DEF RunInv, ProcessInv, RootWords, Globals
  <2>4. \A g \in Globals : Denotes(word[g]) = Graph!Number
    BY <1>2, <2>2, <2>3
  <2> QED BY <1>9, <2>4 DEF GlobalsNow
<1> QED BY <1>4, <1>8, <1>10, <1>11, <1>12, RunningGraph DEF Graph!Init

\* At every instruction the view of the memory, and in the middle of one the view that the
\* instruction started from, is what the memory holds: each object once under its own
\* identity, and the operands of a call where the runtime will read them.
THEOREM GraphInvariant == RefinementSpec => []GraphInv
<1>1. RefinementInit => ProgramInv /\ GraphInv
  BY MutatorInitially, GraphInitially DEF ProgramInv, Collecting, Scanning, Compacting
<1>2. ProgramInv /\ GraphInv /\ [RefinementNext]_refinementVars => ProgramInv' /\ GraphInv'
  BY ProgramStep, GraphStep
<1> QED BY <1>1, <1>2, PTL DEF RefinementSpec

\* Wherever collections happen, and whatever they move or drop, the program computes with
\* the values that it would have in a memory without addresses, garbage and collections:
\* gc.c, the allocating functions of runtime.c and the instructions of Interpreter.cpp
\* implement the graph of objects.
THEOREM ObjectGraphImplemented == RefinementSpec => ImplementsObjectGraph
<1>1. RefinementInit => Graph!Init
  BY GraphInitially
<1>2. ProgramInv /\ GraphInv /\ [RefinementNext]_refinementVars => [Graph!Next]_(Graph!graphVars)
  BY GraphStep DEF Graph!graphVars
<1> QED BY <1>1, <1>2, ProgramInvariant, GraphInvariant, PTL
        DEF RefinementSpec, ImplementsObjectGraph, Graph!Spec
-----------------------------------------------------------------------------
(* The library                                                              *)

\* The module of the library extends the graph of objects: its steps are the same there.
LEMMA SameOperators ==
  /\ \A s, R : Library!Retained(s, R) = Graph!Retained(s, R)
  /\ \A s, id, o : Library!WithObject(s, id, o) = Graph!WithObject(s, id, o)
  /\ \A s, st, gl : Graph!Become(s, st, gl) => Library!Become(s, st, gl)
  /\ \A n : Library!Pop(n) = Graph!Pop(n)
  /\ \A id : Library!Reference(id) = Graph!Reference(id)
  /\ Library!Number = Graph!Number
BY DEF Library!Retained, Graph!Retained, Library!ReachableIds, Graph!ReachableIds,
       Library!FieldsOf, Graph!FieldsOf, Library!Reference, Graph!Reference,
       Library!WithObject, Graph!WithObject, Library!Become, Graph!Become,
       Library!Pop, Graph!Pop, Library!Number, Graph!Number

LEMMA LibraryExtendsGraph == Graph!Next => Library!Next
BY DEF Library!Retained, Graph!Retained, Library!ReachableIds, Graph!ReachableIds,
       Library!FieldsOf, Graph!FieldsOf, Library!Reference, Graph!Reference,
       Library!WithObject, Graph!WithObject, Library!Become, Graph!Become,
       Library!Pop, Graph!Pop, Library!Number, Graph!Number, Library!Next, Graph!Next,
       Library!PushNumber, Graph!PushNumber, Library!Push, Graph!Push, Library!Dup, Graph!Dup,
       Library!Drop, Graph!Drop, Library!Load, Graph!Load, Library!Store, Graph!Store,
       Library!LoadAddress, Graph!LoadAddress, Library!Address, Graph!Address,
       Library!SetGlobal, Graph!SetGlobal, Library!Locals, Graph!Locals,
       Library!Collect, Graph!Collect, Library!Close, Graph!Close, Library!Literal, Graph!Literal,
       Library!GetField, Graph!GetField, Library!SetField, Graph!SetField,
       Library!GetChar, Graph!GetChar, Library!SetChar, Graph!SetChar

\* The words registered are parameters, which are n operands, or those that are no numbers.
OperandsRegistered(n, roots, arguments) ==
  /\ DOMAIN arguments \subseteq {LocalP, LocalQ}
  /\ \A i \in DOMAIN roots : /\ roots[i] \in DOMAIN arguments
                             /\ \E k \in 1..n : arguments[roots[i]] = word[top + k]
  /\ \A k \in 1..n : \/ word[top + k] < GlobalStop
                     \/ \E i \in DOMAIN roots : word[top + k] = arguments[roots[i]]

\* The parameters that the operands will be found in are among them.
ParametersRegistered(fn, kind, w, roots) ==
  /\ Parameters(fn) \subseteq {roots[i] : i \in DOMAIN roots}
  /\ ClonesString(fn, kind) =>
       w[LocalQ] = w[LocalP] /\ LocalQ \in {roots[i] : i \in DOMAIN roots}

AreOperands(before, n) ==
  /\ DOMAIN before = 1..n /\ before = [i \in 1..n |-> before[i]]
  /\ \A i \in 1..n : before[i] = Denotes(word[top + i])

\* A library function that has been entered: its arguments are where a collection finds
\* them, or are numbers.
LEMMA EnterKept ==
  ASSUME ProgramAt, MutatorInv', phase' = "request", view' = view,
         NEW fn \in Registering, NEW kind, NEW len, NEW n \in Nat, NEW roots, NEW arguments,
         Enter(fn, kind, len, n, roots, arguments),
         OperandsRegistered(n, roots, arguments),
         NEW w, w = word', ParametersRegistered(fn, kind, w, roots),
         AreOperands(PoppedIn(fn, w), n)
  PROVE  GraphInv'
<1>1. PICK p \in Nat : p = 0
  OBVIOUS
<1>18. PICK before : before = PoppedIn(fn, w)
  OBVIOUS
<1>16. /\ DOMAIN before = 1..n /\ before = [i \in 1..n |-> before[i]]
       /\ \A i \in 1..n : before[i] = Denotes(word[top + i])
  BY <1>18 DEF AreOperands
<1>17. /\ DOMAIN arguments \subseteq {LocalP, LocalQ}
       /\ \A i \in DOMAIN roots : /\ roots[i] \in DOMAIN arguments
                                  /\ \E k \in 1..n : arguments[roots[i]] = word[top + k]
       /\ \A k \in 1..n : \/ word[top + k] < GlobalStop
                          \/ \E i \in DOMAIN roots : word[top + k] = arguments[roots[i]]
  BY DEF OperandsRegistered
<1>2. /\ Depth >= n /\ Request(fn, kind, len, p, roots) /\ top' = top + n
      /\ word' = [a \in Words |-> IF a \in DOMAIN arguments THEN arguments[a] ELSE word[a]]
  BY <1>1, Zenon DEF Enter
<1>3. extra' = roots /\ ids' = ids /\ ids < MaxAllocs
      /\ call' = [fn |-> fn, pops |-> p, kind |-> kind, len |-> len]
  BY <1>2 DEF Request
<1>4. CallKnown'
  BY <1>3, LibraryNames DEF CallKnown, Allocators
<1>5. PICK t, e : t = top' /\ e = top
  OBVIOUS
<1>6. /\ t \in Nat /\ t < StackBottom /\ w \in [Words -> Int] /\ RootWords(t, roots) \subseteq Words
      /\ RootWords(t, roots) = RootWords(t, <<>>) \cup {roots[i] : i \in DOMAIN roots}
      /\ RootWords(t, <<>>) = ((t + 1) .. (StackBottom - 1)) \cup Globals
  BY <1>3, <1>5, RequestedWords
<1>7. RunInv /\ word \in [Words -> Int] /\ e \in Nat /\ t = e + n /\ top = e
      /\ RootWords(top, <<>>) = ((e + 1) .. (StackBottom - 1)) \cup Globals
  BY <1>2, <1>5, OperandsAndGlobals DEF ProgramAt, RunInv, ProcessInv
<1>8. \A a \in DOMAIN arguments : w[a] = arguments[a]
  BY <1>2, <1>17, Layout
<1>9. ASSUME NEW a \in RootWords(t, <<>>) PROVE w[a] = word[a] /\ a \in RootWords(top, <<>>)
  <2>1. a \in Words /\ a < GlobalStop
    <3>1. a \in Words
      BY <1>6
    <3>2. CASE a \in Globals
      BY <3>1, <3>2, Layout
    <3>3. CASE a \in (t + 1) .. (StackBottom - 1)
      <4>1. /\ StackBottom \in Nat /\ GlobalStart \in Nat /\ GlobalStop \in Nat
            /\ StackBottom < GlobalStart /\ GlobalStart <= GlobalStop
        BY Layout
      <4>2. t \in Nat
        BY <1>6
      <4>3. a < GlobalStop
        BY ONLY <3>3, <4>1, <4>2
      <4> QED BY <3>1, <4>3
    <3> QED BY <1>6, <3>2, <3>3
  <2>2. a \notin DOMAIN arguments
    <3>1. a \in Nat /\ LocalP \in Nat /\ LocalQ \in Nat /\ GlobalStop \in Nat
          /\ LocalP > GlobalStop /\ LocalQ > GlobalStop
      BY <2>1, Layout
    <3>2. a # LocalP /\ a # LocalQ
      BY ONLY <2>1, <3>1
    <3> QED BY <1>17, <3>2
  <2>3. w[a] = word[a]
    BY <1>2, <2>1, <2>2
  <2>4. (t + 1) .. (StackBottom - 1) \subseteq (e + 1) .. (StackBottom - 1)
    <3>1. StackBottom \in Nat /\ t \in Nat /\ e \in Nat /\ t = e + n
      BY <1>6, <1>7, Layout
    <3> QED BY ONLY <3>1, n \in Nat
  <2> QED BY <1>6, <1>7, <2>3, <2>4
<1>10. ASSUME NEW k \in 1..n PROVE e + k \in RootWords(top, <<>>)
  <2>1. StackBottom \in Nat /\ e + n < StackBottom
    BY <1>6, <1>7, Layout
  <2>2. e + k \in (e + 1) .. (StackBottom - 1)
    BY ONLY <1>7, <2>1, n \in Nat, k \in 1..n, e \in Nat
  <2> QED BY <1>7, <2>2
<1>11. PICK f : f = FieldCount(kind, len)
  OBVIOUS
<1>12. SameOperands(fn, w, t, f, p)
  <2>1. ASSUME NEW a \in (t + p + 1) .. (StackBottom - 1) PROVE w[a] = word[a]
    <3>1. a \in (t + 1) .. (StackBottom - 1)
      BY <1>1, <1>6
    <3> QED BY <1>6, <1>9, <3>1
  <2>2. top <= t + p /\ t + p < StackBottom /\ t + p - top = n
    <3>1. e <= t + p /\ t + p < StackBottom /\ t + p - e = n
      BY <1>1, <1>6, <1>7
    <3> QED BY <1>7, <3>1
  <2>3. before = BeforeCall(fn, ArgumentsIn(w, t, f), PoppedIn(fn, w))
    BY <1>18, LibraryNames DEF BeforeCall, Allocators
  <2>4. DOMAIN before = 1 .. (t + p - top) /\ before = [i \in DOMAIN before |-> before[i]]
    BY <1>16, <2>2
  <2>5. \A i \in 1 .. (t + p - top) : before[i] = Denotes(word[top + i])
    BY <1>16, <2>2
  <2>6. RunInv /\ t \in Nat /\ t + p < StackBottom /\ top <= t + p
    BY <1>6, <1>7, <2>2
  <2>7. \A a \in (t + p + 1) .. (StackBottom - 1) : w[a] = word[a]
    BY <2>1
  <2>8. DOMAIN before = 1 .. (t + p - top) /\ before = [i \in DOMAIN before |-> before[i]]
    BY <2>4
  <2> QED BY <2>3, <2>5, <2>6, <2>7, <2>8, OperandsAgain, Zenon
<1>13. SameRoots(w, t, roots)
  <2>1. ASSUME NEW a \in RootWords(t, roots)
        PROVE  w[a] \in Int /\ (w[a] < GlobalStop \/ \E b \in RootWords(top, <<>>) : w[a] = word[b])
    <3>1. w[a] \in Int
      BY <1>6
    <3>2. CASE a \in RootWords(t, <<>>)
      BY <1>9, <3>1, <3>2
    <3>3. ASSUME NEW i \in DOMAIN roots, a = roots[i]
          PROVE  \E b \in RootWords(top, <<>>) : w[a] = word[b]
      <4>1. PICK k \in 1..n : arguments[roots[i]] = word[e + k]
        BY <1>7, <1>17
      <4>2. w[a] = word[e + k]
        BY <1>8, <1>17, <3>3, <4>1
      <4> QED BY <1>10, <4>2
    <3> QED BY <1>6, <3>1, <3>2, <3>3
  <2>2. ASSUME NEW b \in RootWords(top, <<>>)
        PROVE  word[b] < GlobalStop \/ \E a \in RootWords(t, roots) : word[b] = w[a]
    <3>1. CASE b \in RootWords(t, <<>>)
      <4>1. word[b] = w[b] /\ b \in RootWords(t, roots)
        BY <1>6, <1>9, <3>1
      <4> QED BY <4>1
    <3>2. CASE b \notin RootWords(t, <<>>)
      <4>1. b \in (e + 1) .. (StackBottom - 1) /\ b \notin (t + 1) .. (StackBottom - 1)
        BY <1>6, <1>7, <3>2
      <4>2. PICK k \in 1..n : b = e + k
        <5>1. StackBottom \in Nat /\ t \in Nat /\ e \in Nat /\ t = e + n
          BY <1>6, <1>7, Layout
        <5>2. b - e \in 1..n /\ b = e + (b - e)
          BY ONLY <4>1, <5>1, n \in Nat
        <5> QED BY <5>2
      <4>3. \/ word[e + k] < GlobalStop
            \/ \E i \in DOMAIN roots : word[e + k] = arguments[roots[i]]
        BY <1>7, <1>17
      <4>4. ASSUME NEW i \in DOMAIN roots, word[e + k] = arguments[roots[i]]
            PROVE  \E a \in RootWords(t, roots) : word[b] = w[a]
        BY <1>6, <1>8, <1>17, <4>2, <4>4
      <4> QED BY <4>2, <4>3, <4>4
    <3> QED BY <3>1, <3>2
  <2>3. \A g \in Globals : w[g] = word[g]
    BY <1>6, <1>9
  <2> QED BY <2>1, <2>2, <2>3 DEF SameRoots
<1>14. SameCaptures(fn, w, t, f, roots)
  <2>1. fn # "Bclosure"
    BY LibraryNames DEF Allocators
  <2> QED BY <1>6, <2>1 DEF SameCaptures, ParametersRegistered
<1>15. SameClone(fn, kind, w, t, roots)
  BY <1>6 DEF SameClone, ParametersRegistered
<1> QED BY <1>2, <1>4, <1>5, <1>7, <1>11, <1>12, <1>13, <1>14, <1>15, RequestKept

\* An operand that is an object, in the view.
LEMMA OperandView ==
  ASSUME ProgramAt, NEW k \in Nat \ {0}, k <= Depth, IsValidHeapPointer(word[top + k]),
         NEW o, o = mem[HeaderOf(word[top + k])]
  PROVE  \E id \in DOMAIN view.store :
           /\ view.stack[k] = Library!Reference(id)
           /\ view.store[id].kind = o.kind /\ view.store[id].len = o.len
<1>1. PICK h, id : h = HeaderOf(word[top + k]) /\ id = mem[h].id
  OBVIOUS
<1>2. k \in 1..Depth
  BY ViewParts
<1>3. id \in DOMAIN view.store /\ view.stack[k] = Graph!Reference(id) /\ view.store[id] = ObjectAt(h)
  BY <1>1, <1>2, ContainerView
<1>4. ObjectAt(h).kind = o.kind /\ ObjectAt(h).len = o.len
  BY <1>1 DEF ObjectAt
<1> QED BY <1>3, <1>4 DEF Graph!Reference, Library!Reference

LEMMA EnteredCall ==
  ASSUME NEW fn, NEW kind, NEW len, NEW n, NEW roots, NEW arguments, phase' = "request",
         Enter(fn, kind, len, n, roots, arguments)
  PROVE  /\ call' = [fn |-> fn, pops |-> 0, kind |-> kind, len |-> len]
         /\ word' = [w \in Words |-> IF w \in DOMAIN arguments THEN arguments[w] ELSE word[w]]
BY DEF Enter, Request

LEMMA CallCloneKept ==
  ASSUME ProgramAt, MutatorInv', phase' = "request", view' = view, CallClone
  PROVE  GraphInv' /\ LibraryKnown'
<1>1. Depth >= 1 /\ IsValidHeapPointer(word[top + 1])
  BY Zenon DEF CallClone, Operand
<1>2. PICK v, o, arguments, roots, length :
        /\ v = word[top + 1] /\ o = mem[HeaderOf(v)]
        /\ arguments = [w \in {LocalP, LocalQ} |->
                          IF w = LocalP \/ o.kind = "STRING" THEN v ELSE word[w]]
        /\ roots = CloneRoots(o.kind) /\ length \in CloneLens(o)
        /\ Enter("Lclone", o.kind, length, 1, roots, arguments)
  BY Zenon DEF CallClone, Operand
<1>3. PICK fn, kind, len, n :
        /\ fn = "Lclone" /\ kind = o.kind /\ len = length /\ n = 1
        /\ Enter(fn, kind, len, n, roots, arguments)
  BY <1>2, Zenon
<1>17. fn \in Registering /\ n \in Nat
  BY <1>3, LibraryNames
<1>4. PICK w : w = word'
  OBVIOUS
<1>5. /\ call' = [fn |-> fn, pops |-> 0, kind |-> kind, len |-> len]
      /\ w = [a \in Words |-> IF a \in DOMAIN arguments THEN arguments[a] ELSE word[a]]
  BY <1>3, <1>4, EnteredCall
<1>6. /\ DOMAIN arguments = {LocalP, LocalQ}
      /\ arguments[LocalP] = v /\ (kind = "STRING" => arguments[LocalQ] = v)
      /\ w[LocalP] = v /\ (kind = "STRING" => w[LocalQ] = v)
  BY <1>2, <1>3, <1>5, Layout
<1>7. roots = IF kind = "STRING" THEN <<LocalP, LocalQ>> ELSE <<LocalP>>
  BY <1>2, <1>3 DEF CloneRoots
<1>8. /\ {roots[i] : i \in DOMAIN roots} = IF kind = "STRING" THEN {LocalP, LocalQ} ELSE {LocalP}
      /\ \A i \in DOMAIN roots : roots[i] \in DOMAIN arguments /\ arguments[roots[i]] = v
      /\ \E i \in DOMAIN roots : v = arguments[roots[i]]
  <2>1. CASE kind = "STRING"
    <3>1. roots = <<LocalP, LocalQ>>
      BY <1>7, <2>1
    <3>2. /\ DOMAIN roots = {1, 2} /\ roots[1] = LocalP /\ roots[2] = LocalQ
          /\ {roots[i] : i \in DOMAIN roots} = {LocalP, LocalQ}
      BY ONLY <3>1
    <3> QED BY <1>6, <2>1, <3>2
  <2>2. CASE kind # "STRING"
    <3>1. roots = <<LocalP>>
      BY <1>7, <2>2
    <3>2. DOMAIN roots = {1} /\ roots[1] = LocalP /\ {roots[i] : i \in DOMAIN roots} = {LocalP}
      BY ONLY <3>1
    <3> QED BY <1>6, <2>2, <3>2
  <2> QED BY <2>1, <2>2
<1>9. PICK before : before = <<Denotes(v)>>
  OBVIOUS
<1>10. before = PoppedIn(fn, w)
  BY <1>3, <1>6, <1>9 DEF PoppedIn
<1>11. AreOperands(before, n)
  BY <1>2, <1>3, <1>9 DEF AreOperands
<1>12. OperandsRegistered(n, roots, arguments)
  <2>1. 1 \in 1..n /\ \A k \in 1..n : word[top + k] = v
    BY <1>2, <1>3
  <2> QED BY <1>6, <1>8, <2>1 DEF OperandsRegistered
<1>13. ParametersRegistered(fn, kind, w, roots)
  BY <1>3, <1>6, <1>8 DEF ParametersRegistered, Parameters, ClonesString
<1>14. GraphInv'
  BY <1>3, <1>4, <1>10, <1>11, <1>12, <1>13, <1>17, EnterKept
<1>15. PICK id \in DOMAIN view.store :
         /\ view.stack[1] = Library!Reference(id)
         /\ view.store[id].kind = kind /\ len \in CloneLens(view.store[id])
  <2>1. PICK k \in Nat \ {0} : k = 1 /\ k <= Depth
    BY <1>1
  <2>2. PICK id \in DOMAIN view.store :
           /\ view.stack[1] = Library!Reference(id)
           /\ view.store[id].kind = o.kind /\ view.store[id].len = o.len
    BY <1>1, <1>2, <2>1, OperandView
  <2> QED BY <1>2, <1>3, <2>2 DEF CloneLens
<1>16. LibraryKnown'
  BY <1>3, <1>5, <1>15 DEF LibraryKnown, Library!Reference
<1> QED BY <1>14, <1>16

LEMMA CallSubstringKept ==
  ASSUME ProgramAt, MutatorInv', phase' = "request", view' = view, CallSubstring
  PROVE  GraphInv' /\ LibraryKnown'
<1>1. Depth >= 1 /\ IsValidHeapPointer(word[top + 1]) /\ mem[HeaderOf(word[top + 1])].kind = "STRING"
  BY Zenon DEF CallSubstring, Operand, IsA
<1>2. PICK v, o, len, arguments, roots, fn, kind, n :
        /\ v = word[top + 1] /\ o = mem[HeaderOf(v)] /\ len \in 0 .. o.len
        /\ fn = "Lsubstring" /\ kind = "STRING" /\ n = 1
        /\ arguments = [w \in {LocalP} |-> v] /\ roots = <<LocalP>>
        /\ Enter(fn, kind, len, n, roots, arguments)
  BY Zenon DEF CallSubstring, Operand
<1>3. fn \in Registering /\ n \in Nat
  BY <1>2, LibraryNames
<1>4. PICK w : w = word'
  OBVIOUS
<1>5. /\ call' = [fn |-> fn, pops |-> 0, kind |-> kind, len |-> len]
      /\ w = [a \in Words |-> IF a \in DOMAIN arguments THEN arguments[a] ELSE word[a]]
  BY <1>2, <1>4, EnteredCall
<1>6. DOMAIN arguments = {LocalP} /\ arguments[LocalP] = v /\ w[LocalP] = v
  BY <1>2, <1>5, Layout
<1>7. DOMAIN roots = {1} /\ roots[1] = LocalP /\ {roots[i] : i \in DOMAIN roots} = {LocalP}
  <2>1. roots = <<LocalP>>
    BY <1>2
  <2> QED BY ONLY <2>1
<1>8. PICK before : before = <<Denotes(v)>>
  OBVIOUS
<1>9. before = PoppedIn(fn, w)
  BY <1>2, <1>6, <1>8 DEF PoppedIn
<1>10. AreOperands(before, n)
  BY <1>2, <1>8 DEF AreOperands
<1>11. OperandsRegistered(n, roots, arguments)
  <2>1. 1 \in 1..n /\ \A k \in 1..n : word[top + k] = v
    BY <1>2
  <2> QED BY <1>6, <1>7, <2>1 DEF OperandsRegistered
<1>12. ParametersRegistered(fn, kind, w, roots)
  BY <1>2, <1>7 DEF ParametersRegistered, Parameters, ClonesString
<1>13. GraphInv'
  BY <1>2, <1>3, <1>4, <1>9, <1>10, <1>11, <1>12, EnterKept
<1>14. PICK id \in DOMAIN view.store :
         /\ view.stack[1] = Library!Reference(id)
         /\ view.store[id].kind = "STRING" /\ view.store[id].len = o.len
  <2>1. PICK k \in Nat \ {0} : k = 1 /\ k <= Depth
    BY <1>1
  <2> QED BY <1>1, <1>2, <2>1, OperandView
<1>15. LibraryKnown'
  BY <1>2, <1>5, <1>14 DEF LibraryKnown, Library!Reference
<1> QED BY <1>13, <1>15

LEMMA CallConcatenationKept ==
  ASSUME ProgramAt, MutatorInv', phase' = "request", view' = view, CallConcatenation
  PROVE  GraphInv' /\ LibraryKnown'
<1>1. /\ Depth >= 2 /\ IsValidHeapPointer(word[top + 1]) /\ IsValidHeapPointer(word[top + 2])
      /\ mem[HeaderOf(word[top + 1])].kind = "STRING" /\ mem[HeaderOf(word[top + 2])].kind = "STRING"
  BY Zenon DEF CallConcatenation, Operand, IsA
<1>2. PICK u, v, a, b, len, arguments, roots, fn, kind, n :
        /\ u = word[top + 2] /\ v = word[top + 1]
        /\ a = mem[HeaderOf(u)] /\ b = mem[HeaderOf(v)] /\ len = a.len + b.len
        /\ fn = "Li__Infix_4343" /\ kind = "STRING" /\ n = 2
        /\ arguments = [w \in {LocalP, LocalQ} |-> IF w = LocalP THEN u ELSE v]
        /\ roots = <<LocalP, LocalQ>>
        /\ Enter(fn, kind, len, n, roots, arguments)
  BY Zenon DEF CallConcatenation, Operand
<1>3. fn \in Registering /\ n \in Nat
  BY <1>2, LibraryNames
<1>4. PICK w : w = word'
  OBVIOUS
<1>5. /\ call' = [fn |-> fn, pops |-> 0, kind |-> kind, len |-> len]
      /\ w = [x \in Words |-> IF x \in DOMAIN arguments THEN arguments[x] ELSE word[x]]
  BY <1>2, <1>4, EnteredCall
<1>6. /\ DOMAIN arguments = {LocalP, LocalQ} /\ arguments[LocalP] = u /\ arguments[LocalQ] = v
      /\ w[LocalP] = u /\ w[LocalQ] = v
  BY <1>2, <1>5, Layout
<1>7. /\ DOMAIN roots = {1, 2} /\ roots[1] = LocalP /\ roots[2] = LocalQ
      /\ {roots[i] : i \in DOMAIN roots} = {LocalP, LocalQ}
  <2>1. roots = <<LocalP, LocalQ>>
    BY <1>2
  <2> QED BY ONLY <2>1
<1>8. PICK before : before = <<Denotes(v), Denotes(u)>>
  OBVIOUS
<1>9. before = PoppedIn(fn, w)
  BY <1>2, <1>6, <1>8 DEF PoppedIn
<1>10. /\ 1..n = {1, 2}
       /\ \A k \in 1..n : \/ k = 1 /\ word[top + k] = v
                          \/ k = 2 /\ word[top + k] = u
  BY <1>2
<1>11. AreOperands(before, n)
  <2>1. DOMAIN before = {1, 2} /\ before = [i \in {1, 2} |-> before[i]]
        /\ before[1] = Denotes(v) /\ before[2] = Denotes(u)
    BY ONLY <1>8
  <2> QED BY <1>2, <1>10, <2>1 DEF AreOperands
<1>12. OperandsRegistered(n, roots, arguments)
  BY <1>6, <1>7, <1>10 DEF OperandsRegistered
<1>13. ParametersRegistered(fn, kind, w, roots)
  BY <1>2, <1>7 DEF ParametersRegistered, Parameters, ClonesString
<1>14. GraphInv'
  BY <1>2, <1>3, <1>4, <1>9, <1>11, <1>12, <1>13, EnterKept
<1>15. PICK i \in DOMAIN view.store :
         /\ view.stack[1] = Library!Reference(i)
         /\ view.store[i].kind = "STRING" /\ view.store[i].len = b.len
  <2>1. PICK k \in Nat \ {0} : k = 1 /\ k <= Depth
    BY <1>1, ViewParts
  <2> QED BY <1>1, <1>2, <2>1, OperandView
<1>16. PICK j \in DOMAIN view.store :
         /\ view.stack[2] = Library!Reference(j)
         /\ view.store[j].kind = "STRING" /\ view.store[j].len = a.len
  <2>1. PICK k \in Nat \ {0} : k = 2 /\ k <= Depth
    BY <1>1
  <2> QED BY <1>1, <1>2, <2>1, OperandView
<1>17. LibraryKnown'
  BY <1>2, <1>5, <1>15, <1>16 DEF LibraryKnown, Library!Reference
<1> QED BY <1>14, <1>17

LEMMA CallMakeArrayKept ==
  ASSUME ProgramAt, MutatorInv', phase' = "request", view' = view, NEW len \in 0..MaxLen, CallMakeArray(len)
  PROVE  GraphInv' /\ LibraryKnown'
<1>1. PICK fn, kind, n, arguments, roots :
        /\ fn = "LmakeArray" /\ kind = "ARRAY" /\ n = 1 /\ arguments = <<>> /\ roots = <<>>
        /\ Enter(fn, kind, len, n, roots, arguments) /\ word[top + 1] = Number
  BY Zenon DEF CallMakeArray, Operand
<1>2. fn \in Registering /\ n \in Nat
  BY <1>1, LibraryNames
<1>3. PICK w : w = word'
  OBVIOUS
<1>4. call' = [fn |-> fn, pops |-> 0, kind |-> kind, len |-> len]
  BY <1>1, EnteredCall
<1>5. Denotes(Number) = Graph!Number
  <2>1. Number \in Int /\ Number < GlobalStop
    BY Layout DEF Number
  <2> QED BY <2>1, NumberDenotes DEF ProgramAt, RunInv, Graph!Number, Number
<1>6. PICK before : before = <<Graph!Number>>
  OBVIOUS
<1>7. before = PoppedIn(fn, w)
  BY <1>1, <1>6 DEF PoppedIn
<1>8. AreOperands(before, n)
  BY <1>1, <1>5, <1>6 DEF AreOperands
<1>9. OperandsRegistered(n, roots, arguments)
  <2>1. DOMAIN arguments = {} /\ DOMAIN roots = {}
    BY <1>1
  <2>2. \A k \in 1..n : word[top + k] < GlobalStop
    BY <1>1, Layout DEF Number
  <2> QED BY <2>1, <2>2 DEF OperandsRegistered
<1>10. ParametersRegistered(fn, kind, w, roots)
  BY <1>1 DEF ParametersRegistered, Parameters, ClonesString
<1>11. GraphInv'
  BY <1>1, <1>2, <1>3, <1>7, <1>8, <1>9, <1>10, EnterKept
<1>12. LibraryKnown'
  BY <1>1, <1>4 DEF LibraryKnown
<1> QED BY <1>11, <1>12

\* The functions of the library that have been entered, or have overflowed the pool of roots.
LEMMA LibraryCallsGraph ==
  ASSUME LibraryInv, GraphInv, LibraryCalls, Recorded
  PROVE  /\ GraphInv' /\ view' = view /\ phase' \in {"request", "exit", "astray"}
         /\ phase' = "request" => LibraryKnown'
<1>1. phase = "run"
  BY Zenon DEF LibraryCalls, CallClone, CallSubstring, CallConcatenation, CallMakeArray, Enter,
               Request, Running, CallOutOfRange
<1>2. Running /\ MutatorInv
  BY <1>1 DEF LibraryInv, Running
<1>3. RunInv /\ ProgramAt
  BY <1>2, RunningInv, BetweenInstructions
<1>8. CASE CallOutOfRange
  <2>1. phase' = "astray"
    BY <1>8 DEF CallOutOfRange
  <2> QED BY <2>1 DEF GraphInv, Recorded, Collecting, Scanning, Compacting
<1>9. CASE ~CallOutOfRange
  <2>1. LibraryInv' /\ phase' \in {"request", "exit"}
    BY <1>3, <1>9, CallCloneStep, CallSubstringStep, CallConcatenationStep, CallMakeArrayStep
       DEF LibraryCalls
  <2>2. view' = view /\ MutatorInv'
    BY <2>1 DEF Recorded, LibraryInv
  <2>3. CASE phase' = "exit"
    BY <2>2, <2>3 DEF GraphInv, Collecting, Scanning, Compacting
  <2>4. CASE phase' = "request"
    BY <1>3, <1>9, <2>2, <2>4, CallCloneKept, CallSubstringKept, CallConcatenationKept,
       CallMakeArrayKept DEF LibraryCalls
  <2> QED BY <2>1, <2>2, <2>3, <2>4
<1> QED BY <1>8, <1>9

\* The address of an object's content denotes the object.
LEMMA ObjectDenoted ==
  ASSUME HeapConsistent, ProcessInv, NEW v \in Int, NEW h, h = HeaderOf(v), h \in DOMAIN mem
  PROVE  Denotes(v) = Graph!Reference(mem[h].id)
<1>1. /\ h \in Nat /\ mem[h] \in Object /\ SizeWords(mem[h].kind, mem[h].len) > 0
      /\ heap.begin <= h /\ NextObj(mem, h) \in DOMAIN mem \cup {heap.current}
      /\ heap.begin \in Nat /\ heap.current \in Nat
  BY DEF HeapConsistent, Walkable, ProcessInv
<1>2. ObjWords(mem[h]) \in Int /\ ObjWords(mem[h]) >= 2
  <2>1. mem[h].kind \in Kinds /\ mem[h].len \in Nat
    BY <1>1 DEF Object
  <2> QED BY <1>1, <2>1 DEF ObjWords, SizeWords, HeaderWords, Kinds
<1>3. NextObj(mem, h) <= heap.current
  <2>1. CASE NextObj(mem, h) \in DOMAIN mem
    <3>1. PICK g : g = NextObj(mem, h) /\ g \in DOMAIN mem
      BY <2>1
    <3>2. mem[g] \in Object /\ SizeWords(mem[g].kind, mem[g].len) > 0 /\ g \in Nat
      BY <3>1 DEF HeapConsistent
    <3> QED BY <3>1 DEF HeapConsistent, Walkable
  <2>2. CASE NextObj(mem, h) = heap.current
    BY <1>1, <2>2
  <2> QED BY <1>1, <2>1, <2>2
<1>4. v = h + 2 /\ h + 2 <= heap.current
  BY <1>1, <1>2, <1>3 DEF HeaderOf, HeaderWords, NextObj
<1>5. IsValidHeapPointer(v)
  BY <1>1, <1>4 DEF IsValidHeapPointer, InChunk, IsUnboxed
<1> QED BY <1>5 DEF Denotes, Graph!Reference

\* What a parameter that the function copies from denotes, and the program has.
LEMMA SourceView ==
  ASSUME HeapConsistent, ProcessInv, IdentifiedNow, NowKept, CallInv, NEW s \in RootWords(top, extra),
         s \in Words, NEW h, h = HeaderOf(word[s]), h \in DOMAIN mem
  PROVE  /\ Dump(DOMAIN mem).roots[s] = Graph!Reference(mem[h].id)
         /\ mem[h].id \in DOMAIN view.store /\ view.store[mem[h].id] = ObjectAt(h)
         /\ \A i \in DOMAIN mem[h].fields : Known(Denotes(mem[h].fields[i]))
<1>1. PICK id : id = mem[h].id
  OBVIOUS
<1>2. word[s] \in Int
  BY DEF ProcessInv
<1>3. Denotes(word[s]) = Graph!Reference(id)
  BY <1>1, <1>2, ObjectDenoted
<1>4. Dump(DOMAIN mem).roots[s] = Graph!Reference(id)
  BY <1>3, DumpWords DEF ProcessInv
<1>5. Pictured(DOMAIN mem)
  BY PicturedNow
<1>6. id \in DOMAIN StoreNow /\ StoreNow[id] = ObjectAt(h)
  BY <1>1, <1>5 DEF Pictured, StoreNow
<1>7. id \in Graph!ReachableIds(StoreNow, RootsNow)
  <2>1. Known(Graph!Reference(id))
    BY <1>3, OperandsKnown
  <2> QED BY <1>6, <2>1 DEF Known
<1>8. view.store = Graph!Retained(StoreNow, RootsNow)
  BY NowKeptWith DEF KeptWith, ProcessInv
<1>9. id \in DOMAIN view.store /\ view.store[id] = StoreNow[id]
  BY <1>7, <1>8 DEF Graph!Retained
<1>10. ASSUME NEW i \in DOMAIN mem[h].fields PROVE Known(Denotes(mem[h].fields[i]))
  <2>1. Denotes(mem[h].fields[i]) \in Graph!FieldsOf(StoreNow, id)
    BY <1>1, <1>5, FieldsDenote
  <2> QED BY <1>7, <2>1, ReachableClosed DEF Known
<1> QED BY <1>1, <1>4, <1>6, <1>9, <1>10

\* The object that a function of the library makes, as the program has it.
Made ==
  [kind |-> call.kind, len |-> call.len,
   fields |-> [i \in DOMAIN NewFields |-> Denotes(NewFields[i])]]

\* What is known when a function of the library has its memory.
LibraryReady ==
  /\ HeapConsistent /\ ProcessInv /\ CallInv /\ Fits /\ obj = NoObj
  /\ IdentifiedNow /\ NowKept /\ CallKnown
  /\ WordsSound(word, RootWords(top, extra)) /\ RootWords(top, extra) \subseteq Words
  /\ \A i \in DOMAIN Sources : /\ Sources[i] \in RootWords(top, extra)
                              /\ HeaderOf(word[Sources[i]]) \in DOMAIN mem
  /\ call.fn \in Registering /\ LibraryKnown

LEMMA LibraryIsReady ==
  ASSUME LibraryInv, LibraryGraphInv, (phase = "request" /\ Fits) \/ phase = "alloc", InLibrary
  PROVE  LibraryReady
<1>1. MutatorInv /\ SourcesKept /\ call.fn \in Allocators \cup Registering
  BY DEF LibraryInv, Collecting, Registering
<1>2. GraphInv /\ LibraryKnown
  BY DEF LibraryGraphInv, Collecting
<1>3. call.fn \in Registering
  <2>1. call.fn \in LibraryFunctions /\ LibraryFunctions \cap Allocators = {}
    BY DEF InLibrary, LibraryFunctions, Allocators
  <2> QED BY <1>1, <2>1
<1>4. HeapConsistent /\ ProcessInv /\ CallInv /\ Fits /\ obj = NoObj
  BY <1>1, AllocatedIsConsistent
<1>5. \A i \in DOMAIN Sources : HeaderOf(word[Sources[i]]) \in DOMAIN mem
  BY SourcesAreObjects
<1> QED BY <1>1, <1>2, <1>3, <1>4, <1>5, ReturnKnown DEF LibraryReady, SourcesKept

\* The fields of the new object are values of the program.
LEMMA NewFieldsKnown ==
  ASSUME LibraryReady, NEW fields, fields = NewFields
  PROVE  fields \in Seq(Int) /\ \A i \in DOMAIN fields : Sound(fields[i]) /\ Known(Denotes(fields[i]))
<1>1. HeapConsistent /\ ProcessInv /\ CallInv /\ call.fn \in Registering
  BY DEF LibraryReady
<1>2. CASE call.fn = "Lclone" /\ call.kind # "STRING"
  <2>5. PICK s \in Words : /\ s = Sources[1] /\ s \in RootWords(top, extra)
                            /\ HeaderOf(word[s]) \in DOMAIN mem
    <3>1. 1 \in DOMAIN Sources
      BY <1>2 DEF Sources
    <3>2. Sources[1] \in RootWords(top, extra) /\ RootWords(top, extra) \subseteq Words
          /\ HeaderOf(word[Sources[1]]) \in DOMAIN mem
      BY <3>1 DEF LibraryReady
    <3> QED BY <3>2
  <2>1. PICK h : h = HeaderOf(word[s]) /\ h \in DOMAIN mem
    BY <2>5
  <2>2. fields = mem[h].fields
    BY <1>2, <2>1, <2>5 DEF NewFields, Copied, Parameter
  <2>3. mem[h] \in Object
    BY <1>1, <2>1 DEF HeapConsistent
  <2>4. \A i \in DOMAIN mem[h].fields : Known(Denotes(mem[h].fields[i]))
    BY <2>1, <2>5, SourceView DEF LibraryReady
  <2> QED BY <1>1, <2>1, <2>2, <2>3, <2>4 DEF Object, HeapConsistent, FieldsSound
<1>3. CASE call.fn = "LmakeArray"
  <2>1. fields = [i \in 1..call.len |-> Number]
    BY <1>3 DEF NewFields
  <2>2. Number \in Int /\ Number < GlobalStop /\ Sound(Number)
    BY NumberIsSound, Layout DEF Number
  <2>3. Known(Denotes(Number))
    <3>1. Denotes(Number) = <<"word", Number>>
      BY <1>1, <2>2, NumberDenotes
    <3> QED BY <3>1, OperandsKnown
  <2>4. call.len \in Nat
    BY <1>1 DEF CallInv
  <2> QED BY <2>1, <2>2, <2>3, <2>4
<1>4. CASE call.fn \in {"Lsubstring", "Li__Infix_4343"} \/ (call.fn = "Lclone" /\ call.kind = "STRING")
  <2>1. fields = <<>>
    BY <1>4 DEF NewFields
  <2> QED BY <2>1
<1> QED BY <1>1, <1>2, <1>3, <1>4, LibraryNames

\* It is made next to what the program had, in the place of the arguments.
LEMMA LibraryBecomes ==
  ASSUME LibraryReady, LibraryReturn, Recorded, NEW id, id = ids + 1, NEW r, r = Made
  PROVE  /\ GraphInv' /\ copied' = CopiedIds /\ id \in (1..MaxAllocs) \ DOMAIN view.store
         /\ Graph!Become(Graph!WithObject(view.store, id, r), <<Graph!Reference(id)>> \o RemainingNow, view.globals)
<1>1. /\ HeapConsistent /\ ProcessInv /\ CallInv /\ Fits /\ obj = NoObj
      /\ IdentifiedNow /\ NowKept /\ CallKnown
      /\ WordsSound(word, RootWords(top, extra)) /\ RootWords(top, extra) \subseteq Words
  BY DEF LibraryReady
<1>2. \A i \in DOMAIN Sources : HeaderOf(word[Sources[i]]) \in DOMAIN mem
  BY DEF LibraryReady
<1>3. PICK fields, o : /\ fields = NewFields /\ o = ObjectWith(fields) /\ FinishWith(o)
                      /\ copied' = CopiedIds
  BY <1>2, Zenon DEF LibraryReturn
<1>4. fields \in Seq(Int) /\ \A i \in DOMAIN fields : Sound(fields[i]) /\ Known(Denotes(fields[i]))
  BY <1>3, NewFieldsKnown
<1>5. o = [kind |-> call.kind, len |-> call.len, fields |-> fields,
           fwd |-> 0, mark |-> FALSE, enq |-> FALSE, id |-> ids + 1]
  BY <1>3 DEF ObjectWith
<1>6. call.kind \in Kinds /\ call.len \in Nat /\ ids \in Nat /\ need = SizeWords(call.kind, call.len)
  BY <1>1 DEF CallInv, ProcessInv
<1>7. o \in Object /\ ~o.mark /\ ~o.enq /\ ObjWords(o) = need /\ o.id = ids + 1
  BY <1>4, <1>5, <1>6 DEF Object, ObjWords
<1>8. phase' = "run"
  BY <1>3 DEF FinishWith
<1>9. view' = View'
  BY <1>8 DEF Recorded
<1>10. view.store = Graph!Retained(StoreNow, RootsNow) /\ view.globals = GlobalsNow
  BY <1>1, NowKeptWith DEF KeptWith, ProcessInv
<1>11. r = Picture(o)
  BY <1>3, <1>5 DEF Made, Picture
<1>12. \A i \in DOMAIN r.fields : Known(r.fields[i])
  <2>1. r.fields = [i \in DOMAIN fields |-> Denotes(fields[i])]
    BY <1>3 DEF Made
  <2> QED BY <1>4, <2>1
<1>13. \A i \in DOMAIN o.fields : Sound(o.fields[i])
  BY <1>4, <1>5
<1>14. /\ ProgramAt'
       /\ Graph!Become(Graph!WithObject(view.store, id, r), <<Graph!Reference(id)>> \o RemainingNow, view.globals)
  BY <1>1, <1>3, <1>7, <1>9, <1>10, <1>11, <1>12, <1>13, ResultBecomes
<1>15. Running'
  BY <1>8 DEF Running
<1>16. GraphInv'
  BY <1>14, <1>15, RunningGraph, PTL
<1>17. id \in (1..MaxAllocs) \ DOMAIN view.store
  <2>1. ids \in Nat /\ ids < MaxAllocs /\ MaxAllocs \in Nat
    BY <1>1, MutatorAssumption DEF ProcessInv, CallKnown
  <2>2. DOMAIN view.store \subseteq DOMAIN StoreNow
    BY <1>10, ReachableClosed DEF Graph!Retained
  <2>3. DOMAIN StoreNow = {mem[h].id : h \in DOMAIN mem}
    BY <1>1, StorePictured DEF PicturedStore
  <2>4. \A h \in DOMAIN mem : mem[h].id \in 1..ids
    BY <1>1, IdsDistinct DEF HeapConsistent
  <2>5. id \notin DOMAIN view.store
    BY <2>1, <2>2, <2>3, <2>4
  <2>6. id \in 1..MaxAllocs
    BY <2>1
  <2> QED BY <2>5, <2>6
<1> QED BY <1>3, <1>14, <1>16, <1>17

\* What the arguments were, on the stack.
LEMMA OperandsTaken ==
  ASSUME LibraryReady, NEW p, p = Popped(Dump(DOMAIN mem)), NEW U, p \in Seq(U),
         NEW n, n = Len(p)
  PROVE  /\ Len(view.stack) \in Nat /\ n <= Len(view.stack) /\ Library!Pop(n) = RemainingNow
         /\ \A i \in 1..n : view.stack[i] = p[i]
<1>1. PICK rest, V, W : rest = RemainingNow /\ V = Denoted /\ W = U \cup V
  OBVIOUS
<1>2. rest \in Seq(V)
  BY <1>1, ReturnWords DEF LibraryReady
<1>3. p \in Seq(W) /\ rest \in Seq(W)
  <2>1. V \subseteq W /\ U \subseteq W
    BY <1>1
  <2> QED BY ONLY <1>2, <2>1, p \in Seq(U)
<1>4. view.stack = p \o rest
  <2>1. KeptWith(p)
    BY NowKeptWith DEF LibraryReady, ProcessInv
  <2>2. call.fn \notin {"Barray", "Bsexp"}
    BY LibraryNames DEF LibraryReady, Allocators
  <2> QED BY <1>1, <2>1, <2>2 DEF KeptWith, BeforeCall
<1>5. PICK st : st = view.stack
  OBVIOUS
<1>6. /\ Len(p \o rest) = Len(p) + Len(rest)
      /\ \A i \in 1 .. Len(p) : (p \o rest)[i] = p[i]
      /\ SubSeq(p \o rest, Len(p) + 1, Len(p \o rest)) = rest
  BY ONLY <1>3, RestOfConcatenation
<1>7. Len(st) \in Nat /\ n <= Len(st) /\ SubSeq(st, n + 1, Len(st)) = rest /\ \A i \in 1..n : st[i] = p[i]
  <2>1. Len(p) \in Nat /\ Len(rest) \in Nat
    BY ONLY <1>3
  <2>2. n = Len(p) /\ st = p \o rest
    BY <1>4, <1>5
  <2> QED BY ONLY <1>6, <2>1, <2>2
<1> QED BY <1>1, <1>5, <1>7 DEF Library!Pop

\* The new object takes the place of the n operands that were the arguments.
LEMMA LibraryMakes ==
  ASSUME LibraryReady, LibraryReturn, Recorded, NEW id, id = ids + 1, NEW r, r = Made,
         NEW n, Library!Pop(n) = RemainingNow, NEW from, from = CopiedIds
  PROVE  GraphInv' /\ id \in (1..MaxAllocs) \ DOMAIN view.store /\ Library!Make(n, id, r, from)
<1>1. /\ GraphInv' /\ copied' = CopiedIds /\ id \in (1..MaxAllocs) \ DOMAIN view.store
      /\ Graph!Become(Graph!WithObject(view.store, id, r), <<Graph!Reference(id)>> \o RemainingNow, view.globals)
  BY LibraryBecomes
<1>2. PICK s, st : /\ s = Library!WithObject(view.store, id, r)
                   /\ st = <<Library!Reference(id)>> \o Library!Pop(n)
  OBVIOUS
<1>3. s = Graph!WithObject(view.store, id, r) /\ st = <<Graph!Reference(id)>> \o RemainingNow
  BY <1>2, SameOperators
<1>4. Library!Become(s, st, view.globals)
  BY <1>1, <1>3, SameOperators
<1> QED BY <1>1, <1>2, <1>4 DEF Library!Make

\* What is copied from: the objects that the parameters are.
LEMMA SourceTaken ==
  ASSUME LibraryReady, NEW i \in DOMAIN Sources, NEW s, s = Sources[i], NEW h, h = HeaderOf(word[s])
  PROVE  /\ h \in DOMAIN mem /\ Parameter(s) = mem[h]
         /\ Dump(DOMAIN mem).roots[s] = Library!Reference(mem[h].id)
         /\ mem[h].id \in DOMAIN view.store /\ view.store[mem[h].id] = ObjectAt(h)
<1>1. s \in RootWords(top, extra) /\ s \in Words /\ h \in DOMAIN mem
  BY DEF LibraryReady
<1>2. /\ Dump(DOMAIN mem).roots[s] = Graph!Reference(mem[h].id)
      /\ mem[h].id \in DOMAIN view.store /\ view.store[mem[h].id] = ObjectAt(h)
  BY <1>1, SourceView DEF LibraryReady
<1> QED BY <1>1, <1>2 DEF Parameter, Graph!Reference, Library!Reference

LEMMA CloneMade ==
  ASSUME LibraryReady, LibraryReturn, Recorded, call.fn = "Lclone"
  PROVE  GraphInv' /\ \E new \in (1..MaxAllocs) \ DOMAIN view.store, id \in DOMAIN view.store :
                        Library!Clone(new, id)
<1>1. PICK D, s, h, id : /\ D = Dump(DOMAIN mem) /\ s = Sources[1] /\ h = HeaderOf(word[s])
                        /\ id = mem[h].id
  OBVIOUS
<1>2. Sources = IF call.kind = "STRING" THEN <<LocalQ>> ELSE <<LocalP>>
  BY DEF Sources
<1>3. DOMAIN Sources = {1} /\ s = IF call.kind = "STRING" THEN LocalQ ELSE LocalP
  <2>1. CASE call.kind = "STRING"
    <3>1. Sources = <<LocalQ>>
      BY <1>2, <2>1
    <3>2. DOMAIN Sources = {1} /\ Sources[1] = LocalQ
      BY ONLY <3>1
    <3> QED BY <1>1, <2>1, <3>2
  <2>2. CASE call.kind # "STRING"
    <3>1. Sources = <<LocalP>>
      BY <1>2, <2>2
    <3>2. DOMAIN Sources = {1} /\ Sources[1] = LocalP
      BY ONLY <3>1
    <3> QED BY <1>1, <2>2, <3>2
  <2> QED BY <2>1, <2>2
<1>4. /\ h \in DOMAIN mem /\ Parameter(s) = mem[h] /\ D.roots[s] = Library!Reference(id)
      /\ id \in DOMAIN view.store /\ view.store[id] = ObjectAt(h)
  <2>1. PICK i \in DOMAIN Sources : s = Sources[i]
    BY <1>1, <1>3
  <2>2. /\ h \in DOMAIN mem /\ Parameter(s) = mem[h]
        /\ Dump(DOMAIN mem).roots[s] = Library!Reference(mem[h].id)
        /\ mem[h].id \in DOMAIN view.store /\ view.store[mem[h].id] = ObjectAt(h)
    BY <1>1, <2>1, SourceTaken
  <2> QED BY <1>1, <2>2
<1>5. D.roots[LocalP] = Library!Reference(id)
  <2>1. ViewKept(D)
    BY <1>1 DEF LibraryReady, NowKept
  <2>2. call.kind = "STRING" => D.roots[LocalQ] = D.roots[LocalP]
    BY <2>1, Zenon DEF ViewKept
  <2> QED BY <1>3, <1>4, <2>2
<1>6. PICK p : p = <<Library!Reference(id)>>
  OBVIOUS
<1>7. p = Popped(D)
  BY <1>5, <1>6 DEF Popped
<1>8. /\ 1 <= Len(view.stack) /\ Library!Pop(1) = RemainingNow
      /\ view.stack[1] = Library!Reference(id)
  <2>1. PICK U, n : U = {Library!Reference(id)} /\ n = 1
    OBVIOUS
  <2>2. p \in Seq(U) /\ n = Len(p) /\ p[1] = Library!Reference(id)
    BY ONLY <1>6, <2>1
  <2>3. /\ n <= Len(view.stack) /\ Library!Pop(n) = RemainingNow
        /\ \A i \in 1..n : view.stack[i] = p[i]
    BY <1>1, <1>7, <2>2, OperandsTaken
  <2> QED BY <2>1, <2>2, <2>3
<1>9. PICK r : r = Made
  OBVIOUS
<1>10. view.store[id].kind = call.kind /\ call.len \in CloneLens(view.store[id])
  <2>1. PICK k \in DOMAIN view.store : /\ view.stack[1] = Library!Reference(k)
                                     /\ view.store[k].kind = call.kind
                                     /\ call.len \in CloneLens(view.store[k])
    BY DEF LibraryReady, LibraryKnown
  <2>2. k = id
    BY <1>8, <2>1 DEF Library!Reference
  <2> QED BY <2>1, <2>2
<1>11. IF Library!IsString(id)
         THEN call.len \in 0 .. view.store[id].len /\ r = Library!NewString(call.len)
         ELSE r = view.store[id]
  <2>1. CASE call.kind = "STRING"
    <3>1. call.len \in 0 .. view.store[id].len
      BY <1>10, <2>1 DEF CloneLens
    <3>2. NewFields = <<>>
      BY <2>1 DEF NewFields
    <3>3. [i \in DOMAIN NewFields |-> Denotes(NewFields[i])] = <<>>
      BY <3>2
    <3>4. r = Library!NewString(call.len)
      BY <1>9, <2>1, <3>3 DEF Made, Library!NewString
    <3> QED BY <1>10, <2>1, <3>1, <3>4 DEF Library!IsString
  <2>2. CASE call.kind # "STRING"
    <3>1. NewFields = mem[h].fields
      BY <1>1, <1>4, <2>2 DEF NewFields, Copied
    <3>2. /\ ObjectAt(h).kind = call.kind /\ ObjectAt(h).len = call.len
          /\ mem[h].kind = call.kind /\ mem[h].len = call.len
      BY <1>4, <1>10, <2>2 DEF ObjectAt, CloneLens
    <3>3. r = view.store[id]
      BY <1>4, <1>9, <3>1, <3>2 DEF Made, ObjectAt
    <3> QED BY <1>10, <2>2, <3>3 DEF Library!IsString
  <2> QED BY <2>1, <2>2
<1>12. PICK from : from = CopiedIds
  OBVIOUS
<1>13. from = IF Library!IsString(id) THEN <<id>> ELSE <<>>
  <2>1. CASE call.kind = "STRING"
    <3>1. from = [i \in {1} |-> id]
      BY <1>1, <1>3, <1>4, <1>12, <2>1 DEF CopiedIds
    <3>2. from = <<id>>
      BY ONLY <3>1
    <3> QED BY <1>10, <2>1, <3>2 DEF Library!IsString
  <2>2. CASE call.kind # "STRING"
    BY <1>10, <1>12, <2>2 DEF CopiedIds, Library!IsString
  <2> QED BY <2>1, <2>2
<1>14. PICK new, n : new = ids + 1 /\ n = 1
  OBVIOUS
<1>15. GraphInv' /\ new \in (1..MaxAllocs) \ DOMAIN view.store /\ Library!Make(n, new, r, from)
  BY <1>8, <1>9, <1>12, <1>14, LibraryMakes
<1>16. view.stack # <<>>
  BY <1>8
<1>17. Library!Clone(new, id)
  BY <1>8, <1>11, <1>13, <1>14, <1>15, <1>16, Zenon DEF Library!Clone
<1> QED BY <1>4, <1>15, <1>17

LEMMA SubstringMade ==
  ASSUME LibraryReady, LibraryReturn, Recorded, call.fn = "Lsubstring"
  PROVE  GraphInv' /\ \E new \in (1..MaxAllocs) \ DOMAIN view.store, id \in DOMAIN view.store :
                        \E len \in 0 .. view.store[id].len : Library!Substring(new, id, len)
<1>1. PICK D, s, h, id : /\ D = Dump(DOMAIN mem) /\ s = LocalP /\ h = HeaderOf(word[s])
                        /\ id = mem[h].id
  OBVIOUS
<1>2. Sources = <<LocalP>>
  BY DEF Sources
<1>3. DOMAIN Sources = {1} /\ Sources[1] = s
  BY <1>1, <1>2
<1>4. /\ h \in DOMAIN mem /\ Parameter(s) = mem[h] /\ D.roots[s] = Library!Reference(id)
      /\ id \in DOMAIN view.store /\ view.store[id] = ObjectAt(h)
  <2>1. PICK i \in DOMAIN Sources : s = Sources[i]
    BY <1>3
  <2>2. /\ h \in DOMAIN mem /\ Parameter(s) = mem[h]
        /\ Dump(DOMAIN mem).roots[s] = Library!Reference(mem[h].id)
        /\ mem[h].id \in DOMAIN view.store /\ view.store[mem[h].id] = ObjectAt(h)
    BY <1>1, <2>1, SourceTaken
  <2> QED BY <1>1, <2>2
<1>6. PICK p : p = <<Library!Reference(id)>>
  OBVIOUS
<1>7. p = Popped(D)
  BY <1>1, <1>4, <1>6 DEF Popped
<1>8. /\ 1 <= Len(view.stack) /\ Library!Pop(1) = RemainingNow
      /\ view.stack[1] = Library!Reference(id)
  <2>1. PICK U, n : U = {Library!Reference(id)} /\ n = 1
    OBVIOUS
  <2>2. p \in Seq(U) /\ n = Len(p) /\ p[1] = Library!Reference(id)
    BY ONLY <1>6, <2>1
  <2>3. /\ n <= Len(view.stack) /\ Library!Pop(n) = RemainingNow
        /\ \A i \in 1..n : view.stack[i] = p[i]
    BY <1>1, <1>7, <2>2, OperandsTaken
  <2> QED BY <2>1, <2>2, <2>3
<1>9. PICK r, len : r = Made /\ len = call.len
  OBVIOUS
<1>10. call.kind = "STRING" /\ view.store[id].kind = "STRING" /\ len \in 0 .. view.store[id].len
  <2>1. PICK k \in DOMAIN view.store : /\ view.stack[1] = Library!Reference(k)
                                     /\ view.store[k].kind = "STRING" /\ len \in 0 .. view.store[k].len
    BY <1>9 DEF LibraryReady, LibraryKnown
  <2>2. k = id
    BY <1>8, <2>1 DEF Library!Reference
  <2>3. call.kind = "STRING"
    BY DEF LibraryReady, LibraryKnown
  <2> QED BY <2>1, <2>2, <2>3
<1>11. r = Library!NewString(len)
  <2>1. NewFields = <<>>
    BY DEF NewFields
  <2> QED BY <1>9, <1>10, <2>1 DEF Made, Library!NewString
<1>12. PICK from : from = CopiedIds
  OBVIOUS
<1>13. from = <<id>>
  <2>1. from = [i \in {1} |-> id]
    BY <1>1, <1>3, <1>4, <1>10, <1>12 DEF CopiedIds
  <2> QED BY ONLY <2>1
<1>14. PICK new, n : new = ids + 1 /\ n = 1
  OBVIOUS
<1>15. GraphInv' /\ new \in (1..MaxAllocs) \ DOMAIN view.store /\ Library!Make(n, new, r, from)
  BY <1>8, <1>9, <1>12, <1>14, LibraryMakes
<1>16. view.stack # <<>> /\ len <= view.store[id].len
  BY <1>8, <1>10
<1>17. Library!Substring(new, id, len)
  BY <1>8, <1>10, <1>11, <1>13, <1>14, <1>15, <1>16, Zenon DEF Library!Substring, Library!IsString
<1> QED BY <1>4, <1>10, <1>15, <1>17

LEMMA ConcatenationMade ==
  ASSUME LibraryReady, LibraryReturn, Recorded, call.fn = "Li__Infix_4343"
  PROVE  GraphInv' /\ \E new \in (1..MaxAllocs) \ DOMAIN view.store, a, b \in DOMAIN view.store :
                        Library!Concatenation(new, a, b)
<1>1. PICK D, g, h, a, b : /\ D = Dump(DOMAIN mem)
                          /\ g = HeaderOf(word[LocalP]) /\ h = HeaderOf(word[LocalQ])
                          /\ a = mem[g].id /\ b = mem[h].id
  OBVIOUS
<1>2. Sources = <<LocalP, LocalQ>>
  BY DEF Sources
<1>3. DOMAIN Sources = {1, 2} /\ Sources[1] = LocalP /\ Sources[2] = LocalQ
  BY <1>2
<1>4. /\ g \in DOMAIN mem /\ Parameter(LocalP) = mem[g] /\ D.roots[LocalP] = Library!Reference(a)
      /\ a \in DOMAIN view.store /\ view.store[a] = ObjectAt(g)
  <2>0. PICK s : s = LocalP
    OBVIOUS
  <2>1. PICK i \in DOMAIN Sources : s = Sources[i]
    BY <1>3, <2>0, Zenon
  <2>2. /\ g \in DOMAIN mem /\ Parameter(s) = mem[g]
        /\ Dump(DOMAIN mem).roots[s] = Library!Reference(mem[g].id)
        /\ mem[g].id \in DOMAIN view.store /\ view.store[mem[g].id] = ObjectAt(g)
    BY <1>1, <2>0, <2>1, SourceTaken
  <2> QED BY <1>1, <2>0, <2>2
<1>5. /\ h \in DOMAIN mem /\ Parameter(LocalQ) = mem[h] /\ D.roots[LocalQ] = Library!Reference(b)
      /\ b \in DOMAIN view.store /\ view.store[b] = ObjectAt(h)
  <2>0. PICK s : s = LocalQ
    OBVIOUS
  <2>1. PICK i \in DOMAIN Sources : s = Sources[i]
    BY <1>3, <2>0, Zenon
  <2>2. /\ h \in DOMAIN mem /\ Parameter(s) = mem[h]
        /\ Dump(DOMAIN mem).roots[s] = Library!Reference(mem[h].id)
        /\ mem[h].id \in DOMAIN view.store /\ view.store[mem[h].id] = ObjectAt(h)
    BY <1>1, <2>0, <2>1, SourceTaken
  <2> QED BY <1>1, <2>0, <2>2
<1>6. PICK p : p = <<Library!Reference(b), Library!Reference(a)>>
  OBVIOUS
<1>7. p = Popped(D)
  BY <1>1, <1>4, <1>5, <1>6 DEF Popped
<1>8. /\ Len(view.stack) \in Nat /\ 2 <= Len(view.stack) /\ Library!Pop(2) = RemainingNow
      /\ view.stack[1] = Library!Reference(b) /\ view.stack[2] = Library!Reference(a)
  <2>1. PICK U, n : U = {Library!Reference(a), Library!Reference(b)} /\ n = 2
    OBVIOUS
  <2>2. /\ p \in Seq(U) /\ n = Len(p)
        /\ p[1] = Library!Reference(b) /\ p[2] = Library!Reference(a)
    BY ONLY <1>6, <2>1
  <2>3. /\ Len(view.stack) \in Nat /\ n <= Len(view.stack) /\ Library!Pop(n) = RemainingNow
        /\ \A i \in 1..n : view.stack[i] = p[i]
    BY <1>1, <1>7, <2>2, OperandsTaken
  <2> QED BY <2>1, <2>2, <2>3
<1>9. PICK r, len : r = Made /\ len = call.len
  OBVIOUS
<1>10. /\ call.kind = "STRING" /\ view.store[a].kind = "STRING" /\ view.store[b].kind = "STRING"
       /\ len = view.store[a].len + view.store[b].len
  <2>1. PICK j, k \in DOMAIN view.store :
          /\ view.stack[2] = Library!Reference(j) /\ view.stack[1] = Library!Reference(k)
          /\ view.store[j].kind = "STRING" /\ view.store[k].kind = "STRING"
          /\ len = view.store[j].len + view.store[k].len
    BY <1>9 DEF LibraryReady, LibraryKnown
  <2>2. j = a /\ k = b
    BY <1>8, <2>1 DEF Library!Reference
  <2>3. call.kind = "STRING"
    BY DEF LibraryReady, LibraryKnown
  <2> QED BY <2>1, <2>2, <2>3
<1>11. r = Library!NewString(len)
  <2>1. NewFields = <<>>
    BY DEF NewFields
  <2> QED BY <1>9, <1>10, <2>1 DEF Made, Library!NewString
<1>12. PICK from : from = CopiedIds
  OBVIOUS
<1>13. from = <<a, b>>
  <2>1. from = [i \in {1, 2} |-> IF i = 1 THEN a ELSE b]
    BY <1>1, <1>3, <1>4, <1>5, <1>10, <1>12 DEF CopiedIds
  <2> QED BY ONLY <2>1
<1>14. PICK new, n : new = ids + 1 /\ n = 2
  OBVIOUS
<1>15. GraphInv' /\ new \in (1..MaxAllocs) \ DOMAIN view.store /\ Library!Make(n, new, r, from)
  BY <1>8, <1>9, <1>12, <1>14, LibraryMakes
<1>16. Len(view.stack) >= 2
  BY <1>8
<1>17. Library!Concatenation(new, a, b)
  BY <1>8, <1>10, <1>11, <1>13, <1>14, <1>15, <1>16, Zenon DEF Library!Concatenation, Library!IsString
<1> QED BY <1>4, <1>5, <1>15, <1>17

LEMMA ArrayMade ==
  ASSUME LibraryReady, LibraryReturn, Recorded, call.fn = "LmakeArray"
  PROVE  GraphInv' /\ \E new \in (1..MaxAllocs) \ DOMAIN view.store :
                        \E n \in 0..MaxLen : Library!MakeArray(new, n)
<1>1. PICK D, p : D = Dump(DOMAIN mem) /\ p = <<Graph!Number>>
  OBVIOUS
<1>2. p = Popped(D)
  BY <1>1 DEF Popped
<1>3. /\ 1 <= Len(view.stack) /\ Library!Pop(1) = RemainingNow
      /\ view.stack[1] = Library!Number
  <2>1. PICK U, n : U = {Graph!Number} /\ n = 1
    OBVIOUS
  <2>2. p \in Seq(U) /\ n = Len(p) /\ p[1] = Graph!Number
    BY ONLY <1>1, <2>1
  <2>3. /\ n <= Len(view.stack) /\ Library!Pop(n) = RemainingNow
        /\ \A i \in 1..n : view.stack[i] = p[i]
    BY <1>1, <1>2, <2>2, OperandsTaken
  <2> QED BY <2>1, <2>2, <2>3, SameOperators
<1>4. PICK r, len : r = Made /\ len = call.len
  OBVIOUS
<1>5. call.kind = "ARRAY" /\ len \in 0..MaxLen
  BY <1>4 DEF LibraryReady, LibraryKnown
<1>6. r = [kind |-> "ARRAY", len |-> len, fields |-> [i \in 1..len |-> Library!Number]]
  <2>1. NewFields = [i \in 1..len |-> Number]
    BY <1>4 DEF NewFields
  <2>2. Denotes(Number) = Library!Number
    <3>1. Number \in Int /\ Number < GlobalStop
      BY Layout DEF Number
    <3> QED BY <3>1, NumberDenotes DEF LibraryReady, Library!Number, Number
  <2>3. [i \in DOMAIN NewFields |-> Denotes(NewFields[i])] = [i \in 1..len |-> Library!Number]
    BY <2>1, <2>2
  <2> QED BY <1>4, <1>5, <2>3 DEF Made
<1>7. PICK from : from = CopiedIds
  OBVIOUS
<1>8. from = <<>>
  BY <1>5, <1>7 DEF CopiedIds
<1>9. PICK new, n : new = ids + 1 /\ n = 1
  OBVIOUS
<1>10. GraphInv' /\ new \in (1..MaxAllocs) \ DOMAIN view.store /\ Library!Make(n, new, r, from)
  BY <1>3, <1>4, <1>7, <1>9, LibraryMakes
<1>11. view.stack # <<>>
  BY <1>3
<1>12. Library!MakeArray(new, len)
  BY <1>3, <1>6, <1>8, <1>9, <1>10, <1>11, Zenon DEF Library!MakeArray
<1> QED BY <1>5, <1>10, <1>12

\* A function of the library that returns does what is promised of it.
LEMMA LibraryReturnRefines ==
  ASSUME LibraryInv, LibraryGraphInv, (phase = "request" /\ Fits) \/ phase = "alloc", InLibrary,
         LibraryReturn, Recorded
  PROVE  GraphInv' /\ Library!LibraryNext /\ phase' = "run"
<1>1. LibraryReady
  BY LibraryIsReady
<1>2. phase' = "run"
  BY LibraryReturnStep
<1>3. CASE call.fn = "Lclone"
  BY <1>1, <1>2, <1>3, CloneMade DEF Library!LibraryNext
<1>4. CASE call.fn = "Lsubstring"
  BY <1>1, <1>2, <1>4, SubstringMade DEF Library!LibraryNext
<1>5. CASE call.fn = "Li__Infix_4343"
  BY <1>1, <1>2, <1>5, ConcatenationMade DEF Library!LibraryNext
<1>6. CASE call.fn = "LmakeArray"
  BY <1>1, <1>2, <1>6, ArrayMade DEF Library!LibraryNext
<1> QED BY <1>1, <1>3, <1>4, <1>5, <1>6, LibraryNames DEF LibraryReady

\* A collection leaves the call alone.
LEMMA LibraryKnownStays ==
  ASSUME LibraryKnown, UNCHANGED <<call, view>>
  PROVE  LibraryKnown'
BY Zenon DEF LibraryKnown, Library!Reference

LEMMA OutOfLibrary == call.fn \in Allocators => ~InLibrary
BY DEF InLibrary, LibraryFunctions, Allocators

\* The steps of the interpreter and of the runtime it calls, the library aside.
LEMMA InterpreterGraphStep ==
  ASSUME LibraryInv, LibraryGraphInv, InterpreterStep, Recorded
  PROVE  LibraryGraphInv' /\ (UNCHANGED <<view, copied>> \/ Library!LibraryNext)
<1>1. MutatorInv /\ GraphInv /\ copied' = IF phase' = "run" THEN <<>> ELSE copied
  BY DEF LibraryInv, LibraryGraphInv, InterpreterStep
<1>2. CASE Simple
  <2>1. GraphInv' /\ Graph!Next /\ phase' = "run"
    BY <1>1, <1>2, SimpleRefines
  <2>3. Library!Next
    BY <2>1, LibraryExtendsGraph
  <2> QED BY <1>1, <2>1, <2>3 DEF LibraryGraphInv, Collecting, Scanning, Compacting, Library!LibraryNext
<1>3. CASE Allocating
  <2>1. GraphInv' /\ view' = view /\ phase' \in {"request", "exit"}
    BY <1>1, <1>3, AllocatingKept
  <2>3. phase' = "request" => call'.fn \in Allocators
    BY <1>1, <1>3, InstructionKept
  <2>4. phase' = "request" => ~InLibrary'
    BY <2>3 DEF InLibrary, LibraryFunctions, Allocators
  <2> QED BY <1>1, <2>1, <2>4 DEF LibraryGraphInv, Collecting, Scanning, Compacting
<1>4. CASE ~InLibrary /\ (AllocateAtOnce \/ AllocateAfterCollection)
  <2>1. Return /\ ((phase = "request" /\ Fits) \/ phase = "alloc")
    BY <1>1, <1>4, AllocatedIsConsistent DEF AllocateAtOnce, AtOnce, AllocateAfterCollection, AfterCollection
  <2>2. call.fn \in Allocators
    BY <1>4, <2>1 DEF LibraryInv, InLibrary, Collecting
  <2>3. GraphInv' /\ (view' = view \/ Graph!Next)
    BY <1>1, <2>1, <2>2, AllocatedKept
  <2>4. CASE PoolOverflow
    <3>1. phase' = "exit" /\ view' = view
      BY <2>4 DEF PoolOverflow, Recorded
    <3> QED BY <1>1, <2>3, <3>1 DEF LibraryGraphInv, Collecting, Scanning, Compacting
  <2>5. CASE Finish
    <3>1. phase' = "run" /\ Graph!Next
      BY <1>1, <2>1, <2>2, <2>5, ReturnRefines DEF Finish, FinishWith
    <3>2. Library!Next
      BY <3>1, LibraryExtendsGraph
    <3> QED BY <1>1, <2>3, <3>1, <3>2 DEF LibraryGraphInv, Collecting, Scanning, Compacting, Library!LibraryNext
  <2> QED BY <2>1, <2>4, <2>5 DEF Return
<1>5. CASE ~InLibrary /\ (StartCollection \/ Collect)
  <2>1. GraphInv' /\ view' = view
    BY <1>1, <1>5, CollectingKept
  <2>2. phase' # "run" /\ UNCHANGED call
    BY <1>5, CollectGoesOn DEF StartCollection, Collect
  <2>3. ~InLibrary'
    BY <1>5, <2>2 DEF InLibrary
  <2> QED BY <1>1, <2>1, <2>2, <2>3 DEF LibraryGraphInv
<1>6. CASE OutOfRange
  <2>1. GraphInv' /\ view' = view /\ phase' = "astray"
    BY <1>6, AstrayKept
  <2> QED BY <1>1, <2>1 DEF LibraryGraphInv, Collecting, Scanning, Compacting
<1> QED BY <1>2, <1>3, <1>4, <1>5, <1>6 DEF InterpreterStep, Runtime

\* The steps of a function of the library.
LEMMA LibraryStepRefines ==
  ASSUME LibraryInv, LibraryGraphInv, LibraryStep(LibraryCalls), Recorded
  PROVE  LibraryGraphInv' /\ (UNCHANGED <<view, copied>> \/ Library!LibraryNext)
<1>1. MutatorInv /\ GraphInv
  BY DEF LibraryInv, LibraryGraphInv
<1>2. CASE LibraryCalls /\ UNCHANGED copied
  <2>1. /\ GraphInv' /\ view' = view /\ phase' \in {"request", "exit", "astray"}
        /\ phase' = "request" => LibraryKnown'
    BY <1>1, <1>2, LibraryCallsGraph
  <2> QED BY <1>2, <2>1 DEF LibraryGraphInv, Collecting, Scanning, Compacting
<1>3. CASE InLibrary /\ (StartCollection \/ Collect) /\ UNCHANGED copied
  <2>1. GraphInv' /\ view' = view
    BY <1>1, <1>3, CollectingKept
  <2>2. phase \in Collecting \cup {"request"} /\ UNCHANGED call
    BY <1>3, CollectGoesOn DEF StartCollection, Collect, Collecting
  <2>3. LibraryKnown
    BY <1>3, <2>2 DEF LibraryGraphInv
  <2>4. LibraryKnown'
    BY <2>1, <2>2, <2>3, LibraryKnownStays
  <2> QED BY <1>3, <2>1, <2>4 DEF LibraryGraphInv
<1>4. CASE InLibrary /\ (AtOnce(LibraryReturn) \/ AfterCollection(LibraryReturn))
  <2>1. LibraryReturn /\ ((phase = "request" /\ Fits) \/ phase = "alloc")
    BY <1>1, <1>4, AllocatedIsConsistent DEF AtOnce, AfterCollection
  <2>2. GraphInv' /\ Library!LibraryNext /\ phase' = "run"
    BY <1>4, <2>1, LibraryReturnRefines
  <2> QED BY <2>2 DEF LibraryGraphInv, Collecting, Scanning, Compacting
<1> QED BY <1>2, <1>3, <1>4 DEF LibraryStep

\* The steps of a program that uses the library are steps of the graph of objects with
\* the library, or none.
LEMMA LibraryGraphStep ==
  ASSUME LibraryInv, LibraryGraphInv, [LibraryNext]_libraryVars
  PROVE  LibraryGraphInv' /\ (UNCHANGED <<view, copied>> \/ Library!LibraryNext)
<1>1. CASE UNCHANGED libraryVars
  <2>1. /\ UNCHANGED refinementVars /\ UNCHANGED <<phase, call, view, copied>>
    BY <1>1 DEF libraryVars, refinementVars, mutatorVars, gcVars
  <2>2. GraphInv'
    BY <2>1, GraphStutters DEF LibraryInv, LibraryGraphInv
  <2>3. LibraryKnown => LibraryKnown'
    BY <2>1, LibraryKnownStays
  <2>4. InLibrary' <=> InLibrary
    BY <2>1 DEF InLibrary
  <2> QED BY <2>1, <2>2, <2>3, <2>4 DEF LibraryGraphInv
<1>2. CASE LibraryNext
  BY <1>2, InterpreterGraphStep, LibraryStepRefines DEF LibraryNext
<1> QED BY <1>1, <1>2

\* The same of a program that calls the library, whose functions find in the view what
\* they were called with.
THEOREM LibraryGraphInvariant == LibrarySpec => []LibraryGraphInv
<1>1. LibraryInit => LibraryInv /\ LibraryGraphInv
  BY MutatorInitially, GraphInitially
     DEF LibraryInit, RefinementInit, LibraryInv, LibraryGraphInv, Collecting, Scanning, Compacting
<1>2. LibraryInv /\ LibraryGraphInv /\ [LibraryNext]_libraryVars => LibraryInv' /\ LibraryGraphInv'
  BY LibraryInductive, LibraryGraphStep
<1> QED BY <1>1, <1>2, PTL DEF LibrarySpec

\* Wherever a collection happens in them, clone, substring, ++ and makeArray make the
\* objects they promise, from the objects that were their arguments, and lose nothing of
\* the caller's: Lclone, Lsubstring, Li__Infix_4343 and LmakeArray of runtime.c implement
\* the library of the graph of objects.
THEOREM LibraryImplemented == LibrarySpec => ImplementsLibrary
<1>1. LibraryInit => Library!LibraryInit
  <2>1. LibraryInit => Graph!Init /\ copied = <<>>
    BY GraphInitially DEF LibraryInit
  <2>2. Graph!Init => Library!Init
    BY DEF Graph!Init, Library!Init, Graph!Number, Library!Number
  <2> QED BY <2>1, <2>2 DEF Library!LibraryInit
<1>2. LibraryInv /\ LibraryGraphInv /\ [LibraryNext]_libraryVars
        => [Library!LibraryNext]_(Library!libraryVars)
  BY LibraryGraphStep DEF Library!libraryVars, Library!graphVars
<1> QED BY <1>1, <1>2, LibraryInvariant, LibraryGraphInvariant, PTL
        DEF LibrarySpec, ImplementsLibrary, Library!LibrarySpec

=============================================================================
