--------------------------- MODULE GcMutatorProofs ---------------------------
(***************************************************************************)
(* Whatever the program does, and however often the collector runs, no     *)
(* collection and no instruction reads a header where there is none, and   *)
(* every collection is asked for in a heap that it can start from: for any *)
(* number of operands, fields and allocations.                             *)
(***************************************************************************)
EXTENDS GcLibrary, GcCollectProofs

-----------------------------------------------------------------------------
(* Words and values                                                         *)

\* The constants, and what follows from the order of the three areas.
LEMMA Layout ==
  /\ StackBottom \in Nat /\ GlobalStart \in Nat /\ GlobalStop \in Nat
  /\ StackBottom < GlobalStart /\ GlobalStart <= GlobalStop /\ GlobalStop > 0
  /\ Words \subseteq Nat /\ StackBottom \in Words /\ Globals \subseteq Words
  /\ Globals \subseteq Nat /\ \A g \in Globals : GlobalStart <= g /\ g < GlobalStop
  /\ {LocalP, LocalQ} \subseteq Words /\ LocalP # LocalQ
  /\ LocalP > GlobalStop /\ LocalQ > GlobalStop
  /\ ArgssOffset \in Nat \ {0} /\ MaxExtraRoots \in Nat
  /\ MaxLen \in Nat /\ MaxLocals \in Nat /\ MaxDepth \in Nat /\ MaxAllocs \in Nat
  /\ StringLens \subseteq Nat
  /\ MaxDepth < StackBottom /\ Spare \subseteq Words
  /\ Spare \subseteq Nat /\ \A a \in Spare : StackBottom <= a /\ a < GlobalStart
  /\ Number \in Int /\ Number < 0 /\ CString \in Int /\ CString < GlobalStop
<1>1. /\ StackBottom \in Nat /\ GlobalStart \in Nat /\ GlobalStop \in Nat
      /\ StackBottom < GlobalStart /\ GlobalStart <= GlobalStop
      /\ Words \subseteq Nat /\ StackBottom \in Words /\ Globals \subseteq Words
  BY WordsAssumption DEF Globals
<1>2. /\ {LocalP, LocalQ} \subseteq Words /\ LocalP # LocalQ
      /\ LocalP > GlobalStop /\ LocalQ > GlobalStop
      /\ ArgssOffset \in Nat \ {0} /\ MaxExtraRoots \in Nat
      /\ MaxLen \in Nat /\ MaxLocals \in Nat /\ MaxDepth \in Nat /\ MaxAllocs \in Nat
      /\ StringLens \subseteq Nat
  BY MutatorAssumption
<1>3. /\ MaxDepth < StackBottom /\ StackBottom \in Words
      /\ (StackBottom - MaxDepth) .. (StackBottom + ArgssOffset - 2) \subseteq Words
      /\ StackBottom + ArgssOffset - 2 < GlobalStart
  BY <1>1, ProgramAssumption
<1>4. Spare \subseteq Words
  BY <1>1, <1>2, <1>3 DEF Spare
<1>5. Spare \subseteq Nat /\ \A a \in Spare : StackBottom <= a /\ a < GlobalStart
  BY <1>1, <1>2, <1>3 DEF Spare
<1>6. Globals \subseteq Nat /\ \A g \in Globals : GlobalStart <= g /\ g < GlobalStop
  BY <1>1 DEF Globals
<1> QED BY <1>1, <1>2, <1>3, <1>4, <1>5, <1>6 DEF Number, CString

\* The root words when nothing is registered.
LEMMA OperandsAndGlobals ==
  ASSUME NEW t \in Nat
  PROVE  RootWords(t, <<>>) = ((t + 1) .. (StackBottom - 1)) \cup Globals
BY DEF RootWords, Globals

\* Where there is room for k more operands there are words for them.
LEMMA RoomForOperands ==
  ASSUME top \in Nat, top < StackBottom, NEW k \in Int, Room(k)
  PROVE  top - k \in Nat /\ (top - k + 1) .. (StackBottom - 1) \subseteq Words
<1>1. StackBottom - 1 - top + k <= MaxDepth
  BY DEF Room, Depth
<1>2. top - k >= 0 /\ top - k + 1 >= StackBottom - MaxDepth
  BY <1>1, Layout
<1>3. (StackBottom - MaxDepth) .. (StackBottom + ArgssOffset - 2) \subseteq Words
  BY ProgramAssumption
<1> QED BY <1>2, <1>3, Layout

\* A word of the program that the collector takes for a pointer is one.
LEMMA SoundPointer ==
  ASSUME HeapConsistent, ProcessInv, NEW v \in Int, Sound(v)
  PROVE  /\ PointsToObject(mem, heap.begin, heap.current, v)
         /\ IsValidHeapPointer(v) => HeaderOf(v) \in DOMAIN mem
BY Layout DEF ProcessInv, Sound, PointsToObject, IsValidHeapPointer, InChunk

\* The n topmost operands are replaced by the values vs: what was in S still is.
LEMMA ReplacedWithin ==
  ASSUME top \in Nat, top < StackBottom, NEW w \in [Words -> Int], NEW n \in Nat, n <= Depth,
         NEW vs \in Seq(Int), Replace(w, n, vs),
         top + n - Len(vs) \in Nat,
         (top + n - Len(vs) + 1) .. (StackBottom - 1) \subseteq Words,
         NEW S, \A a \in ((top + n + 1) .. (StackBottom - 1)) \cup Globals : w[a] \in S,
         \A i \in DOMAIN vs : vs[i] \in S,
         SpareUnboxed(w)
  PROVE  /\ word' \in [Words -> Int] /\ top' \in Nat /\ top' < StackBottom
         /\ top' = top + n - Len(vs)
         /\ RootWords(top', <<>>) \subseteq Words
         /\ \A a \in RootWords(top', <<>>) : word'[a] \in S
         /\ SpareUnboxed(word')
         /\ \A a \in Words : a > top + n => word'[a] = w[a]
<1>0. Len(vs) \in Nat /\ DOMAIN vs = 1 .. Len(vs) /\ \A i \in 1 .. Len(vs) : vs[i] \in Int
  OBVIOUS
<1> DEFINE t == top + n - Len(vs)
<1>1. /\ top' = t
      /\ \A a \in Words : word'[a] = IF a \in t + 1 .. top + n THEN vs[a - t] ELSE w[a]
      /\ DOMAIN word' = Words /\ word' = [a \in Words |-> word'[a]]
  BY DEF Replace
<1>2. \A a \in t + 1 .. top + n : a - t \in 1 .. Len(vs)
  BY <1>0
<1>3. word' \in [Words -> Int]
  BY <1>0, <1>1, <1>2
<1>4. t \in Nat /\ t < StackBottom /\ top + n < StackBottom
  BY <1>0, Layout DEF Depth
<1>5. RootWords(t, <<>>) = ((t + 1) .. (StackBottom - 1)) \cup Globals
  BY <1>4, OperandsAndGlobals
<1>6. RootWords(t, <<>>) \subseteq Words
  BY <1>5, Layout
<1>7. \A a \in Words : a > top + n => word'[a] = w[a]
  BY <1>1
<1>8. ASSUME NEW a \in RootWords(t, <<>>) PROVE word'[a] \in S
  <2>1. a \in Words /\ a \in Nat
    BY <1>6, Layout
  <2>2. CASE a \in t + 1 .. top + n
    BY <1>0, <1>1, <1>2, <2>1, <2>2
  <2>3. CASE a \notin t + 1 .. top + n
    <3>1. a \in ((top + n + 1) .. (StackBottom - 1)) \cup Globals
      BY <1>4, <1>5, <2>1, <2>3, Layout
    <3> QED BY <1>1, <2>1, <2>3, <3>1
  <2> QED BY <2>2, <2>3
<1>9. SpareUnboxed(word')
  <2> SUFFICES ASSUME NEW a \in Spare PROVE IsUnboxed(word'[a])
    BY DEF SpareUnboxed
  <2>1. a \in Words /\ a \in Nat /\ a > top + n
    BY <1>4, Layout
  <2> QED BY <1>7, <2>1 DEF SpareUnboxed
<1> HIDE DEF t
<1> QED BY <1>1, <1>3, <1>4, <1>6, <1>7, <1>8, <1>9 DEF t

\* An instruction replaces the n topmost operands by the sound values vs.
LEMMA Replaced ==
  ASSUME top \in Nat, top < StackBottom, NEW w \in [Words -> Int], NEW n \in Nat, n <= Depth,
         NEW vs \in Seq(Int), Replace(w, n, vs),
         top + n - Len(vs) \in Nat,
         (top + n - Len(vs) + 1) .. (StackBottom - 1) \subseteq Words,
         WordsSound(w, ((top + n + 1) .. (StackBottom - 1)) \cup Globals),
         \A i \in DOMAIN vs : Sound(vs[i]),
         SpareUnboxed(w)
  PROVE  /\ word' \in [Words -> Int] /\ top' \in Nat /\ top' < StackBottom
         /\ top' = top + n - Len(vs)
         /\ RootWords(top', <<>>) \subseteq Words
         /\ WordsSound(word', RootWords(top', <<>>)) /\ SpareUnboxed(word')
         /\ \A a \in Words : a > top + n => word'[a] = w[a]
<1> DEFINE S == {v \in Int : Sound(v)}
<1>1. \A a \in ((top + n + 1) .. (StackBottom - 1)) \cup Globals : w[a] \in S
  <2> SUFFICES ASSUME NEW a \in ((top + n + 1) .. (StackBottom - 1)) \cup Globals
               PROVE  w[a] \in S
    OBVIOUS
  <2>1. CASE a \in Globals
    BY <2>1, Layout DEF WordsSound
  <2>2. CASE a \in (top + n + 1) .. (StackBottom - 1)
    <3>1. Len(vs) \in Nat
      OBVIOUS
    <3>2. a \in (top + n - Len(vs) + 1) .. (StackBottom - 1)
      BY <2>2, <3>1, Layout
    <3> QED BY <2>2, <3>2 DEF WordsSound
  <2> QED BY <2>1, <2>2
<1>2. \A i \in DOMAIN vs : vs[i] \in S
  OBVIOUS
<1>3. \A v \in S : Sound(v)
  OBVIOUS
<1> HIDE DEF S
<1>4. /\ word' \in [Words -> Int] /\ top' \in Nat /\ top' < StackBottom
      /\ top' = top + n - Len(vs)
      /\ RootWords(top', <<>>) \subseteq Words
      /\ \A a \in RootWords(top', <<>>) : word'[a] \in S
      /\ SpareUnboxed(word')
      /\ \A a \in Words : a > top + n => word'[a] = w[a]
  BY <1>1, <1>2, ReplacedWithin
<1> QED BY <1>3, <1>4 DEF WordsSound

-----------------------------------------------------------------------------
(* Instructions that do not allocate                                        *)

\* What an instruction leaves when it has replaced operands.
LEMMA StillConsistent ==
  ASSUME HeapConsistent, ProcessInv, UNCHANGED <<mem, heap, ids>>,
         word' \in [Words -> Int], top' \in Nat, top' < StackBottom,
         RootWords(top', <<>>) \subseteq Words,
         WordsSound(word', RootWords(top', <<>>)), SpareUnboxed(word')
  PROVE  HeapConsistent' /\ ProcessInv'
<1>1. \A v : Sound(v)' <=> Sound(v)
  BY DEF Sound
<1>2. FieldsSound'
  BY <1>1 DEF HeapConsistent, FieldsSound
<1>3. WordsSound(word, RootWords(top, <<>>))'
  BY <1>1 DEF WordsSound
<1>4. SpareUnboxed(word)'
  BY DEF SpareUnboxed
<1>5. Walkable(mem, heap.begin, heap.current)' /\ Clean(mem)'
  BY DEF HeapConsistent, Walkable, Clean, NextObj
<1>6. ProcessInv'
  BY DEF ProcessInv
<1> QED BY <1>2, <1>3, <1>4, <1>5, <1>6 DEF HeapConsistent

\* The state between two instructions.
RunInv ==
  ProcessInv /\ HeapConsistent /\ old = heap /\ live = 0 /\ obj = NoObj /\ fld = 1

LEMMA RunningInv ==
  /\ MutatorInv /\ Running => RunInv
  /\ RunInv /\ Running => MutatorInv
BY DEF MutatorInv, RunInv, Running, Between, Collecting, Scanning, Compacting

\* An instruction that replaces operands, in a state where it may also have assigned a
\* variable (w instead of word).
LEMMA InstructionStep ==
  ASSUME RunInv, UnchangedHeap, UNCHANGED <<mem, ids>>,
         NEW w \in [Words -> Int], NEW n \in Nat, n <= Depth, NEW vs \in Seq(Int),
         Replace(w, n, vs), Len(vs) <= n \/ Room(Len(vs) - n),
         WordsSound(w, RootWords(top, <<>>)), SpareUnboxed(w),
         \A i \in DOMAIN vs : Sound(vs[i])
  PROVE  RunInv'
<1>0. /\ UNCHANGED <<mem, heap, old, live, obj, fld, ids>>
      /\ ProcessInv /\ HeapConsistent
      /\ top \in Nat /\ top < StackBottom /\ RootWords(top, <<>>) \subseteq Words
  BY DEF UnchangedHeap, markVars, compactVars, RunInv, ProcessInv
<1>1. Len(vs) \in Nat
  OBVIOUS
<1>2. /\ top + n - Len(vs) \in Nat
      /\ (top + n - Len(vs) + 1) .. (StackBottom - 1) \subseteq Words
  <2>1. CASE Len(vs) <= n
    <3>1. (top + 1) .. (StackBottom - 1) \subseteq Words
      BY <1>0, OperandsAndGlobals
    <3>2. top + n - Len(vs) >= top
      BY <1>0, <1>1, <2>1
    <3> QED BY <1>0, <1>1, <3>1, <3>2, Layout
  <2>2. CASE Room(Len(vs) - n)
    <3> DEFINE k == Len(vs) - n
    <3>1. k \in Int /\ top - k = top + n - Len(vs)
      BY <1>0, <1>1
    <3>2. Room(k)
      BY <2>2
    <3> HIDE DEF k
    <3>3. top - k \in Nat /\ (top - k + 1) .. (StackBottom - 1) \subseteq Words
      BY <1>0, <3>1, <3>2, RoomForOperands
    <3> QED BY <3>1, <3>3
  <2> QED BY <2>1, <2>2
<1>3. WordsSound(w, ((top + n + 1) .. (StackBottom - 1)) \cup Globals)
  <2>1. ((top + n + 1) .. (StackBottom - 1)) \cup Globals \subseteq RootWords(top, <<>>)
    BY <1>0, OperandsAndGlobals, Layout
  <2> QED BY <2>1 DEF WordsSound
<1>4. /\ word' \in [Words -> Int] /\ top' \in Nat /\ top' < StackBottom
      /\ RootWords(top', <<>>) \subseteq Words
      /\ WordsSound(word', RootWords(top', <<>>)) /\ SpareUnboxed(word')
  BY <1>0, <1>2, <1>3, Replaced
<1>5. HeapConsistent' /\ ProcessInv'
  BY <1>0, <1>4, StillConsistent
<1> QED BY <1>0, <1>5 DEF RunInv

\* The operands are sound values, and so are the variables.
LEMMA OperandsSound ==
  ASSUME RunInv
  PROVE  /\ top \in Nat /\ top < StackBottom /\ word \in [Words -> Int]
         /\ WordsSound(word, RootWords(top, <<>>)) /\ SpareUnboxed(word)
         /\ \A k \in Nat \ {0} : k <= Depth =>
               top + k \in Words /\ word[top + k] \in Int /\ Sound(word[top + k])
         /\ \A g \in Globals : g \in Words /\ word[g] \in Int /\ Sound(word[g])
<1>1. /\ top \in Nat /\ top < StackBottom /\ word \in [Words -> Int]
      /\ RootWords(top, <<>>) \subseteq Words
      /\ WordsSound(word, RootWords(top, <<>>)) /\ SpareUnboxed(word)
  BY DEF RunInv, ProcessInv, HeapConsistent
<1>2. RootWords(top, <<>>) = ((top + 1) .. (StackBottom - 1)) \cup Globals
  BY <1>1, OperandsAndGlobals
<1>3. ASSUME NEW a \in RootWords(top, <<>>)
      PROVE  a \in Words /\ word[a] \in Int /\ Sound(word[a])
  BY <1>1 DEF WordsSound
<1>4. ASSUME NEW k \in Nat \ {0}, k <= Depth
      PROVE  top + k \in RootWords(top, <<>>)
  BY <1>1, <1>2, <1>4, Layout DEF Depth
<1> QED BY <1>1, <1>2, <1>3, <1>4

LEMMA NumberIsSound == Sound(Number) /\ \A g \in Globals : Sound(g)
BY Layout DEF Sound

LEMMA PushStep ==
  ASSUME RunInv, Running,
         \/ PushNumber \/ Dup
         \/ \E g \in Globals : Load(g) \/ LoadAddress(g),
         UNCHANGED <<call, ids>>
  PROVE  RunInv'
<1> USE OperandsSound, NumberIsSound, Layout
<1>1. CASE PushNumber
  <2> DEFINE vs == <<Number>>
  <2>1. /\ Replace(word, 0, vs) /\ Room(Len(vs) - 0) /\ UnchangedHeap /\ UNCHANGED mem
        /\ vs \in Seq(Int) /\ \A i \in DOMAIN vs : Sound(vs[i])
    BY <1>1 DEF PushNumber
  <2> HIDE DEF vs
  <2> QED BY SMTT(30), <2>1, InstructionStep DEF Depth
<1>2. CASE Dup
  <2> DEFINE vs == <<word[top + 1]>>
  <2>1. /\ Replace(word, 0, vs) /\ Room(Len(vs) - 0) /\ UnchangedHeap /\ UNCHANGED mem
        /\ Depth > 0 /\ Depth \in Int
    BY <1>2 DEF Dup, Depth
  <2>2. vs \in Seq(Int) /\ \A i \in DOMAIN vs : Sound(vs[i])
    BY <2>1
  <2> HIDE DEF vs
  <2> QED BY <2>1, <2>2, InstructionStep
<1>3. ASSUME NEW g \in Globals, Load(g)
      PROVE  RunInv'
  <2> DEFINE vs == <<word[g]>>
  <2>1. /\ Replace(word, 0, vs) /\ Room(Len(vs) - 0) /\ UnchangedHeap /\ UNCHANGED mem
        /\ vs \in Seq(Int) /\ \A i \in DOMAIN vs : Sound(vs[i])
    BY <1>3 DEF Load
  <2> HIDE DEF vs
  <2> QED BY <2>1, InstructionStep DEF Depth
<1>4. ASSUME NEW g \in Globals, LoadAddress(g)
      PROVE  RunInv'
  <2> DEFINE vs == <<g, g>>
  <2>1. /\ Replace(word, 0, vs) /\ Room(Len(vs) - 0) /\ UnchangedHeap /\ UNCHANGED mem
        /\ vs \in Seq(Int) /\ \A i \in DOMAIN vs : Sound(vs[i])
    BY <1>4 DEF LoadAddress
  <2> HIDE DEF vs
  <2> QED BY <2>1, InstructionStep DEF Depth
<1> QED BY <1>1, <1>2, <1>3, <1>4

\* A variable is assigned the topmost operand.
LEMMA Assigned ==
  ASSUME RunInv, NEW g \in Globals, Depth > 0
  PROVE  /\ [word EXCEPT ![g] = word[top + 1]] \in [Words -> Int]
         /\ WordsSound([word EXCEPT ![g] = word[top + 1]], RootWords(top, <<>>))
         /\ SpareUnboxed([word EXCEPT ![g] = word[top + 1]])
<1> DEFINE w == [word EXCEPT ![g] = word[top + 1]]
<1>1. word[top + 1] \in Int /\ Sound(word[top + 1]) /\ word \in [Words -> Int]
  BY OperandsSound, Layout DEF Depth
<1>2. w \in [Words -> Int] /\ \A a \in Words : w[a] = IF a = g THEN word[top + 1] ELSE word[a]
  BY <1>1, Layout
<1> HIDE DEF w
<1>3. WordsSound(w, RootWords(top, <<>>))
  <2> SUFFICES ASSUME NEW a \in RootWords(top, <<>>) PROVE Sound(w[a])
    BY DEF WordsSound
  <2>1. a \in Words /\ Sound(word[a])
    BY OperandsSound DEF RunInv, ProcessInv, WordsSound
  <2> QED BY <1>1, <1>2, <2>1
<1>4. SpareUnboxed(w)
  BY <1>2, OperandsSound, Layout DEF SpareUnboxed
<1> QED BY <1>2, <1>3, <1>4 DEF w

LEMMA PopStep ==
  ASSUME RunInv, Running,
         \/ Drop \/ \E n \in 1..MaxLocals : Locals(n)
         \/ \E g \in Globals : Store(g) \/ StoreAt(g),
         UNCHANGED <<call, ids>>
  PROVE  RunInv'
<1> USE OperandsSound, NumberIsSound, Layout
<1>1. CASE Drop
  <2> DEFINE vs == <<>>
  <2>1. /\ Replace(word, 1, vs) /\ Len(vs) <= 1 /\ UnchangedHeap /\ UNCHANGED mem
        /\ vs \in Seq(Int) /\ DOMAIN vs = {} /\ 1 <= Depth
    BY <1>1 DEF Drop, Depth
  <2> HIDE DEF vs
  <2> QED BY <2>1, InstructionStep
<1>2. ASSUME NEW n \in 1..MaxLocals, Locals(n)
      PROVE  RunInv'
  <2> DEFINE vs == InitialLocals(n)
  <2>1. vs \in Seq(Int) /\ Len(vs) = n /\ \A i \in DOMAIN vs : Sound(vs[i])
    BY DEF InitialLocals
  <2>2. /\ Replace(word, 0, vs) /\ Room(Len(vs) - 0) /\ UnchangedHeap /\ UNCHANGED mem
    BY <1>2, <2>1 DEF Locals
  <2>3. 0 \in Nat /\ 0 <= Depth
    BY DEF Depth
  <2> HIDE DEF vs
  <2> QED BY <2>1, <2>2, <2>3, InstructionStep
<1>3. ASSUME NEW g \in Globals, Store(g)
      PROVE  RunInv'
  <2>1. /\ word' = [word EXCEPT ![g] = word[top + 1]] /\ UNCHANGED <<top, mem>> /\ UnchangedHeap
        /\ Depth > 0
    BY <1>3 DEF Store
  <2>2. word' \in [Words -> Int] /\ WordsSound(word', RootWords(top', <<>>)) /\ SpareUnboxed(word')
    BY <2>1, Assigned
  <2>3. UNCHANGED <<mem, heap, old, live, obj, fld>>
    BY <2>1 DEF UnchangedHeap, markVars, compactVars
  <2>4. ProcessInv /\ HeapConsistent /\ RootWords(top', <<>>) \subseteq Words
    BY <2>1 DEF RunInv, ProcessInv
  <2>5. ProcessInv' /\ HeapConsistent'
    BY <2>1, <2>2, <2>3, <2>4, StillConsistent
  <2> QED BY <2>3, <2>5 DEF RunInv
<1>4. ASSUME NEW g \in Globals, StoreAt(g)
      PROVE  RunInv'
  <2>1. PICK w, vs : /\ w = [word EXCEPT ![g] = word[top + 1]] /\ vs = <<word[top + 1]>>
                     /\ Replace(w, 3, vs)
    BY <1>4, Zenon DEF StoreAt
  <2>2. UnchangedHeap /\ UNCHANGED mem /\ Depth >= 3
    BY <1>4, Zenon DEF StoreAt
  <2>3. vs \in Seq(Int) /\ Len(vs) <= 3 /\ \A i \in DOMAIN vs : Sound(vs[i])
    <3>1. 1 <= Depth /\ Depth > 0 /\ Depth \in Int
      BY <2>2 DEF Depth
    <3>2. word[top + 1] \in Int /\ Sound(word[top + 1])
      BY <3>1
    <3>3. vs = <<word[top + 1]>>
      BY <2>1
    <3> QED BY ONLY <3>2, <3>3
  <2>4. w \in [Words -> Int] /\ WordsSound(w, RootWords(top, <<>>)) /\ SpareUnboxed(w)
    <3>1. Depth > 0
      BY <2>2 DEF Depth
    <3> QED BY <2>1, <3>1, Assigned
  <2>5. Replace(w, 3, vs)
    BY <2>1
  <2>6. 3 <= Depth
    BY <2>2 DEF Depth
  <2> QED BY ONLY <2>2, <2>3, <2>4, <2>5, <2>6, InstructionStep, RunInv, UNCHANGED <<call, ids>>
<1> QED BY <1>1, <1>2, <1>3, <1>4

\* A container that an instruction finds on the stack is an object.
LEMMA ContainerIsObject ==
  ASSUME RunInv, NEW k \in Nat \ {0}, k <= Depth, IsValidHeapPointer(word[top + k])
  PROVE  /\ HeaderOf(word[top + k]) \in DOMAIN mem
         /\ mem[HeaderOf(word[top + k])] \in Object
         /\ \A i \in DOMAIN mem[HeaderOf(word[top + k])].fields :
              /\ mem[HeaderOf(word[top + k])].fields[i] \in Int
              /\ Sound(mem[HeaderOf(word[top + k])].fields[i])
<1>1. word[top + k] \in Int /\ Sound(word[top + k])
  BY OperandsSound
<1>2. HeaderOf(word[top + k]) \in DOMAIN mem
  BY <1>1, SoundPointer DEF RunInv
<1>3. mem[HeaderOf(word[top + k])] \in Object
  BY <1>2 DEF RunInv, HeapConsistent
<1> QED BY <1>2, <1>3 DEF Object, RunInv, HeapConsistent, FieldsSound

LEMMA ElemStep ==
  ASSUME RunInv, Running, NEW i \in 1..MaxLen, Elem(i), UNCHANGED <<call, ids>>
  PROVE  RunInv' /\ phase' = phase
<1> DEFINE h == HeaderOf(word[top + 2])
           vs == <<mem[h].fields[i]>>
<1>1. Depth >= 2 /\ Depth \in Int /\ IsValidHeapPointer(word[top + 2])
  BY OperandsSound, Layout DEF Elem, Depth
<1>2. h \in DOMAIN mem /\ \A j \in DOMAIN mem[h].fields : mem[h].fields[j] \in Int /\ Sound(mem[h].fields[j])
  BY <1>1, ContainerIsObject
<1>3. i \in DOMAIN mem[h].fields /\ Replace(word, 2, vs) /\ UNCHANGED mem /\ UnchangedHeap
  BY <1>2 DEF Elem, Reading
<1>4. vs \in Seq(Int) /\ Len(vs) <= 2 /\ \A j \in DOMAIN vs : Sound(vs[j])
  BY <1>2, <1>3
<1>5. 2 <= Depth
  BY <1>1
<1>6. phase' = phase
  BY <1>3 DEF UnchangedHeap
<1> HIDE DEF vs, h
<1> QED BY <1>3, <1>4, <1>5, <1>6, InstructionStep, OperandsSound

\* An element is assigned: the heap is as it was, but for one field.
LEMMA FieldAssigned ==
  ASSUME RunInv, NEW h \in DOMAIN mem, NEW i \in DOMAIN mem[h].fields, NEW v \in Int, Sound(v),
         mem' = [mem EXCEPT ![h].fields[i] = v], UNCHANGED <<heap, ids>>,
         word' \in [Words -> Int], top' \in Nat, top' < StackBottom,
         RootWords(top', <<>>) \subseteq Words,
         WordsSound(word', RootWords(top', <<>>)), SpareUnboxed(word')
  PROVE  HeapConsistent' /\ ProcessInv'
<1>1. HeapConsistent /\ ProcessInv /\ mem \in [DOMAIN mem -> Object]
  BY DEF RunInv, HeapConsistent
<1>2. DOMAIN mem' = DOMAIN mem /\ \A g \in DOMAIN mem : mem[g] \in Object
  BY <1>1
<1>3. ASSUME NEW g \in DOMAIN mem
      PROVE  /\ mem'[g] \in Object
             /\ mem'[g].kind = mem[g].kind /\ mem'[g].len = mem[g].len
             /\ mem'[g].mark = mem[g].mark /\ mem'[g].enq = mem[g].enq
             /\ DOMAIN mem'[g].fields = DOMAIN mem[g].fields
             /\ \A j \in DOMAIN mem[g].fields :
                   mem'[g].fields[j] = mem[g].fields[j] \/ mem'[g].fields[j] = v
  <2>1. CASE g = h
    <3>1. mem'[h] = [mem[h] EXCEPT !.fields = [mem[h].fields EXCEPT ![i] = v]]
      BY <1>1
    <3>2. mem[h] \in Object /\ mem[h].fields \in Seq(Int)
      BY <1>2 DEF Object
    <3>3. [mem[h].fields EXCEPT ![i] = v] \in Seq(Int)
      BY <3>2
    <3> DEFINE F == [mem[h].fields EXCEPT ![i] = v]
    <3>4. /\ F \in Seq(Int) /\ DOMAIN F = DOMAIN mem[h].fields
          /\ \A j \in DOMAIN mem[h].fields : F[j] = mem[h].fields[j] \/ F[j] = v
      BY <3>2, <3>3
    <3> HIDE DEF F
    <3>5. mem'[h] = [mem[h] EXCEPT !.fields = F]
      BY <3>1 DEF F
    <3> QED BY <2>1, <3>2, <3>4, <3>5 DEF Object
  <2>2. CASE g # h
    <3>1. mem'[g] = mem[g]
      BY <1>1, <2>2
    <3> QED BY <1>2, <3>1
  <2> QED BY <2>1, <2>2
<1>4. mem' \in [DOMAIN mem' -> Object]
  BY <1>2, <1>3
<1>5. \A g \in DOMAIN mem : NextObj(mem', g) = NextObj(mem, g)
  BY <1>3 DEF NextObj, ObjWords
<1>6. Walkable(mem, heap.begin, heap.current)' /\ Clean(mem)'
  BY <1>1, <1>2, <1>3, <1>5 DEF HeapConsistent, Walkable, Clean
<1>7. \A x : Sound(x)' <=> Sound(x)
  BY <1>2 DEF Sound
<1>8. FieldsSound'
  BY <1>1, <1>2, <1>3, <1>7 DEF HeapConsistent, FieldsSound
<1>9. WordsSound(word, RootWords(top, <<>>))' /\ SpareUnboxed(word)'
  BY <1>7 DEF WordsSound, SpareUnboxed
<1>10. ProcessInv'
  BY <1>1 DEF ProcessInv
<1>11. \A g \in DOMAIN mem' : SizeWords(mem'[g].kind, mem'[g].len) > 0
  BY <1>1, <1>2, <1>3 DEF HeapConsistent
<1> QED BY <1>1, <1>2, <1>4, <1>6, <1>8, <1>9, <1>10, <1>11 DEF HeapConsistent

LEMMA StoreElemStep ==
  ASSUME RunInv, Running, NEW i \in 1..MaxLen, StoreElem(i), UNCHANGED <<call, ids>>
  PROVE  RunInv' /\ phase' = phase
<1> DEFINE h == HeaderOf(word[top + 3])
           v == word[top + 1]
           vs == <<v>>
<1>1. Depth >= 3 /\ Depth \in Int /\ IsValidHeapPointer(word[top + 3])
  BY SMTT(30), OperandsSound, Layout DEF StoreElem, Depth
<1>2. h \in DOMAIN mem
  BY <1>1, ContainerIsObject
<1>3. /\ i \in DOMAIN mem[h].fields /\ mem' = [mem EXCEPT ![h].fields[i] = v]
      /\ Replace(word, 3, vs) /\ UnchangedHeap
  BY <1>2 DEF StoreElem, Reading
<1>4. v \in Int /\ Sound(v)
  BY <1>1, OperandsSound
<1>5. vs \in Seq(Int) /\ Len(vs) = 1 /\ \A j \in DOMAIN vs : Sound(vs[j])
  BY <1>4
<1>6. 3 <= Depth
  BY <1>1
<1>7. UNCHANGED <<heap, old, live, obj, fld, phase>>
  BY <1>3 DEF UnchangedHeap, markVars, compactVars
<1> HIDE DEF vs, h, v
<1>8. /\ word' \in [Words -> Int] /\ top' \in Nat /\ top' < StackBottom
      /\ RootWords(top', <<>>) \subseteq Words
      /\ WordsSound(word', RootWords(top', <<>>)) /\ SpareUnboxed(word')
  <2>1. top + 3 - Len(vs) \in Nat /\ RootWords(top, <<>>) = ((top + 1) .. (StackBottom - 1)) \cup Globals
    BY <1>5, OperandsSound, OperandsAndGlobals
  <2>2. /\ (top + 3 - Len(vs) + 1) .. (StackBottom - 1) \subseteq Words
        /\ WordsSound(word, ((top + 3 + 1) .. (StackBottom - 1)) \cup Globals)
    <3>1. ((top + 3 + 1) .. (StackBottom - 1)) \cup Globals \subseteq RootWords(top, <<>>)
      BY <2>1, OperandsSound, Layout
    <3>2. (top + 3 - Len(vs) + 1) .. (StackBottom - 1) \subseteq RootWords(top, <<>>)
      BY <1>5, <2>1, OperandsSound, Layout
    <3> QED BY <3>1, <3>2, OperandsSound DEF WordsSound, RunInv, ProcessInv
  <2> QED BY <1>3, <1>5, <1>6, <2>1, <2>2, Replaced, OperandsSound
<1>9. HeapConsistent' /\ ProcessInv'
  BY <1>2, <1>3, <1>4, <1>7, <1>8, FieldAssigned
<1> QED BY <1>7, <1>9 DEF RunInv

\* A character of a string is read or written: the memory is as it was.
LEMMA ElemCharStep ==
  ASSUME RunInv, Running, ElemChar, UNCHANGED <<call, ids>>
  PROVE  RunInv' /\ phase' = phase
<1>1. Depth >= 2 /\ Depth \in Int /\ IsValidHeapPointer(word[top + 2])
  BY OperandsSound, Layout DEF ElemChar, Depth
<1>2. HeaderOf(word[top + 2]) \in DOMAIN mem
  BY <1>1, ContainerIsObject
<1>3. PICK vs : vs = <<Number>> /\ Replace(word, 2, vs) /\ UNCHANGED mem /\ UnchangedHeap
  BY <1>2 DEF ElemChar, Reading
<1>4. vs \in Seq(Int) /\ Len(vs) <= 2 /\ \A j \in DOMAIN vs : Sound(vs[j])
  BY <1>3, NumberIsSound, Layout
<1>5. phase' = phase
  BY <1>3 DEF UnchangedHeap
<1> QED BY <1>1, <1>3, <1>4, <1>5, InstructionStep, OperandsSound

LEMMA StoreCharStep ==
  ASSUME RunInv, Running, StoreChar, UNCHANGED <<call, ids>>
  PROVE  RunInv' /\ phase' = phase
<1>1. Depth >= 3 /\ Depth \in Int /\ IsValidHeapPointer(word[top + 3])
  BY SMTT(30), OperandsSound, Layout DEF StoreChar, Depth
<1>2. HeaderOf(word[top + 3]) \in DOMAIN mem
  BY <1>1, ContainerIsObject
<1>3. PICK v, vs : /\ v = word[top + 1] /\ vs = <<v>>
                   /\ Replace(word, 3, vs) /\ UNCHANGED mem /\ UnchangedHeap
  BY <1>2, Zenon DEF StoreChar, Reading
<1>4. v \in Int /\ Sound(v)
  BY <1>1, <1>3, OperandsSound
<1>5. vs \in Seq(Int) /\ Len(vs) <= 3 /\ \A j \in DOMAIN vs : Sound(vs[j])
  <2>1. vs = <<v>>
    BY <1>3
  <2> QED BY ONLY <1>4, <2>1
<1>6. phase' = phase
  BY <1>3 DEF UnchangedHeap
<1> QED BY <1>1, <1>3, <1>5, <1>6, InstructionStep, OperandsSound

\* A program that leaves the range of an index changes nothing on its way.
LEMMA AstrayStep ==
  ASSUME MutatorInv, phase = "run", phase' = "astray", UNCHANGED <<heapVars, ids>>
  PROVE  MutatorInv'
<1>1. ProcessInv /\ UNCHANGED <<word, ids, top, heap>>
  BY DEF MutatorInv, heapVars
<1>2. ProcessInv'
  BY <1>1 DEF ProcessInv, RootWords
<1> QED BY <1>2 DEF MutatorInv, Between, Collecting, Scanning, Compacting

LEMMA OutOfRangeStep ==
  ASSUME MutatorInv, OutOfRange
  PROVE  MutatorInv' /\ phase' = "astray"
BY AstrayStep DEF OutOfRange, Running

\* Instructions that do not allocate.
LEMMA SimpleStep ==
  ASSUME MutatorInv, Simple
  PROVE  RunInv' /\ phase' = "run"
<1>1. phase = "run" /\ UNCHANGED <<call, ids>>
  BY DEF Simple, Running, PushNumber, Dup, Drop, Load, Store, LoadAddress, StoreAt, Locals,
         Elem, StoreElem, ElemChar, StoreChar
<1>2. RunInv /\ Running
  BY <1>1, RunningInv DEF Running
<1>3. CASE \/ PushNumber \/ Dup
           \/ \E g \in Globals : Load(g) \/ LoadAddress(g)
  <2>1. phase' = phase
    BY <1>3 DEF PushNumber, Dup, Load, LoadAddress, UnchangedHeap
  <2> QED BY <1>1, <1>2, <1>3, <2>1, PushStep
<1>4. CASE \/ Drop \/ \E n \in 1..MaxLocals : Locals(n)
           \/ \E g \in Globals : Store(g) \/ StoreAt(g)
  <2>1. phase' = phase
    BY <1>4 DEF Drop, Locals, Store, StoreAt, UnchangedHeap
  <2> QED BY <1>1, <1>2, <1>4, <2>1, PopStep
<1>5. CASE \E i \in 1..MaxLen : Elem(i) \/ StoreElem(i)
  BY <1>1, <1>2, <1>5, ElemStep, StoreElemStep
<1>6. CASE ElemChar \/ StoreChar
  BY <1>1, <1>2, <1>6, ElemCharStep, StoreCharStep
<1> QED BY <1>3, <1>4, <1>5, <1>6 DEF Simple

-----------------------------------------------------------------------------
(* Requests                                                                 *)

\* What push_extra_root has been given, in the state in which alloc() is called.
Registered(x, t, w) ==
  /\ x \in Seq(Words)
  /\ \A i, j \in DOMAIN x : x[i] = x[j] => i = j
  /\ \A i \in DOMAIN x : x[i] \notin {t, GlobalStop} /\ Sound(w[x[i]])

\* There is room for the result, and the operands that are read are there.
Admissible(fn, kind, len, pops, t) ==
  /\ kind \in Kinds /\ len \in Nat /\ pops \in Nat /\ SizeWords(kind, len) > 0
  /\ pops <= StackBottom - 1 - t /\ t + pops >= 1
  /\ (t + pops) .. (StackBottom - 1) \subseteq Words
  /\ fn \in Allocators => FieldCount(kind, len) \in 0 .. pops

LEMMA RequestStep ==
  ASSUME RunInv, NEW fn, NEW kind, NEW len, NEW pops, NEW roots,
         Request(fn, kind, len, pops, roots),
         word' \in [Words -> Int], top' \in Nat, top' < StackBottom,
         RootWords(top', <<>>) \subseteq Words,
         WordsSound(word', RootWords(top', <<>>)), SpareUnboxed(word'),
         Registered(roots, top', word'), Admissible(fn, kind, len, pops, top')
  PROVE  MutatorInv'
<1>1. UNCHANGED <<mem, heap, old, live, obj, fld, ids>>
  BY DEF Request, markVars, compactVars
<1>2. CASE Len(roots) > MaxExtraRoots
  <2>1. phase' = "exit"
    BY <1>2 DEF Request
  <2> QED BY <2>1 DEF MutatorInv, Between, Collecting, Scanning, Compacting
<1>3. CASE ~(Len(roots) > MaxExtraRoots)
  <2>1. /\ phase' = "request" /\ extra' = roots /\ need' = SizeWords(kind, len)
        /\ call' = [fn |-> fn, pops |-> pops, kind |-> kind, len |-> len]
    BY <1>3 DEF Request
  <2>2. HeapConsistent' /\ ProcessInv'
    BY <1>1, StillConsistent DEF RunInv
  <2>3. \A v : Sound(v)' <=> Sound(v)
    BY <1>1 DEF Sound
  <2>4. WordsSound(word, RootWords(top, extra))'
    <3>1. RootWords(top', extra') = RootWords(top', <<>>) \cup {roots[i] : i \in DOMAIN roots}
      BY <2>1 DEF RootWords
    <3> QED BY <2>3, <3>1 DEF WordsSound, Registered
  <2>5. RootsInv'
    BY <2>1, <2>4 DEF RootsInv, Registered
  <2>6. CallInv'
    BY <2>1 DEF CallInv, Admissible, Depth
  <2>7. (old = heap /\ live = 0 /\ obj = NoObj /\ fld = 1)'
    BY <1>1 DEF RunInv
  <2> QED BY <2>1, <2>2, <2>5, <2>6, <2>7 DEF MutatorInv, Between, Collecting, Scanning, Compacting
<1> QED BY <1>2, <1>3

\* Locals of runtime functions are written, and operands popped.
LEMMA LocalsWritten ==
  ASSUME RunInv, word' \in [Words -> Int],
         \A a \in Words : a <= GlobalStop => word'[a] = word[a],
         top' \in Nat, top <= top', top' < StackBottom
  PROVE  /\ RootWords(top', <<>>) \subseteq Words
         /\ RootWords(top', <<>>) \subseteq RootWords(top, <<>>)
         /\ WordsSound(word', RootWords(top', <<>>)) /\ SpareUnboxed(word')
<1>1. /\ top \in Nat /\ RootWords(top, <<>>) \subseteq Words
      /\ WordsSound(word, RootWords(top, <<>>)) /\ SpareUnboxed(word)
  BY OperandsSound DEF RunInv, ProcessInv
<1>2. RootWords(top', <<>>) \subseteq RootWords(top, <<>>)
  BY <1>1, OperandsAndGlobals, Layout
<1>3. ASSUME NEW a \in RootWords(top, <<>>) PROVE a <= GlobalStop
  <2>1. a \in (top + 1) .. (StackBottom - 1) \/ a \in Globals
    BY <1>1, OperandsAndGlobals
  <2>2. StackBottom \in Nat /\ GlobalStop \in Nat /\ StackBottom < GlobalStop /\ Globals \subseteq Nat
    BY Layout
  <2>3. a \in Globals => a < GlobalStop
    BY Layout
  <2>4. CASE a \in Globals
    BY <2>2, <2>3, <2>4
  <2>5. CASE a \in (top + 1) .. (StackBottom - 1)
    <3>1. top \in Int
      BY <1>1
    <3> QED BY ONLY <2>2, <2>5, <3>1
  <2> QED BY <2>1, <2>4, <2>5
<1>4. WordsSound(word', RootWords(top', <<>>))
  BY <1>1, <1>2, <1>3 DEF WordsSound
<1>5. SpareUnboxed(word')
  BY <1>1, Layout DEF SpareUnboxed
<1> QED BY <1>1, <1>2, <1>4, <1>5

LEMMA StringSizes ==
  \A len \in Nat : SizeWords("STRING", len) > 0 /\ FieldCount("STRING", len) = 0
BY DEF SizeWords, FieldCount, HeaderWords

LEMMA CallStringStep ==
  ASSUME RunInv, NEW len \in StringLens, CallString(len)
  PROVE  MutatorInv'
<1>0. /\ top \in Nat /\ top < StackBottom /\ word \in [Words -> Int]
      /\ word' = [word EXCEPT ![LocalQ] = CString] /\ top' = top /\ Room(1)
  BY OperandsSound DEF CallString
<1>1. Request("Bstring", "STRING", len, 0, <<LocalQ>>)
  BY DEF CallString
<1>2. word' \in [Words -> Int] /\ \A a \in Words : a <= GlobalStop => word'[a] = word[a]
  BY <1>0, Layout
<1>3. word'[LocalQ] = CString
  BY <1>0, Layout
<1>4. /\ RootWords(top', <<>>) \subseteq Words
      /\ WordsSound(word', RootWords(top', <<>>)) /\ SpareUnboxed(word')
  BY <1>0, <1>2, LocalsWritten
<1>5. Registered(<<LocalQ>>, top', word')
  BY <1>0, <1>3, Layout DEF Registered, Sound
<1>6. Admissible("Bstring", "STRING", len, 0, top')
  <2>1. top - 1 \in Nat /\ (top - 1 + 1) .. (StackBottom - 1) \subseteq Words
    BY <1>0, RoomForOperands
  <2> QED BY <1>0, <2>1, StringSizes, Layout DEF Admissible, Kinds
<1> QED BY <1>0, <1>1, <1>2, <1>4, <1>5, <1>6, RequestStep

LEMMA CallLstringStep ==
  ASSUME RunInv, NEW len \in StringLens, CallLstring(len)
  PROVE  MutatorInv'
<1>0. /\ top \in Nat /\ top < StackBottom /\ word \in [Words -> Int] /\ Depth > 0 /\ Depth \in Int
      /\ word' = [word EXCEPT ![LocalP] = word[top + 1], ![LocalQ] = CString] /\ top' = top + 1
  <2>1. /\ Depth > 0 /\ top' = top + 1
        /\ word' = [word EXCEPT ![LocalP] = word[top + 1], ![LocalQ] = CString]
    BY Zenon DEF CallLstring
  <2>2. top \in Nat /\ top < StackBottom /\ word \in [Words -> Int]
    BY OperandsSound
  <2> QED BY <2>1, <2>2, Layout DEF Depth
<1>1. Request("Lstring", "STRING", len, 0, <<LocalP, LocalQ>>)
  BY DEF CallLstring
<1>2. word[top + 1] \in Int /\ Sound(word[top + 1])
  BY <1>0, OperandsSound
<1>3. /\ word' \in [Words -> Int] /\ \A a \in Words : a <= GlobalStop => word'[a] = word[a]
      /\ word'[LocalQ] = CString /\ word'[LocalP] = word[top + 1]
  BY <1>0, <1>2, Layout
<1>4. top' \in Nat /\ top <= top' /\ top' < StackBottom
  BY <1>0, Layout DEF Depth
<1>5. /\ RootWords(top', <<>>) \subseteq Words
      /\ WordsSound(word', RootWords(top', <<>>)) /\ SpareUnboxed(word')
  BY <1>3, <1>4, LocalsWritten
<1>6. Registered(<<LocalP, LocalQ>>, top', word')
  <2>1. \A i \in DOMAIN <<LocalP, LocalQ>> : i = 1 \/ i = 2
    OBVIOUS
  <2> QED BY <1>2, <1>3, <1>4, <2>1, Layout DEF Registered, Sound
<1>7. Admissible("Lstring", "STRING", len, 0, top')
  <2>1. (top' + 0) .. (StackBottom - 1) \subseteq Words
    BY <1>0, <1>4, OperandsAndGlobals DEF RunInv, ProcessInv
  <2> QED BY <1>0, <1>4, <2>1, StringSizes, Layout DEF Admissible, Kinds
<1> QED BY <1>1, <1>3, <1>4, <1>5, <1>6, <1>7, RequestStep

\* An allocating instruction that rearranges its operands on the stack.
LEMMA OperandsRearranged ==
  ASSUME RunInv, NEW n \in Nat, n <= Depth, NEW vs \in Seq(Int), Replace(word, n, vs),
         NEW k \in Int, k >= 0, k >= Len(vs) - n, Room(k) \/ Len(vs) <= n,
         \A i \in DOMAIN vs : Sound(vs[i])
  PROVE  /\ word' \in [Words -> Int] /\ top' \in Nat /\ top' < StackBottom
         /\ top' = top + n - Len(vs)
         /\ RootWords(top', <<>>) \subseteq Words
         /\ WordsSound(word', RootWords(top', <<>>)) /\ SpareUnboxed(word')
         /\ \A a \in Words : a > top + n => word'[a] = word[a]
<1>1. /\ top \in Nat /\ top < StackBottom /\ word \in [Words -> Int]
      /\ WordsSound(word, RootWords(top, <<>>)) /\ SpareUnboxed(word)
      /\ RootWords(top, <<>>) = ((top + 1) .. (StackBottom - 1)) \cup Globals
      /\ RootWords(top, <<>>) \subseteq Words
  BY OperandsSound, OperandsAndGlobals DEF RunInv, ProcessInv
<1>2. Len(vs) \in Nat
  OBVIOUS
<1>3. /\ top + n - Len(vs) \in Nat
      /\ (top + n - Len(vs) + 1) .. (StackBottom - 1) \subseteq Words
  <2>1. CASE Len(vs) <= n
    <3>1. (top + 1) .. (StackBottom - 1) \subseteq Words
      BY <1>1
    <3>2. top + n - Len(vs) \in Nat /\ top + n - Len(vs) >= top
      BY <1>1, <1>2, <2>1
    <3> QED BY <1>1, <3>1, <3>2, Layout
  <2>2. CASE Room(k)
    <3>1. top - k \in Nat /\ (top - k + 1) .. (StackBottom - 1) \subseteq Words
      BY <1>1, <2>2, RoomForOperands
    <3>2. top + n - Len(vs) \in Int /\ top + n - Len(vs) >= top - k
      BY <1>1, <1>2
    <3> QED BY <1>1, <3>1, <3>2, Layout
  <2> QED BY <2>1, <2>2
<1>4. WordsSound(word, ((top + n + 1) .. (StackBottom - 1)) \cup Globals)
  <2>1. ((top + n + 1) .. (StackBottom - 1)) \cup Globals \subseteq RootWords(top, <<>>)
    <3>1. top + n + 1 >= top + 1
      BY <1>1
    <3>2. (top + n + 1) .. (StackBottom - 1) \subseteq (top + 1) .. (StackBottom - 1)
      BY <1>1, <3>1, Layout
    <3> QED BY ONLY <1>1, <3>2
  <2> QED BY <1>1, <2>1 DEF WordsSound
<1> QED BY <1>1, <1>3, <1>4, Replaced

LEMMA CallArrayStep ==
  ASSUME RunInv, NEW n \in 0..MaxLen, CallArray(n)
  PROVE  MutatorInv'
<1>0. n \in Nat /\ n <= Depth /\ Room(1 - n) /\ top \in Nat /\ top < StackBottom
  BY OperandsSound, Layout DEF CallArray
<1>1. PICK vs : vs = [i \in 1..n |-> word[top + n + 1 - i]] /\ Replace(word, n, vs)
  BY Zenon DEF CallArray
<1>2. PICK x : x = <<>> /\ Request("Barray", "ARRAY", n, n, x)
  BY Zenon DEF CallArray
<1>3. ASSUME NEW i \in 1..n
      PROVE  word[top + n + 1 - i] \in Int /\ Sound(word[top + n + 1 - i])
  <2>1. PICK k \in Nat \ {0} : k = n + 1 - i /\ k <= Depth
    BY <1>0, Layout DEF Depth
  <2>2. top + k = top + n + 1 - i
    BY <1>0, <2>1
  <2> QED BY <2>1, <2>2, OperandsSound
<1>4. vs \in Seq(Int) /\ Len(vs) = n /\ \A i \in DOMAIN vs : Sound(vs[i])
  BY <1>0, <1>1, <1>3
<1>5. /\ word' \in [Words -> Int] /\ top' \in Nat /\ top' < StackBottom /\ top' = top
      /\ RootWords(top', <<>>) \subseteq Words
      /\ WordsSound(word', RootWords(top', <<>>)) /\ SpareUnboxed(word')
  <2>1. PICK k \in Int : k >= 0 /\ k >= Len(vs) - n
    BY <1>0, <1>4
  <2>2. Len(vs) <= n /\ top + n - Len(vs) = top
    BY <1>0, <1>4
  <2> QED BY <1>0, <1>1, <1>4, <2>1, <2>2, OperandsRearranged
<1>6. Registered(x, top', word')
  BY <1>2 DEF Registered
<1>7. Admissible("Barray", "ARRAY", n, n, top')
  <2>1. top - (1 - n) \in Nat /\ (top - (1 - n) + 1) .. (StackBottom - 1) \subseteq Words
    BY <1>0, RoomForOperands
  <2>2. top - (1 - n) + 1 = top + n /\ top + n >= 1 /\ n <= StackBottom - 1 - top
    BY <1>0, <2>1 DEF Depth
  <2>3. SizeWords("ARRAY", n) > 0 /\ FieldCount("ARRAY", n) = n
    BY <1>0 DEF SizeWords, FieldCount, HeaderWords
  <2> QED BY <1>0, <1>5, <2>1, <2>2, <2>3 DEF Admissible, Kinds
<1> QED BY <1>2, <1>5, <1>6, <1>7, RequestStep

LEMMA CallSexpStep ==
  ASSUME RunInv, NEW n \in 0..MaxLen, CallSexp(n)
  PROVE  MutatorInv'
<1>0. n \in Nat /\ n <= Depth /\ Room(1) /\ top \in Nat /\ top < StackBottom
  BY OperandsSound, Layout DEF CallSexp
<1>1. PICK vs : /\ vs = [i \in 1..(n + 1) |-> IF i <= n THEN word[top + n + 1 - i] ELSE Number]
                /\ Replace(word, n, vs)
  BY Zenon DEF CallSexp
<1>2. PICK x : x = <<>> /\ Request("Bsexp", "SEXP", n, n + 1, x)
  BY Zenon DEF CallSexp, SexpPops
<1>3. ASSUME NEW i \in 1..(n + 1)
      PROVE  vs[i] \in Int /\ Sound(vs[i])
  <2>1. CASE i <= n
    <3>1. PICK k \in Nat \ {0} : k = n + 1 - i /\ k <= Depth
      BY <1>0, <2>1, Layout DEF Depth
    <3>2. top + k = top + n + 1 - i /\ vs[i] = word[top + n + 1 - i]
      BY <1>0, <1>1, <2>1, <3>1
    <3> QED BY <3>1, <3>2, OperandsSound
  <2>2. CASE ~(i <= n)
    BY <1>1, <2>2, NumberIsSound, Layout
  <2> QED BY <2>1, <2>2
<1>4. vs \in Seq(Int) /\ Len(vs) = n + 1 /\ \A i \in DOMAIN vs : Sound(vs[i])
  <2>1. vs = [i \in 1..(n + 1) |-> vs[i]]
    BY <1>1
  <2> QED BY <1>0, <1>3, <2>1
<1>5. /\ word' \in [Words -> Int] /\ top' \in Nat /\ top' < StackBottom /\ top' = top - 1
      /\ RootWords(top', <<>>) \subseteq Words
      /\ WordsSound(word', RootWords(top', <<>>)) /\ SpareUnboxed(word')
  <2>1. PICK k \in Int : k = 1
    OBVIOUS
  <2>2. k >= 0 /\ k >= Len(vs) - n /\ Room(k) /\ top + n - Len(vs) = top - 1
    BY <1>0, <1>4, <2>1
  <2> QED BY <1>0, <1>1, <1>4, <2>2, OperandsRearranged
<1>6. Registered(x, top', word')
  BY <1>2 DEF Registered
<1>7. Admissible("Bsexp", "SEXP", n, n + 1, top')
  <2>1. (top' + (n + 1)) .. (StackBottom - 1) \subseteq Words
    <3>1. top - 1 \in Nat /\ (top - 1 + 1) .. (StackBottom - 1) \subseteq Words
      BY <1>0, RoomForOperands
    <3> QED BY <1>0, <1>5, <3>1, Layout
  <2>2. n + 1 <= StackBottom - 1 - top' /\ top' + (n + 1) >= 1
    BY <1>0, <1>5, Layout DEF Depth
  <2>3. SizeWords("SEXP", n) > 0 /\ FieldCount("SEXP", n) = n
    BY <1>0 DEF SizeWords, FieldCount, HeaderWords
  <2> QED BY <1>0, <2>1, <2>2, <2>3 DEF Admissible, Kinds
<1> QED BY <1>2, <1>5, <1>6, <1>7, RequestStep

\* The words that Bclosure registers are operands or above the bottom of the stack.
LEMMA CapturedRoots ==
  ASSUME RunInv, NEW n \in Nat, NEW x, x = [i \in 1..n |-> top - n + ArgssOffset + i - 1],
         top' = top - n, top' \in Nat, top' < StackBottom, word' \in [Words -> Int],
         RootWords(top', <<>>) \subseteq Words,
         WordsSound(word', RootWords(top', <<>>)), SpareUnboxed(word')
  PROVE  Registered(x, top', word')
<1>0. top \in Nat /\ top < StackBottom /\ ArgssOffset \in Nat /\ ArgssOffset >= 1
  BY OperandsSound, Layout
<1>1. DOMAIN x = 1..n /\ \A i \in 1..n : x[i] = top' + ArgssOffset + i - 1
  BY <1>0
<1>2. ASSUME NEW i \in 1..n
      PROVE  /\ x[i] \in Words /\ x[i] \in Nat /\ x[i] > top' /\ x[i] < GlobalStop
             /\ Sound(word'[x[i]])
  <2>1. x[i] \in Nat /\ x[i] > top' /\ x[i] <= StackBottom + ArgssOffset - 2
    BY <1>0, <1>1, Layout
  <2>2. CASE x[i] < StackBottom
    <3>1. x[i] \in (top' + 1) .. (StackBottom - 1)
      BY <2>1, <2>2, Layout
    <3>2. x[i] \in RootWords(top', <<>>)
      BY <3>1, OperandsAndGlobals
    <3>3. x[i] < GlobalStop
      BY <2>1, <2>2, Layout
    <3> QED BY <2>1, <3>2, <3>3 DEF WordsSound
  <2>3. CASE x[i] >= StackBottom
    <3>1. x[i] \in Spare
      BY <1>0, <2>1, <2>3, Layout DEF Spare
    <3>2. x[i] \in Words /\ x[i] < GlobalStop /\ word'[x[i]] \in Int /\ word'[x[i]] < 0
      <4>1. x[i] \in Words /\ x[i] < GlobalStart
        BY <3>1, Layout
      <4> QED BY <2>1, <3>1, <4>1, Layout DEF SpareUnboxed, IsUnboxed
    <3>3. Sound(word'[x[i]])
      BY <3>2, Layout DEF Sound
    <3> QED BY <2>1, <3>2, <3>3
  <2> QED BY <2>1, <2>2, <2>3, Layout
<1>3. x \in Seq(Words)
  <2>1. x = [i \in 1..n |-> x[i]]
    BY <1>1
  <2> QED BY <1>1, <1>2, <2>1
<1>4. \A i, j \in DOMAIN x : x[i] = x[j] => i = j
  BY <1>0, <1>1
<1>5. \A i \in DOMAIN x : x[i] \notin {top', GlobalStop} /\ Sound(word'[x[i]])
  BY <1>1, <1>2, Layout
<1> QED BY <1>3, <1>4, <1>5 DEF Registered

LEMMA CallClosureStep ==
  ASSUME RunInv, NEW n \in 0..MaxLen, CallClosure(n)
  PROVE  MutatorInv'
<1>0. n \in Nat /\ top \in Nat /\ top < StackBottom
  BY OperandsSound, Layout
<1>1. PICK vars \in [1..n -> Operands \cup Globals] : Capture([i \in 1..n |-> word[vars[i]]])
  BY Zenon DEF CallClosure
<1>2. PICK vs, m, x :
        /\ vs = [i \in 1..n |-> word[vars[i]]] /\ m = Len(vs)
        /\ x = [i \in 1..m |-> top - m + ArgssOffset + i - 1]
        /\ Room(m + 1) /\ Replace(word, 0, vs) /\ Request("Bclosure", "CLOSURE", m + 1, m, x)
  BY <1>1, Zenon DEF Capture
<1>3. ASSUME NEW i \in 1..n
      PROVE  vs[i] \in Int /\ Sound(vs[i])
  <2>1. vs[i] = word[vars[i]] /\ vars[i] \in Operands \cup Globals
    BY <1>2
  <2>2. vars[i] \in RootWords(top, <<>>)
    BY <1>0, <2>1, OperandsAndGlobals DEF Operands
  <2> QED BY <2>1, <2>2, OperandsSound DEF WordsSound, RunInv, ProcessInv
<1>4. vs \in Seq(Int) /\ Len(vs) = n /\ m = n /\ \A i \in DOMAIN vs : Sound(vs[i])
  <2>1. vs = [i \in 1..n |-> vs[i]]
    BY <1>2
  <2>2. vs \in Seq(Int) /\ Len(vs) = n /\ \A i \in DOMAIN vs : Sound(vs[i])
    BY ONLY <1>0, <1>3, <2>1
  <2> QED BY <1>2, <2>2
<1>5. top - (n + 1) \in Nat /\ (top - (n + 1) + 1) .. (StackBottom - 1) \subseteq Words
  BY <1>0, <1>2, <1>4, RoomForOperands
<1>6. /\ word' \in [Words -> Int] /\ top' \in Nat /\ top' < StackBottom /\ top' = top - n
      /\ RootWords(top', <<>>) \subseteq Words
      /\ WordsSound(word', RootWords(top', <<>>)) /\ SpareUnboxed(word')
  <2>1. PICK k \in Int, z \in Nat : k = n + 1 /\ z = 0
    BY <1>0
  <2>2. k >= 0 /\ k >= Len(vs) - z /\ Room(k) /\ top + z - Len(vs) = top - n /\ z <= Depth
    <3>1. Room(k)
      BY <1>2, <1>4, <2>1
    <3>2. Len(vs) = n
      BY <1>4
    <3>3. z <= Depth
      BY <1>0, <2>1, Layout DEF Depth
    <3> QED BY ONLY <1>0, <2>1, <3>1, <3>2, <3>3
  <2>3. Replace(word, z, vs)
    BY <1>2, <2>1
  <2> QED BY <1>4, <2>2, <2>3, OperandsRearranged
<1>7. Registered(x, top', word')
  <2>1. x = [i \in 1..n |-> top - n + ArgssOffset + i - 1]
    BY <1>2, <1>4
  <2> QED BY <1>0, <1>6, <2>1, CapturedRoots
<1>8. Admissible("Bclosure", "CLOSURE", n + 1, n, top')
  <2>1. (top' + n) .. (StackBottom - 1) \subseteq Words /\ top' + n >= 1
    <3>1. top' + n = top /\ top - (n + 1) + 1 = top - n /\ top - n <= top
      BY <1>0, <1>6
    <3> QED BY <1>0, <1>5, <3>1, Layout
  <2>2. n <= StackBottom - 1 - top'
    BY <1>0, <1>6, Layout
  <2>3. SizeWords("CLOSURE", n + 1) > 0 /\ FieldCount("CLOSURE", n + 1) = n
    BY <1>0 DEF SizeWords, FieldCount, HeaderWords
  <2> QED BY <1>0, <2>1, <2>2, <2>3 DEF Admissible, Kinds
<1>9. Request("Bclosure", "CLOSURE", n + 1, n, x)
  BY <1>2, <1>4
<1> QED BY <1>6, <1>7, <1>8, <1>9, RequestStep

\* An allocating instruction asks for memory in a heap that a collection may start from.
LEMMA AllocatingStep ==
  ASSUME MutatorInv, Allocating
  PROVE  MutatorInv'
<1>1. phase = "run"
  BY Zenon DEF Allocating, CallString, CallLstring, CallArray, CallSexp, CallClosure, Capture,
               Request, Running
<1>2. RunInv
  BY <1>1, RunningInv DEF Running
<1> QED BY <1>2, CallStringStep, CallLstringStep, CallArrayStep, CallSexpStep, CallClosureStep
        DEF Allocating

-----------------------------------------------------------------------------
(* Collections                                                              *)

\* A collection may start from what the program leaves, at every request.
LEMMA RequestIsReady ==
  ASSUME MutatorInv, phase = "request"
  PROVE  WellFormed([mem |-> mem, heap |-> heap, word |-> word, top |-> top,
                     extra |-> extra, need |-> need])
<1>1. HeapConsistent /\ ProcessInv /\ RootsInv /\ CallInv
  BY DEF MutatorInv, Between, Collecting
<1>2. RootWords(top, extra) \subseteq Words
  <2>1. RootWords(top, extra) = RootWords(top, <<>>) \cup {extra[i] : i \in DOMAIN extra}
    BY DEF RootWords
  <2>2. extra \in Seq(Words) /\ RootWords(top, <<>>) \subseteq Words
    BY <1>1 DEF RootsInv, ProcessInv
  <2> QED BY <2>1, <2>2
<1>3. FieldsPointToObjects(mem, heap.begin, heap.current)
  <2> SUFFICES ASSUME NEW h \in DOMAIN mem, NEW i \in DOMAIN mem[h].fields
               PROVE  PointsToObject(mem, heap.begin, heap.current, mem[h].fields[i])
    BY DEF FieldsPointToObjects
  <2>1. mem[h].fields[i] \in Int
    <3>1. mem[h].fields \in Seq(Int)
      BY <1>1 DEF HeapConsistent, Object
    <3> QED BY <3>1
  <2>2. Sound(mem[h].fields[i])
    BY <1>1 DEF HeapConsistent, FieldsSound
  <2> QED BY <1>1, <2>1, <2>2, SoundPointer
<1>4. RootsPointToObjects(mem, heap.begin, heap.current, word, top, extra)
  <2> SUFFICES ASSUME NEW a \in RootWords(top, extra)
               PROVE  PointsToObject(mem, heap.begin, heap.current, word[a])
    BY DEF RootsPointToObjects
  <2>1. word[a] \in Int
    BY <1>1, <1>2 DEF ProcessInv
  <2>2. Sound(word[a])
    BY <1>1 DEF RootsInv, WordsSound
  <2> QED BY <1>1, <2>1, <2>2, SoundPointer
<1>5. FixedOnce(heap, word, top, extra)
  <2>1. word[StackBottom] < 0
    BY <1>1, Layout DEF HeapConsistent, SpareUnboxed, Spare, IsUnboxed
  <2> QED BY <1>1, <2>1 DEF FixedOnce, InChunk, IsUnboxed, RootsInv
<1>6. need \in Nat \ {0}
  BY <1>1 DEF CallInv, SizeWords, HeaderWords, Kinds
<1>7. /\ IsFiniteSet(DOMAIN mem) /\ DOMAIN mem \subseteq Nat
      /\ mem \in [DOMAIN mem -> Object]
      /\ \A h \in DOMAIN mem : SizeWords(mem[h].kind, mem[h].len) > 0
      /\ heap \in [begin : Nat, current : Nat, size : Nat]
      /\ heap.current <= heap.begin + heap.size
      /\ word \in [Words -> Int] /\ top \in Nat /\ top < StackBottom
      /\ extra \in Seq(Words)
      /\ Walkable(mem, heap.begin, heap.current) /\ Clean(mem)
  BY <1>1 DEF HeapConsistent, ProcessInv, RootsInv
<1> QED BY <1>2, <1>3, <1>4, <1>5, <1>6, <1>7 DEF WellFormed

LEMMA StartCollectionStep ==
  ASSUME MutatorInv, StartCollection
  PROVE  MutatorInv'
<1>0. phase = "request" /\ phase' = "scanStack"
  BY DEF StartCollection
<1>1. /\ UNCHANGED <<mem, heap, word, top, extra, old, live, need, obj, fld, call, ids>>
      /\ it' = top + 1 /\ qHead' = heap.begin /\ qTail' = heap.begin
  BY DEF StartCollection, heapVars, compactVars
<1>2. /\ HeapConsistent /\ ProcessInv /\ RootsInv /\ CallInv
      /\ old = heap /\ live = 0 /\ obj = NoObj /\ fld = 1
  BY <1>0 DEF MutatorInv, Between, Collecting
<1>3. WellFormed([mem |-> mem, heap |-> heap, word |-> word, top |-> top,
                  extra |-> extra, need |-> need])
  BY <1>0, RequestIsReady
<1>4. MarkReady'
  BY <1>0, <1>1, <1>2, <1>3 DEF MarkReady
<1>5. CollectReady'
  BY <1>1, <1>2, <1>4 DEF CollectReady
<1>6. CollectInv'
  BY <1>5, CollectBegins, PTL
<1>7. ProcessInv'
  BY <1>1, <1>2 DEF ProcessInv
<1>8. CallInv'
  BY <1>1, <1>2 DEF CallInv, Depth
<1>9. FieldsSound' /\ WordsSound(word, RootWords(top, extra))' /\ SpareUnboxed(word)'
  <2>1. \A v : Sound(v)' <=> Sound(v)
    BY <1>1 DEF Sound
  <2>2. RootWords(top, extra)' = RootWords(top, extra)
    BY <1>1 DEF RootWords
  <2> QED BY <1>1, <1>2, <2>1, <2>2 DEF HeapConsistent, FieldsSound, RootsInv, WordsSound, SpareUnboxed
<1> QED BY <1>0, <1>6, <1>7, <1>8, <1>9 DEF MutatorInv, Between, Collecting, Scanning, Compacting

\* Marking leaves fields and identities alone.
SameIds(m, n) == \A h \in DOMAIN m : n[h].id = m[h].id

LEMMA MarkingLeavesFields ==
  ASSUME MarkTypeOK, MarkNext
  PROVE  SameShape(mem, mem') /\ SameIds(mem, mem')
<1>0. \A h \in DOMAIN mem : mem[h] \in Object
  BY DEF MarkTypeOK
<1>1. ASSUME NEW t, NEW v, mem' = Enqueued(t, v)
      PROVE  SameShape(mem, mem') /\ SameIds(mem, mem')
  <2>1. DOMAIN mem' = DOMAIN mem
    BY <1>1 DEF Enqueued
  <2>2. ASSUME NEW h \in DOMAIN mem
        PROVE  /\ mem'[h].kind = mem[h].kind /\ mem'[h].len = mem[h].len
               /\ mem'[h].fields = mem[h].fields /\ mem'[h].id = mem[h].id
    BY <1>0, <1>1 DEF Enqueued, Object
  <2> QED BY <2>1, <2>2 DEF SameShape, SameIds
<1>2. ASSUME NEW g, mem' = Dequeued(g)
      PROVE  SameShape(mem, mem') /\ SameIds(mem, mem')
  <2>1. DOMAIN mem' = DOMAIN mem
    BY <1>2 DEF Dequeued
  <2>2. ASSUME NEW h \in DOMAIN mem
        PROVE  /\ mem'[h].kind = mem[h].kind /\ mem'[h].len = mem[h].len
               /\ mem'[h].fields = mem[h].fields /\ mem'[h].id = mem[h].id
    BY <1>0, <1>2 DEF Dequeued, Object
  <2> QED BY <2>1, <2>2 DEF SameShape, SameIds
<1>3. mem' = mem => SameShape(mem, mem') /\ SameIds(mem, mem')
  BY DEF SameShape, SameIds
<1>4. ASSUME NEW v, Mark(v)
      PROVE  mem' = mem \/ \E t : mem' = Enqueued(t, v)
  BY <1>4, Zenon DEF Mark, Reading, heapVars
<1>5. CASE ScanStack \/ ScanExtra \/ ScanGlobals
  BY <1>1, <1>3, <1>4, <1>5, Zenon DEF ScanStack, ScanExtra, ScanGlobals, ScanRoot
<1>6. CASE EndScanStack \/ EndScanExtra \/ EndScanGlobals
  BY <1>3, <1>6 DEF EndScanStack, EndScanExtra, EndScanGlobals, EndScan, heapVars
<1>7. CASE Dequeue
  <2>1. mem' = mem \/ \E g : mem' = Dequeued(g)
    BY <1>7, Zenon DEF Dequeue, Reading, heapVars
  <2> QED BY <1>2, <1>3, <2>1
<1>8. CASE ScanField
  <2>1. mem' = mem \/ \E t, v : mem' = Enqueued(t, v)
    BY <1>8, Zenon DEF ScanField, Reading, heapVars
  <2> QED BY <1>1, <1>3, <2>1
<1>9. CASE FinishObject
  BY <1>3, <1>9 DEF FinishObject, heapVars
<1> QED BY <1>5, <1>6, <1>7, <1>8, <1>9 DEF MarkNext

\* What a sound value denotes: an object, or a word that cannot be taken for one.
LEMMA SoundDenotes ==
  ASSUME MarkTypeOK, HeapInv, NEW v \in Int, Sound(v)
  PROVE  /\ SoundDenotation(Denotes(v))
         /\ HeaderOf(v) \in DOMAIN mem => IsValidHeapPointer(v)
         /\ v < 0 => Denotes(v) = <<"word", v>>
<1>1. ASSUME HeaderOf(v) \in DOMAIN mem PROVE IsValidHeapPointer(v)
  <2> DEFINE h == HeaderOf(v)
  <2>1. /\ h \in Nat /\ heap.begin \in Nat /\ heap.current \in Nat /\ heap.begin <= h
        /\ NextObj(mem, h) <= heap.current
    BY <1>1 DEF MarkTypeOK, HeapInv, Walkable
  <2>2. mem[h] \in Object /\ NextObj(mem, h) \in Nat
    BY <1>1, NextObject DEF MarkTypeOK
  <2>3. SizeWords(mem[h].kind, mem[h].len) > 0
    BY <1>1 DEF HeapInv
  <2>4. NextObj(mem, h) >= h + 2
    <3>1. mem[h].kind \in Kinds /\ mem[h].len \in Nat
      BY <2>2 DEF Object
    <3>2. ObjWords(mem[h]) \in Int /\ ObjWords(mem[h]) >= 2
      BY <2>3, <3>1 DEF ObjWords, SizeWords, HeaderWords, Kinds
    <3> QED BY <2>1, <3>2 DEF NextObj
  <2>5. v = h + 2
    BY DEF HeaderOf, HeaderWords
  <2> QED BY <2>1, <2>2, <2>4, <2>5 DEF IsValidHeapPointer, InChunk, IsUnboxed
<1>2. SoundDenotation(Denotes(v))
  <2>1. CASE IsValidHeapPointer(v)
    BY <2>1 DEF Denotes, SoundDenotation
  <2>2. CASE ~IsValidHeapPointer(v)
    BY <1>1, <2>2 DEF Denotes, SoundDenotation, Sound
  <2> QED BY <2>1, <2>2
<1>3. v < 0 => Denotes(v) = <<"word", v>>
  BY DEF Denotes, IsValidHeapPointer, InChunk, IsUnboxed
<1> QED BY <1>1, <1>2, <1>3

\* The dump that a collection takes is of sound words.
LEMMA DumpIsSound ==
  ASSUME MarkTypeOK, HeapInv, FieldsSound, WordsSound(word, RootWords(top, extra)),
         SpareUnboxed(word), snapshot' = Dump(Marked), UNCHANGED <<top, extra>>
  PROVE  DumpSound'
<1>0. RootWords(top, extra)' = RootWords(top, extra) /\ RootWords(top, extra) \subseteq Words
  BY DEF RootWords, HeapInv
<1>1. /\ \A a \in RootWords(top, extra) : snapshot'.roots[a] = Denotes(word[a])
      /\ \A a \in Words \ RootWords(top, extra) : snapshot'.others[a] = word[a]
      /\ snapshot'.objects = {DumpObject(Marked, h) : h \in Marked}
  BY DEF Dump
<1>2. ASSUME NEW a \in RootWords(top, extra)
      PROVE  SoundDenotation(snapshot'.roots[a])
  <2>1. word[a] \in Int /\ Sound(word[a])
    BY <1>0 DEF MarkTypeOK, WordsSound
  <2> QED BY <1>1, <2>1, SoundDenotes
<1>3. ASSUME NEW r \in snapshot'.objects, NEW i \in DOMAIN r.fields
      PROVE  SoundDenotation(r.fields[i])
  <2>1. PICK h \in Marked : r = DumpObject(Marked, h)
    BY <1>1
  <2>2. h \in DOMAIN mem /\ mem[h].fields \in Seq(Int)
    BY DEF Marked, MarkTypeOK, Object
  <2>3. r.fields = [j \in DOMAIN mem[h].fields |-> Denotes(mem[h].fields[j])]
    BY <2>1 DEF DumpObject
  <2>4. i \in DOMAIN mem[h].fields /\ r.fields[i] = Denotes(mem[h].fields[i])
    BY <2>3
  <2>5. mem[h].fields[i] \in Int /\ Sound(mem[h].fields[i])
    BY <2>2, <2>4 DEF FieldsSound
  <2> QED BY <2>4, <2>5, SoundDenotes
<1>4. ASSUME NEW a \in Spare
      PROVE  IF a \in RootWords(top, extra)
               THEN snapshot'.roots[a][1] = "word" /\ snapshot'.roots[a][2] < 0
               ELSE IsUnboxed(snapshot'.others[a])
  <2>1. a \in Words /\ word[a] \in Int /\ word[a] < 0
    BY Layout DEF SpareUnboxed, IsUnboxed, MarkTypeOK
  <2>2. Denotes(word[a]) = <<"word", word[a]>>
    BY <2>1 DEF Denotes, IsValidHeapPointer, InChunk, IsUnboxed
  <2>3. CASE a \in RootWords(top, extra)
    BY <1>1, <2>1, <2>2, <2>3
  <2>4. CASE a \notin RootWords(top, extra)
    BY <1>1, <2>1, <2>4 DEF IsUnboxed
  <2> QED BY <2>3, <2>4
<1> QED BY <1>0, <1>2, <1>3, <1>4 DEF DumpSound

\* What no turn of compact_phase changes.
LEMMA CompactingLeaves ==
  ASSUME CompactNext, heap \in [begin : Nat, current : Nat, size : Nat]
  PROVE  /\ UNCHANGED <<top, extra, obj, need>>
         /\ phase \in Compacting
         /\ phase' \notin Scanning
         /\ heap'.begin \in {heap.begin} \cup Bases
         /\ phase' # "compute" \/ phase = "compute"
<1> USE DEF heapVars, markVars, compactVars, Compacting, Scanning
<1>1. CASE ComputeLocation \/ EndCompute
  BY <1>1 DEF ComputeLocation, EndCompute, Reading
<1>2. CASE Resize
  <2>1. /\ phase = "resize" /\ phase' = "fixFields" /\ UNCHANGED <<top, extra, obj, need>>
    BY <1>2 DEF Resize
  <2>2. PICK b, sz, c : b \in {heap.begin} \cup Bases /\ heap' = [begin |-> b, size |-> sz, current |-> c]
    BY <1>2, Zenon DEF Resize
  <2>3. heap'.begin = b
    BY <2>2
  <2> QED BY <2>1, <2>2, <2>3
<1>3. CASE ResizeFails
  BY <1>3 DEF ResizeFails
<1>4. CASE FixFields
  BY <1>4 DEF FixFields, Reading
<1>5. CASE FixStack \/ FixExtra \/ FixGlobals
  BY <1>5 DEF FixStack, FixExtra, FixGlobals, FixWord, SkipWord, Reading
<1>6. CASE EndFixFields \/ EndFixStack \/ EndFixExtra \/ EndFixGlobals
  BY <1>6 DEF EndFixFields, EndFixStack, EndFixExtra, EndFixGlobals, EndFix
<1>7. CASE Relocate
  BY <1>7 DEF Relocate, Reading
<1>8. CASE EndRelocate
  BY <1>8 DEF EndRelocate
<1> QED BY <1>1, <1>2, <1>3, <1>4, <1>5, <1>6, <1>7, <1>8 DEF CompactNext

\* A turn of a loop of the collector, in a process that is at a call of the runtime.
LEMMA CollectingStep ==
  ASSUME MutatorInv, Collect, snapshot' = DumpAfterMarking
  PROVE  MutatorInv'
<1>1. (MarkNext \/ CompactNext) /\ UNCHANGED <<call, ids>>
  BY DEF Collect
<1>2. CompactNext => phase \in Compacting
  BY DEF CompactNext, ComputeLocation, EndCompute, Resize, ResizeFails, FixFields, EndFixFields,
         FixStack, EndFixStack, FixExtra, EndFixExtra, FixGlobals, EndFixGlobals, EndFix,
         Relocate, EndRelocate, Compacting
<1>3. phase \in Scanning \cup Compacting
  BY <1>1, <1>2, MarkingLeavesWords
<1>4. CollectInv /\ ProcessInv /\ CallInv
  BY <1>3 DEF MutatorInv, Collecting, Scanning, Compacting
<1>5. CollectInv'
  BY <1>1, <1>4, CollectStep DEF CollectNext
<1>6. /\ phase' \in Scanning \cup Compacting \cup {"alloc", "exit"}
      /\ heap' \in [begin : Nat, current : Nat, size : Nat] /\ word' \in [Words -> Int]
  BY <1>5 DEF CollectInv, StandingInv, CollectTypeOK, CollectNoCrash
<1>7. CASE MarkNext
  <2>1. /\ UNCHANGED <<heap, word, top, extra, need>> /\ phase \in Scanning
        /\ phase' = "compute" => phase = "scanGlobals" /\ mem' = mem /\ phase' \notin Scanning
    BY <1>7, MarkingLeavesWords
  <2>2. /\ ScanInv /\ MarkInv /\ MarkTypeOK /\ HeapInv
        /\ FieldsSound /\ WordsSound(word, RootWords(top, extra)) /\ SpareUnboxed(word)
    BY <1>4, <2>1 DEF MutatorInv, CollectInv, ScanInv, MarkInv
  <2>3. SameShape(mem, mem')
    BY <1>7, <2>2, MarkingLeavesFields
  <2>4. FieldsSound' /\ WordsSound(word, RootWords(top, extra))' /\ SpareUnboxed(word)'
    <3>1. \A v : Sound(v)' <=> Sound(v)
      BY <2>3 DEF Sound, SameShape
    <3>2. RootWords(top, extra)' = RootWords(top, extra)
      BY <2>1 DEF RootWords
    <3> QED BY <2>1, <2>2, <2>3, <3>1, <3>2 DEF FieldsSound, WordsSound, SpareUnboxed, SameShape
  <2>5. ProcessInv' /\ CallInv'
    BY <1>1, <1>4, <2>1 DEF ProcessInv, CallInv, Depth
  <2>6. MarkInv'
    BY <1>7, <2>2, MarkStep
  <2>7. /\ phase' \in Scanning \cup {"compute"}
        /\ phase' = "compute" => obj' = NoObj
    BY <2>6 DEF MarkInv, MarkTypeOK, LoopInv, Idle, Scanning
  <2>8. phase' = "compute" => DumpSound'
    <3> SUFFICES ASSUME phase' = "compute" PROVE DumpSound'
      OBVIOUS
    <3>1. snapshot' = Dump(Marked)
      BY <2>1 DEF DumpAfterMarking
    <3> QED BY <2>1, <2>2, <3>1, DumpIsSound
  <2>9. /\ phase' \notin Between \cup {"request", "exit", "alloc"}
        /\ phase' \in Compacting => phase' = "compute"
    BY <2>7 DEF Between, Scanning, Compacting
  <2> QED BY <1>5, <2>4, <2>5, <2>7, <2>8, <2>9
          DEF MutatorInv, Collecting, Compacting
<1>8. CASE CompactNext
  <2>1. /\ UNCHANGED <<top, extra, obj, need>> /\ phase' \notin Scanning
        /\ phase \in Compacting /\ heap'.begin \in {heap.begin} \cup Bases
    BY <1>4, <1>8, CompactingLeaves DEF ProcessInv
  <2>2. DumpSound /\ obj = NoObj
    BY <2>1 DEF MutatorInv
  <2>3. snapshot' = snapshot
    BY <2>1 DEF DumpAfterMarking, Compacting
  <2>4. DumpSound'
    <3>1. RootWords(top, extra)' = RootWords(top, extra)
      BY <2>1 DEF RootWords
    <3> QED BY <2>2, <2>3, <3>1 DEF DumpSound
  <2>5. CallInv'
    BY <1>1, <1>4, <2>1 DEF CallInv, Depth
  <2>6. GlobalStop <= heap'.begin
    BY <1>4, <2>1, ProgramAssumption DEF ProcessInv
  <2>7. ProcessInv'
    BY <1>1, <1>4, <1>6, <2>1, <2>6 DEF ProcessInv
  <2> QED BY <1>5, <1>6, <2>1, <2>2, <2>4, <2>5, <2>7
          DEF MutatorInv, Collecting, Compacting, Between
<1> QED BY <1>1, <1>7, <1>8

\* A word that the dump, and the heap, know of is sound.
LEMMA DenotedIsSound ==
  ASSUME NEW v \in Int, SoundDenotation(Denotes(v)),
         heap.begin \in Int, heap.current \in Int,
         PointsToObject(mem, heap.begin, heap.current, v)
  PROVE  Sound(v)
<1>1. CASE IsValidHeapPointer(v)
  BY <1>1 DEF IsValidHeapPointer, InChunk, IsUnboxed, PointsToObject, Sound
<1>2. CASE ~IsValidHeapPointer(v)
  BY <1>2 DEF Denotes, SoundDenotation, Sound
<1> QED BY <1>1, <1>2

\* The heap a collection returns is one the program can go on with, and has room.
LEMMA CollectedIsConsistent ==
  ASSUME MutatorInv, phase = "alloc"
  PROVE  /\ HeapConsistent /\ ProcessInv /\ CallInv /\ Fits /\ obj = NoObj
         /\ RootWords(top, extra) \subseteq Words /\ WordsSound(word, RootWords(top, extra))
         /\ \A a \in RootWords(top, extra) :
               snapshot.roots[a][1] = "object" => HeaderOf(word[a]) \in DOMAIN mem
<1>1. CollectInv /\ ProcessInv /\ CallInv /\ DumpSound /\ obj = NoObj
  BY DEF MutatorInv, Collecting
<1>2. /\ WellFormed([mem |-> mem, heap |-> heap, word |-> word, top |-> top,
                     extra |-> extra, need |-> need])
      /\ snapshot = Dump(DOMAIN mem) /\ Fits
  BY <1>1 DEF CollectInv, CollectPreservesGraph, CollectLeavesWellFormed, CollectMakesRoom, Fits
<1>3. /\ IsFiniteSet(DOMAIN mem) /\ DOMAIN mem \subseteq Nat /\ mem \in [DOMAIN mem -> Object]
      /\ \A h \in DOMAIN mem : SizeWords(mem[h].kind, mem[h].len) > 0
      /\ heap.begin \in Nat /\ heap.current \in Nat /\ word \in [Words -> Int]
      /\ heap.current <= heap.begin + heap.size
      /\ RootWords(top, extra) \subseteq Words
      /\ Walkable(mem, heap.begin, heap.current) /\ Clean(mem)
      /\ FieldsPointToObjects(mem, heap.begin, heap.current)
      /\ RootsPointToObjects(mem, heap.begin, heap.current, word, top, extra)
  BY <1>2 DEF WellFormed
<1>4. /\ \A a \in RootWords(top, extra) : snapshot.roots[a] = Denotes(word[a])
      /\ \A a \in Words \ RootWords(top, extra) : snapshot.others[a] = word[a]
      /\ snapshot.objects = {DumpObject(DOMAIN mem, h) : h \in DOMAIN mem}
  BY <1>2 DEF Dump
<1>5. WordsSound(word, RootWords(top, extra))
  <2> SUFFICES ASSUME NEW a \in RootWords(top, extra) PROVE Sound(word[a])
    BY DEF WordsSound
  <2>1. word[a] \in Int /\ PointsToObject(mem, heap.begin, heap.current, word[a])
    BY <1>3 DEF RootsPointToObjects
  <2>2. SoundDenotation(Denotes(word[a]))
    BY <1>1, <1>4 DEF DumpSound
  <2> QED BY <1>3, <2>1, <2>2, DenotedIsSound
<1>6. FieldsSound
  <2> SUFFICES ASSUME NEW h \in DOMAIN mem, NEW i \in DOMAIN mem[h].fields
               PROVE  Sound(mem[h].fields[i])
    BY DEF FieldsSound
  <2>1. mem[h].fields[i] \in Int /\ PointsToObject(mem, heap.begin, heap.current, mem[h].fields[i])
    <3>1. mem[h].fields \in Seq(Int)
      BY <1>3 DEF Object
    <3> QED BY <1>3, <3>1 DEF FieldsPointToObjects
  <2>2. SoundDenotation(Denotes(mem[h].fields[i]))
    <3>1. PICK r \in snapshot.objects : r = DumpObject(DOMAIN mem, h)
      BY <1>4
    <3>2. r.fields = [j \in DOMAIN mem[h].fields |-> Denotes(mem[h].fields[j])]
      BY <3>1 DEF DumpObject
    <3>3. i \in DOMAIN r.fields /\ r.fields[i] = Denotes(mem[h].fields[i])
      BY <3>2
    <3>4. SoundDenotation(r.fields[i])
      BY <1>1, <3>1, <3>3 DEF DumpSound
    <3> QED BY <3>3, <3>4
  <2> QED BY <1>3, <2>1, <2>2, DenotedIsSound
<1>7. SpareUnboxed(word)
  <2> SUFFICES ASSUME NEW a \in Spare PROVE IsUnboxed(word[a])
    BY DEF SpareUnboxed
  <2>0. a \in Words
    BY Layout
  <2>1. CASE a \in RootWords(top, extra)
    <3>1. Denotes(word[a])[1] = "word" /\ Denotes(word[a])[2] < 0
      BY <1>1, <1>4, <2>1 DEF DumpSound
    <3>2. ~IsValidHeapPointer(word[a])
      BY <3>1 DEF Denotes
    <3> QED BY <3>1, <3>2 DEF Denotes, IsUnboxed
  <2>2. CASE a \notin RootWords(top, extra)
    BY <1>1, <1>4, <2>0, <2>2 DEF DumpSound
  <2> QED BY <2>1, <2>2
<1>8. RootWords(top, <<>>) \subseteq RootWords(top, extra)
  BY DEF RootWords
<1>9. HeapConsistent
  BY <1>3, <1>5, <1>6, <1>7, <1>8 DEF HeapConsistent, WordsSound
<1>10. ASSUME NEW a \in RootWords(top, extra), snapshot.roots[a][1] = "object"
       PROVE  HeaderOf(word[a]) \in DOMAIN mem
  <2>1. Denotes(word[a])[1] = "object"
    BY <1>4, <1>10
  <2>2. IsValidHeapPointer(word[a])
    BY <2>1 DEF Denotes
  <2> QED BY <1>3, <2>2 DEF RootsPointToObjects, PointsToObject, IsValidHeapPointer, InChunk, IsUnboxed
<1> QED BY <1>1, <1>2, <1>3, <1>5, <1>9, <1>10

-----------------------------------------------------------------------------
(* The new object                                                           *)

\* An object is put at the end of the heap.
LEMMA Appended ==
  ASSUME HeapConsistent, heap \in [begin : Nat, current : Nat, size : Nat], Fits,
         need \in Nat, need > 0, NEW o \in Object, ~o.mark, ~o.enq, ObjWords(o) = need,
         \A i \in DOMAIN o.fields : Sound(o.fields[i]),
         mem' = [h \in DOMAIN mem \cup {heap.current} |-> IF h = heap.current THEN o ELSE mem[h]],
         heap' = [heap EXCEPT !.current = @ + need]
  PROVE  /\ IsFiniteSet(DOMAIN mem') /\ DOMAIN mem' \subseteq Nat
         /\ mem' \in [DOMAIN mem' -> Object]
         /\ \A h \in DOMAIN mem' : SizeWords(mem'[h].kind, mem'[h].len) > 0
         /\ Walkable(mem, heap.begin, heap.current)' /\ Clean(mem)'
         /\ heap' \in [begin : Nat, current : Nat, size : Nat] /\ heap'.begin = heap.begin
         /\ heap'.current <= heap'.begin + heap'.size
         /\ \A v : Sound(v) \/ v = ContentOf(heap.current) => Sound(v)'
         /\ FieldsSound'
<1> DEFINE c == heap.current
<1>0. /\ c \in Nat /\ heap.begin \in Nat /\ heap.begin <= c
      /\ heap'.begin = heap.begin /\ heap'.current = c + need /\ heap'.size = heap.size
      /\ heap' \in [begin : Nat, current : Nat, size : Nat]
  BY DEF HeapConsistent, Walkable
<1>1. /\ DOMAIN mem' = DOMAIN mem \cup {c}
      /\ \A h \in DOMAIN mem : h # c => mem'[h] = mem[h]
      /\ mem'[c] = o
  OBVIOUS
<1>2. ASSUME NEW h \in DOMAIN mem
      PROVE  h \in Nat /\ h < c /\ mem'[h] = mem[h] /\ mem[h] \in Object
             /\ NextObj(mem', h) = NextObj(mem, h) /\ NextObj(mem, h) \in Nat
             /\ NextObj(mem, h) <= c /\ NextObj(mem, h) \in DOMAIN mem \cup {c} /\ heap.begin <= h
  <2>1. h \in Nat /\ mem[h] \in Object /\ SizeWords(mem[h].kind, mem[h].len) > 0
    BY DEF HeapConsistent
  <2>2. ObjWords(mem[h]) \in Int /\ ObjWords(mem[h]) > 0
    <3>1. mem[h].kind \in Kinds /\ mem[h].len \in Nat
      BY <2>1 DEF Object
    <3> QED BY <2>1, <3>1 DEF ObjWords, SizeWords, HeaderWords, Kinds
  <2>3. NextObj(mem, h) <= c /\ NextObj(mem, h) \in DOMAIN mem \cup {c} /\ heap.begin <= h
    BY DEF HeapConsistent, Walkable
  <2>4. NextObj(mem, h) \in Nat /\ h < NextObj(mem, h)
    BY <2>1, <2>2 DEF NextObj
  <2>5. h < c
    BY <1>0, <2>1, <2>3, <2>4
  <2>6. mem'[h] = mem[h]
    BY <1>0, <1>1, <2>1, <2>5
  <2> QED BY <2>1, <2>3, <2>4, <2>5, <2>6 DEF NextObj
<1>3. NextObj(mem', c) = c + need
  BY <1>1 DEF NextObj
<1> HIDE DEF c
<1>4. Walkable(mem', heap.begin, c + need)
  <2>1. heap.begin <= c + need /\ heap.begin \in DOMAIN mem' \cup {c + need}
    BY <1>0, <1>1 DEF HeapConsistent, Walkable, c
  <2>2. ASSUME NEW h \in DOMAIN mem'
        PROVE  /\ heap.begin <= h /\ NextObj(mem', h) \in DOMAIN mem' \cup {c + need}
               /\ NextObj(mem', h) <= c + need
    <3>1. CASE h = c
      BY <1>0, <1>3, <3>1
    <3>2. CASE h \in DOMAIN mem
      BY <1>0, <1>1, <1>2, <3>2
    <3> QED BY <1>1, <3>1, <3>2
  <2>3. ASSUME NEW g \in DOMAIN mem', NEW h \in DOMAIN mem', g < h
        PROVE  NextObj(mem', g) <= h
    <3>1. CASE g \in DOMAIN mem /\ h \in DOMAIN mem
      BY <1>2, <2>3, <3>1 DEF HeapConsistent, Walkable
    <3>2. CASE g \in DOMAIN mem /\ h = c
      BY <1>2, <3>2
    <3>3. CASE g = c
      <4>1. h = c \/ (h \in Nat /\ h < c)
        BY <1>1, <1>2
      <4> QED BY <1>0, <2>3, <3>3, <4>1 DEF c
    <3> QED BY <1>1, <3>1, <3>2, <3>3
  <2> QED BY <2>1, <2>2, <2>3 DEF Walkable
<1>5. /\ IsFiniteSet(DOMAIN mem') /\ DOMAIN mem' \subseteq Nat
  <2>1. IsFiniteSet(DOMAIN mem) /\ DOMAIN mem \subseteq Nat
    BY DEF HeapConsistent
  <2> QED BY <1>0, <1>1, <2>1, FS_AddElement
<1>6. mem' \in [DOMAIN mem' -> Object]
  <2>1. \A h \in DOMAIN mem' : mem'[h] \in Object
    BY <1>1, <1>2
  <2> QED BY <2>1
<1>7. /\ \A h \in DOMAIN mem' : SizeWords(mem'[h].kind, mem'[h].len) > 0
      /\ Clean(mem')
  <2>1. SizeWords(o.kind, o.len) > 0
    BY DEF ObjWords
  <2> QED BY <1>1, <1>2, <2>1 DEF HeapConsistent, Clean
<1>8. HeaderOf(ContentOf(c)) = c
  BY <1>0 DEF HeaderOf, ContentOf, HeaderWords, c
<1>9. \A v : Sound(v) \/ v = ContentOf(c) => Sound(v)'
  BY <1>1, <1>8 DEF Sound
<1>10. FieldsSound'
  <2> SUFFICES ASSUME NEW h \in DOMAIN mem', NEW i \in DOMAIN mem'[h].fields
               PROVE  \/ mem'[h].fields[i] < GlobalStop
                      \/ HeaderOf(mem'[h].fields[i]) \in DOMAIN mem'
    BY DEF FieldsSound, Sound
  <2>1. PICK v : v = mem'[h].fields[i]
    OBVIOUS
  <2>2. Sound(v)
    <3>1. CASE h = c
      BY <1>1, <2>1, <3>1
    <3>2. CASE h \in DOMAIN mem
      BY <1>2, <2>1, <3>2 DEF HeapConsistent, FieldsSound
    <3> QED BY <1>1, <3>1, <3>2
  <2>3. Sound(v)'
    BY <1>9, <2>2
  <2> QED BY <2>1, <2>3 DEF Sound
<1>11. c + need <= heap.begin + heap.size
  BY DEF Fits, c
<1> QED BY <1>0, <1>4, <1>5, <1>6, <1>7, <1>8, <1>9, <1>10, <1>11 DEF c

\* The call returns, and its result is pushed.
LEMMA Finished ==
  ASSUME HeapConsistent, ProcessInv, CallInv, Fits, obj = NoObj,
         NEW o \in Object, ~o.mark, ~o.enq, ObjWords(o) = need,
         \A i \in DOMAIN o.fields : Sound(o.fields[i]),
         FinishWith(o)
  PROVE  RunInv' /\ phase' = "run"
<1>1. /\ mem' = [h \in DOMAIN mem \cup {heap.current} |-> IF h = heap.current THEN o ELSE mem[h]]
      /\ heap' = [heap EXCEPT !.current = @ + need]
      /\ ids' = ids + 1 /\ phase' = "run" /\ old' = heap' /\ live' = 0 /\ fld' = 1 /\ obj' = NoObj
  BY Zenon DEF FinishWith
<1>2. PICK w, n, vs :
        /\ w = [word EXCEPT ![LocalP] = Number, ![LocalQ] = Number]
        /\ n = call.pops /\ vs = <<ContentOf(heap.current)>>
        /\ Replace(w, n, vs)
  BY Zenon DEF FinishWith
<1>3. need \in Nat /\ need > 0
  BY DEF CallInv, SizeWords, HeaderWords, Kinds
<1>4. heap \in [begin : Nat, current : Nat, size : Nat] /\ GlobalStop <= heap.begin /\ ids \in Nat
  BY DEF ProcessInv
<1>5. /\ IsFiniteSet(DOMAIN mem') /\ DOMAIN mem' \subseteq Nat
      /\ mem' \in [DOMAIN mem' -> Object]
      /\ \A h \in DOMAIN mem' : SizeWords(mem'[h].kind, mem'[h].len) > 0
      /\ Walkable(mem, heap.begin, heap.current)' /\ Clean(mem)'
      /\ heap' \in [begin : Nat, current : Nat, size : Nat] /\ heap'.begin = heap.begin
      /\ heap'.current <= heap'.begin + heap'.size
      /\ \A v : Sound(v) \/ v = ContentOf(heap.current) => Sound(v)'
      /\ FieldsSound'
  BY <1>1, <1>3, <1>4, Appended
<1>6. /\ w \in [Words -> Int] /\ \A a \in Words : a <= GlobalStop => w[a] = word[a]
  BY <1>2, Layout DEF ProcessInv
<1>7. /\ top \in Nat /\ top < StackBottom /\ n \in Nat /\ n <= Depth /\ top + n >= 1
      /\ (top + n) .. (StackBottom - 1) \subseteq Words
      /\ RootWords(top, <<>>) = ((top + 1) .. (StackBottom - 1)) \cup Globals
      /\ RootWords(top, <<>>) \subseteq Words
  BY <1>2, OperandsAndGlobals DEF ProcessInv, CallInv
<1>8. vs \in Seq(Int) /\ Len(vs) = 1 /\ \A i \in DOMAIN vs : vs[i] = ContentOf(heap.current)
  <2>1. ContentOf(heap.current) \in Int
    BY <1>4 DEF ContentOf, HeaderWords
  <2>2. vs = <<ContentOf(heap.current)>>
    BY <1>2
  <2> QED BY ONLY <2>1, <2>2
<1> DEFINE S == {word[a] : a \in RootWords(top, <<>>)} \cup {ContentOf(heap.current)}
<1>9. \A v \in S : Sound(v)'
  BY <1>5 DEF HeapConsistent, WordsSound
<1>10. \A a \in ((top + n + 1) .. (StackBottom - 1)) \cup Globals : w[a] \in S
  <2> SUFFICES ASSUME NEW a \in ((top + n + 1) .. (StackBottom - 1)) \cup Globals
               PROVE  w[a] \in S
    OBVIOUS
  <2>1. a \in RootWords(top, <<>>) /\ a <= GlobalStop
    <3>1. CASE a \in Globals
      BY <1>7, <3>1, Layout
    <3>2. CASE a \in (top + n + 1) .. (StackBottom - 1)
      <4>1. a \in (top + 1) .. (StackBottom - 1) /\ a <= GlobalStop
        BY <1>7, <3>2, Layout
      <4> QED BY <1>7, <4>1
    <3> QED BY <3>1, <3>2
  <2>2. w[a] = word[a]
    BY <1>6, <1>7, <2>1
  <2> QED BY <2>1, <2>2
<1>11. \A i \in DOMAIN vs : vs[i] \in S
  BY <1>8
<1>12. SpareUnboxed(w)
  BY SMTT(30), <1>6, Layout DEF SpareUnboxed, HeapConsistent
<1> HIDE DEF S
<1>13. top + n - Len(vs) \in Nat /\ (top + n - Len(vs) + 1) .. (StackBottom - 1) \subseteq Words
  <2>1. top + n - Len(vs) = top + n - 1 /\ top + n - 1 + 1 = top + n
    BY <1>7, <1>8
  <2> QED BY <1>7, <2>1
<1>14. Replace(w, n, vs)
  BY <1>2
<1>15. /\ word' \in [Words -> Int] /\ top' \in Nat /\ top' < StackBottom
       /\ RootWords(top', <<>>) \subseteq Words
       /\ \A a \in RootWords(top', <<>>) : word'[a] \in S
       /\ SpareUnboxed(word')
  BY <1>6, <1>7, <1>8, <1>10, <1>11, <1>12, <1>13, <1>14, ReplacedWithin
<1>16. WordsSound(word, RootWords(top, <<>>))'
  BY <1>9, <1>15 DEF WordsSound, Sound
<1>17. HeapConsistent'
  BY <1>5, <1>15, <1>16 DEF HeapConsistent, SpareUnboxed
<1>18. ProcessInv'
  BY <1>1, <1>4, <1>5, <1>15 DEF ProcessInv
<1> QED BY <1>1, <1>17, <1>18 DEF RunInv

\* The object that an interpreter's request is for is filled from its operands.
LEMMA NewObjectIsSound ==
  ASSUME HeapConsistent, ProcessInv, CallInv, call.fn \in Allocators
  PROVE  /\ NewObject \in Object /\ ~NewObject.mark /\ ~NewObject.enq
         /\ ObjWords(NewObject) = need
         /\ \A i \in DOMAIN NewObject.fields : Sound(NewObject.fields[i])
<1> DEFINE n == FieldCount(call.kind, call.len)
           fields == Arguments(n)
<1>1. /\ n \in Nat /\ n <= Depth /\ top \in Nat /\ top < StackBottom
      /\ call.kind \in Kinds /\ call.len \in Nat /\ ids \in Nat
      /\ need = SizeWords(call.kind, call.len)
  BY Layout DEF CallInv, ProcessInv, Depth
<1> HIDE DEF n
<1>2. ASSUME NEW i \in 1..n
      PROVE  word[top + i] \in Int /\ Sound(word[top + i])
  <2>1. top + i \in (top + 1) .. (StackBottom - 1)
    BY <1>1, Layout DEF Depth
  <2>2. top + i \in RootWords(top, <<>>)
    BY <1>1, <2>1, OperandsAndGlobals
  <2> QED BY <2>2 DEF HeapConsistent, WordsSound, ProcessInv
<1>3. DOMAIN fields = 1..n /\ \A i \in 1..n : fields[i] = word[top + i]
  BY DEF Arguments
<1>4. fields \in Seq(Int) /\ \A i \in DOMAIN fields : Sound(fields[i])
  BY <1>1, <1>2, <1>3 DEF Arguments
<1> HIDE DEF fields
<1>5. NewObject = [kind |-> call.kind, len |-> call.len, fields |-> fields,
                   fwd |-> 0, mark |-> FALSE, enq |-> FALSE, id |-> ids + 1]
  BY DEF NewObject, ObjectWith, fields, n
<1> QED BY <1>1, <1>4, <1>5 DEF Object, ObjWords

\* A call of the interpreter returns, or finds no room to register its result.
LEMMA ReturnStep ==
  ASSUME HeapConsistent, ProcessInv, CallInv, Fits, obj = NoObj, call.fn \in Allocators, Return
  PROVE  MutatorInv' /\ phase' \in {"run", "exit"}
<1>1. CASE PoolOverflow
  BY <1>1 DEF PoolOverflow, MutatorInv, Between, Collecting, Scanning, Compacting
<1>2. CASE Finish
  <2>1. RunInv' /\ phase' = "run"
    BY <1>2, NewObjectIsSound, Finished DEF Finish
  <2>2. Running'
    BY <2>1 DEF Running
  <2>3. MutatorInv'
    BY <2>1, <2>2, RunningInv, PTL
  <2> QED BY <2>1, <2>3
<1> QED BY <1>1, <1>2 DEF Return

-----------------------------------------------------------------------------
(* The program                                                              *)

\* The invariant is about the memory, the collection and the call.
LEMMA MutatorStutters ==
  ASSUME MutatorInv, UNCHANGED <<mutatorVars, snapshot>>
  PROVE  MutatorInv'
<1>1. /\ UNCHANGED <<mem, heap, word, top, extra, old, live, phase, need, obj, fld, call, ids, snapshot>>
      /\ UNCHANGED collectVars
  BY DEF mutatorVars, gcVars, heapVars, markVars, compactVars, collectVars
<1>2. CollectInv => CollectInv'
  BY <1>1, CollectStutters
<1>3. \A v : Sound(v)' <=> Sound(v)
  BY <1>1 DEF Sound
<1>4. RootWords(top, extra)' = RootWords(top, extra) /\ RootWords(top, <<>>)' = RootWords(top, <<>>)
  BY <1>1 DEF RootWords
<1>5. /\ FieldsSound' <=> FieldsSound
      /\ WordsSound(word, RootWords(top, extra))' <=> WordsSound(word, RootWords(top, extra))
      /\ WordsSound(word, RootWords(top, <<>>))' <=> WordsSound(word, RootWords(top, <<>>))
      /\ SpareUnboxed(word)' <=> SpareUnboxed(word)
  BY <1>1, <1>3, <1>4 DEF FieldsSound, WordsSound, SpareUnboxed
<1>6. HeapConsistent' <=> HeapConsistent
  BY <1>1, <1>5 DEF HeapConsistent, Walkable, Clean, NextObj, ObjWords
<1>7. (ProcessInv' <=> ProcessInv) /\ (CallInv' <=> CallInv) /\ (RootsInv' <=> RootsInv)
  BY <1>1, <1>4, <1>5 DEF ProcessInv, CallInv, RootsInv, Depth
<1>8. DumpSound' <=> DumpSound
  BY <1>1, <1>4 DEF DumpSound
<1> QED BY <1>1, <1>2, <1>5, <1>6, <1>7, <1>8 DEF MutatorInv

\* The program starts with an empty heap.
LEMMA MutatorInitially == RefinementInit => MutatorInv /\ phase = "run"
<1> SUFFICES ASSUME RefinementInit PROVE MutatorInv /\ phase = "run"
  OBVIOUS
<1>1. PICK i \in Images : /\ mem = i.mem /\ heap = i.heap /\ word = i.word /\ top = i.top
                          /\ extra = i.extra /\ old = i.heap
  BY DEF RefinementInit, MutatorInit
<1>2. /\ phase = "run" /\ obj = NoObj /\ fld = 1 /\ live = 0 /\ ids = 0
  BY DEF RefinementInit, MutatorInit
<1>3. WellFormed(i) /\ DOMAIN i.mem = {} /\ (\A a \in Words : i.word[a] = Number)
      /\ GlobalStop <= i.heap.begin
  BY ImagesAssumption, ProgramAssumption
<1>4. /\ DOMAIN mem = {} /\ IsFiniteSet(DOMAIN mem) /\ mem \in [DOMAIN mem -> Object]
      /\ heap \in [begin : Nat, current : Nat, size : Nat] /\ GlobalStop <= heap.begin
      /\ heap.current <= heap.begin + heap.size
      /\ word \in [Words -> Int] /\ top \in Nat /\ top < StackBottom
      /\ RootWords(top, extra) \subseteq Words
      /\ Walkable(mem, heap.begin, heap.current) /\ Clean(mem)
      /\ \A a \in Words : word[a] \in Int /\ word[a] < 0
  BY <1>1, <1>3, Layout DEF WellFormed
<1>5. RootWords(top, <<>>) \subseteq Words
  BY <1>4 DEF RootWords
<1>6. ProcessInv
  BY <1>2, <1>4, <1>5 DEF ProcessInv
<1>7. FieldsSound /\ WordsSound(word, RootWords(top, <<>>)) /\ SpareUnboxed(word)
  <2>1. \A a \in Words : Sound(word[a])
    <3>1. GlobalStop \in Nat
      BY Layout
    <3>2. \A a \in Words : word[a] \in Int /\ word[a] < 0
      BY <1>4
    <3> QED BY ONLY <3>1, <3>2 DEF Sound
  <2>2. WordsSound(word, RootWords(top, <<>>))
    BY <1>5, <2>1 DEF WordsSound
  <2>3. SpareUnboxed(word)
    <3>1. Spare \subseteq Words
      BY Layout
    <3>2. \A a \in Words : word[a] < 0
      BY <1>4
    <3> QED BY <3>1, <3>2 DEF SpareUnboxed, IsUnboxed
  <2>4. FieldsSound
    BY <1>4 DEF FieldsSound
  <2> QED BY <2>2, <2>3, <2>4
<1>8. HeapConsistent
  BY <1>4, <1>7 DEF HeapConsistent
<1>9. RunInv
  BY <1>1, <1>2, <1>6, <1>8 DEF RunInv
<1> QED BY <1>2, <1>9, RunningInv DEF Running

\* A collection is over before the program runs again.
LEMMA CollectGoesOn ==
  ASSUME Collect
  PROVE  phase \in Scanning \cup Compacting /\ phase' # "run"
<1> USE DEF Scanning, Compacting
<1>1. CASE ScanStack \/ ScanExtra \/ ScanGlobals
  BY <1>1 DEF ScanStack, ScanExtra, ScanGlobals, ScanRoot, Mark, Reading
<1>2. CASE EndScanStack \/ EndScanExtra \/ EndScanGlobals
  BY <1>2 DEF EndScanStack, EndScanExtra, EndScanGlobals, EndScan
<1>3. CASE Dequeue
  BY <1>3 DEF Dequeue, Reading
<1>4. CASE ScanField
  BY <1>4 DEF ScanField, Reading
<1>5. CASE FinishObject
  BY <1>5 DEF FinishObject
<1>6. CASE ComputeLocation \/ EndCompute
  BY <1>6 DEF ComputeLocation, EndCompute, Reading
<1>7. CASE Resize \/ ResizeFails
  BY <1>7 DEF Resize, ResizeFails
<1>8. CASE FixFields
  BY <1>8 DEF FixFields, Reading
<1>9. CASE FixStack \/ FixExtra \/ FixGlobals
  BY <1>9 DEF FixStack, FixExtra, FixGlobals, FixWord, SkipWord, Reading
<1>10. CASE EndFixFields \/ EndFixStack \/ EndFixExtra \/ EndFixGlobals
  BY <1>10 DEF EndFixFields, EndFixStack, EndFixExtra, EndFixGlobals, EndFix
<1>11. CASE Relocate \/ EndRelocate
  BY <1>11 DEF Relocate, EndRelocate, Reading
<1> QED BY <1>1, <1>2, <1>3, <1>4, <1>5, <1>6, <1>7, <1>8, <1>9, <1>10, <1>11
        DEF Collect, MarkNext, CompactNext

\* An instruction leaves the program running, or at a call that the interpreter made.
LEMMA InstructionKept ==
  ASSUME MutatorInv, Simple \/ Allocating
  PROVE  /\ MutatorInv' /\ phase' \in {"run", "request", "exit"}
         /\ phase' = "request" => call'.fn \in Allocators
<1>1. CASE Simple
  <2>1. RunInv' /\ phase' = "run"
    BY <1>1, SimpleStep
  <2>2. Running'
    BY <2>1 DEF Running
  <2>3. MutatorInv'
    BY <2>1, <2>2, RunningInv, PTL
  <2> QED BY <2>1, <2>3
<1>2. CASE Allocating
  <2>1. ASSUME NEW fn \in Allocators, NEW kind, NEW len, NEW pops, NEW roots,
               Request(fn, kind, len, pops, roots)
        PROVE  phase' \in {"request", "exit"} /\ (phase' = "request" => call'.fn \in Allocators)
    BY <2>1 DEF Request
  <2>2. \E fn \in Allocators : \E kind, len, pops, roots : Request(fn, kind, len, pops, roots)
    <3>1. ASSUME NEW len, CallString(len) \/ CallLstring(len)
          PROVE  \E fn \in Allocators : \E kind, l, pops, roots : Request(fn, kind, l, pops, roots)
      BY <3>1, Zenon DEF CallString, CallLstring, Allocators
    <3>2. ASSUME NEW n, CallArray(n) \/ CallSexp(n) \/ CallClosure(n)
          PROVE  \E fn \in Allocators : \E kind, l, pops, roots : Request(fn, kind, l, pops, roots)
      BY <3>2, Zenon DEF CallArray, CallSexp, CallClosure, Capture, Allocators
    <3> QED BY <1>2, <3>1, <3>2, Zenon DEF Allocating
  <2>3. MutatorInv'
    BY <1>2, AllocatingStep
  <2> QED BY <2>1, <2>2, <2>3, Zenon
<1> QED BY <1>1, <1>2

\* What a function that has its memory can rely on.
LEMMA AllocatedIsConsistent ==
  ASSUME MutatorInv, (phase = "request" /\ Fits) \/ phase = "alloc"
  PROVE  HeapConsistent /\ ProcessInv /\ CallInv /\ Fits /\ obj = NoObj
<1>1. CASE phase = "request" /\ Fits
  BY <1>1 DEF MutatorInv, Between
<1>2. CASE phase = "alloc"
  BY <1>2, CollectedIsConsistent
<1> QED BY <1>1, <1>2

\* The steps of a call of the runtime made by the interpreter.
LEMMA RuntimeKept ==
  ASSUME ProgramInv, Runtime, Recorded
  PROVE  ProgramInv'
<1>1. ASSUME (phase = "request" /\ Fits) \/ phase = "alloc", Return
      PROVE  ProgramInv'
  <2>1. call.fn \in Allocators
    BY <1>1 DEF ProgramInv, Collecting
  <2>2. MutatorInv' /\ phase' \in {"run", "exit"}
    BY <1>1, <2>1, AllocatedIsConsistent, ReturnStep DEF ProgramInv
  <2> QED BY <2>2 DEF ProgramInv, Collecting, Scanning, Compacting
<1>2. CASE AllocateAtOnce
  BY <1>1, <1>2 DEF AllocateAtOnce, AtOnce
<1>3. CASE AllocateAfterCollection
  <2>1. phase = "alloc"
    BY <1>3 DEF AllocateAfterCollection, AfterCollection
  <2>2. Return
    BY <1>3, <2>1, AllocatedIsConsistent DEF AllocateAfterCollection, AfterCollection, ProgramInv
  <2> QED BY <1>1, <2>1, <2>2
<1>4. CASE StartCollection
  <2>1. phase = "request" /\ UNCHANGED call
    BY <1>4 DEF StartCollection
  <2>2. MutatorInv'
    BY <1>4, StartCollectionStep DEF ProgramInv
  <2> QED BY <2>1, <2>2 DEF ProgramInv
<1>5. CASE Collect
  <2>1. phase \in Collecting /\ phase' # "run" /\ UNCHANGED call
    BY <1>5, CollectGoesOn DEF Collecting, Collect
  <2>2. MutatorInv'
    BY <1>5, <2>1, CollectingStep DEF ProgramInv, Recorded
  <2> QED BY <2>1, <2>2 DEF ProgramInv
<1> QED BY <1>2, <1>3, <1>4, <1>5 DEF Runtime

\* Every step of a program and its collector keeps the invariant.
LEMMA ProgramStep == ProgramInv /\ [RefinementNext]_refinementVars => ProgramInv'
<1> SUFFICES ASSUME ProgramInv, [RefinementNext]_refinementVars PROVE ProgramInv'
  OBVIOUS
<1>1. CASE UNCHANGED refinementVars
  <2>1. UNCHANGED <<mutatorVars, snapshot>> /\ UNCHANGED <<phase, call>>
    BY <1>1 DEF refinementVars, mutatorVars, gcVars
  <2> QED BY <2>1, MutatorStutters DEF ProgramInv
<1>2. CASE RefinementNext /\ (Simple \/ Allocating)
  <2>1. MutatorInv' /\ phase' \in {"run", "request", "exit"} /\ (phase' = "request" => call'.fn \in Allocators)
    BY <1>2, InstructionKept DEF ProgramInv
  <2> QED BY <2>1 DEF ProgramInv, Collecting, Scanning, Compacting
<1>3. CASE RefinementNext /\ Runtime
  BY <1>3, RuntimeKept DEF RefinementNext
<1>4. CASE RefinementNext /\ OutOfRange
  BY <1>4, OutOfRangeStep DEF ProgramInv, Collecting, Scanning, Compacting
<1> QED BY <1>1, <1>2, <1>3, <1>4 DEF RefinementNext, MutatorNext

\* At every instruction, and in every phase of a collection, the values that the program
\* has in its stack, its globals and its objects are numbers or addresses of objects.
THEOREM ProgramInvariant == RefinementSpec => []ProgramInv
<1>1. RefinementInit => ProgramInv
  BY MutatorInitially DEF ProgramInv, Collecting, Scanning, Compacting
<1> QED BY <1>1, ProgramStep, PTL DEF RefinementSpec

\* As long as a program's indices are in range, no collection and no instruction of it
\* reads a header where there is none, and no call returns without memory.
THEOREM MutatorSafe == RefinementSpec => []MutatorNoCrash
<1>1. ProgramInv => MutatorNoCrash
  BY DEF ProgramInv, MutatorInv, MutatorNoCrash, Between, Collecting, Scanning, Compacting
<1> QED BY <1>1, ProgramInvariant, PTL

\* Whatever an instruction has popped, moved or reversed when it asks for memory, a
\* collection may start there.
THEOREM RequestsReady == RefinementSpec => []RequestsWellFormed
<1>1. ProgramInv => RequestsWellFormed
  BY RequestIsReady DEF ProgramInv, RequestsWellFormed
<1> QED BY <1>1, ProgramInvariant, PTL

-----------------------------------------------------------------------------
(* The library                                                              *)

\* The functions of the library but for ":", which registers its parameters and not
\* the copies of them that it passes to Bsexp.
Registering == LibraryFunctions \ {"Ls__Infix_58"}

LEMMA LibraryNames ==
  /\ Registering = {"Lclone", "Lsubstring", "Li__Infix_4343", "LmakeArray"}
  /\ Registering \cap Allocators = {}
BY DEF Registering, LibraryFunctions, Allocators

\* A function pops its arguments, and keeps those it registers where they are found.
LEMMA EnterStep ==
  ASSUME RunInv, NEW fn \in Registering, NEW kind \in Kinds, NEW len \in Nat, NEW n \in Nat \ {0},
         NEW roots, roots \in Seq({LocalP, LocalQ}), NEW arguments,
         DOMAIN arguments \subseteq {LocalP, LocalQ},
         \A w \in DOMAIN arguments : arguments[w] \in Int,
         \A i \in DOMAIN roots : roots[i] \in DOMAIN arguments /\ Sound(arguments[roots[i]]),
         \A i, j \in DOMAIN roots : roots[i] = roots[j] => i = j,
         Enter(fn, kind, len, n, roots, arguments)
  PROVE  /\ MutatorInv' /\ phase' \in {"request", "exit"}
         /\ phase' = "request" =>
              /\ extra' = roots /\ mem' = mem
              /\ call' = [fn |-> fn, pops |-> 0, kind |-> kind, len |-> len]
              /\ \A w \in DOMAIN arguments : word'[w] = arguments[w]
<1>1. /\ Depth >= n /\ Request(fn, kind, len, 0, roots) /\ top' = top + n
      /\ word' = [w \in Words |-> IF w \in DOMAIN arguments THEN arguments[w] ELSE word[w]]
  BY Zenon DEF Enter
<1>2. top \in Nat /\ top < StackBottom /\ word \in [Words -> Int]
  BY OperandsSound
<1>3. top' \in Nat /\ top <= top' /\ top' < StackBottom
  BY <1>1, <1>2, Layout DEF Depth
<1>4. /\ word' \in [Words -> Int] /\ \A a \in Words : a <= GlobalStop => word'[a] = word[a]
      /\ \A w \in DOMAIN arguments : word'[w] = arguments[w]
  BY <1>1, <1>2, Layout
<1>5. /\ RootWords(top', <<>>) \subseteq Words
      /\ WordsSound(word', RootWords(top', <<>>)) /\ SpareUnboxed(word')
  BY <1>2, <1>3, <1>4, LocalsWritten
<1>6. Registered(roots, top', word')
  <2>1. \A i \in DOMAIN roots : roots[i] \in {LocalP, LocalQ}
    OBVIOUS
  <2>2. roots \in Seq(Words)
    <3>1. {LocalP, LocalQ} \subseteq Words
      BY Layout
    <3> QED BY <3>1
  <2>3. \A i \in DOMAIN roots : roots[i] \notin {top', GlobalStop} /\ Sound(word'[roots[i]])
    BY <1>3, <1>4, <2>1, Layout
  <2> QED BY <2>2, <2>3 DEF Registered
<1>7. Admissible(fn, kind, len, 0, top')
  <2>1. SizeWords(kind, len) > 0
    BY DEF SizeWords, HeaderWords, Kinds
  <2>2. PICK t \in Nat : t = top' /\ t = top + n /\ t < StackBottom
    BY <1>1, <1>3
  <2>3. StackBottom \in Nat /\ fn \notin Allocators
    BY LibraryNames, Layout
  <2>4. t + 0 >= 1 /\ 0 <= StackBottom - 1 - t
    BY <1>2, <2>2, <2>3
  <2>5. (t + 0) .. (StackBottom - 1) \subseteq Words
    <3>1. (top + 1) .. (StackBottom - 1) \subseteq Words
      BY <1>2, OperandsAndGlobals DEF RunInv, ProcessInv
    <3>2. (t + 0) .. (StackBottom - 1) \subseteq (top + 1) .. (StackBottom - 1)
      BY <1>2, <2>2, <2>3
    <3> QED BY <3>1, <3>2
  <2>6. kind \in Kinds /\ len \in Nat /\ 0 \in Nat
    OBVIOUS
  <2>7. Admissible(fn, kind, len, 0, t)
    BY ONLY <2>1, <2>3, <2>4, <2>5, <2>6 DEF Admissible
  <2> QED BY <2>2, <2>7
<1>8. MutatorInv'
  BY <1>1, <1>3, <1>4, <1>5, <1>6, <1>7, RequestStep
<1>9. /\ phase' \in {"request", "exit"}
      /\ phase' = "request" => extra' = roots /\ mem' = mem
                                 /\ call' = [fn |-> fn, pops |-> 0, kind |-> kind, len |-> len]
  BY <1>1 DEF Request
<1> QED BY <1>4, <1>8, <1>9

\* What the parameters are from which a function copies.
LEMMA SourcesKeptAtRequest ==
  ASSUME phase' = "request",
         \A i \in DOMAIN Sources' : /\ \E j \in DOMAIN extra' : extra'[j] = Sources'[i]
                                   /\ HeaderOf(word'[Sources'[i]]) \in DOMAIN mem'
  PROVE  SourcesKept'
BY DEF SourcesKept, RootWords, Scanning, Compacting

LEMMA CallCloneStep ==
  ASSUME RunInv, CallClone
  PROVE  LibraryInv' /\ phase' \in {"request", "exit"}
<1>1. Depth >= 1 /\ IsValidHeapPointer(word[top + 1])
  BY Zenon DEF CallClone, Operand
<1>0. PICK v, o, arguments, roots, length :
        /\ v = word[top + 1] /\ o = mem[HeaderOf(v)]
        /\ arguments = [w \in {LocalP, LocalQ} |->
                          IF w = LocalP \/ o.kind = "STRING" THEN v ELSE word[w]]
        /\ roots = CloneRoots(o.kind) /\ length \in CloneLens(o)
        /\ Enter("Lclone", o.kind, length, 1, roots, arguments)
  BY Zenon DEF CallClone, Operand
<1>2. PICK fn, kind, len, n :
        /\ fn = "Lclone" /\ kind = o.kind /\ len = length /\ n = 1
        /\ Enter(fn, kind, len, n, roots, arguments)
  BY <1>0, Zenon
<1>3. /\ HeaderOf(v) \in DOMAIN mem /\ o \in Object /\ o.kind \in Kinds /\ o.len \in Nat
      /\ v \in Int /\ Sound(v)
  <2>1. PICK k \in Nat \ {0} : k = 1 /\ k <= Depth
    BY <1>1
  <2> QED BY <1>0, <1>1, <2>1, ContainerIsObject, OperandsSound DEF Object
<1>4. /\ DOMAIN arguments \subseteq {LocalP, LocalQ} /\ DOMAIN arguments = {LocalP, LocalQ}
      /\ arguments[LocalP] = v /\ (o.kind = "STRING" => arguments[LocalQ] = v)
      /\ \A w \in DOMAIN arguments : arguments[w] \in Int
  BY <1>0, <1>3, OperandsSound, Layout
<1>5. roots = IF o.kind = "STRING" THEN <<LocalP, LocalQ>> ELSE <<LocalP>>
  BY <1>0 DEF CloneRoots
<1>6. /\ roots \in Seq({LocalP, LocalQ})
      /\ \A i \in DOMAIN roots : roots[i] \in DOMAIN arguments /\ arguments[roots[i]] = v
      /\ \A i, j \in DOMAIN roots : roots[i] = roots[j] => i = j
  <2>1. LocalP # LocalQ
    BY Layout
  <2> QED BY ONLY SMTT(30), <1>4, <1>5, <2>1
<1>7. fn \in Registering /\ kind \in Kinds /\ len \in Nat /\ n \in Nat \ {0}
  BY <1>0, <1>2, <1>3, LibraryNames DEF CloneLens
<1>8. /\ MutatorInv' /\ phase' \in {"request", "exit"}
      /\ phase' = "request" =>
           /\ extra' = roots /\ mem' = mem
           /\ call' = [fn |-> fn, pops |-> 0, kind |-> kind, len |-> len]
           /\ \A w \in DOMAIN arguments : word'[w] = arguments[w]
  <2>1. \A i \in DOMAIN roots : roots[i] \in DOMAIN arguments /\ Sound(arguments[roots[i]])
    BY <1>3, <1>6
  <2>2. Enter(fn, kind, len, n, roots, arguments)
    BY <1>2
  <2> QED BY <1>4, <1>6, <1>7, <2>1, <2>2, EnterStep
<1>9. CASE phase' = "request"
  <2>1. Sources' = IF o.kind = "STRING" THEN <<LocalQ>> ELSE <<LocalP>>
    <3>1. call'.fn = "Lclone" /\ call'.kind = o.kind
      BY <1>2, <1>8, <1>9
    <3>2. CASE o.kind = "STRING"
      <4>1. Sources' = <<LocalQ>>
        BY <3>1, <3>2 DEF Sources
      <4> QED BY <3>2, <4>1
    <3>3. CASE o.kind # "STRING"
      <4>1. call' = [fn |-> "Lclone", pops |-> 0, kind |-> kind, len |-> len] /\ kind # "STRING"
        BY <1>2, <1>8, <1>9, <3>3
      <4>2. Sources' = <<LocalP>>
        BY ONLY <4>1 DEF Sources
      <4> QED BY <3>3, <4>2
    <3> QED BY <3>2, <3>3
  <2>2. \A i \in DOMAIN Sources' : /\ \E j \in DOMAIN roots : roots[j] = Sources'[i]
                                   /\ Sources'[i] \in DOMAIN arguments /\ arguments[Sources'[i]] = v
    <3>1. CASE o.kind = "STRING"
      <4>1. roots = <<LocalP, LocalQ>> /\ Sources' = <<LocalQ>>
        BY <1>5, <2>1, <3>1
      <4>2. 2 \in DOMAIN roots /\ roots[2] = LocalQ /\ \A i \in DOMAIN Sources' : Sources'[i] = LocalQ
        BY <4>1
      <4> QED BY <1>4, <3>1, <4>2
    <3>2. CASE o.kind # "STRING"
      <4>1. roots = <<LocalP>> /\ Sources' = <<LocalP>>
        BY <1>5, <2>1, <3>2
      <4>2. 1 \in DOMAIN roots /\ roots[1] = LocalP /\ \A i \in DOMAIN Sources' : Sources'[i] = LocalP
        BY <4>1
      <4> QED BY <1>4, <4>2
    <3> QED BY <3>1, <3>2
  <2>3. \A i \in DOMAIN Sources' : /\ \E j \in DOMAIN extra' : extra'[j] = Sources'[i]
                                   /\ HeaderOf(word'[Sources'[i]]) \in DOMAIN mem'
    BY <1>3, <1>8, <1>9, <2>2
  <2>4. SourcesKept'
    BY <1>9, <2>3, SourcesKeptAtRequest
  <2>5. call'.fn \in Registering
    BY <1>7, <1>8, <1>9
  <2> QED BY <1>8, <2>4, <2>5 DEF LibraryInv, Registering
<1>10. CASE phase' = "exit"
  BY <1>8, <1>10 DEF LibraryInv, Collecting, Scanning, Compacting
<1> QED BY <1>8, <1>9, <1>10

LEMMA CallSubstringStep ==
  ASSUME RunInv, CallSubstring
  PROVE  LibraryInv' /\ phase' \in {"request", "exit"}
<1>1. Depth >= 1 /\ IsValidHeapPointer(word[top + 1])
  BY Zenon DEF CallSubstring, Operand, IsA
<1>2. PICK v, m, len, arguments, roots, fn, kind, n :
        /\ v = word[top + 1] /\ m = mem[HeaderOf(v)].len /\ len \in 0 .. m
        /\ fn = "Lsubstring" /\ kind = "STRING" /\ n = 1
        /\ arguments = [w \in {LocalP} |-> v] /\ roots = <<LocalP>>
        /\ Enter(fn, kind, len, n, roots, arguments)
  BY Zenon DEF CallSubstring, Operand
<1>3. /\ HeaderOf(v) \in DOMAIN mem /\ m \in Nat /\ v \in Int /\ Sound(v)
  <2>1. PICK k \in Nat \ {0} : k = 1 /\ k <= Depth
    BY <1>1
  <2> QED BY <1>1, <1>2, <2>1, ContainerIsObject, OperandsSound DEF Object
<1>4. DOMAIN arguments \subseteq {LocalP, LocalQ} /\ DOMAIN arguments = {LocalP} /\ arguments[LocalP] = v
  BY <1>2
<1>5. /\ roots \in Seq({LocalP, LocalQ})
      /\ \A i \in DOMAIN roots : roots[i] \in DOMAIN arguments /\ arguments[roots[i]] = v
      /\ \A i, j \in DOMAIN roots : roots[i] = roots[j] => i = j
      /\ 1 \in DOMAIN roots /\ roots[1] = LocalP
  <2>1. roots = <<LocalP>>
    BY <1>2
  <2> QED BY ONLY <1>4, <2>1
<1>6. fn \in Registering /\ n \in Nat \ {0} /\ kind \in Kinds /\ len \in Nat
  BY <1>2, <1>3, LibraryNames DEF Kinds
<1>7. /\ MutatorInv' /\ phase' \in {"request", "exit"}
      /\ phase' = "request" =>
           /\ extra' = roots /\ mem' = mem
           /\ call' = [fn |-> fn, pops |-> 0, kind |-> kind, len |-> len]
           /\ \A w \in DOMAIN arguments : word'[w] = arguments[w]
  <2>1. /\ \A i \in DOMAIN roots : roots[i] \in DOMAIN arguments /\ Sound(arguments[roots[i]])
        /\ \A w \in DOMAIN arguments : arguments[w] \in Int
    BY <1>3, <1>4, <1>5
  <2>2. Enter(fn, kind, len, n, roots, arguments)
    BY <1>2
  <2> QED BY <1>4, <1>5, <1>6, <2>1, <2>2, EnterStep
<1>8. CASE phase' = "request"
  <2>1. Sources' = <<LocalP>>
    BY <1>2, <1>7, <1>8 DEF Sources
  <2>2. \A i \in DOMAIN Sources' : Sources'[i] = LocalP
    BY <2>1
  <2>3. SourcesKept'
    BY <1>3, <1>4, <1>5, <1>7, <1>8, <2>2, SourcesKeptAtRequest
  <2>4. call'.fn \in Registering
    BY <1>6, <1>7, <1>8
  <2> QED BY <1>7, <2>3, <2>4 DEF LibraryInv, Registering
<1>9. CASE phase' = "exit"
  BY <1>7, <1>9 DEF LibraryInv, Collecting, Scanning, Compacting
<1> QED BY <1>7, <1>8, <1>9

LEMMA CallConcatenationStep ==
  ASSUME RunInv, CallConcatenation
  PROVE  LibraryInv' /\ phase' \in {"request", "exit"}
<1>1. Depth >= 2 /\ IsValidHeapPointer(word[top + 1]) /\ IsValidHeapPointer(word[top + 2])
  BY Zenon DEF CallConcatenation, Operand, IsA
<1>2. PICK u, v, l, m, len, arguments, roots, fn, kind, n :
        /\ u = word[top + 2] /\ v = word[top + 1]
        /\ l = mem[HeaderOf(u)].len /\ m = mem[HeaderOf(v)].len /\ len = l + m
        /\ fn = "Li__Infix_4343" /\ kind = "STRING" /\ n = 2
        /\ arguments = [w \in {LocalP, LocalQ} |-> IF w = LocalP THEN u ELSE v]
        /\ roots = <<LocalP, LocalQ>>
        /\ Enter(fn, kind, len, n, roots, arguments)
  BY Zenon DEF CallConcatenation, Operand
<1>3. /\ HeaderOf(u) \in DOMAIN mem /\ l \in Nat /\ u \in Int /\ Sound(u)
      /\ HeaderOf(v) \in DOMAIN mem /\ m \in Nat /\ v \in Int /\ Sound(v)
  <2>1. PICK j, k \in Nat \ {0} : j = 1 /\ j <= Depth /\ k = 2 /\ k <= Depth
    BY <1>1, OperandsSound, Layout DEF Depth
  <2> QED BY <1>1, <1>2, <2>1, ContainerIsObject, OperandsSound DEF Object
<1>4. /\ DOMAIN arguments \subseteq {LocalP, LocalQ} /\ DOMAIN arguments = {LocalP, LocalQ}
      /\ arguments[LocalP] = u /\ arguments[LocalQ] = v
  BY <1>2, Layout
<1>5. /\ roots \in Seq({LocalP, LocalQ})
      /\ \A i \in DOMAIN roots : roots[i] \in {LocalP, LocalQ}
      /\ \A i, j \in DOMAIN roots : roots[i] = roots[j] => i = j
      /\ \A i \in DOMAIN <<LocalP, LocalQ>> : i \in DOMAIN roots /\ roots[i] = <<LocalP, LocalQ>>[i]
  <2>1. roots = <<LocalP, LocalQ>> /\ LocalP # LocalQ
    BY <1>2, Layout
  <2> QED BY ONLY <2>1
<1>6. fn \in Registering /\ n \in Nat \ {0} /\ kind \in Kinds /\ len \in Nat
  BY <1>2, <1>3, LibraryNames DEF Kinds
<1>7. /\ MutatorInv' /\ phase' \in {"request", "exit"}
      /\ phase' = "request" =>
           /\ extra' = roots /\ mem' = mem
           /\ call' = [fn |-> fn, pops |-> 0, kind |-> kind, len |-> len]
           /\ \A w \in DOMAIN arguments : word'[w] = arguments[w]
  <2>1. /\ \A i \in DOMAIN roots : roots[i] \in DOMAIN arguments /\ Sound(arguments[roots[i]])
        /\ \A w \in DOMAIN arguments : arguments[w] \in Int
    BY <1>3, <1>4, <1>5
  <2>2. Enter(fn, kind, len, n, roots, arguments)
    BY <1>2
  <2> QED BY <1>4, <1>5, <1>6, <2>1, <2>2, EnterStep
<1>8. CASE phase' = "request"
  <2>1. Sources' = roots
    BY <1>2, <1>7, <1>8 DEF Sources
  <2>2. ASSUME NEW w \in {LocalP, LocalQ} PROVE HeaderOf(word'[w]) \in DOMAIN mem'
    BY <1>3, <1>4, <1>7, <1>8
  <2>3. SourcesKept'
    BY <1>5, <1>7, <1>8, <2>1, <2>2, SourcesKeptAtRequest
  <2>4. call'.fn \in Registering
    BY <1>6, <1>7, <1>8
  <2> QED BY <1>7, <2>3, <2>4 DEF LibraryInv, Registering
<1>9. CASE phase' = "exit"
  BY <1>7, <1>9 DEF LibraryInv, Collecting, Scanning, Compacting
<1> QED BY <1>7, <1>8, <1>9

LEMMA CallMakeArrayStep ==
  ASSUME RunInv, NEW n \in 0..MaxLen, CallMakeArray(n)
  PROVE  LibraryInv' /\ phase' \in {"request", "exit"}
<1>1. PICK arguments, roots :
        arguments = <<>> /\ roots = <<>> /\ Enter("LmakeArray", "ARRAY", n, 1, roots, arguments)
  BY Zenon DEF CallMakeArray
<1>2. /\ DOMAIN arguments = {} /\ DOMAIN roots = {} /\ roots \in Seq({LocalP, LocalQ})
      /\ "LmakeArray" \in Registering /\ 1 \in Nat \ {0} /\ "ARRAY" \in Kinds /\ n \in Nat
  BY <1>1, LibraryNames, Layout DEF Kinds
<1>3. /\ MutatorInv' /\ phase' \in {"request", "exit"}
      /\ phase' = "request" => call' = [fn |-> "LmakeArray", pops |-> 0, kind |-> "ARRAY", len |-> n]
  BY <1>1, <1>2, EnterStep
<1>4. CASE phase' = "request"
  <2>1. Sources' = <<>>
    BY <1>3, <1>4 DEF Sources
  <2>2. SourcesKept'
    BY <1>4, <2>1, SourcesKeptAtRequest
  <2>3. call'.fn \in Registering
    BY <1>2, <1>3, <1>4
  <2> QED BY <1>3, <2>2, <2>3 DEF LibraryInv, Registering
<1>5. CASE phase' = "exit"
  BY <1>3, <1>5 DEF LibraryInv, Collecting, Scanning, Compacting
<1> QED BY <1>3, <1>4, <1>5

\* What a function copies from is kept, in the words or in the dump, by every step up to
\* its return.
LEMMA SourcesStay ==
  ASSUME LibraryInv, StartCollection \/ Collect, phase' # "run", Recorded
  PROVE  SourcesKept'
<1>1. phase \in Collecting \cup {"request"} /\ UNCHANGED call
  BY CollectGoesOn DEF StartCollection, Collect, Collecting
<1>2. MutatorInv /\ SourcesKept
  BY <1>1 DEF LibraryInv
<1>3. Sources' = Sources
  BY <1>1 DEF Sources
<1>4. CASE StartCollection
  <2>1. /\ phase = "request" /\ phase' = "scanStack" /\ UNCHANGED <<mem, word, top, extra>>
    BY <1>4 DEF StartCollection, heapVars
  <2>2. RootWords(top, extra)' = RootWords(top, extra)
    BY <2>1 DEF RootWords
  <2> QED BY <1>2, <1>3, <2>1, <2>2 DEF SourcesKept, Scanning, Compacting
<1>5. CASE Collect /\ MarkNext
  <2>1. /\ UNCHANGED <<word, top, extra>> /\ phase \in Scanning
        /\ phase' = "compute" => phase = "scanGlobals"
    BY <1>5, MarkingLeavesWords
  <2>2. ScanInv /\ MarkInv /\ MarkTypeOK /\ HeapInv
    BY <1>2, <2>1 DEF MutatorInv, CollectInv, ScanInv, MarkInv, Collecting
  <2>3. RootWords(top, extra)' = RootWords(top, extra) /\ DOMAIN mem' = DOMAIN mem
    BY <1>5, <2>1, <2>2, MarkingLeavesFields DEF RootWords, SameShape
  <2>4. phase' \in Scanning \cup {"compute"}
    <3>1. MarkInv'
      BY <1>5, <2>2, MarkStep
    <3> QED BY <3>1 DEF MarkInv, MarkTypeOK, LoopInv
  <2>5. ASSUME NEW i \in DOMAIN Sources, phase' = "compute"
        PROVE  snapshot'.roots[Sources[i]][1] = "object"
    <3>1. Sources[i] \in RootWords(top, extra) /\ HeaderOf(word[Sources[i]]) \in DOMAIN mem
      BY <1>2, <2>1 DEF SourcesKept
    <3>2. word[Sources[i]] \in Int /\ Sound(word[Sources[i]])
      BY <2>2, <3>1 DEF HeapInv, MarkTypeOK, Sound
    <3>3. IsValidHeapPointer(word[Sources[i]])
      BY <2>2, <3>1, <3>2, SoundDenotes
    <3>4. snapshot' = Dump(Marked)
      BY <2>1, <2>5 DEF Recorded, DumpAfterMarking
    <3>5. snapshot'.roots[Sources[i]] = Denotes(word[Sources[i]])
      BY <3>1, <3>4 DEF Dump
    <3> QED BY <3>3, <3>5 DEF Denotes
  <2> QED BY <1>2, <1>3, <2>1, <2>3, <2>4, <2>5 DEF SourcesKept, Scanning, Compacting
<1>6. CASE Collect /\ CompactNext
  <2>1. phase \in Compacting
    BY <1>6 DEF CompactNext, ComputeLocation, EndCompute, Resize, ResizeFails, FixFields, EndFixFields,
         FixStack, EndFixStack, FixExtra, EndFixExtra, FixGlobals, EndFixGlobals, EndFix,
         Relocate, EndRelocate, Compacting
  <2>2. ProcessInv
    BY <1>2, <2>1 DEF MutatorInv, Compacting
  <2>3. UNCHANGED <<top, extra>> /\ phase' \notin Scanning
    BY <1>6, <2>2, CompactingLeaves DEF ProcessInv
  <2>4. snapshot' = snapshot
    BY <2>1, phase' # "run" DEF Recorded, DumpAfterMarking, Compacting
  <2>5. RootWords(top, extra)' = RootWords(top, extra)
    BY <2>3 DEF RootWords
  <2>6. phase' # "request"
    BY <1>6 DEF CompactNext, ComputeLocation, EndCompute, Resize, ResizeFails, FixFields, EndFixFields,
         FixStack, EndFixStack, FixExtra, EndFixExtra, FixGlobals, EndFixGlobals, EndFix,
         FixWord, SkipWord, Relocate, EndRelocate, Reading
  <2> QED BY <1>2, <1>3, <2>1, <2>3, <2>4, <2>5, <2>6 DEF SourcesKept, Scanning, Compacting
<1> QED BY <1>4, <1>5, <1>6 DEF Collect

\* A function that has its memory copies from objects.
LEMMA SourcesAreObjects ==
  ASSUME LibraryInv, (phase = "request" /\ Fits) \/ phase = "alloc"
  PROVE  \A i \in DOMAIN Sources : HeaderOf(word[Sources[i]]) \in DOMAIN mem
<1> SUFFICES ASSUME NEW i \in DOMAIN Sources PROVE HeaderOf(word[Sources[i]]) \in DOMAIN mem
  OBVIOUS
<1>1. SourcesKept /\ MutatorInv
  BY DEF LibraryInv, Collecting
<1>2. CASE phase = "request"
  BY <1>1, <1>2 DEF SourcesKept
<1>3. CASE phase = "alloc"
  BY <1>1, <1>3, CollectedIsConsistent DEF SourcesKept
<1> QED BY <1>2, <1>3

\* The object that the library's request is for is a copy, numbers, or nothing.
LEMMA LibraryReturnStep ==
  ASSUME LibraryInv, (phase = "request" /\ Fits) \/ phase = "alloc", InLibrary, LibraryReturn
  PROVE  LibraryInv' /\ phase' = "run"
<1>1. HeapConsistent /\ ProcessInv /\ CallInv /\ Fits /\ obj = NoObj
  BY AllocatedIsConsistent DEF LibraryInv
<1>2. \A i \in DOMAIN Sources : HeaderOf(word[Sources[i]]) \in DOMAIN mem
  BY SourcesAreObjects
<1>3. PICK fields, o : fields = NewFields /\ o = ObjectWith(fields) /\ FinishWith(o)
  BY <1>2, Zenon DEF LibraryReturn
<1>4. call.fn \in Registering
  <2>1. call.fn \in Allocators \cup Registering
    BY DEF LibraryInv, Registering, Collecting
  <2>2. call.fn \in LibraryFunctions /\ LibraryFunctions \cap Allocators = {}
    BY DEF InLibrary, LibraryFunctions, Allocators
  <2> QED BY <2>1, <2>2
<1>5. call.kind \in Kinds /\ call.len \in Nat /\ ids \in Nat /\ need = SizeWords(call.kind, call.len)
  BY <1>1 DEF CallInv, ProcessInv
<1>6. fields \in Seq(Int) /\ \A i \in DOMAIN fields : Sound(fields[i])
  <2>1. CASE call.fn = "Lclone" /\ call.kind # "STRING"
    <3>1. PICK s : s = Sources[1] /\ HeaderOf(word[s]) \in DOMAIN mem
      <4>1. 1 \in DOMAIN Sources
        BY <2>1 DEF Sources
      <4> QED BY <1>2, <4>1
    <3>2. fields = mem[HeaderOf(word[s])].fields
      BY <1>3, <2>1, <3>1 DEF NewFields, Copied, Parameter
    <3>3. mem[HeaderOf(word[s])] \in Object
      BY <1>1, <3>1 DEF HeapConsistent
    <3> QED BY <1>1, <3>1, <3>2, <3>3 DEF Object, HeapConsistent, FieldsSound
  <2>2. CASE call.fn = "LmakeArray"
    <3>1. fields = [i \in 1..call.len |-> Number]
      BY <1>3, <2>2 DEF NewFields
    <3> QED BY <1>5, <3>1, NumberIsSound, Layout
  <2>3. CASE call.fn \in {"Lsubstring", "Li__Infix_4343"} \/ (call.fn = "Lclone" /\ call.kind = "STRING")
    <3>1. fields = <<>>
      BY <1>3, <2>3 DEF NewFields
    <3> QED BY <3>1
  <2> QED BY <1>4, <2>1, <2>2, <2>3, LibraryNames
<1>7. o = [kind |-> call.kind, len |-> call.len, fields |-> fields,
           fwd |-> 0, mark |-> FALSE, enq |-> FALSE, id |-> ids + 1]
  BY <1>3 DEF ObjectWith
<1>8. o \in Object /\ ~o.mark /\ ~o.enq /\ ObjWords(o) = need /\ \A i \in DOMAIN o.fields : Sound(o.fields[i])
  BY <1>5, <1>6, <1>7 DEF Object, ObjWords
<1>9. RunInv' /\ phase' = "run"
  BY <1>1, <1>3, <1>8, Finished
<1>10. Running'
  BY <1>9 DEF Running
<1>11. MutatorInv'
  BY <1>9, <1>10, RunningInv, PTL
<1> QED BY <1>9, <1>11 DEF LibraryInv, Collecting, Scanning, Compacting

\* A collection, whoever asked for it.
LEMMA LibraryCollectStep ==
  ASSUME LibraryInv, StartCollection \/ Collect, Recorded
  PROVE  LibraryInv'
<1>1. /\ phase \in Collecting \cup {"request"} /\ phase' # "run" /\ UNCHANGED call
  BY CollectGoesOn DEF StartCollection, Collect, Collecting
<1>2. MutatorInv'
  BY <1>1, StartCollectionStep, CollectingStep DEF LibraryInv, Recorded
<1>3. SourcesKept'
  BY <1>1, SourcesStay
<1> QED BY <1>1, <1>2, <1>3 DEF LibraryInv

\* A call that the interpreter makes, in a program with the library.
LEMMA InterpreterReturnStep ==
  ASSUME LibraryInv, (phase = "request" /\ Fits) \/ phase = "alloc", ~InLibrary, Return
  PROVE  LibraryInv'
<1>1. call.fn \in Allocators
  BY DEF LibraryInv, InLibrary, Collecting
<1>2. MutatorInv' /\ phase' \in {"run", "exit"}
  BY <1>1, AllocatedIsConsistent, ReturnStep DEF LibraryInv
<1> QED BY <1>2 DEF LibraryInv, Collecting, Scanning, Compacting

LEMMA LibraryInstructionKept ==
  ASSUME LibraryInv, Simple \/ Allocating
  PROVE  LibraryInv'
<1>1. /\ MutatorInv' /\ phase' \in {"run", "request", "exit"}
      /\ phase' = "request" => call'.fn \in Allocators
  BY InstructionKept DEF LibraryInv
<1>2. CASE phase' = "request"
  <2>1. call'.fn \in Allocators
    BY <1>1, <1>2
  <2>2. Sources' = <<>>
    BY <2>1 DEF Sources, Allocators
  <2>3. SourcesKept'
    BY <2>2 DEF SourcesKept
  <2> QED BY <1>1, <2>1, <2>3 DEF LibraryInv
<1>3. CASE phase' # "request"
  BY <1>1, <1>3 DEF LibraryInv, Collecting, Scanning, Compacting
<1> QED BY <1>2, <1>3

\* The same of an argument that is out of range.
LEMMA LibraryAstray ==
  ASSUME LibraryInv, phase = "run", phase' = "astray", UNCHANGED <<heapVars, ids>>
  PROVE  LibraryInv'
<1>1. MutatorInv'
  BY AstrayStep DEF LibraryInv
<1> QED BY <1>1 DEF LibraryInv, Collecting, Scanning, Compacting

LEMMA LibraryCallsKept ==
  ASSUME LibraryInv, LibraryCalls
  PROVE  LibraryInv'
<1>1. phase = "run"
  BY Zenon DEF LibraryCalls, CallClone, CallSubstring, CallConcatenation, CallMakeArray,
               CallOutOfRange, Enter, Request, Running
<1>2. RunInv
  BY <1>1, RunningInv DEF LibraryInv, Running
<1>3. CASE CallOutOfRange
  BY <1>1, <1>3, LibraryAstray DEF CallOutOfRange
<1> QED BY <1>2, <1>3, CallCloneStep, CallSubstringStep, CallConcatenationStep, CallMakeArrayStep
        DEF LibraryCalls

\* Every step of a program that uses the library keeps the invariant.
LEMMA LibraryInductive == LibraryInv /\ [LibraryNext]_libraryVars => LibraryInv'
<1> SUFFICES ASSUME LibraryInv, [LibraryNext]_libraryVars PROVE LibraryInv'
  OBVIOUS
<1>1. CASE UNCHANGED libraryVars
  <2>1. UNCHANGED <<mutatorVars, snapshot>> /\ UNCHANGED <<mem, word, top, extra, phase, call, snapshot>>
    BY <1>1 DEF libraryVars, refinementVars, mutatorVars, gcVars, heapVars
  <2>2. MutatorInv'
    BY <2>1, MutatorStutters DEF LibraryInv
  <2>3. SourcesKept' <=> SourcesKept
    BY <2>1 DEF SourcesKept, Sources, RootWords
  <2> QED BY <2>1, <2>2, <2>3 DEF LibraryInv
<1>2. CASE LibraryNext
  <2>0. Recorded
    BY <1>2 DEF LibraryNext
  <2>1. CASE Simple \/ Allocating
    BY <2>1, LibraryInstructionKept
  <2>8. CASE OutOfRange
    BY <2>8, LibraryAstray DEF OutOfRange, Running
  <2>2. CASE LibraryCalls
    BY <2>2, LibraryCallsKept
  <2>3. CASE StartCollection \/ Collect
    BY <2>0, <2>3, LibraryCollectStep
  <2>4. CASE ~InLibrary /\ AllocateAtOnce
    BY <2>4, InterpreterReturnStep DEF AllocateAtOnce, AtOnce
  <2>5. CASE ~InLibrary /\ AllocateAfterCollection
    <3>1. phase = "alloc" /\ Fits
      BY <2>5, CollectedIsConsistent DEF AllocateAfterCollection, AfterCollection, LibraryInv
    <3> QED BY <2>5, <3>1, InterpreterReturnStep DEF AllocateAfterCollection, AfterCollection
  <2>6. CASE InLibrary /\ AtOnce(LibraryReturn)
    BY <2>6, LibraryReturnStep DEF AtOnce
  <2>7. CASE InLibrary /\ AfterCollection(LibraryReturn)
    <3>1. phase = "alloc" /\ Fits
      BY <2>7, CollectedIsConsistent DEF AfterCollection, LibraryInv
    <3> QED BY <2>7, <3>1, LibraryReturnStep DEF AfterCollection
  <2> QED BY <1>2, <2>1, <2>2, <2>3, <2>4, <2>5, <2>6, <2>7, <2>8
          DEF LibraryNext, InterpreterStep, LibraryStep, Runtime
<1> QED BY <1>1, <1>2

\* The same with the functions of the library that allocate: what they register is all
\* that is needed to find their arguments again.
THEOREM LibraryInvariant == LibrarySpec => []LibraryInv
<1>1. LibraryInit => LibraryInv
  BY MutatorInitially DEF LibraryInit, LibraryInv, Collecting, Scanning, Compacting
<1> QED BY <1>1, LibraryInductive, PTL DEF LibrarySpec

\* No library function whose arguments are in range copies from a word that is no
\* object's address.
THEOREM LibrarySafe == LibrarySpec => []MutatorNoCrash
<1>1. LibraryInv => MutatorNoCrash
  BY DEF LibraryInv, MutatorInv, MutatorNoCrash, Between, Collecting, Scanning, Compacting
<1> QED BY <1>1, LibraryInvariant, PTL

\* A collection may start in the middle of any library function that allocates.
THEOREM LibraryRequestsReady == LibrarySpec => []RequestsWellFormed
<1>1. LibraryInv => RequestsWellFormed
  BY RequestIsReady DEF LibraryInv, RequestsWellFormed
<1> QED BY <1>1, LibraryInvariant, PTL

=============================================================================
