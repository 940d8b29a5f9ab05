----------------------------- MODULE Rendering -----------------------------
(***************************************************************************)
(* Lstring and Lstringcat up to the allocation of their result: printValue *)
(* and stringcat walk a structure, and every piece of text they print goes *)
(* through vprintStringBuf into stringBuf, which grows when it is full.    *)
(*                                                                         *)
(* The recursion is a sequence of what is still to be printed: pieces of   *)
(* text, values, and the rest of a list whose loop is running.  A piece of *)
(* text t is Width(t) characters <<t, 1>>, <<t, 2>>, ...                   *)
(***************************************************************************)
EXTENDS ObjectStore

CONSTANTS
  Stores,          \* [id |-> [kind, fields]], the kind of a sexp being its tag
  StringBufInit,   \* STRINGBUF_INIT
  TextWidth        \* the width of a number, a string, an address or a tag

VARIABLES
  store,
  function,  \* "printValue" or "stringcat"
  value,     \* its argument
  todo,
  contents,  \* the characters in stringBuf up to, and without, the first null
  ptr, len,  \* of stringBuf
  phase      \* "print", "done" or "crash"

renderVars == <<store, function, value, todo, contents, ptr, len, phase>>

IsObject(v) == v[1] = "object"
Fields(id) == store[id].fields
Kind(id) == store[id].kind
IsList(id) == Kind(id) = "cons"
NotSexps == {"STRING", "ARRAY", "CLOSURE"}

\* Punctuation is shorter than other pieces of text, the tag of a sexp among them.
Mark(s) == <<"mark", s>>
Tag(id) == <<"tag", Kind(id)>>
Message == <<"message", "*** invalid or non-list ***">>
Width(t) == IF t[1] = "mark" THEN 1 ELSE TextWidth

\* The code address of a closure.
Entry(v) == <<"entry", v>>

Text(t)  == <<"text", t>>
Value(v) == <<"value", v>>
Rest(id) == <<"rest", id>>

Separated(items, comma) ==
  [i \in 1 .. (IF items = <<>> THEN 0 ELSE 2 * Len(items) - 1) |->
     IF i % 2 = 1 THEN items[(i + 1) \div 2] ELSE comma]

Values(id) == [i \in DOMAIN Fields(id) |-> Value(Fields(id)[i])]
Commas(items) == Separated(items, Text(Mark(", ")))

-----------------------------------------------------------------------------
(* One call of printValue or stringcat, up to the calls inside              *)

Printed(v) ==
  IF ~IsObject(v) THEN <<Text(v)>>
  ELSE LET id == v[2] IN
    CASE Kind(id) = "STRING"  -> <<Text(v)>>
      [] Kind(id) = "ARRAY"   -> <<Text(Mark("["))>> \o Commas(Values(id)) \o <<Text(Mark("]"))>>
      [] Kind(id) = "CLOSURE" -> <<Text(Mark("<closure "))>> \o Commas(<<Text(Entry(v))>> \o Values(id)) \o <<Text(Mark(">"))>>
      [] IsList(id)           -> <<Text(Mark("{")), Rest(id), Text(Mark("}"))>>
      [] Fields(id) = <<>>    -> <<Text(Tag(id))>>
      [] OTHER                -> <<Text(Tag(id)), Text(Mark(" ("))>> \o Commas(Values(id)) \o <<Text(Mark(")"))>>

Concatenated(v) ==
  IF ~IsObject(v) THEN <<>>
  ELSE IF IsList(v[2]) THEN <<Rest(v[2])>>
  ELSE IF Kind(v[2]) = "STRING" THEN <<Text(v)>>
  ELSE <<Text(Message)>>

FirstOf(id) == Fields(id)[1]

NextOf(id) == Fields(id)[2]

\* The loop over a list ends at a sexp with no fields, or at a number after it has
\* printed what is before that.
RestWithoutLast(id) ==
  IF Fields(id) = <<>> \/ ~IsObject(NextOf(id)) THEN <<>>
  ELSE <<Value(FirstOf(id)), Text(Mark(", ")), Rest(NextOf(id)[2])>>

RestOfList(id) ==
  IF Fields(id) = <<>> THEN <<>>
  ELSE IF ~IsObject(NextOf(id)) THEN <<Value(FirstOf(id))>>
  ELSE IF function = "printValue" THEN <<Value(FirstOf(id)), Text(Mark(", ")), Rest(NextOf(id)[2])>>
  ELSE <<Value(FirstOf(id)), Rest(NextOf(id)[2])>>

\* The loop takes whatever it meets for a sexp, and its second field for the next one.
Broken(id) == Kind(id) \in NotSexps \/ Len(Fields(id)) = 1

Walk ==
  /\ phase = "print" /\ todo # <<>> /\ Head(todo)[1] # "text"
  /\ LET x == Head(todo)[2] IN
       IF Head(todo)[1] = "rest" /\ Broken(x)
         THEN phase' = "crash" /\ UNCHANGED todo
         ELSE /\ todo' = (CASE Head(todo)[1] = "rest"    -> RestOfList(x)
                            [] function = "printValue"   -> Printed(x)
                            [] OTHER                     -> Concatenated(x)) \o Tail(todo)
              /\ UNCHANGED phase
  /\ UNCHANGED <<store, function, value, contents, ptr, len>>

-----------------------------------------------------------------------------
(* stringBuf                                                                *)

Characters(t) == [j \in 1..Width(t) |-> <<t, j>>]

\* vsnprintf writes what there is room for, and a null character.
rest == len - ptr

FitsExactly(t) == Width(t) <= rest

Fits(t) == Width(t) < rest

\* extendStringBuf, and what it is when the new length is that of before.
Reallocated == len

Extended == 2 * len

\* One attempt of vprintStringBuf: extendStringBuf and again, or the end of the call.
PrintPiece ==
  /\ phase = "print" /\ todo # <<>> /\ Head(todo)[1] = "text"
  /\ LET t == Head(todo)[2] IN
       /\ contents' = SubSeq(contents, 1, ptr)
                        \o SubSeq(Characters(t), 1, IF Width(t) < rest THEN Width(t) ELSE rest - 1)
       /\ IF Fits(t) THEN ptr' = ptr + Width(t) /\ todo' = Tail(todo) /\ UNCHANGED len
          ELSE len' = Extended /\ UNCHANGED <<ptr, todo>>
  /\ UNCHANGED <<store, function, value, phase>>

Finish ==
  /\ phase = "print" /\ todo = <<>> /\ phase' = "done"
  /\ UNCHANGED <<store, function, value, todo, contents, ptr, len>>

-----------------------------------------------------------------------------
\* createStringBuf, and the call.
Init ==
  /\ store \in Stores
  /\ function \in {"printValue", "stringcat"}
  /\ value \in {Reference(id) : id \in DOMAIN store}
  /\ todo = <<Value(value)>>
  /\ contents = <<>> /\ ptr = 0 /\ len = StringBufInit /\ phase = "print"

Next == Walk \/ PrintPiece \/ Finish

Spec == Init /\ [][Next]_renderVars /\ WF_renderVars(Next)

-----------------------------------------------------------------------------
(* Properties                                                               *)

\* What a structure looks like, by structure: a list is the sequence of its elements.
RECURSIVE Elements(_), Look(_), Join(_)

Elements(v) ==
  IF ~IsObject(v) \/ Fields(v[2]) = <<>> THEN <<>>
  ELSE <<Fields(v[2])[1]>> \o Elements(Fields(v[2])[2])

Join(ss) == IF ss = <<>> THEN <<>> ELSE Head(ss) \o Join(Tail(ss))

Looks(vs) == [i \in DOMAIN vs |-> Look(vs[i])]

Listed(open, vs, close) == <<open>> \o Join(Separated(Looks(vs), <<Mark(", ")>>)) \o <<close>>

Look(v) ==
  IF function = "stringcat"
    THEN IF ~IsObject(v) THEN <<>>
         ELSE IF IsList(v[2]) THEN Join(Looks(Elements(v)))
         ELSE IF Kind(v[2]) = "STRING" THEN <<v>> ELSE <<Message>>
  ELSE IF ~IsObject(v) \/ Kind(v[2]) = "STRING" THEN <<v>>
  ELSE CASE IsList(v[2])           -> Listed(Mark("{"), Elements(v), Mark("}"))
         [] Kind(v[2]) = "ARRAY"   -> Listed(Mark("["), Fields(v[2]), Mark("]"))
         [] Kind(v[2]) = "CLOSURE" -> Listed(Mark("<closure "), <<Entry(v)>> \o Fields(v[2]), Mark(">"))
         [] Fields(v[2]) = <<>>    -> <<Tag(v[2])>>
         [] OTHER                  -> <<Tag(v[2])>> \o Listed(Mark(" ("), Fields(v[2]), Mark(")"))

\* What is behind an element of a list is a list or a number.
ProperLists ==
  \A id \in DOMAIN store : IsList(id) /\ IsObject(Fields(id)[2]) => IsList(Fields(id)[2][2])

\* The text is that of the structure, complete and in order, however often and at
\* whatever place the buffer has been extended.
TextIsComplete ==
  phase = "done" /\ ProperLists => contents = Join([i \in DOMAIN Look(value) |-> Characters(Look(value)[i])])

\* Between two pieces of text the buffer holds what has been printed, and the null
\* character after it.
BufferTerminated ==
  /\ ptr < len /\ Len(contents) < len
  /\ phase = "done" => Len(contents) = ptr

\* A structure without cycles has a text, unless a list in it goes on with what is no
\* list, which the loop takes for one.
RenderingEnds == <>(phase = "done" \/ (phase = "crash" /\ ~ProperLists))

=============================================================================
