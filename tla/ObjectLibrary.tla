---------------------------- MODULE ObjectLibrary ----------------------------
(***************************************************************************)
(* What the library functions of runtime/runtime.c that allocate promise:  *)
(* the objects they make of the topmost operands, in a memory without      *)
(* addresses or collections.                                               *)
(*                                                                         *)
(* Objects have no characters here.  The variable copied names the strings *)
(* whose characters the string that was made last consists of.             *)
(***************************************************************************)
EXTENDS ObjectGraph

VARIABLE copied

libraryVars == <<graphVars, copied>>

IsString(id) == store[id].kind = "STRING"

\* The n topmost operands are replaced by a new object made from the strings ids.
Make(n, new, object, ids) ==
  /\ Become(WithObject(store, new, object), <<Reference(new)>> \o Pop(n), globals)
  /\ copied' = ids

NewString(len) == [kind |-> "STRING", len |-> len, fields |-> <<>>]

\* clone; the clone of a string ends with the first zero in it.
Clone(new, id) ==
  /\ stack # <<>> /\ stack[1] = Reference(id)
  /\ IF IsString(id) THEN \E len \in 0..store[id].len : Make(1, new, NewString(len), <<id>>)
                     ELSE Make(1, new, store[id], <<>>)

\* substring, which has popped the position and the length
Substring(new, id, len) ==
  /\ stack # <<>> /\ stack[1] = Reference(id)
  /\ IsString(id) /\ len <= store[id].len
  /\ Make(1, new, NewString(len), <<id>>)

\* a ++ b
Concatenation(new, a, b) ==
  /\ Len(stack) >= 2 /\ stack[2] = Reference(a) /\ stack[1] = Reference(b)
  /\ IsString(a) /\ IsString(b)
  /\ Make(2, new, NewString(store[a].len + store[b].len), <<a, b>>)

\* makeArray
MakeArray(new, n) ==
  /\ stack # <<>> /\ stack[1] = Number
  /\ Make(1, new, [kind |-> "ARRAY", len |-> n, fields |-> [i \in 1..n |-> Number]], <<>>)

\* p : q, as a function
Cons(new) ==
  /\ Len(stack) >= 2
  /\ Make(2, new, [kind |-> "SEXP", len |-> 2, fields |-> <<stack[2], stack[1]>>], <<>>)

LibraryInit == Init /\ copied = <<>>

LibraryNext ==
  \/ Next /\ copied' = <<>>
  \/ \E new \in Ids \ DOMAIN store :
       \/ \E id \in DOMAIN store :
            Clone(new, id) \/ \E len \in 0..store[id].len : Substring(new, id, len)
       \/ \E a, b \in DOMAIN store : Concatenation(new, a, b)
       \/ \E n \in 0..MaxLen : MakeArray(new, n)
       \/ Cons(new)

LibrarySpec == LibraryInit /\ [][LibraryNext]_libraryVars

=============================================================================
