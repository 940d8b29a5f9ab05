----------------------------- MODULE ObjectStore -----------------------------
(***************************************************************************)
(* Graphs of objects without addresses: a store maps the identity of each  *)
(* object to a record with the values of its fields.                       *)
(***************************************************************************)
EXTENDS Integers, Sequences, FiniteSets

Reference(id) == <<"object", id>>

\* The tags of headers, as numbers.
STRING_TAG == 1
ARRAY_TAG == 3
SEXP_TAG == 5
CLOSURE_TAG == 7

FieldsOf(s, id) == {s[id].fields[i] : i \in DOMAIN s[id].fields}

ReachableIds(s, roots) ==
  {id \in DOMAIN s :
     \A S \in SUBSET DOMAIN s :
       (/\ {i \in DOMAIN s : Reference(i) \in roots} \subseteq S
        /\ \A j \in S : {i \in DOMAIN s : Reference(i) \in FieldsOf(s, j)} \subseteq S)
         => id \in S}

\* What is left of s when objects that roots do not reach are forgotten.
Retained(s, roots) == [id \in ReachableIds(s, roots) |-> s[id]]

WithObject(s, id, o) == [i \in DOMAIN s \cup {id} |-> IF i = id THEN o ELSE s[i]]

=============================================================================
