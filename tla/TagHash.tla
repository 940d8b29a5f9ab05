------------------------------ MODULE TagHash ------------------------------
(***************************************************************************)
(* LtagHash: the number that stands for the name of a constructor in sexps *)
(* and pattern tests, and de_hash, which finds the name again and by which *)
(* LtagHash checks itself.  Two calls, one after the other, with the two   *)
(* loops of each; buf is static.                                           *)
(*                                                                         *)
(* A character is its position in chars ('_' is 0), or Radix when it does  *)
(* not occur there.                                                        *)
(***************************************************************************)
EXTENDS Integers, Sequences

CONSTANTS
  Radix,      \* 64, the length of chars
  Limit,      \* 5, the characters that count
  MaxLength   \* of names

ASSUME TagAssumption == Radix \in Nat \ {0} /\ Limit \in Nat /\ MaxLength \in Nat

VARIABLES
  names,    \* the names of the two calls
  tags,     \* what the calls so far have returned
  h, limit, \* of LtagHash; limit is also the number of characters read
  n, p,     \* of de_hash; p is the index of the first character of its result
  buf,      \* of de_hash: indexes 0 .. Limit, the last one for the terminator
  phase     \* "hash", "dehash", "done" or "failed"

tagVars == <<names, tags, h, limit, n, p, buf, phase>>

Names == UNION {[1..k -> 0..Radix] : k \in 0..MaxLength}

name == names[Len(tags) + 1]

\* The first Limit characters, all that strncmp(s, t, 5) compares.
Prefix(s) == SubSeq(s, 1, IF Len(s) < Limit THEN Len(s) ELSE Limit)

-----------------------------------------------------------------------------
\* *p && limit++ <= 4
Another == limit < Len(name) /\ limit <= Limit - 1

\* One turn of the loop over the name.
HashCharacter ==
  /\ phase = "hash" /\ Another
  /\ IF name[limit + 1] = Radix THEN phase' = "failed" /\ UNCHANGED <<h, limit>>
     ELSE h' = Radix * h + name[limit + 1] /\ limit' = limit + 1 /\ UNCHANGED phase
  /\ UNCHANGED <<names, tags, n, p, buf>>

\* de_hash(h) is called.
StartDehash ==
  /\ phase = "hash" /\ ~Another
  /\ phase' = "dehash" /\ n' = h /\ p' = Limit
  /\ UNCHANGED <<names, tags, h, limit, buf>>

\* *p-- = chars[n & 0x3F]
DigitAtEnd(b) == [b EXCEPT ![p - 1] = n % Radix]

DehashDigit ==
  /\ phase = "dehash" /\ n # 0
  /\ buf' = DigitAtEnd(buf)
  /\ p' = p - 1 /\ n' = n \div Radix
  /\ UNCHANGED <<names, tags, h, limit, phase>>

\* What de_hash returns: from p up to the terminator, or, without it, all of buf.
FromBeginning == [i \in 1..Limit |-> buf[i - 1]]

Dehashed == [i \in 1..(Limit - p) |-> buf[p + i - 1]]

\* strncmp(s, de_hash(h), 5) != 0
Unchecked == FALSE

Differs == Prefix(name) # Dehashed

\* The check, and the return of the tag.
Return ==
  /\ phase = "dehash" /\ n = 0
  /\ IF Differs THEN phase' = "failed" /\ UNCHANGED <<tags, h, limit>>
     ELSE /\ tags' = Append(tags, h) /\ h' = 0 /\ limit' = 0
          /\ phase' = IF Len(tags) = 1 THEN "done" ELSE "hash"
  /\ UNCHANGED <<names, n, p, buf>>

TagInit ==
  /\ names \in Names \X Names
  /\ tags = <<>> /\ h = 0 /\ limit = 0 /\ n = 0 /\ p = Limit
  /\ buf = [i \in 0..(Limit - 1) |-> 0] /\ phase = "hash"

TagNext == HashCharacter \/ StartDehash \/ DehashDigit \/ Return

TagSpec == TagInit /\ [][TagNext]_tagVars

-----------------------------------------------------------------------------
(* Properties                                                               *)

\* Names of chars that do not begin with '_' have a tag, whatever an earlier call
\* has left in the buffer.
WellNamed(s) == Radix \notin {s[i] : i \in DOMAIN Prefix(s)} /\ (s # <<>> => s[1] # 0)

NamesHaveTags == phase = "failed" => ~WellNamed(name)

\* Two names have the same tag if and only if they agree in the characters that
\* count: the pattern test for one constructor does not match another one, and the
\* tag is the same wherever the name occurs.
TagsDistinguish ==
  Len(tags) = 2 => (tags[1] = tags[2] <=> Prefix(names[1]) = Prefix(names[2]))

-----------------------------------------------------------------------------
(* The inductive invariant from which both follow.                          *)

\* v[k] is the number that the first k characters of s stand for, up to m of them.
Values(v, s, m) ==
  /\ v[0] = 0
  /\ \A k \in 1..m : s[k] # Radix /\ v[k] = Radix * v[k - 1] + s[k]

\* No beginning of s stands for 0, so that none of its digits is lost.
Positive(v, m) == \A k \in 1..m : v[k] # 0

Counted == Len(Prefix(name))

\* The loop of LtagHash has read limit characters.
HashInv ==
  \E v \in [0..limit -> Nat] :
    /\ Values(v, name, limit) /\ h = v[limit]
    /\ name # <<>> /\ name[1] # 0 => Positive(v, limit)

\* The loop of de_hash has written the digits from p on, and read as many.
DehashInv ==
  \E v \in [0..Counted -> Nat], k \in 0..Counted :
    /\ Values(v, name, Counted) /\ h = v[Counted]
    /\ name # <<>> /\ name[1] # 0 => Positive(v, Counted)
    /\ p = Limit - Counted + k /\ n = v[k]
    /\ \A i \in (k + 1)..Counted : v[i] # 0 /\ buf[Limit - Counted + i - 1] = name[i]

\* A tag that was returned stands for the characters that count in its name.
ReturnedInv(c) ==
  \E v \in [0..Len(Prefix(names[c])) -> Nat] :
    /\ Values(v, names[c], Len(Prefix(names[c])))
    /\ Positive(v, Len(Prefix(names[c])))
    /\ tags[c] = v[Len(Prefix(names[c]))]

TagInv ==
  /\ names \in Names \X Names /\ tags \in Seq(Nat)
  /\ phase \in {"hash", "dehash", "done", "failed"}
  /\ limit \in 0..Limit /\ buf \in [0..(Limit - 1) -> 0..Radix]
  /\ IF phase = "done" THEN Len(tags) = 2 ELSE Len(tags) \in 0..1
  /\ phase = "hash" => limit <= Len(name) /\ HashInv
  /\ phase = "dehash" => DehashInv
  /\ \A c \in 1..Len(tags) : ReturnedInv(c)
  /\ NamesHaveTags

=============================================================================
