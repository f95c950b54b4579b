---------------------------- MODULE LikePattern ----------------------------
(***************************************************************************)
(* LIKE on a column of strings (like in compile_mask and                   *)
(* _prefix_upper_bound, select/evaluate.py): a pattern is answered by      *)
(* equality, by a range of the byte order or by a regular expression, as   *)
(* its wildcards allow.  A pattern and a value grow by one character at a  *)
(* time; characters are bytes.                                             *)
(***************************************************************************)
EXTENDS Integers, Sequences

CONSTANTS LastByte, MaxPattern, MaxValue

ASSUME LikeAssumption == LastByte \in Nat \ {0} /\ MaxPattern \in Nat /\ MaxValue \in Nat

Byte == 0..LastByte
AnyText == -1    \* %
AnyByte == -2    \* _

VARIABLES pattern, value
likeVars == <<pattern, value>>

\* a < b as byte strings
Less(a, b) ==
  \/ Len(a) < Len(b) /\ \A i \in 1..Len(a) : a[i] = b[i]
  \/ \E i \in 1..Len(a) : /\ i <= Len(b) /\ a[i] < b[i]
                          /\ \A j \in 1..i - 1 : a[j] = b[j]

StartsWith(s, prefix) == Len(prefix) <= Len(s) /\ \A i \in 1..Len(prefix) : s[i] = prefix[i]

\* prefix.rstrip(b"\xff"): up to the last byte that is not the last of all
Trimmed(prefix) ==
  LET kept == {i \in 1..Len(prefix) : prefix[i] # LastByte}
  IN  IF kept = {} THEN << >>
      ELSE SubSeq(prefix, 1, CHOOSE n \in kept : \A i \in kept : i <= n)

\* << >>: there is no bound
\* A bug for KernelsMatch: the bytes that cannot be counted up are not cut off.
UpperOfWhole(prefix) ==
  IF prefix = << >> THEN << >>
  ELSE [prefix EXCEPT ![Len(prefix)] = (@ + 1) % (LastByte + 1)]
UpperBound(prefix) ==
  LET t == Trimmed(prefix)
  IN  IF t = << >> THEN << >> ELSE [t EXCEPT ![Len(t)] = @ + 1]

InPrefixRange(s, prefix) ==
  /\ ~Less(s, prefix)
  /\ UpperBound(prefix) = << >> \/ Less(s, UpperBound(prefix))

\* What LIKE means: the value can be cut so that each piece is what the pattern has.
Matches(p, v) ==
  \E cut \in [0..Len(p) -> 0..Len(v)] :
    /\ cut[0] = 0 /\ cut[Len(p)] = Len(v)
    /\ \A i \in 1..Len(p) :
         \/ p[i] = AnyText /\ cut[i - 1] <= cut[i]
         \/ p[i] = AnyByte /\ cut[i] = cut[i - 1] + 1
         \/ p[i] \in Byte /\ cut[i] = cut[i - 1] + 1 /\ v[cut[i]] = p[i]

Wildcards(p) == {i \in 1..Len(p) : p[i] \in {AnyText, AnyByte}}

IsPrefixPattern(p) == Wildcards(p) = {Len(p)} /\ p[Len(p)] = AnyText

Kernel(p, v) ==
  IF Wildcards(p) = {} THEN v = p
  ELSE IF IsPrefixPattern(p) THEN InPrefixRange(v, SubSeq(p, 1, Len(p) - 1))
  ELSE Matches(p, v)
-----------------------------------------------------------------------------
LikeInit == pattern = << >> /\ value = << >>

WritePattern(c) == /\ Len(pattern) < MaxPattern
                   /\ pattern' = Append(pattern, c) /\ UNCHANGED value
WriteValue(c) == /\ Len(value) < MaxValue
                 /\ value' = Append(value, c) /\ UNCHANGED pattern
LikeNext == \/ \E c \in Byte \cup {AnyText, AnyByte} : WritePattern(c)
        \/ \E c \in Byte : WriteValue(c)
LikeSpec == LikeInit /\ [][LikeNext]_likeVars

\* Whichever kernel answers it, LIKE selects the values that match the pattern.
KernelsMatch == Kernel(pattern, value) <=> Matches(pattern, value)
=============================================================================
