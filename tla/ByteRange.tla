------------------------------ MODULE ByteRange ------------------------------
(***************************************************************************)
(* The single Range header hadro understands (_parse_range in              *)
(* api/objects.py).  A header is its two numbers, Missing where the        *)
(* header gives none; a header that is absent, malformed or asks for       *)
(* several ranges is one with both missing.                                *)
(***************************************************************************)
EXTENDS Integers

Missing == -1
Header(first, last) == [first |-> first, last |-> last]
Headers == [first : Nat \cup {Missing}, last : Nat \cup {Missing}]
NoHeader == Header(Missing, Missing)

Whole == [kind |-> "whole"]
Invalid == [kind |-> "invalid"]
Part(start, end) == [kind |-> "part", start |-> start, end |-> end]

Least(a, b) == IF a < b THEN a ELSE b
Most(a, b) == IF a > b THEN a ELSE b

ParseRange(h, size) ==
  IF h.first = Missing /\ h.last = Missing THEN Whole
  ELSE IF h.first = Missing
    THEN IF h.last = 0 THEN Invalid ELSE Part(Most(size - h.last, 0), size - 1)
  ELSE IF h.first >= size \/ (h.last # Missing /\ h.last < h.first) THEN Invalid
  ELSE Part(h.first, IF h.last = Missing THEN size - 1 ELSE Least(h.last, size - 1))

\* The bytes a header asks for, of an object of the given size (RFC 9110, 14.1.2).
Wanted(h, size) ==
  {p \in 0..size - 1 : IF h.first = Missing
                         THEN p >= size - h.last
                         ELSE p >= h.first /\ (h.last = Missing \/ p <= h.last)}

\* A suffix range of an empty object is no part of it, and not refused either.
EmptyTail(h, size) == size = 0 /\ h.first = Missing /\ h.last \notin {0, Missing}

\* The bytes of content[start:end + 1]
Slice(part, size) == {p \in part.start..part.end : p < size}
-----------------------------------------------------------------------------
\* The part sent is the part asked for, nothing is refused that holds a byte of the
\* object and only the suffix of an empty object is taken for a part that holds none:
\* _parse_range agrees with the definition of a byte range.
ServesWanted(h, size) ==
  LET r == ParseRange(h, size) IN
  /\ r.kind = "whole" <=> h = NoHeader
  /\ r.kind = "part" => r.start..r.end = Wanted(h, size)
  /\ r.kind = "invalid" => Wanted(h, size) = {} /\ ~EmptyTail(h, size)
  /\ r.kind = "part" /\ Wanted(h, size) = {} => EmptyTail(h, size)
=============================================================================
