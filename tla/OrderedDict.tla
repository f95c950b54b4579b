---------------------------- MODULE OrderedDict ----------------------------
(***************************************************************************)
(* Python's collections.OrderedDict: what is stored under each key, and    *)
(* the keys from the oldest to the newest.  Only the methods that hadro's  *)
(* cache calls are here.                                                   *)
(***************************************************************************)
EXTENDS Integers, SequencesExt

EmptyDict == [at |-> [k \in {} |-> k], order |-> << >>]

Has(d, k) == k \in DOMAIN d.at

\* The dictionaries with keys in K and values in V.
IsDict(d, K, V) ==
  /\ d = [at |-> d.at, order |-> d.order]
  /\ d.order \in Seq(K)
  /\ IsInjective(d.order)
  /\ d.at \in [Range(d.order) -> V]

Place(s, k) == CHOOSE i \in DOMAIN s : s[i] = k

\* del d[k], and d.pop(k) for its effect
Delete(d, k) == [at    |-> Restrict(d.at, DOMAIN d.at \ {k}),
                 order |-> RemoveAt(d.order, Place(d.order, k))]

\* d[k] = e: a key that is already there keeps its place
Assign(d, k, e) == [at    |-> [x \in DOMAIN d.at \cup {k} |->
                                 IF x = k THEN e ELSE d.at[x]],
                    order |-> IF Has(d, k) THEN d.order ELSE Append(d.order, k)]

\* d.move_to_end(k)
MoveToEnd(d, k) == [d EXCEPT !.order = Append(RemoveAt(@, Place(@, k)), k)]

\* What n calls of d.popitem(last=False) take out, and what they leave.
Oldest(d, n) == Restrict(d.at, Range(SubSeq(d.order, 1, n)))

DropOldest(d, n) ==
  LET rest == SubSeq(d.order, n + 1, Len(d.order))
  IN  [at |-> Restrict(d.at, Range(rest)), order |-> rest]
=============================================================================
