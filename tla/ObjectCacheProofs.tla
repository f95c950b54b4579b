-------------------------- MODULE ObjectCacheProofs --------------------------
(***************************************************************************)
(* Proofs about the cache of ObjectCache, for any keys, objects, threads,  *)
(* sizes, ttl and bounds: its types, its accounting of bytes, how recent   *)
(* what it holds is, when a ranged read pulls a large object through it,   *)
(* that it evicts what was not used for longest, and that it gives its     *)
(* readers what BoundedStaleness promises them.                            *)
(***************************************************************************)
EXTENDS EvictionOrder, SequenceTheorems, FiniteSetTheorems, TLAPS
-----------------------------------------------------------------------------
(* The dictionary: each operation of OrderedDict keeps the form of a       *)
(* dictionary, changes the one entry it is about, and moves no key before  *)
(* another but the one it puts at the end.                                 *)

\* A sequence with one element cut out.
LEMMA RemoveAtProperties ==
  ASSUME NEW S, NEW s \in Seq(S), NEW i \in 1..Len(s)
  PROVE  /\ RemoveAt(s, i) \in Seq(S)
         /\ Len(RemoveAt(s, i)) = Len(s) - 1
         /\ \A j \in 1..Len(s) - 1 :
              RemoveAt(s, i)[j] = IF j < i THEN s[j] ELSE s[j + 1]
<1> DEFINE a == SubSeq(s, 1, i - 1)
           b == SubSeq(s, i + 1, Len(s))
<1>1. Len(s) \in Nat /\ \A j \in 1..Len(s) : s[j] \in S
  BY LenProperties, ElementOfSeq
<1>2. /\ a \in Seq(S) /\ Len(a) = i - 1
      /\ \A j \in 1..i - 1 : a[j] = s[j]
  BY <1>1, SubSeqProperties
<1>3. /\ b \in Seq(S) /\ Len(b) = Len(s) - i
      /\ \A j \in 1..Len(s) - i : b[j] = s[i + j]
  BY <1>1, SubSeqProperties
<1>4. /\ a \o b \in Seq(S)
      /\ Len(a \o b) = Len(a) + Len(b)
      /\ \A j \in 1..Len(a) + Len(b) :
           (a \o b)[j] = IF j <= Len(a) THEN a[j] ELSE b[j - Len(a)]
  BY <1>2, <1>3, ConcatProperties
<1>5. RemoveAt(s, i) = a \o b
  BY DEF RemoveAt
<1> DEFINE r == a \o b
<1>6. \A j \in 1..Len(s) - 1 : r[j] = IF j < i THEN s[j] ELSE s[j + 1]
  <2>1. SUFFICES ASSUME NEW j \in 1..Len(s) - 1
                 PROVE  r[j] = IF j < i THEN s[j] ELSE s[j + 1]
    OBVIOUS
  <2> HIDE DEF a, b
  <2>2. r[j] = IF j <= Len(a) THEN a[j] ELSE b[j - Len(a)]
    BY <1>1, <1>2, <1>3, <1>4
  <2> HIDE DEF r
  <2>3. CASE j < i
    BY <2>2, <2>3, <1>1, <1>2
  <2>4. CASE j >= i
    <3>1. j - Len(a) \in 1..Len(s) - i /\ i + (j - Len(a)) = j + 1
      BY <2>4, <1>1, <1>2
    <3>2. b[j - Len(a)] = s[j + 1]
      BY <3>1, <1>3
    <3> QED  BY <2>2, <2>4, <3>2, <1>1, <1>2
  <2> QED  BY <2>3, <2>4, <1>1
<1> HIDE DEF a, b
<1>7. Len(a) + Len(b) = Len(s) - 1
  BY <1>1, <1>2, <1>3
<1> QED  BY <1>4, <1>5, <1>6, <1>7

\* The place of a key is where the key is, when it occurs at all.
LEMMA PlaceProperties ==
  ASSUME NEW S, NEW s \in Seq(S), NEW k \in Range(s)
  PROVE  Place(s, k) \in 1..Len(s) /\ s[Place(s, k)] = k
<1>1. DOMAIN s = 1..Len(s)
  BY LenProperties
<1>2. \E i \in DOMAIN s : s[i] = k
  BY DEF Range
<1> QED  BY <1>1, <1>2 DEF Place

\* Cutting the only occurrence of a key out of a sequence of distinct keys leaves
\* the other keys, still distinct.
LEMMA CutProperties ==
  ASSUME NEW S, NEW s \in Seq(S), IsInjective(s), NEW k \in Range(s)
  PROVE  LET r == RemoveAt(s, Place(s, k)) IN
         /\ r \in Seq(S)
         /\ IsInjective(r)
         /\ Range(r) = Range(s) \ {k}
<1> DEFINE i == Place(s, k)
           r == RemoveAt(s, i)
<1>1. i \in 1..Len(s) /\ s[i] = k
  BY PlaceProperties
<1>2. /\ r \in Seq(S) /\ Len(r) = Len(s) - 1
      /\ \A j \in 1..Len(s) - 1 : r[j] = IF j < i THEN s[j] ELSE s[j + 1]
  BY <1>1, RemoveAtProperties
<1>3. DOMAIN s = 1..Len(s) /\ DOMAIN r = 1..Len(s) - 1 /\ Len(s) \in Nat
  BY <1>2, LenProperties
<1> HIDE DEF i, r
<1>4. \A p, q \in 1..Len(s) : s[p] = s[q] => p = q
  BY <1>3 DEF IsInjective
<1>5. IsInjective(r)
  <2>1. SUFFICES ASSUME NEW p \in 1..Len(s) - 1, NEW q \in 1..Len(s) - 1, r[p] = r[q]
                 PROVE  p = q
    BY <1>3 DEF IsInjective
  <2> QED  BY <2>1, <1>1, <1>2, <1>3, <1>4
<1>6. Range(r) \subseteq Range(s) \ {k}
  BY <1>1, <1>2, <1>3, <1>4 DEF Range
<1>7. ASSUME NEW x \in Range(s), x # k  PROVE x \in Range(r)
  <2>1. PICK p \in 1..Len(s) : s[p] = x
    BY <1>3 DEF Range
  <2>2. p # i
    BY <2>1, <1>1, <1>7
  <2>3. CASE p < i
    <3>1. p \in 1..Len(s) - 1 /\ r[p] = x
      BY <2>1, <2>3, <1>1, <1>2, <1>3
    <3> QED  BY <3>1, <1>3 DEF Range
  <2>4. CASE p > i
    <3>1. p - 1 \in 1..Len(s) - 1 /\ r[p - 1] = x
      BY <2>1, <2>4, <1>1, <1>2, <1>3
    <3> QED  BY <3>1, <1>3 DEF Range
  <2> QED  BY <2>2, <2>3, <2>4, <1>1
<1> QED  BY <1>2, <1>5, <1>6, <1>7 DEF i, r

\* The empty dictionary.
LEMMA EmptyDictProperties ==
  ASSUME NEW K, NEW V
  PROVE  IsDict(EmptyDict, K, V) /\ DOMAIN EmptyDict.at = {}
<1>1. EmptyDict.order = << >> /\ DOMAIN EmptyDict.at = {}
  BY DEF EmptyDict
<1>2. DOMAIN EmptyDict.order = {} /\ EmptyDict.order \in Seq(K)
  BY <1>1, EmptySeq, LenProperties
<1> QED  BY <1>1, <1>2 DEF IsDict, EmptyDict, Range, IsInjective

\* Deleting a key leaves every other entry as it was.
LEMMA DeleteProperties ==
  ASSUME NEW K, NEW V, NEW d, IsDict(d, K, V), NEW k \in DOMAIN d.at
  PROVE  /\ IsDict(Delete(d, k), K, V)
         /\ Delete(d, k).at = Restrict(d.at, DOMAIN d.at \ {k})
<1>1. /\ d.order \in Seq(K) /\ IsInjective(d.order)
      /\ d.at \in [Range(d.order) -> V] /\ k \in Range(d.order)
  BY DEF IsDict
<1> DEFINE r == RemoveAt(d.order, Place(d.order, k))
<1>2. r \in Seq(K) /\ IsInjective(r) /\ Range(r) = Range(d.order) \ {k}
  BY <1>1, CutProperties
<1> HIDE DEF r
<1>3. Delete(d, k) = [at |-> Restrict(d.at, DOMAIN d.at \ {k}), order |-> r]
  BY DEF Delete, r
<1>4. Restrict(d.at, DOMAIN d.at \ {k}) \in [Range(r) -> V]
  BY <1>1, <1>2 DEF Restrict
<1>5. Delete(d, k).at = Restrict(d.at, DOMAIN d.at \ {k}) /\ Delete(d, k).order = r
  BY <1>3
<1> QED  BY <1>2, <1>3, <1>4, <1>5 DEF IsDict

\* A sequence of distinct keys with a new one at its end.
LEMMA AppendNewProperties ==
  ASSUME NEW S, NEW s \in Seq(S), IsInjective(s), NEW k \in S, k \notin Range(s)
  PROVE  /\ Append(s, k) \in Seq(S)
         /\ IsInjective(Append(s, k))
         /\ Range(Append(s, k)) = Range(s) \cup {k}
<1> DEFINE r == Append(s, k)
<1>1. /\ r \in Seq(S) /\ Len(r) = Len(s) + 1
      /\ \A j \in 1..Len(s) : r[j] = s[j]
      /\ r[Len(s) + 1] = k
  BY AppendProperties
<1>2. DOMAIN s = 1..Len(s) /\ DOMAIN r = 1..Len(s) + 1 /\ Len(s) \in Nat
  BY <1>1, LenProperties
<1> HIDE DEF r
<1>3. IsInjective(r)
  <2>1. SUFFICES ASSUME NEW p \in 1..Len(s) + 1, NEW q \in 1..Len(s) + 1, r[p] = r[q]
                 PROVE  p = q
    BY <1>2 DEF IsInjective
  <2>2. \A j \in 1..Len(s) : s[j] # k
    BY <1>2 DEF Range
  <2> QED  BY <2>1, <2>2, <1>1, <1>2 DEF IsInjective
<1>4. Range(r) = Range(s) \cup {k}
  <2>1. \A x \in Range(r) : x \in Range(s) \cup {k}
    BY <1>1, <1>2 DEF Range
  <2>2. k \in Range(r)
    BY <1>1, <1>2 DEF Range
  <2>3. ASSUME NEW x \in Range(s)  PROVE x \in Range(r)
    <3>1. PICK j \in 1..Len(s) : s[j] = x
      BY <1>2 DEF Range
    <3>2. j \in DOMAIN r /\ r[j] = x
      BY <3>1, <1>1, <1>2
    <3> QED  BY <3>2 DEF Range
  <2> QED  BY <2>1, <2>2, <2>3
<1> QED  BY <1>1, <1>3, <1>4 DEF r

\* Assigning sets the one entry and leaves the others.
LEMMA AssignProperties ==
  ASSUME NEW K, NEW V, NEW d, IsDict(d, K, V), NEW k \in K, NEW e \in V
  PROVE  /\ IsDict(Assign(d, k, e), K, V)
         /\ DOMAIN Assign(d, k, e).at = DOMAIN d.at \cup {k}
         /\ Assign(d, k, e).at[k] = e
         /\ \A x \in DOMAIN d.at \ {k} : Assign(d, k, e).at[x] = d.at[x]
<1>1. /\ d.order \in Seq(K) /\ IsInjective(d.order)
      /\ d.at \in [Range(d.order) -> V]
  BY DEF IsDict
<1> DEFINE at == [x \in DOMAIN d.at \cup {k} |-> IF x = k THEN e ELSE d.at[x]]
           r == IF Has(d, k) THEN d.order ELSE Append(d.order, k)
<1>2. r \in Seq(K) /\ IsInjective(r) /\ Range(r) = Range(d.order) \cup {k}
  <2>1. CASE Has(d, k)
    BY <2>1, <1>1 DEF Has
  <2>2. CASE ~Has(d, k)
    BY <2>2, <1>1, AppendNewProperties DEF Has
  <2> QED  BY <2>1, <2>2
<1>3. Assign(d, k, e) = [at |-> at, order |-> r]
  BY DEF Assign
<1> HIDE DEF r
<1>4. at \in [Range(r) -> V]
  BY <1>1, <1>2
<1> QED  BY <1>2, <1>3, <1>4 DEF IsDict

\* Moving a key to the end changes no entry.
LEMMA MoveToEndProperties ==
  ASSUME NEW K, NEW V, NEW d, IsDict(d, K, V), NEW k \in DOMAIN d.at
  PROVE  IsDict(MoveToEnd(d, k), K, V) /\ MoveToEnd(d, k).at = d.at
<1>1. /\ d.order \in Seq(K) /\ IsInjective(d.order)
      /\ d.at \in [Range(d.order) -> V] /\ k \in Range(d.order)
      /\ d = [at |-> d.at, order |-> d.order]
  BY DEF IsDict
<1> DEFINE r == RemoveAt(d.order, Place(d.order, k))
<1>2. r \in Seq(K) /\ IsInjective(r) /\ Range(r) = Range(d.order) \ {k}
  BY <1>1, CutProperties
<1>3. k \in K
  BY <1>1, PlaceProperties, ElementOfSeq
<1>5. MoveToEnd(d, k) = [d EXCEPT !.order = Append(r, k)]
  BY DEF MoveToEnd
<1> HIDE DEF r
<1>6. MoveToEnd(d, k) = [at |-> d.at, order |-> Append(r, k)]
  BY <1>1, <1>5
<1>7. /\ Append(r, k) \in Seq(K) /\ IsInjective(Append(r, k))
      /\ Range(Append(r, k)) = Range(r) \cup {k}
  BY <1>2, <1>3, AppendNewProperties
<1>4. /\ MoveToEnd(d, k).at = d.at /\ MoveToEnd(d, k).order = Append(r, k)
      /\ Range(Append(r, k)) = Range(d.order)
  BY <1>1, <1>2, <1>6, <1>7
<1> QED  BY <1>1, <1>4, <1>6, <1>7 DEF IsDict

\* Taking the n oldest entries out splits a dictionary in two.
LEMMA DropOldestProperties ==
  ASSUME NEW K, NEW V, NEW d, IsDict(d, K, V), NEW n \in 0..Len(d.order)
  PROVE  /\ IsDict(DropOldest(d, n), K, V)
         /\ DOMAIN DropOldest(d, n).at \cup DOMAIN Oldest(d, n) = DOMAIN d.at
         /\ DOMAIN DropOldest(d, n).at \cap DOMAIN Oldest(d, n) = {}
         /\ DropOldest(d, n).at = Restrict(d.at, DOMAIN DropOldest(d, n).at)
         /\ Oldest(d, n) = Restrict(d.at, DOMAIN Oldest(d, n))
<1>1. /\ d.order \in Seq(K) /\ IsInjective(d.order)
      /\ d.at \in [Range(d.order) -> V]
  BY DEF IsDict
<1> DEFINE s == d.order
           a == SubSeq(s, 1, n)
           b == SubSeq(s, n + 1, Len(s))
<1>2. /\ Len(s) \in Nat /\ DOMAIN s = 1..Len(s)
      /\ \A j \in 1..Len(s) : s[j] \in K
  BY <1>1, LenProperties, ElementOfSeq
<1>3. /\ a \in Seq(K) /\ Len(a) = n
      /\ \A j \in 1..n : a[j] = s[j]
  BY <1>2, SubSeqProperties
<1>4. /\ b \in Seq(K) /\ Len(b) = Len(s) - n
      /\ \A j \in 1..Len(s) - n : b[j] = s[n + j]
  BY <1>2, SubSeqProperties
<1>5. DOMAIN a = 1..n /\ DOMAIN b = 1..Len(s) - n
  BY <1>3, <1>4, LenProperties
<1>6. /\ DropOldest(d, n) = [at |-> Restrict(d.at, Range(b)), order |-> b]
      /\ Oldest(d, n) = Restrict(d.at, Range(a))
  BY DEF DropOldest, Oldest
<1> HIDE DEF a, b
<1>7. \A p, q \in 1..Len(s) : s[p] = s[q] => p = q
  BY <1>1, <1>2 DEF IsInjective
<1>8. IsInjective(b)
  <2>1. SUFFICES ASSUME NEW p \in 1..Len(s) - n, NEW q \in 1..Len(s) - n, b[p] = b[q]
                 PROVE  p = q
    BY <1>5 DEF IsInjective
  <2>2. n + p \in 1..Len(s) /\ n + q \in 1..Len(s) /\ s[n + p] = s[n + q]
    BY <2>1, <1>2, <1>4
  <2> QED  BY <2>2, <1>7
<1>9. Range(a) \cup Range(b) = Range(s)
  <2>1. \A x \in Range(a) : x \in Range(s)
    BY <1>2, <1>3, <1>5 DEF Range
  <2>3. ASSUME NEW x \in Range(b)  PROVE x \in Range(s)
    <3>1. PICK j \in 1..Len(s) - n : b[j] = x
      BY <1>5 DEF Range
    <3>2. n + j \in 1..Len(s) /\ s[n + j] = x
      BY <3>1, <1>2, <1>4
    <3> QED  BY <3>2, <1>2 DEF Range
  <2>2. ASSUME NEW x \in Range(s)  PROVE x \in Range(a) \cup Range(b)
    <3>1. PICK j \in 1..Len(s) : s[j] = x
      BY <1>2 DEF Range
    <3>2. CASE j <= n
      BY <3>1, <3>2, <1>3, <1>5 DEF Range
    <3>3. CASE j > n
      <4>1. j - n \in 1..Len(s) - n /\ n + (j - n) = j
        BY <3>1, <3>3, <1>2
      <4>2. b[j - n] = x
        BY <4>1, <3>1, <1>4
      <4> QED  BY <4>1, <4>2, <1>5 DEF Range
    <3> QED  BY <3>2, <3>3
  <2> QED  BY <2>1, <2>2, <2>3
<1>10. Range(a) \cap Range(b) = {}
  <2>1. SUFFICES ASSUME NEW p \in 1..n, NEW q \in 1..Len(s) - n, a[p] = b[q]
                 PROVE  FALSE
    BY <1>5 DEF Range
  <2>2. p \in 1..Len(s) /\ n + q \in 1..Len(s) /\ p # n + q
    BY <1>2
  <2>3. s[p] = s[n + q]
    BY <2>1, <1>3, <1>4
  <2> QED  BY <2>2, <2>3, <1>7
<1>11. /\ Restrict(d.at, Range(b)) \in [Range(b) -> V]
       /\ DOMAIN Restrict(d.at, Range(a)) = Range(a)
  BY <1>1, <1>9 DEF Restrict
<1> QED  BY <1>1, <1>4, <1>6, <1>8, <1>9, <1>10, <1>11 DEF IsDict
-----------------------------------------------------------------------------
(* The order of the keys.                                                  *)

\* Key a comes before key b in the order s.
Before(s, a, b) == \E i, j \in 1..Len(s) : i < j /\ s[i] = a /\ s[j] = b

\* Cutting a key out leaves the others in their order.
LEMMA CutBefore ==
  ASSUME NEW S, NEW s \in Seq(S), IsInjective(s), NEW k \in Range(s),
         NEW a \in Range(s) \ {k}, NEW b \in Range(s) \ {k}
  PROVE  Before(RemoveAt(s, Place(s, k)), a, b) <=> Before(s, a, b)
<1> DEFINE c == Place(s, k)
           r == RemoveAt(s, c)
<1>1. c \in 1..Len(s) /\ s[c] = k
  BY PlaceProperties
<1>2. /\ Len(r) = Len(s) - 1
      /\ \A j \in 1..Len(s) - 1 : r[j] = IF j < c THEN s[j] ELSE s[j + 1]
  BY <1>1, RemoveAtProperties
<1>3. Len(s) \in Nat
  BY LenProperties
<1> HIDE DEF c, r
<1>4. ASSUME Before(r, a, b)  PROVE Before(s, a, b)
  <2>1. PICK i \in 1..Len(s) - 1, j \in 1..Len(s) - 1 : i < j /\ r[i] = a /\ r[j] = b
    BY <1>2, <1>4 DEF Before
  <2> DEFINE p == IF i < c THEN i ELSE i + 1
             q == IF j < c THEN j ELSE j + 1
  <2>2. p \in 1..Len(s) /\ q \in 1..Len(s) /\ p < q
    BY <1>1, <1>3, <2>1
  <2>3. s[p] = a /\ s[q] = b
    BY <1>2, <2>1
  <2> QED  BY <2>2, <2>3 DEF Before
<1>5. ASSUME Before(s, a, b)  PROVE Before(r, a, b)
  <2>1. PICK i \in 1..Len(s), j \in 1..Len(s) : i < j /\ s[i] = a /\ s[j] = b
    BY <1>5 DEF Before
  <2>2. i # c /\ j # c
    BY <1>1, <2>1
  <2> DEFINE p == IF i < c THEN i ELSE i - 1
             q == IF j < c THEN j ELSE j - 1
  <2>3. p \in 1..Len(s) - 1 /\ q \in 1..Len(s) - 1 /\ p < q
    BY <1>1, <1>3, <2>1, <2>2
  <2>4. r[p] = a
    <3>1. CASE i < c
      BY <1>2, <2>1, <2>3, <3>1
    <3>2. CASE i > c
      <4>1. p = i - 1 /\ ~(i - 1 < c) /\ i - 1 + 1 = i
        BY <1>1, <2>1, <3>2
      <4> QED  BY <1>2, <2>1, <2>3, <4>1
    <3> QED  BY <1>1, <2>2, <3>1, <3>2
  <2>5. r[q] = b
    <3>1. CASE j < c
      BY <1>2, <2>1, <2>3, <3>1
    <3>2. CASE j > c
      <4>1. q = j - 1 /\ ~(j - 1 < c) /\ j - 1 + 1 = j
        BY <1>1, <2>1, <3>2
      <4> QED  BY <1>2, <2>1, <2>3, <4>1
    <3> QED  BY <1>1, <2>2, <3>1, <3>2
  <2> QED  BY <1>2, <2>3, <2>4, <2>5 DEF Before
<1> QED  BY <1>4, <1>5 DEF c, r

\* A key put at the end comes behind the others, which stay in their order.
LEMMA AppendBefore ==
  ASSUME NEW S, NEW s \in Seq(S), NEW k \in S, k \notin Range(s),
         NEW a \in Range(s) \cup {k}, NEW b \in Range(s) \cup {k}
  PROVE  Before(Append(s, k), a, b)
           <=> a # k /\ (b = k \/ Before(s, a, b))
<1> DEFINE r == Append(s, k)
<1>1. /\ Len(r) = Len(s) + 1 /\ Len(s) \in Nat
      /\ \A j \in 1..Len(s) : r[j] = s[j]
      /\ r[Len(s) + 1] = k
  BY AppendProperties, LenProperties
<1>2. DOMAIN s = 1..Len(s)
  BY LenProperties
<1>3. \A j \in 1..Len(s) : s[j] # k
  BY <1>2 DEF Range
<1> HIDE DEF r
<1>4. ASSUME Before(r, a, b)  PROVE a # k /\ (b = k \/ Before(s, a, b))
  <2>1. PICK i \in 1..Len(s) + 1, j \in 1..Len(s) + 1 : i < j /\ r[i] = a /\ r[j] = b
    BY <1>1, <1>4 DEF Before
  <2>2. i \in 1..Len(s) /\ s[i] = a
    BY <1>1, <2>1
  <2>3. CASE j = Len(s) + 1
    BY <1>1, <1>3, <2>1, <2>2, <2>3
  <2>4. CASE j \in 1..Len(s)
    BY <1>1, <1>3, <2>1, <2>2, <2>4 DEF Before
  <2> QED  BY <1>1, <2>1, <2>3, <2>4
<1>5. ASSUME a # k, b = k  PROVE Before(r, a, b)
  <2>1. PICK i \in 1..Len(s) : s[i] = a
    BY <1>2, <1>5 DEF Range
  <2>2. i \in 1..Len(r) /\ Len(s) + 1 \in 1..Len(r) /\ i < Len(s) + 1
    BY <1>1
  <2> QED  BY <1>1, <1>5, <2>1, <2>2 DEF Before
<1>6. ASSUME Before(s, a, b)  PROVE Before(r, a, b)
  <2>1. PICK i \in 1..Len(s), j \in 1..Len(s) : i < j /\ s[i] = a /\ s[j] = b
    BY <1>6 DEF Before
  <2>2. i \in 1..Len(r) /\ j \in 1..Len(r)
    BY <1>1
  <2> QED  BY <1>1, <2>1, <2>2 DEF Before
<1> QED  BY <1>4, <1>5, <1>6 DEF r

\* A key put at the end of the order comes behind all others.
LEMMA MovedBefore ==
  ASSUME NEW K, NEW V, NEW d, IsDict(d, K, V), NEW k \in DOMAIN d.at,
         NEW a \in DOMAIN d.at, NEW b \in DOMAIN d.at
  PROVE  Before(MoveToEnd(d, k).order, a, b)
           <=> a # k /\ (b = k \/ Before(d.order, a, b))
<1>1. /\ d.order \in Seq(K) /\ IsInjective(d.order)
      /\ DOMAIN d.at = Range(d.order) /\ d = [at |-> d.at, order |-> d.order]
  BY DEF IsDict
<1> DEFINE r == RemoveAt(d.order, Place(d.order, k))
<1>2. r \in Seq(K) /\ Range(r) = Range(d.order) \ {k}
  BY <1>1, CutProperties
<1>3. MoveToEnd(d, k).order = Append(r, k)
  BY <1>1 DEF MoveToEnd
<1>4. a # k /\ b # k => (Before(r, a, b) <=> Before(d.order, a, b))
  BY <1>1, CutBefore
<1>5. k \in K
  BY <1>1, PlaceProperties, ElementOfSeq
<1> HIDE DEF r
<1> QED  BY <1>1, <1>2, <1>3, <1>4, <1>5, AppendBefore

\* Deleting a key leaves the others in their order.
LEMMA DeletedBefore ==
  ASSUME NEW K, NEW V, NEW d, IsDict(d, K, V), NEW k \in DOMAIN d.at,
         NEW a \in DOMAIN d.at \ {k}, NEW b \in DOMAIN d.at \ {k}
  PROVE  Before(Delete(d, k).order, a, b) <=> Before(d.order, a, b)
  BY CutBefore DEF Delete, IsDict

\* The oldest keys go out; those that stay keep their order and came behind them.
LEMMA DroppedBefore ==
  ASSUME NEW K, NEW V, NEW d, IsDict(d, K, V), NEW n \in 0..Len(d.order),
         NEW b \in DOMAIN DropOldest(d, n).at, NEW a \in DOMAIN d.at
  PROVE  /\ a \in DOMAIN DropOldest(d, n).at
              => (Before(DropOldest(d, n).order, a, b) <=> Before(d.order, a, b))
         /\ a \notin DOMAIN DropOldest(d, n).at => Before(d.order, a, b)
<1>1. /\ d.order \in Seq(K) /\ IsInjective(d.order)
      /\ DOMAIN d.at = Range(d.order)
  BY DEF IsDict
<1> DEFINE s == d.order
           r == SubSeq(s, n + 1, Len(s))
<1>2. Len(s) \in Nat /\ DOMAIN s = 1..Len(s) /\ \A j \in 1..Len(s) : s[j] \in K
  BY <1>1, LenProperties, ElementOfSeq
<1>3. /\ r \in Seq(K) /\ Len(r) = Len(s) - n
      /\ \A j \in 1..Len(s) - n : r[j] = s[n + j]
  BY <1>2, SubSeqProperties
<1>4. DropOldest(d, n).order = r /\ DropOldest(d, n).at = Restrict(d.at, Range(r))
  BY DEF DropOldest
<1>5. DOMAIN DropOldest(d, n).at = Range(r)
  BY <1>4 DEF Restrict
<1> HIDE DEF r
<1>6. DOMAIN r = 1..Len(s) - n
  BY <1>3, LenProperties
<1>7. \A p, q \in 1..Len(s) : s[p] = s[q] => p = q
  BY <1>1, <1>2 DEF IsInjective
<1>8. PICK j \in 1..Len(s) - n : r[j] = b
  BY <1>5, <1>6 DEF Range
<1>9. n + j \in 1..Len(s) /\ s[n + j] = b
  BY <1>2, <1>3, <1>8
<1>10. PICK i \in 1..Len(s) : s[i] = a
  BY <1>1, <1>2 DEF Range
<1>11. CASE i <= n
  <2>1. a \notin Range(r)
    <3>1. SUFFICES ASSUME NEW p \in 1..Len(s) - n, r[p] = a  PROVE FALSE
      BY <1>6 DEF Range
    <3>2. n + p \in 1..Len(s) /\ s[n + p] = a
      BY <1>2, <1>3, <3>1
    <3> QED  BY <1>7, <1>10, <1>11, <3>2
  <2>2. Before(s, a, b)
    BY <1>9, <1>10, <1>11 DEF Before
  <2> QED  BY <1>5, <2>1, <2>2
<1>12. CASE i > n
  <2>1. i - n \in 1..Len(s) - n /\ r[i - n] = a
    <3>1. i - n \in 1..Len(s) - n /\ n + (i - n) = i
      BY <1>2, <1>10, <1>12
    <3> QED  BY <1>3, <1>10, <3>1
  <2>2. a \in Range(r)
    BY <1>6, <2>1 DEF Range
  <2>3. Before(s, a, b) <=> i < n + j
    BY <1>7, <1>9, <1>10 DEF Before
  <2>4. ASSUME Before(r, a, b)  PROVE i < n + j
    <3>1. PICK p \in 1..Len(s) - n, q \in 1..Len(s) - n : p < q /\ r[p] = a /\ r[q] = b
      BY <1>3, <2>4 DEF Before
    <3>2. /\ n + p \in 1..Len(s) /\ n + q \in 1..Len(s) /\ s[n + p] = a /\ s[n + q] = b
      BY <1>2, <1>3, <3>1
    <3>3. n + p = i /\ n + q = n + j
      BY <1>7, <1>9, <1>10, <3>2
    <3> QED  BY <3>1, <3>3
  <2>5. ASSUME i < n + j  PROVE Before(r, a, b)
    <3>1. i - n < j
      BY <2>5
    <3> QED  BY <1>3, <1>8, <2>1, <3>1 DEF Before
  <2> QED  BY <1>4, <1>5, <2>2, <2>3, <2>4, <2>5
<1> QED  BY <1>2, <1>11, <1>12
-----------------------------------------------------------------------------
(* The bytes of the cache                                                  *)

\* The bytes of finitely many entries can be counted.
LEMMA BytesFinite ==
  ASSUME NEW at, IsFiniteSet(DOMAIN at)
  PROVE  IsFiniteSet(Bytes(at)) /\ Total(at) \in Nat
<1>1. MaxSize \in Int
  BY CacheAssumption
<1>2. IsFiniteSet(1..MaxSize)
  BY <1>1, FS_Interval
<1>3. IsFiniteSet((DOMAIN at) \X (1..MaxSize))
  BY <1>2, FS_Product
<1>4. Bytes(at) \in SUBSET ((DOMAIN at) \X (1..MaxSize))
  BY DEF Bytes
<1>5. IsFiniteSet(Bytes(at))
  BY <1>3, <1>4, FS_Subset
<1> QED  BY <1>5, FS_CardinalityType DEF Total

\* A dictionary has finitely many entries.
LEMMA DictFinite ==
  ASSUME NEW V, NEW d, IsDict(d, Keys, V)
  PROVE  IsFiniteSet(DOMAIN d.at)
<1>1. /\ d.order \in Seq(Keys) /\ DOMAIN d.at = Range(d.order)
  BY DEF IsDict
<1>2. DOMAIN d.order = 1..Len(d.order) /\ Len(d.order) \in Nat
  BY <1>1, LenProperties
<1>3. d.order \in Surjection(1..Len(d.order), Range(d.order))
  BY <1>1, <1>2, LenProperties DEF Surjection, Range
<1>4. IsFiniteSet(1..Len(d.order))
  BY <1>2, FS_Interval
<1> QED  BY <1>1, <1>3, <1>4, FS_Surjection

\* The bytes of two disjoint parts add up.
LEMMA TotalSplit ==
  ASSUME NEW at, IsFiniteSet(DOMAIN at), NEW A, NEW B,
         A \cup B = DOMAIN at, A \cap B = {}
  PROVE  Total(at) = Total(Restrict(at, A)) + Total(Restrict(at, B))
<1> DEFINE ra == Restrict(at, A)
           rb == Restrict(at, B)
<1>1. IsFiniteSet(A) /\ IsFiniteSet(B)
  BY FS_Subset
<1>2. DOMAIN ra = A /\ DOMAIN rb = B
      /\ (\A k \in A : ra[k] = at[k]) /\ (\A k \in B : rb[k] = at[k])
  BY DEF Restrict
<1> HIDE DEF ra, rb
<1>3. /\ IsFiniteSet(Bytes(ra)) /\ Total(ra) \in Nat
      /\ IsFiniteSet(Bytes(rb)) /\ Total(rb) \in Nat
  BY <1>1, <1>2, BytesFinite
<1>4. Bytes(at) = Bytes(ra) \cup Bytes(rb)
  BY <1>2 DEF Bytes
<1>5. Bytes(ra) \cap Bytes(rb) = {}
  BY <1>2 DEF Bytes
<1>6. Cardinality(Bytes(ra) \cup Bytes(rb))
        = Cardinality(Bytes(ra)) + Cardinality(Bytes(rb)) - Cardinality({})
  BY <1>3, <1>5, FS_Union
<1> QED  BY <1>3, <1>4, <1>6, FS_EmptySet DEF Total, ra, rb

\* One entry has as many bytes as its object.
LEMMA TotalOne ==
  ASSUME NEW at, NEW k, DOMAIN at = {k}, at[k].obj \in Objects
  PROVE  Total(at) = Size[at[k].obj]
<1> DEFINE n == Size[at[k].obj]
<1>1. n \in 0..MaxSize /\ MaxSize \in Nat
  BY CacheAssumption
<1> HIDE DEF n
<1>2. Bytes(at) = {k} \X (1..n)
  BY <1>1 DEF Bytes, n
<1>3. IsFiniteSet(1..n) /\ Cardinality(1..n) = n
  BY <1>1, FS_Interval
<1>4. IsFiniteSet({k}) /\ Cardinality({k}) = 1
  BY FS_Singleton
<1>5. Cardinality({k} \X (1..n)) = 1 * n
  <2>1. Cardinality({k} \X (1..n)) = Cardinality({k}) * Cardinality(1..n)
    BY <1>3, <1>4, FS_Product, Zenon
  <2> QED  BY <2>1, <1>3, <1>4, Zenon
<1>6. 1 * n = n
  BY <1>1
<1>7. Total(at) = n
  BY <1>2, <1>5, <1>6 DEF Total
<1> QED  BY <1>7 DEF n

\* Taking one entry out takes out the bytes of its object.
LEMMA TotalWithout ==
  ASSUME NEW at, IsFiniteSet(DOMAIN at), NEW k \in DOMAIN at, at[k].obj \in Objects
  PROVE  Total(at) = Total(Restrict(at, DOMAIN at \ {k})) + Size[at[k].obj]
<1>1. Total(at) = Total(Restrict(at, DOMAIN at \ {k})) + Total(Restrict(at, {k}))
  BY TotalSplit
<1>2. DOMAIN Restrict(at, {k}) = {k} /\ Restrict(at, {k})[k] = at[k]
  BY DEF Restrict
<1> QED  BY <1>1, <1>2, TotalOne

\* Entries are as large as their objects, however old they are.
LEMMA TotalSameObjects ==
  ASSUME NEW f, NEW g, DOMAIN f = DOMAIN g, \A k \in DOMAIN f : f[k].obj = g[k].obj
  PROVE  Total(f) = Total(g)
<1>1. Bytes(f) = Bytes(g)
  BY DEF Bytes
<1> QED  BY <1>1 DEF Total
-----------------------------------------------------------------------------
(* Type correctness.                                                       *)

\* The program counter tells the form of a call.
LEMMA CallForms ==
  ASSUME TypeOK, NEW t \in Threads
  PROVE  /\ call[t].pc \in {"lookup", "head", "headload", "load", "loadrange"}
              => call[t] \in OpenCalls
         /\ Holding(t) => call[t] \in HoldingCalls
         /\ call[t].pc = "done" => call[t] \in DoneCalls
         /\ call[t].pc = "idle" => call[t] = NoCall
<1>1. call[t] \in Calls
  BY DEF TypeOK
<1>2. CASE call[t] = NoCall
  BY <1>2 DEF NoCall, Holding
<1>3. CASE call[t] \in DoneCalls
  BY <1>3 DEF DoneCalls, Holding
<1>4. CASE call[t] \in OpenCalls
  BY <1>4 DEF OpenCalls, Holding
<1>5. CASE call[t] \in HoldingCalls
  BY <1>5 DEF HoldingCalls, Holding
<1> QED  BY <1>1, <1>2, <1>3, <1>4, <1>5 DEF Calls

\* The four ways a step moves a call on keep every call in its form.
LEMMA CallMoves ==
  ASSUME TypeOK, NEW t \in Threads, call[t] \in OpenCalls \cup HoldingCalls
  PROVE  /\ \A v \in Answers : Give(t, v) => call' \in [Threads -> Calls]
         /\ \A v \in Objects, pc \in {"keep", "headkeep"} :
              Carry(t, pc, v) => call' \in [Threads -> Calls]
         /\ \A pc \in {"load", "loadrange"} :
              Drop(t, pc) => call' \in [Threads -> Calls]
         /\ call[t] \in OpenCalls => \A pc \in {"head", "headload", "load"} :
              Goto(t, pc) => call' \in [Threads -> Calls]
<1>1. /\ call \in [Threads -> Calls]
      /\ call[t].op \in AllOps /\ call[t].key \in Keys
      /\ call[t].seen \in SUBSET Contents
  BY DEF TypeOK, OpenCalls, HoldingCalls
<1>2. ASSUME NEW v \in Answers, Give(t, v)  PROVE call' \in [Threads -> Calls]
  <2>1. [pc |-> "done", key |-> call[t].key, answer |-> v] \in DoneCalls
    BY <1>1 DEF DoneCalls
  <2> QED  BY <1>1, <1>2, <2>1 DEF Give, Calls
<1>3. ASSUME NEW v \in Objects, NEW pc \in {"keep", "headkeep"}, Carry(t, pc, v)
      PROVE  call' \in [Threads -> Calls]
  <2>1. FetchBound \in Nat
    BY CacheAssumption
  <2>2. [pc |-> pc, op |-> call[t].op, key |-> call[t].key,
         seen |-> call[t].seen, obj |-> v, held |-> 0] \in HoldingCalls
    BY <1>1, <2>1 DEF HoldingCalls
  <2> QED  BY <1>1, <1>3, <2>2 DEF Carry, Calls
<1>4. ASSUME NEW pc \in {"load", "loadrange"}, Drop(t, pc)
      PROVE  call' \in [Threads -> Calls]
  <2>1. [pc |-> pc, op |-> call[t].op, key |-> call[t].key,
         seen |-> call[t].seen] \in OpenCalls
    BY <1>1 DEF OpenCalls
  <2> QED  BY <1>1, <1>4, <2>1 DEF Drop, Calls
<1>5. ASSUME call[t] \in OpenCalls, NEW pc \in {"head", "headload", "load"}, Goto(t, pc)
      PROVE  call' \in [Threads -> Calls]
  <2>1. [call[t] EXCEPT !.pc = pc] \in OpenCalls
    BY <1>5 DEF OpenCalls
  <2> QED  BY <1>1, <1>5, <2>1 DEF Goto, Calls
<1> QED  BY <1>2, <1>3, <1>4, <1>5

\* Knowing the head moves a call on, keeping its form.
LEMMA HeadKnownMoves ==
  ASSUME TypeOK, NEW t \in Threads, call[t] \in OpenCalls \cup HoldingCalls,
         NEW v \in Objects, HeadKnown(t, v)
  PROVE  call' \in [Threads -> Calls]
  BY CallMoves DEF HeadKnown, Answers, Contents

\* Growing older keeps a dictionary of entries one.
LEMMA OlderProperties ==
  ASSUME NEW d, IsDict(d, Keys, Entry)
  PROVE  /\ IsDict([d EXCEPT !.at = Older(@)], Keys, Entry)
         /\ [d EXCEPT !.at = Older(@)].at = Older(d.at)
         /\ DOMAIN Older(d.at) = DOMAIN d.at
         /\ \A k \in DOMAIN d.at :
              /\ d.at[k] \in Entry
              /\ Older(d.at)[k].obj = d.at[k].obj
              /\ Older(d.at)[k].age = IF d.at[k].age < Ttl THEN d.at[k].age + 1
                                                          ELSE d.at[k].age
<1>1. /\ d = [at |-> d.at, order |-> d.order]
      /\ d.order \in Seq(Keys) /\ IsInjective(d.order)
      /\ d.at \in [Range(d.order) -> Entry]
  BY DEF IsDict
<1>2. [d EXCEPT !.at = Older(@)] = [at |-> Older(d.at), order |-> d.order]
  BY <1>1
<1>3. Ttl \in Nat
  BY CacheAssumption
<1>4. /\ DOMAIN Older(d.at) = DOMAIN d.at
      /\ \A k \in DOMAIN d.at :
           /\ d.at[k] \in Entry
           /\ Older(d.at)[k] \in Entry
           /\ Older(d.at)[k].obj = d.at[k].obj
           /\ Older(d.at)[k].age = IF d.at[k].age < Ttl THEN d.at[k].age + 1
                                                       ELSE d.at[k].age
  BY <1>1, <1>3 DEF Older, Entry
<1>5. Older(d.at) \in [Range(d.order) -> Entry]
  BY <1>1, <1>4 DEF Older
<1> QED  BY <1>1, <1>2, <1>4, <1>5 DEF IsDict

\* A new entry is an entry.
LEMMA NewEntry == \A v \in Objects : New(v) \in Entry
<1>1. Ttl \in Nat
  BY CacheAssumption
<1> QED  BY <1>1 DEF New, Entry

\* What a store does: the new entry goes in, then a part of the entries (the
\* oldest ones) goes out; the counter drops by the bytes of that part.
LEMMA KeepDict ==
  ASSUME TypeOK, NEW t \in Threads, Keep(t),
         call[t].obj \in Objects, call[t].key \in Keys
  PROVE  /\ IsDict(data', Keys, Entry) /\ size' \in Int
         /\ \A x \in DOMAIN data'.at :
              data'.at[x] = IF x = call[t].key THEN New(call[t].obj) ELSE data.at[x]
         /\ DOMAIN data'.at \subseteq DOMAIN data.at \cup {call[t].key}
         /\ size = Total(data.at) => size' = Total(data'.at) /\ size' <= MaxBytes
<1> DEFINE k == call[t].key
           v == call[t].obj
           base == IF Has(data, k) THEN Delete(data, k) ELSE data
           added == Assign(base, k, New(v))
           sz == SizeWithout(k) + Size[v]
<1>1. PICK n \in 0..Len(added.order) :
        /\ Evictions(added, sz, n)
        /\ data' = DropOldest(added, n)
        /\ size' = sz - Total(Oldest(added, n))
  BY DEF Keep
<1>2. /\ IsDict(data, Keys, Entry) /\ size \in Int
      /\ MaxBytes \in Nat /\ Size \in [Objects -> 0..MaxSize] /\ MaxSize \in Nat
  BY CacheAssumption DEF TypeOK
<1>3. Has(data, k) => k \in DOMAIN data.at /\ data.at[k].obj \in Objects
  BY <1>2 DEF Has, IsDict, Entry
<1>4. /\ IsDict(base, Keys, Entry)
      /\ DOMAIN base.at = DOMAIN data.at \ {k}
      /\ base.at = Restrict(data.at, DOMAIN data.at \ {k})
  <2>1. CASE Has(data, k)
    <3> HIDE DEF k
    <3>2. IsDict(data, Keys, Entry) /\ k \in DOMAIN data.at
      BY <2>1, <1>2, <1>3
    <3>1. IsDict(Delete(data, k), Keys, Entry)
      BY <3>2, DeleteProperties
    <3>3. Delete(data, k).at = Restrict(data.at, DOMAIN data.at \ {k})
      BY DEF Delete
    <3> QED  BY <2>1, <3>1, <3>3 DEF Restrict
  <2>2. CASE ~Has(data, k)
    <3>1. base = data /\ DOMAIN data.at = DOMAIN data.at \ {k}
      BY <2>2 DEF Has
    <3>2. data.at = [x \in DOMAIN data.at |-> data.at[x]]
      BY <1>2 DEF IsDict
    <3> QED  BY <3>1, <3>2, <1>2 DEF Restrict
  <2> QED  BY <2>1, <2>2
<1> HIDE DEF base
<1>5. /\ IsDict(added, Keys, Entry)
      /\ DOMAIN added.at = DOMAIN base.at \cup {k}
      /\ added.at[k] = New(v)
      /\ \A x \in DOMAIN base.at \ {k} : added.at[x] = base.at[x]
  BY <1>4, NewEntry, AssignProperties
<1> HIDE DEF added
<1>6. /\ IsDict(data', Keys, Entry)
      /\ DOMAIN data'.at \cup DOMAIN Oldest(added, n) = DOMAIN added.at
      /\ DOMAIN data'.at \cap DOMAIN Oldest(added, n) = {}
      /\ data'.at = Restrict(added.at, DOMAIN data'.at)
      /\ Oldest(added, n) = Restrict(added.at, DOMAIN Oldest(added, n))
  BY <1>1, <1>5, DropOldestProperties
<1>7. /\ \A x \in DOMAIN data'.at :
           data'.at[x] = IF x = k THEN New(v) ELSE data.at[x]
      /\ DOMAIN data'.at \subseteq DOMAIN data.at \cup {k}
  <2> HIDE DEF k, v
  <2>1. DOMAIN data'.at \subseteq DOMAIN data.at \cup {k}
    BY <1>4, <1>5, <1>6
  <2>2. \A x \in DOMAIN data'.at : data'.at[x] = added.at[x]
    BY <1>6 DEF Restrict
  <2>3. \A x \in DOMAIN data.at \ {k} : base.at[x] = data.at[x]
    BY <1>4 DEF Restrict
  <2> QED  BY <2>1, <2>2, <2>3, <1>4, <1>5
<1>8. IsFiniteSet(DOMAIN data.at) /\ IsFiniteSet(DOMAIN added.at)
      /\ IsFiniteSet(DOMAIN base.at)
  BY <1>2, <1>4, <1>5, DictFinite
<1>9. Total(added.at) = Total(data'.at) + Total(Oldest(added, n))
  BY <1>6, <1>8, TotalSplit
<1>10. IsFiniteSet(DOMAIN data'.at) /\ IsFiniteSet(DOMAIN Oldest(added, n))
  BY <1>6, <1>8, FS_Subset
<1>11. /\ Total(data'.at) \in Nat /\ Total(Oldest(added, n)) \in Nat
       /\ Total(base.at) \in Nat /\ Total(data.at) \in Nat
  BY <1>8, <1>10, BytesFinite
<1>12. Total(added.at) = Total(base.at) + Size[v]
  <2>1. Restrict(added.at, DOMAIN added.at \ {k}) = base.at
    <3>1. DOMAIN added.at \ {k} = DOMAIN base.at
      BY <1>4, <1>5
    <3>2. \A x \in DOMAIN base.at : added.at[x] = base.at[x]
      BY <1>4, <1>5
    <3>3. base.at = [x \in DOMAIN base.at |-> base.at[x]]
      BY <1>4 DEF IsDict
    <3> QED  BY <3>1, <3>2, <3>3 DEF Restrict
  <2>2. added.at[k].obj = v /\ k \in DOMAIN added.at
    BY <1>5 DEF New
  <2> QED  BY <2>1, <2>2, <1>8, TotalWithout
<1>13. size = Total(data.at) => SizeWithout(k) = Total(base.at)
  <2>1. CASE Has(data, k)
    <3>1. Total(data.at) = Total(base.at) + Size[data.at[k].obj]
      BY <2>1, <1>3, <1>4, <1>8, TotalWithout
    <3>2. Size[data.at[k].obj] \in Int
      BY <2>1, <1>2, <1>3
    <3>3. SizeWithout(k) = size - Size[data.at[k].obj]
      BY <2>1 DEF SizeWithout
    <3> HIDE DEF k
    <3> QED  BY <3>1, <3>2, <3>3, <1>11
  <2>2. CASE ~Has(data, k)
    BY <2>2 DEF SizeWithout, base
  <2> QED  BY <2>1, <2>2
<1>14. SizeWithout(k) \in Int /\ Size[v] \in Int
  BY <1>2, <1>3 DEF SizeWithout
<1>15. size' \in Int
  BY <1>1, <1>11, <1>14
<1>16. size = Total(data.at) => size' = Total(data'.at)
  BY <1>1, <1>9, <1>11, <1>12, <1>13, <1>14
<1>17. size = Total(data.at) => size' <= MaxBytes
  <2>1. CASE n = Len(added.order)
    <3>1. DOMAIN data'.at = {}
      <4>1. added.order \in Seq(Keys)
        BY <1>5 DEF IsDict
      <4>2. Len(added.order) \in Nat
        BY <4>1, LenProperties
      <4>3. SubSeq(added.order, n + 1, Len(added.order)) = << >>
        BY <4>2, <2>1, SubSeqEmpty
      <4>4. DOMAIN SubSeq(added.order, n + 1, Len(added.order)) = {}
        BY <4>3, EmptySeq, LenProperties
      <4> QED  BY <4>4, <1>1 DEF DropOldest, Range, Restrict
    <3>2. Bytes(data'.at) = {}
      BY <3>1 DEF Bytes
    <3>3. Total(data'.at) = 0
      BY <3>2, FS_EmptySet DEF Total
    <3> QED  BY <3>3, <1>2, <1>16
  <2>2. CASE sz - Total(Oldest(added, n)) <= MaxBytes
    BY <2>2, <1>1
  <2> QED  BY <2>1, <2>2, <1>1 DEF Evictions
<1> QED  BY <1>6, <1>7, <1>15, <1>16, <1>17

\* Every step keeps every variable in its type.
LEMMA TypeStep == TypeOK /\ [Next]_vars => TypeOK'
<1> SUFFICES ASSUME TypeOK, [Next]_vars
             PROVE  TypeOK'
  OBVIOUS
<1> USE DEF TypeOK
<1>1. ASSUME NEW t \in Threads, NEW k \in Keys, NEW op \in Ops, Begin(t, k, op)
      PROVE  TypeOK'
  <2>1. store[k] \in Contents /\ op \in AllOps
    BY CacheAssumption DEF AllOps
  <2>2. [pc |-> IF op = "head" THEN "head" ELSE "lookup",
         op |-> op, key |-> k, seen |-> {store[k]}] \in OpenCalls
    BY <2>1 DEF OpenCalls
  <2>3. call' \in [Threads -> Calls]
    BY <1>1, <2>2 DEF Begin, Calls
  <2> QED  BY <1>1, <2>3 DEF Begin
<1>2. ASSUME NEW t \in Threads, Lookup(t)
      PROVE  TypeOK'
  <2> DEFINE k == call[t].key
  <2>1. call[t] \in OpenCalls /\ k \in Keys
    BY <1>2, CallForms DEF Lookup, OpenCalls
  <2>2. CASE ~Has(data, k)
    <3>1. call' \in [Threads -> Calls]
      BY <1>2, <2>1, <2>2, CallMoves DEF Lookup
    <3> QED  BY <1>2, <2>2, <3>1 DEF Lookup
  <2>3. CASE Has(data, k) /\ ~Fresh(data.at[k])
    <3>1. call' \in [Threads -> Calls]
      BY <1>2, <2>1, <2>3, CallMoves DEF Lookup
    <3>2. k \in DOMAIN data.at /\ data.at[k].obj \in Objects
      BY <2>3 DEF Has, IsDict, Entry
    <3>3. IsDict(data', Keys, Entry)
      <4>1. data' = Delete(data, k)
        BY <1>2, <2>3 DEF Lookup
      <4> HIDE DEF k
      <4> QED  BY <3>2, <4>1, DeleteProperties
    <3>4. size' \in Int
      BY <1>2, <2>3, <3>2, CacheAssumption DEF Lookup, SizeWithout
    <3> QED  BY <1>2, <3>1, <3>3, <3>4 DEF Lookup
  <2>4. CASE Has(data, k) /\ Fresh(data.at[k])
    <3>1. k \in DOMAIN data.at /\ data.at[k].obj \in Objects
      BY <2>4 DEF Has, IsDict, Entry
    <3>2. call' \in [Threads -> Calls]
      BY <1>2, <2>1, <2>4, <3>1, CallMoves DEF Lookup, Answers, Contents
    <3>3. IsDict(data', Keys, Entry)
      BY <1>2, <2>4, <3>1, MoveToEndProperties DEF Lookup, Used
    <3> QED  BY <1>2, <2>4, <3>2, <3>3 DEF Lookup
  <2> QED  BY <2>2, <2>3, <2>4
<1>3. ASSUME NEW t \in Threads, HeadLookup(t)
      PROVE  TypeOK'
  <2>1. call[t] \in OpenCalls
    BY <1>3, CallForms DEF HeadLookup
  <2>2. \A k \in DOMAIN heads.at : heads.at[k].obj \in Objects
    BY DEF IsDict, Entry
  <2>3. call' \in [Threads -> Calls]
    BY <1>3, <2>1, <2>2, CallMoves, HeadKnownMoves DEF HeadLookup, Has
  <2> QED  BY <1>3, <2>3 DEF HeadLookup
<1>4. ASSUME NEW t \in Threads, HeadLoad(t)
      PROVE  TypeOK'
  <2>1. call[t] \in OpenCalls /\ store[call[t].key] \in Contents
    BY <1>4, CallForms DEF HeadLoad, OpenCalls
  <2>2. call' \in [Threads -> Calls]
    BY <1>4, <2>1, CallMoves DEF HeadLoad, Answers, Contents
  <2> QED  BY <1>4, <2>2 DEF HeadLoad
<1>5. ASSUME NEW t \in Threads, HeadKeep(t)
      PROVE  TypeOK'
  <2>1. call[t] \in HoldingCalls /\ call[t].obj \in Objects /\ call[t].key \in Keys
    BY <1>5, CallForms DEF HeadKeep, HoldingCalls, Holding
  <2>2. call' \in [Threads -> Calls]
    BY <1>5, <2>1, HeadKnownMoves DEF HeadKeep
  <2> DEFINE kept == Assign(heads, call[t].key, New(call[t].obj))
  <2>3. IsDict(kept, Keys, Entry)
    BY <2>1, NewEntry, AssignProperties
  <2> HIDE DEF kept
  <2>4. kept.order \in Seq(Keys) /\ Len(kept.order) \in Nat
    BY <2>3, LenProperties DEF IsDict
  <2>5. MaxHeads \in Nat
    BY CacheAssumption
  <2>6. Len(kept.order) - MaxHeads > 0
          => IsDict(DropOldest(kept, Len(kept.order) - MaxHeads), Keys, Entry)
    BY <2>3, <2>4, <2>5, DropOldestProperties
  <2>7. IsDict(heads', Keys, Entry)
    BY <1>5, <2>3, <2>6 DEF HeadKeep, kept
  <2> QED  BY <1>5, <2>2, <2>7 DEF HeadKeep
<1>6. ASSUME NEW t \in Threads, LoadRange(t)
      PROVE  TypeOK'
  <2>1. call[t] \in OpenCalls /\ store[call[t].key] \in Answers
    BY <1>6, CallForms DEF LoadRange, OpenCalls, Answers
  <2>2. call' \in [Threads -> Calls]
    BY <1>6, <2>1, CallMoves DEF LoadRange
  <2> QED  BY <1>6, <2>2 DEF LoadRange
<1>7. ASSUME NEW t \in Threads, Load(t)
      PROVE  TypeOK'
  <2>1. call[t] \in OpenCalls /\ store[call[t].key] \in Contents
    BY <1>7, CallForms DEF Load, OpenCalls
  <2>2. call' \in [Threads -> Calls]
    BY <1>7, <2>1, CallMoves DEF Load, Answers, Contents
  <2> QED  BY <1>7, <2>2 DEF Load
<1>8. ASSUME NEW t \in Threads, Keep(t)
      PROVE  TypeOK'
  <2>1. call[t] \in HoldingCalls /\ call[t].obj \in Objects /\ call[t].key \in Keys
    BY <1>8, CallForms DEF Keep, HoldingCalls, Holding
  <2>2. call' \in [Threads -> Calls]
    BY <1>8, <2>1, CallMoves DEF Keep, Answers, Contents
  <2>3. IsDict(data', Keys, Entry) /\ size' \in Int
    BY <1>8, <2>1, KeepDict
  <2> QED  BY <1>8, <2>2, <2>3 DEF Keep
<1>9. ASSUME NEW t \in Threads, Fail(t)
      PROVE  TypeOK'
  <2>1. call[t] \in OpenCalls
    BY <1>9, CallForms DEF Fail
  <2>2. call' \in [Threads -> Calls]
    BY <1>9, <2>1, CallMoves DEF Fail, Answers
  <2> QED  BY <1>9, <2>2 DEF Fail
<1>10. ASSUME NEW t \in Threads, Return(t)
       PROVE  TypeOK'
  BY <1>10 DEF Return, Calls
<1>11. ASSUME NEW k \in Keys, NEW v \in Contents, Write(k, v)
       PROVE  TypeOK'
  <2>1. \A t \in Threads :
          call[t].pc \notin {"idle", "done"} => [call[t] EXCEPT !.seen = @ \cup {v}] \in Calls
    <3> SUFFICES ASSUME NEW t \in Threads, call[t].pc \notin {"idle", "done"}
                 PROVE  [call[t] EXCEPT !.seen = @ \cup {v}] \in Calls
      OBVIOUS
    <3>1. call[t] \in OpenCalls \cup HoldingCalls
      BY DEF Calls, NoCall, DoneCalls
    <3>2. CASE call[t] \in OpenCalls
      <4>1. [call[t] EXCEPT !.seen = @ \cup {v}] \in OpenCalls
        BY <3>2 DEF OpenCalls
      <4> QED  BY <4>1 DEF Calls
    <3>3. CASE call[t] \in HoldingCalls
      <4>1. [call[t] EXCEPT !.seen = @ \cup {v}] \in HoldingCalls
        BY <3>3 DEF HoldingCalls
      <4> QED  BY <4>1 DEF Calls
    <3> QED  BY <3>1, <3>2, <3>3
  <2>2. call' \in [Threads -> Calls]
    BY <1>11, <2>1 DEF Write
  <2>3. Window \in Nat /\ MaxWrites \in Nat
    BY CacheAssumption DEF Window
  <2>4. lag' \in [Keys -> [Objects -> -1..Window]]
    BY <1>11, <2>3 DEF Write
  <2>5. writes' \in 0..MaxWrites /\ store' \in [Keys -> Contents]
    BY <1>11, <2>3 DEF Write
  <2>6. IsDict(data', Keys, Entry) /\ IsDict(heads', Keys, Entry) /\ size' \in Int
    BY <1>11 DEF Write
  <2> QED  BY <2>2, <2>4, <2>5, <2>6
<1>12. ASSUME Tick
       PROVE  TypeOK'
  <2>1. IsDict(data', Keys, Entry) /\ IsDict(heads', Keys, Entry)
    BY <1>12, OlderProperties DEF Tick
  <2>2. ASSUME NEW t \in Threads, Holding(t)
        PROVE  [call[t] EXCEPT !.held = @ + 1] \in HoldingCalls
    <3>1. call[t] \in HoldingCalls /\ call[t].held < FetchBound /\ FetchBound \in Nat
      BY <1>12, <2>2, CallForms, CacheAssumption DEF Tick
    <3>2. call[t].held + 1 \in 0..FetchBound
      BY <3>1 DEF HoldingCalls
    <3> DEFINE c == call[t]
               n == c.held + 1
    <3>3. c \in HoldingCalls /\ n \in 0..FetchBound
      BY <3>1, <3>2
    <3> HIDE DEF c, n
    <3>4. [c EXCEPT !.held = n] \in HoldingCalls
      BY <3>3 DEF HoldingCalls
    <3> QED  BY <3>4 DEF c, n
  <2>3. call' \in [Threads -> Calls]
    BY <1>12, <2>2 DEF Tick, Calls
  <2>4. Window \in Nat
    BY CacheAssumption DEF Window
  <2>5. lag' \in [Keys -> [Objects -> -1..Window]]
    BY <1>12, <2>4 DEF Tick
  <2> QED  BY <1>12, <2>1, <2>3, <2>5 DEF Tick
<1>13. CASE UNCHANGED vars
  BY <1>13 DEF vars
<1> QED
  BY <1>1, <1>2, <1>3, <1>4, <1>5, <1>6, <1>7, <1>8, <1>9, <1>10, <1>11, <1>12, <1>13
  DEF Next, Step, Work

\* The initial state has the right types.
LEMMA TypeInit == Init => TypeOK
<1> SUFFICES ASSUME Init  PROVE TypeOK
  OBVIOUS
<1>1. Window \in Nat /\ MaxWrites \in Nat
  BY CacheAssumption DEF Window
<1>2. IsDict(EmptyDict, Keys, Entry)
  BY EmptyDictProperties
<1> QED  BY <1>1, <1>2 DEF Init, TypeOK, Calls

\* Every variable of the cache always has its type, and data and heads stay
\* dictionaries whose order lists each key once.
THEOREM TypeCorrect == Spec => []TypeOK
  BY TypeInit, TypeStep, PTL DEF Spec
-----------------------------------------------------------------------------
(* The accounting of bytes.                                                *)

\* Every step keeps the counter right and the cache within its limits.
LEMMA SizeStep == TypeOK /\ SizeAccounting /\ [Next]_vars => SizeAccounting'
<1> SUFFICES ASSUME TypeOK, SizeAccounting, [Next]_vars
             PROVE  SizeAccounting'
  OBVIOUS
<1> DEFINE KeepsSmall == \A u \in Threads : call[u].pc = "keep" => Size[call[u].obj] <= MaxItem
           SameData == data' = data /\ size' = size
<1> USE DEF TypeOK
<1>0. KeepsSmall
  BY DEF SizeAccounting
<1>a. SameData /\ KeepsSmall' => SizeAccounting'
  BY DEF SizeAccounting
\* What a thread other than t is about to store does not change.
<1>b. \A t \in Threads :
        (\A u \in Threads \ {t} : call'[u] = call[u]) /\ call'[t].pc # "keep" => KeepsSmall'
  BY <1>0
<1>c. ASSUME NEW t \in Threads, NEW v
      PROVE  /\ Give(t, v) => KeepsSmall'
             /\ \A pc : Goto(t, pc) /\ pc # "keep" => KeepsSmall'
             /\ \A pc : Drop(t, pc) /\ pc # "keep" => KeepsSmall'
             /\ Carry(t, "headkeep", v) => KeepsSmall'
             /\ HeadKnown(t, v) => KeepsSmall'
  <2>1. ASSUME Give(t, v)  PROVE KeepsSmall'
    <3>1. (\A u \in Threads \ {t} : call'[u] = call[u]) /\ call'[t].pc = "done"
      BY <2>1 DEF Give
    <3> QED  BY <3>1, <1>b
  <2>2. ASSUME NEW pc, Drop(t, pc), pc # "keep"  PROVE KeepsSmall'
    <3>1. (\A u \in Threads \ {t} : call'[u] = call[u]) /\ call'[t].pc = pc
      BY <2>2 DEF Drop
    <3> QED  BY <2>2, <3>1, <1>b
  <2>3. ASSUME Carry(t, "headkeep", v)  PROVE KeepsSmall'
    <3>1. (\A u \in Threads \ {t} : call'[u] = call[u]) /\ call'[t].pc = "headkeep"
      BY <2>3 DEF Carry
    <3> QED  BY <3>1, <1>b
  <2>4. ASSUME NEW pc, Goto(t, pc), pc # "keep"  PROVE KeepsSmall'
    <3>1. \A u \in Threads \ {t} : call'[u] = call[u]
      BY <2>4 DEF Goto
    <3>3. call[t] \in Calls
      OBVIOUS
    <3>4. call'[t].pc # "keep"
      BY <2>4, <3>3 DEF Goto, Calls, NoCall, OpenCalls, DoneCalls, HoldingCalls
    <3> QED  BY <1>b, <3>1, <3>4
  <2>5. HeadKnown(t, v) => KeepsSmall'
    BY <2>1, <2>2 DEF HeadKnown
  <2> QED  BY <2>1, <2>2, <2>3, <2>4, <2>5
<1> HIDE DEF KeepsSmall
<1>1. ASSUME NEW t \in Threads, NEW k \in Keys, NEW op \in Ops, Begin(t, k, op)
      PROVE  SizeAccounting'
  <2>1. (\A u \in Threads \ {t} : call'[u] = call[u]) /\ call'[t].pc # "keep"
    BY <1>1 DEF Begin
  <2> QED  BY <1>1, <2>1, <1>a, <1>b DEF Begin
<1>2. ASSUME NEW t \in Threads, Lookup(t)
      PROVE  SizeAccounting'
  <2> DEFINE k == call[t].key
  <2>1. KeepsSmall'
    BY <1>2, <1>c DEF Lookup
  <2>2. CASE ~Has(data, k)
    BY <1>2, <2>1, <2>2, <1>a DEF Lookup
  <2>3. CASE Has(data, k) /\ ~Fresh(data.at[k])
    <3>1. data' = Delete(data, k) /\ size' = SizeWithout(k)
      BY <1>2, <2>3 DEF Lookup
    <3>2. data'.at = Restrict(data.at, DOMAIN data.at \ {k})
      BY <3>1 DEF Delete
    <3>3. k \in DOMAIN data.at /\ data.at[k].obj \in Objects /\ IsFiniteSet(DOMAIN data.at)
      BY <2>3, DictFinite DEF Has, IsDict, Entry
    <3>4. Total(data.at) = Total(data'.at) + Size[data.at[k].obj]
      BY <3>2, <3>3, TotalWithout
    <3>5. Total(data'.at) \in Nat /\ Size[data.at[k].obj] \in Nat
      <4>1. DOMAIN data'.at = DOMAIN data.at \ {k}
        BY <3>2 DEF Restrict
      <4>2. IsFiniteSet(DOMAIN data'.at)
        BY <3>3, <4>1, FS_Subset
      <4> QED  BY <3>3, <4>2, BytesFinite, CacheAssumption
    <3>8. size' = size - Size[data.at[k].obj] /\ size = Total(data.at) /\ size <= MaxBytes
      BY <2>3, <3>1 DEF SizeWithout, SizeAccounting
    <3>9. MaxBytes \in Nat
      BY CacheAssumption
    <3> HIDE DEF k
    <3>6. size' = Total(data'.at) /\ size' <= MaxBytes
      BY <3>4, <3>5, <3>8, <3>9
    <3>7. \A x \in DOMAIN data'.at : x \in DOMAIN data.at /\ data'.at[x] = data.at[x]
      BY <3>2 DEF Restrict
    <3> QED  BY <2>1, <3>6, <3>7 DEF SizeAccounting, KeepsSmall
  <2>4. CASE Has(data, k) /\ Fresh(data.at[k])
    <3>1. data' = MoveToEnd(data, k) /\ size' = size
      BY <1>2, <2>4 DEF Lookup, Used
    <3>2. data'.at = data.at
      BY <2>4, <3>1, MoveToEndProperties DEF Has
    <3> QED  BY <2>1, <3>1, <3>2 DEF SizeAccounting, KeepsSmall
  <2> QED  BY <2>2, <2>3, <2>4
<1>3. ASSUME NEW t \in Threads,
             HeadLookup(t) \/ HeadLoad(t) \/ HeadKeep(t) \/ LoadRange(t)
               \/ Fail(t) \/ Return(t)
      PROVE  SizeAccounting'
  <2>1. CASE HeadLookup(t)
    BY <2>1, <1>a, <1>c DEF HeadLookup
  <2>2. CASE HeadLoad(t)
    BY <2>2, <1>a, <1>c DEF HeadLoad
  <2>3. CASE HeadKeep(t)
    BY <2>3, <1>a, <1>c DEF HeadKeep
  <2>4. CASE LoadRange(t)
    BY <2>4, <1>a, <1>c DEF LoadRange
  <2>5. CASE Fail(t)
    BY <2>5, <1>a, <1>c DEF Fail
  <2>6. CASE Return(t)
    <3>1. (\A u \in Threads \ {t} : call'[u] = call[u]) /\ call'[t].pc # "keep"
      BY <2>6 DEF Return, NoCall
    <3> QED  BY <2>6, <3>1, <1>a, <1>b DEF Return
  <2> QED  BY <1>3, <2>1, <2>2, <2>3, <2>4, <2>5, <2>6
<1>4. ASSUME NEW t \in Threads, Load(t)
      PROVE  SizeAccounting'
  <2> DEFINE v == store[call[t].key]
  <2>1. CASE v # NoObject /\ Size[v] <= MaxItem
    <3>1. Carry(t, "keep", v) /\ SameData
      BY <1>4, <2>1 DEF Load
    <3>2. KeepsSmall'
      BY <1>0, <2>1, <3>1 DEF Carry, KeepsSmall
    <3> QED  BY <3>1, <3>2, <1>a
  <2>2. CASE ~(v # NoObject /\ Size[v] <= MaxItem)
    <3>1. Give(t, v) /\ SameData
      BY <1>4, <2>2 DEF Load
    <3> QED  BY <3>1, <1>a, <1>c
  <2> QED  BY <2>1, <2>2
<1>5. ASSUME NEW t \in Threads, Keep(t)
      PROVE  SizeAccounting'
  <2>1. call[t] \in HoldingCalls /\ call[t].obj \in Objects /\ call[t].key \in Keys
    BY <1>5, CallForms DEF Keep, HoldingCalls, Holding
  <2>2. Size[call[t].obj] <= MaxItem
    BY <1>5, <1>0 DEF Keep, KeepsSmall
  <2>3. KeepsSmall'
    BY <1>5, <1>c DEF Keep
  <2>4. /\ \A x \in DOMAIN data'.at :
             data'.at[x] = IF x = call[t].key THEN New(call[t].obj) ELSE data.at[x]
        /\ DOMAIN data'.at \subseteq DOMAIN data.at \cup {call[t].key}
        /\ size = Total(data.at) => size' = Total(data'.at) /\ size' <= MaxBytes
    BY <1>5, <2>1, KeepDict
  <2>5. \A x \in DOMAIN data'.at : Size[data'.at[x].obj] <= MaxItem
    BY <2>2, <2>4 DEF SizeAccounting, New
  <2> QED  BY <2>3, <2>4, <2>5 DEF SizeAccounting, KeepsSmall
<1>6. ASSUME NEW k \in Keys, NEW v \in Contents, Write(k, v)
      PROVE  SizeAccounting'
  <2>1. \A u \in Threads : call[u] \in Calls
    OBVIOUS
  <2>2. \A u \in Threads : call'[u].pc = call[u].pc
                             /\ (call[u].pc = "keep" => call'[u].obj = call[u].obj)
    BY <1>6, <2>1 DEF Write, Calls, NoCall, OpenCalls, DoneCalls, HoldingCalls
  <2>3. KeepsSmall'
    BY <1>0, <2>2 DEF KeepsSmall
  <2> QED  BY <1>6, <1>a, <2>3 DEF Write
<1>7. ASSUME Tick
      PROVE  SizeAccounting'
  <2>1. \A u \in Threads : call'[u].pc = call[u].pc
                             /\ (call[u].pc = "keep" => call'[u].obj = call[u].obj)
    BY <1>7, CallForms DEF Tick, Holding, HoldingCalls
  <2>2. KeepsSmall'
    BY <1>0, <2>1 DEF KeepsSmall
  <2>3. data'.at = Older(data.at)
    BY <1>7, OlderProperties DEF Tick
  <2>4. DOMAIN Older(data.at) = DOMAIN data.at
        /\ \A k \in DOMAIN data.at : Older(data.at)[k].obj = data.at[k].obj
    BY OlderProperties
  <2>5. Total(Older(data.at)) = Total(data.at)
    BY <2>4, TotalSameObjects
  <2>6. size' = size
    BY <1>7 DEF Tick
  <2> QED  BY <2>2, <2>3, <2>4, <2>5, <2>6 DEF SizeAccounting, KeepsSmall
<1>8. CASE UNCHANGED vars
  BY <1>8, <1>0, <1>a DEF vars, KeepsSmall
<1> QED
  BY <1>1, <1>2, <1>3, <1>4, <1>5, <1>6, <1>7, <1>8 DEF Next, Step, Work

\* The empty cache is accounted for.
LEMMA SizeInit == Init => SizeAccounting
<1> SUFFICES ASSUME Init  PROVE SizeAccounting
  OBVIOUS
<1>1. DOMAIN data.at = {} /\ size = 0 /\ \A t \in Threads : call[t].pc = "idle"
  BY EmptyDictProperties DEF Init, NoCall
<1>2. Bytes(data.at) = {}
  BY <1>1 DEF Bytes
<1>3. Total(data.at) = 0
  BY <1>2, FS_EmptySet DEF Total
<1> QED  BY <1>1, <1>3, CacheAssumption DEF SizeAccounting

\* For any number of keys and threads and any sizes: the byte counter is exact,
\* the cache never exceeds max_bytes, and nothing above a quarter of it is kept.
THEOREM SizesRight == Spec => []SizeAccounting
<1>1. Init => TypeOK /\ SizeAccounting
  BY TypeInit, SizeInit
<1>2. TypeOK /\ SizeAccounting /\ [Next]_vars => (TypeOK /\ SizeAccounting)'
  BY TypeStep, SizeStep
<1> QED  BY <1>1, <1>2, PTL DEF Spec
-----------------------------------------------------------------------------
(* How recent the cache is.                                                *)

Lags == [Keys -> [Objects -> -1..Window]]

\* A new entry made of an object that may be stored late, and the entries that stay.
LEMMA RecentKept ==
  ASSUME NEW lags \in Lags, NEW f, NEW g, Recent(lags, f),
         NEW k \in Keys, NEW v \in Objects,
         lags[k][v] # -1, Ttl # 0 => lags[k][v] <= FetchBound,
         DOMAIN g \subseteq DOMAIN f \cup {k},
         \A x \in DOMAIN g : g[x] = IF x = k THEN New(v) ELSE f[x]
  PROVE  Recent(lags, g)
<1>1. FetchBound \in Nat
  BY CacheAssumption
<1>2. New(v).obj = v /\ New(v).age = 0
  BY DEF New
<1> SUFFICES ASSUME NEW x \in DOMAIN g
             PROVE  /\ lags[x][g[x].obj] # -1
                    /\ Ttl # 0 /\ Fresh(g[x]) => lags[x][g[x].obj] <= g[x].age + FetchBound
  BY DEF Recent
<1>3. CASE x = k
  BY <1>1, <1>2, <1>3
<1>4. CASE x # k
  <2>1. x \in DOMAIN f /\ g[x] = f[x]
    BY <1>4
  <2> QED  BY <2>1 DEF Recent
<1> QED  BY <1>3, <1>4

\* Leaving entries out keeps the rest recent.
LEMMA RecentFewer ==
  ASSUME NEW lags, NEW f, NEW g, Recent(lags, f), DOMAIN g \subseteq DOMAIN f,
         \A x \in DOMAIN g : g[x] = f[x]
  PROVE  Recent(lags, g)
<1> SUFFICES ASSUME NEW x \in DOMAIN g
             PROVE  /\ lags[x][g[x].obj] # -1
                    /\ Ttl # 0 /\ Fresh(g[x]) => lags[x][g[x].obj] <= g[x].age + FetchBound
  BY DEF Recent
<1>1. x \in DOMAIN f /\ g[x] = f[x]
  OBVIOUS
<1> QED  BY <1>1 DEF Recent

\* A dictionary's keys are keys and its entries are entries.
LEMMA DictEntries ==
  ASSUME NEW d, IsDict(d, Keys, Entry), NEW k \in DOMAIN d.at
  PROVE  /\ k \in Keys /\ d.at[k] \in Entry
         /\ d.at[k].obj \in Objects /\ d.at[k].age \in 0..Ttl
<1>1. d.order \in Seq(Keys) /\ d.at \in [Range(d.order) -> Entry] /\ k \in Range(d.order)
  BY DEF IsDict
<1>2. k \in Keys
  BY <1>1, PlaceProperties, ElementOfSeq
<1>3. d.at[k] \in Entry
  BY <1>1
<1> QED  BY <1>2, <1>3 DEF Entry

\* A tick ages what the bucket held by at most one.
LEMMA LagsOlder ==
  ASSUME TypeOK, Tick, NEW k \in Keys, NEW v \in Objects
  PROVE  /\ lag[k][v] \in -1..Window
         /\ lag'[k][v] \in {lag[k][v], lag[k][v] + 1}
         /\ lag[k][v] # -1 => lag'[k][v] # -1
<1>1. lag[k][v] \in -1..Window /\ Window \in Nat
  BY CacheAssumption DEF TypeOK, Window
<1>2. lag'[k][v] = IF lag[k][v] \in 0..Window - 1 /\ store[k] # v
                     THEN lag[k][v] + 1 ELSE lag[k][v]
  BY DEF Tick
<1> QED  BY <1>1, <1>2

\* Entries and what the bucket held age together.
LEMMA RecentOlder ==
  ASSUME TypeOK, Tick, NEW d, IsDict(d, Keys, Entry), Recent(lag, d.at)
  PROVE  Recent(lag', Older(d.at))
<1>1. SUFFICES ASSUME NEW k \in DOMAIN d.at
               PROVE  LET e == Older(d.at)[k] IN
                      /\ lag'[k][e.obj] # -1
                      /\ Ttl # 0 /\ Fresh(e) => lag'[k][e.obj] <= e.age + FetchBound
  BY OlderProperties DEF Recent
<1> DEFINE c == d.at[k]
           e == Older(d.at)[k]
<1>2. k \in Keys /\ c.obj \in Objects /\ c.age \in 0..Ttl
  BY DictEntries
<1>3. e.obj = c.obj /\ e.age = IF c.age < Ttl THEN c.age + 1 ELSE c.age
  BY OlderProperties
<1>4. /\ lag[k][c.obj] # -1
      /\ Ttl # 0 /\ Fresh(c) => lag[k][c.obj] <= c.age + FetchBound
  BY DEF Recent
<1>5. /\ lag[k][c.obj] \in -1..Window
      /\ lag'[k][c.obj] \in {lag[k][c.obj], lag[k][c.obj] + 1}
      /\ lag[k][c.obj] # -1 => lag'[k][c.obj] # -1
  BY <1>2, LagsOlder
<1>6. Ttl \in Nat /\ FetchBound \in Nat /\ Window \in Nat
  BY CacheAssumption DEF Window
<1> HIDE DEF c, e
<1>7. Ttl # 0 /\ Fresh(e) => Fresh(c) /\ e.age = c.age + 1
  BY <1>2, <1>3, <1>6 DEF Fresh
<1>8. Ttl # 0 /\ Fresh(e) => lag'[k][c.obj] <= c.age + 1 + FetchBound
  BY <1>2, <1>4, <1>5, <1>6, <1>7
<1>9. lag'[k][e.obj] # -1
  BY <1>3, <1>4, <1>5
<1>10. Ttl # 0 /\ Fresh(e) => lag'[k][e.obj] <= e.age + FetchBound
  BY <1>2, <1>3, <1>6, <1>7, <1>8
<1> QED  BY <1>9, <1>10 DEF e

\* A change of the bucket makes no entry older.
LEMMA LagsWritten ==
  ASSUME TypeOK, NEW k \in Keys, NEW v \in Contents, Write(k, v),
         NEW x \in Keys, NEW w \in Objects
  PROVE  lag[x][w] \in -1..Window /\ lag'[x][w] \in {0, lag[x][w]}
<1>1. lag[x][w] \in -1..Window
  BY DEF TypeOK
<1> QED  BY <1>1 DEF Write, TypeOK

LEMMA RecentWritten ==
  ASSUME TypeOK, NEW k \in Keys, NEW v \in Contents, Write(k, v),
         NEW d, IsDict(d, Keys, Entry), Recent(lag, d.at)
  PROVE  Recent(lag', d.at)
<1> SUFFICES ASSUME NEW x \in DOMAIN d.at
             PROVE  /\ lag'[x][d.at[x].obj] # -1
                    /\ Ttl # 0 /\ Fresh(d.at[x])
                         => lag'[x][d.at[x].obj] <= d.at[x].age + FetchBound
  BY DEF Recent
<1>1. x \in Keys /\ d.at[x].obj \in Objects /\ d.at[x].age \in 0..Ttl
  BY DictEntries
<1>2. /\ lag[x][d.at[x].obj] \in -1..Window
      /\ lag'[x][d.at[x].obj] \in {0, lag[x][d.at[x].obj]}
  BY <1>1, LagsWritten
<1>3. /\ lag[x][d.at[x].obj] # -1
      /\ Ttl # 0 /\ Fresh(d.at[x]) => lag[x][d.at[x].obj] <= d.at[x].age + FetchBound
  BY DEF Recent
<1>4. Ttl \in Nat /\ FetchBound \in Nat
  BY CacheAssumption
<1> QED  BY <1>1, <1>2, <1>3, <1>4

Settled(t) == /\ \A u \in Threads \ {t} : call'[u] = call[u]
              /\ call'[t].pc \notin {"keep", "headkeep"}

\* Every way a call moves on but one leaves it without an answer to store.
LEMMA CallSettles ==
  ASSUME TypeOK, NEW t \in Threads, NEW v
  PROVE  /\ Give(t, v) => Settled(t)
         /\ \A pc \in {"load", "loadrange"} : Drop(t, pc) => Settled(t)
         /\ \A pc \in {"head", "headload", "load"} : Goto(t, pc) => Settled(t)
         /\ HeadKnown(t, v) => Settled(t)
<1>1. call \in [Threads -> Calls]
  BY DEF TypeOK
<1>2. ASSUME Give(t, v)  PROVE Settled(t)
  BY <1>1, <1>2 DEF Give, Settled
<1>3. ASSUME NEW pc \in {"load", "loadrange"}, Drop(t, pc)  PROVE Settled(t)
  BY <1>1, <1>3 DEF Drop, Settled
<1>4. ASSUME NEW pc \in {"head", "headload", "load"}, Goto(t, pc)  PROVE Settled(t)
  <2>1. call'[t] = [call[t] EXCEPT !.pc = pc] /\ call[t] \in Calls
        /\ \A u \in Threads \ {t} : call'[u] = call[u]
    BY <1>1, <1>4 DEF Goto
  <2>2. call'[t].pc = pc
    BY <2>1 DEF Calls, NoCall, OpenCalls, DoneCalls, HoldingCalls
  <2> QED  BY <2>1, <2>2 DEF Settled
<1>5. ASSUME HeadKnown(t, v)  PROVE Settled(t)
  BY <1>2, <1>3, <1>5 DEF HeadKnown
<1> QED  BY <1>2, <1>3, <1>4, <1>5

\* The histories the properties speak of follow the bucket.
LEMMA HistoriesStep == TypeOK /\ HistoriesCurrent /\ [Next]_vars => HistoriesCurrent'
<1> SUFFICES ASSUME TypeOK, HistoriesCurrent, [Next]_vars
             PROVE  HistoriesCurrent'
  OBVIOUS
<1>1. ASSUME NEW t \in Threads, NEW k \in Keys, NEW op \in Ops, Begin(t, k, op)
      PROVE  HistoriesCurrent'
  BY <1>1 DEF Begin, HistoriesCurrent, TypeOK
<1>2. ASSUME NEW t \in Threads, Step(t)
      PROVE  HistoriesCurrent'
  <2>1. store' = store /\ lag' = lag
    BY <1>2 DEF Step, Work, Lookup, HeadLookup, HeadLoad, HeadKeep, LoadRange, Load, Keep,
                Fail, Return
  <2>2. \A u \in Threads \ {t} : call'[u] = call[u]
    <3>1. \/ \E v : Give(t, v)
          \/ \E pc : Goto(t, pc) \/ Drop(t, pc)
          \/ \E pc, v : Carry(t, pc, v)
          \/ Return(t)
      <4>1. Lookup(t) \/ HeadLookup(t) \/ HeadLoad(t) => <3>1!:
        BY DEF Lookup, HeadLookup, HeadLoad, HeadKnown
      <4>2. HeadKeep(t) \/ LoadRange(t) \/ Load(t) => <3>1!:
        BY DEF HeadKeep, LoadRange, Load, HeadKnown
      <4>3. Keep(t) \/ Fail(t) => <3>1!:
        BY DEF Keep, Fail
      <4> QED  BY <1>2, <4>1, <4>2, <4>3 DEF Step, Work
    <3> QED  BY <3>1 DEF TypeOK, Give, Goto, Drop, Carry, Return
  <2>3. call[t] \in Calls /\ call \in [Threads -> Calls]
    BY DEF TypeOK
  <2>4. \/ call'[t].pc \in {"idle", "done"}
        \/ /\ call[t].pc \notin {"idle", "done"}
           /\ call'[t].key = call[t].key /\ call'[t].seen = call[t].seen
    <3>1. ASSUME NEW v, Give(t, v)  PROVE call'[t].pc = "done"
      BY <2>3, <3>1 DEF Give
    <3>2. ASSUME NEW v, NEW pc, Carry(t, pc, v)
          PROVE  call'[t].key = call[t].key /\ call'[t].seen = call[t].seen
      BY <2>3, <3>2 DEF Carry
    <3>3. ASSUME NEW pc, Drop(t, pc)
          PROVE  call'[t].key = call[t].key /\ call'[t].seen = call[t].seen
      BY <2>3, <3>3 DEF Drop
    <3>4. ASSUME NEW pc, Goto(t, pc), call[t].pc \in {"lookup", "head"}
          PROVE  call'[t].key = call[t].key /\ call'[t].seen = call[t].seen
      <4>1. call[t] \in OpenCalls
        BY <3>4, CallForms
      <4> QED  BY <2>3, <3>4, <4>1 DEF Goto, OpenCalls
    <3>5. CASE Lookup(t)
      BY <3>5, <3>1, <3>4 DEF Lookup
    <3>6. CASE HeadLookup(t)
      BY <3>6, <3>1, <3>3, <3>4 DEF HeadLookup, HeadKnown
    <3>7. CASE HeadLoad(t)
      BY <3>7, <3>1, <3>2 DEF HeadLoad
    <3>8. CASE HeadKeep(t)
      BY <3>8, <3>1, <3>3 DEF HeadKeep, HeadKnown
    <3>9. CASE LoadRange(t) \/ Keep(t) \/ Fail(t)
      BY <3>9, <3>1 DEF LoadRange, Keep, Fail
    <3>10. CASE Load(t)
      BY <3>10, <3>1, <3>2 DEF Load
    <3>11. CASE Return(t)
      BY <3>11, <2>3 DEF Return, NoCall
    <3> QED  BY <1>2, <3>5, <3>6, <3>7, <3>8, <3>9, <3>10, <3>11 DEF Step, Work
  <2> QED  BY <2>1, <2>2, <2>4 DEF HistoriesCurrent
<1>3. ASSUME NEW k \in Keys, NEW v \in Contents, Write(k, v)
      PROVE  HistoriesCurrent'
  <2>1. \A x \in Keys : store'[x] # NoObject => lag'[x][store'[x]] = 0
    BY <1>3, CacheAssumption DEF Write, HistoriesCurrent, TypeOK, Contents
  <2>2. ASSUME NEW u \in Threads, call'[u].pc \notin {"idle", "done"}
        PROVE  store'[call'[u].key] \in call'[u].seen
    <3>1. call[u] \in OpenCalls \cup HoldingCalls
      <4>1. call[u] \in Calls
        BY DEF TypeOK
      <4>2. call[u].pc \notin {"idle", "done"}
        BY <1>3, <2>2, <4>1
        DEF Write, Calls, NoCall, DoneCalls, OpenCalls, HoldingCalls
      <4> QED  BY <4>1, <4>2 DEF Calls, NoCall, DoneCalls
    <3>2. call[u].pc \notin {"idle", "done"} /\ call[u].key \in Keys
      BY <3>1 DEF OpenCalls, HoldingCalls
    <3>3. CASE call[u].key = k
      <4>1. call'[u] = [call[u] EXCEPT !.seen = @ \cup {v}]
        BY <1>3, <3>2, <3>3 DEF Write
      <4>2. call'[u].key = k /\ v \in call'[u].seen
        BY <3>1, <3>3, <4>1 DEF OpenCalls, HoldingCalls
      <4> QED  BY <1>3, <4>2 DEF Write, TypeOK
    <3>4. CASE call[u].key # k
      BY <1>3, <3>2, <3>4 DEF Write, HistoriesCurrent, TypeOK
    <3> QED  BY <3>3, <3>4
  <2> QED  BY <2>1, <2>2 DEF HistoriesCurrent
<1>4. ASSUME Tick
      PROVE  HistoriesCurrent'
  <2>1. \A u \in Threads : /\ call'[u].pc = call[u].pc
                           /\ call[u].pc \notin {"idle", "done"} =>
                                call'[u].key = call[u].key /\ call'[u].seen = call[u].seen
    BY <1>4, CallForms DEF Tick, Holding, HoldingCalls
  <2>2. \A k \in Keys : store[k] # NoObject => lag'[k][store[k]] = lag[k][store[k]]
    BY <1>4 DEF Tick, TypeOK, Contents
  <2>3. store' = store
    BY <1>4 DEF Tick
  <2> QED  BY <2>1, <2>2, <2>3 DEF HistoriesCurrent
<1>5. CASE UNCHANGED vars
  BY <1>5 DEF vars, HistoriesCurrent
<1> QED  BY <1>1, <1>2, <1>3, <1>4, <1>5 DEF Next

\* Every step keeps what is cached, or is about to be, recent.
LEMMA RecentStep == TypeOK /\ FreshIsRecent /\ [Next]_vars => FreshIsRecent'
<1> SUFFICES ASSUME TypeOK, FreshIsRecent, [Next]_vars
             PROVE  FreshIsRecent'
  OBVIOUS
<1>h. HistoriesCurrent /\ HistoriesCurrent'
  BY HistoriesStep DEF FreshIsRecent
<1> DEFINE HeldRecent == \A u \in Threads : Holding(u) => RecentlyRead(lag, call[u])
<1>0. HeldRecent /\ Recent(lag, data.at) /\ Recent(lag, heads.at)
      /\ IsDict(data, Keys, Entry) /\ IsDict(heads, Keys, Entry) /\ lag \in Lags
  BY DEF FreshIsRecent, TypeOK, Lags
<1>a. HeldRecent' /\ Recent(lag', data'.at) /\ Recent(lag', heads'.at) => FreshIsRecent'
  BY <1>h DEF FreshIsRecent
<1>b. \A t \in Threads : Settled(t) /\ lag' = lag => HeldRecent'
  BY <1>0 DEF Settled, Holding
\* An answer of the backend that a thread goes on with is current.
<1>c. ASSUME NEW t \in Threads, call[t] \in OpenCalls, NEW pc,
             store[call[t].key] # NoObject, store[call[t].key] \in call[t].seen,
             lag[call[t].key][store[call[t].key]] = 0,
             Carry(t, pc, store[call[t].key]), lag' = lag
      PROVE  HeldRecent'
  <2>1. \A u \in Threads \ {t} : call'[u] = call[u]
    BY <1>c DEF Carry
  <2>2. call'[t] = [pc |-> pc, op |-> call[t].op, key |-> call[t].key,
                    seen |-> call[t].seen, obj |-> store[call[t].key], held |-> 0]
    BY <1>c DEF Carry, TypeOK
  <2>3. RecentlyRead(lag', call'[t])
    BY <1>c, <2>2 DEF RecentlyRead
  <2> QED  BY <1>0, <1>c, <2>1, <2>3 DEF Holding
<1> HIDE DEF HeldRecent
<1>1. ASSUME NEW t \in Threads, NEW k \in Keys, NEW op \in Ops, Begin(t, k, op)
      PROVE  FreshIsRecent'
  <2>1. Settled(t)
    BY <1>1 DEF Begin, Settled, TypeOK
  <2> QED  BY <1>0, <1>1, <1>a, <1>b, <2>1 DEF Begin
<1>2. ASSUME NEW t \in Threads, Lookup(t)
      PROVE  FreshIsRecent'
  <2> DEFINE k == call[t].key
  <2>1. Settled(t) /\ lag' = lag /\ heads' = heads
    BY <1>2, CallSettles DEF Lookup
  <2>2. Recent(lag, data'.at)
    <3>1. CASE ~Has(data, k)
      BY <1>0, <1>2, <3>1 DEF Lookup
    <3>2. CASE Has(data, k) /\ ~Fresh(data.at[k])
      <4>1. data'.at = Restrict(data.at, DOMAIN data.at \ {k})
        BY <1>2, <3>2 DEF Lookup, Delete
      <4>2. DOMAIN data'.at \subseteq DOMAIN data.at
            /\ \A x \in DOMAIN data'.at : data'.at[x] = data.at[x]
        BY <4>1 DEF Restrict
      <4> QED  BY <1>0, <4>2, RecentFewer
    <3>3. CASE Has(data, k) /\ Fresh(data.at[k])
      <4>1. data'.at = data.at
        BY <1>0, <1>2, <3>3, MoveToEndProperties DEF Lookup, Used, Has
      <4> QED  BY <1>0, <4>1
    <3> QED  BY <3>1, <3>2, <3>3
  <2> QED  BY <1>0, <1>a, <1>b, <2>1, <2>2
<1>3. ASSUME NEW t \in Threads,
             HeadLookup(t) \/ LoadRange(t) \/ Fail(t) \/ Return(t)
      PROVE  FreshIsRecent'
  <2>1. Settled(t)
    <3>1. CASE HeadLookup(t)
      BY <3>1, CallSettles DEF HeadLookup
    <3>3. CASE LoadRange(t)
      BY <3>3, CallSettles DEF LoadRange
    <3>4. CASE Fail(t)
      BY <3>4, CallSettles DEF Fail
    <3>2. CASE Return(t)
      BY <3>2 DEF Return, Settled, NoCall, TypeOK
    <3> QED  BY <1>3, <3>1, <3>2, <3>3, <3>4
  <2>2. lag' = lag /\ heads' = heads /\ data' = data
    BY <1>3 DEF HeadLookup, LoadRange, Fail, Return
  <2> QED  BY <1>0, <1>a, <1>b, <2>1, <2>2
<1>4. ASSUME NEW t \in Threads, HeadLoad(t) \/ Load(t)
      PROVE  FreshIsRecent'
  <2>1. lag' = lag /\ heads' = heads /\ data' = data
    BY <1>4 DEF HeadLoad, Load
  <2>2. CASE \E v : Give(t, v)
    BY <1>0, <1>a, <1>b, <2>1, <2>2, CallSettles
  <2>3. CASE store[call[t].key] # NoObject
             /\ \E pc : Carry(t, pc, store[call[t].key])
    <3>1. call[t] \in OpenCalls
      BY <1>4, CallForms DEF HeadLoad, Load
    <3>2. store[call[t].key] \in call[t].seen
          /\ lag[call[t].key][store[call[t].key]] = 0
      BY <1>h, <2>3, <3>1 DEF HistoriesCurrent, OpenCalls
    <3> QED  BY <1>0, <1>a, <1>c, <2>1, <2>3, <3>1, <3>2
  <2> QED  BY <1>4, <2>2, <2>3 DEF HeadLoad, Load
<1>5. ASSUME NEW t \in Threads, HeadKeep(t)
      PROVE  FreshIsRecent'
  <2> DEFINE k == call[t].key
             v == call[t].obj
             kept == Assign(heads, k, New(v))
  <2>1. Settled(t) /\ lag' = lag /\ data' = data
    BY <1>5, CallSettles DEF HeadKeep
  <2>2. /\ Holding(t) /\ call[t] \in HoldingCalls
        /\ k \in Keys /\ v \in Objects /\ call[t].held \in 0..FetchBound
    BY <1>5, CallForms DEF HeadKeep, HoldingCalls, Holding
  <2>3. RecentlyRead(lag, call[t]) /\ FetchBound \in Nat /\ lag[k][v] \in -1..Window
    BY <1>0, <2>2, CacheAssumption DEF HeldRecent, Lags
  <2>4. lag[k][v] # -1 /\ (Ttl # 0 => lag[k][v] <= FetchBound)
    <3>1. Window \in Nat
      BY CacheAssumption DEF Window
    <3> QED  BY <3>1, <2>2, <2>3 DEF RecentlyRead
  <2>5. /\ IsDict(kept, Keys, Entry)
        /\ DOMAIN kept.at = DOMAIN heads.at \cup {k}
        /\ kept.at[k] = New(v)
        /\ \A x \in DOMAIN heads.at \ {k} : kept.at[x] = heads.at[x]
    BY <1>0, <2>2, NewEntry, AssignProperties
  <2>6. heads' = kept \/ \E n \in 0..Len(kept.order) : heads' = DropOldest(kept, n)
    <3>1. kept.order \in Seq(Keys)
      BY <2>5 DEF IsDict
    <3>2. Len(kept.order) \in Nat /\ MaxHeads \in Nat
      BY <3>1, LenProperties, CacheAssumption
    <3>3. Len(kept.order) - MaxHeads > 0 => Len(kept.order) - MaxHeads \in 0..Len(kept.order)
      BY <3>2
    <3> QED  BY <1>5, <3>3 DEF HeadKeep
  <2> HIDE DEF kept
  <2>7. DOMAIN heads'.at \subseteq DOMAIN kept.at
        /\ \A x \in DOMAIN heads'.at : heads'.at[x] = kept.at[x]
    <3>1. ASSUME NEW n \in 0..Len(kept.order), heads' = DropOldest(kept, n)
          PROVE  /\ DOMAIN heads'.at \subseteq DOMAIN kept.at
                 /\ heads'.at = Restrict(kept.at, DOMAIN heads'.at)
      BY <2>5, <3>1, DropOldestProperties
    <3> QED  BY <2>6, <3>1 DEF Restrict
  <2> HIDE DEF k, v
  <2>8. DOMAIN heads'.at \subseteq DOMAIN heads.at \cup {k}
        /\ \A x \in DOMAIN heads'.at : heads'.at[x] = IF x = k THEN New(v) ELSE heads.at[x]
    BY <2>5, <2>7
  <2>9. Recent(lag, heads'.at)
    BY <1>0, <2>2, <2>4, <2>8, RecentKept
  <2> QED  BY <1>0, <1>a, <1>b, <2>1, <2>9
<1>6. ASSUME NEW t \in Threads, Keep(t)
      PROVE  FreshIsRecent'
  <2> DEFINE k == call[t].key
             v == call[t].obj
  <2>1. Settled(t) /\ lag' = lag /\ heads' = heads
    BY <1>6, CallSettles DEF Keep
  <2>2. /\ Holding(t) /\ call[t] \in HoldingCalls
        /\ k \in Keys /\ v \in Objects /\ call[t].held \in 0..FetchBound
    BY <1>6, CallForms DEF Keep, HoldingCalls, Holding
  <2>3. RecentlyRead(lag, call[t]) /\ FetchBound \in Nat /\ lag[k][v] \in -1..Window
    BY <1>0, <2>2, CacheAssumption DEF HeldRecent, Lags
  <2>4. lag[k][v] # -1 /\ (Ttl # 0 => lag[k][v] <= FetchBound)
    <3>1. Window \in Nat
      BY CacheAssumption DEF Window
    <3> QED  BY <3>1, <2>2, <2>3 DEF RecentlyRead
  <2>5. DOMAIN data'.at \subseteq DOMAIN data.at \cup {k}
        /\ \A x \in DOMAIN data'.at : data'.at[x] = IF x = k THEN New(v) ELSE data.at[x]
    BY <1>6, <2>2, KeepDict
  <2> HIDE DEF k, v
  <2>6. Recent(lag, data'.at)
    BY <1>0, <2>2, <2>4, <2>5, RecentKept
  <2> QED  BY <1>0, <1>a, <1>b, <2>1, <2>6
<1>7. ASSUME NEW k \in Keys, NEW v \in Contents, Write(k, v)
      PROVE  FreshIsRecent'
  <2>1. Recent(lag', data.at) /\ Recent(lag', heads.at) /\ data' = data /\ heads' = heads
    BY <1>0, <1>7, RecentWritten DEF Write
  <2>2. ASSUME NEW u \in Threads, Holding(u)'
        PROVE  RecentlyRead(lag', call'[u])
    <3>1. call[u] \in Calls
      BY DEF TypeOK
    <3>2. Holding(u)
      BY <1>7, <2>2, <3>1
      DEF Write, Holding, Calls, NoCall, DoneCalls, OpenCalls, HoldingCalls
    <3>3. call[u] \in HoldingCalls /\ RecentlyRead(lag, call[u])
      BY <1>0, <3>2, CallForms DEF HeldRecent
    <3>4. /\ call'[u].obj = call[u].obj /\ call'[u].key = call[u].key
          /\ call'[u].held = call[u].held /\ call[u].seen \subseteq call'[u].seen
      BY <1>7, <3>3 DEF Write, HoldingCalls
    <3>5. call[u].key \in Keys /\ call[u].obj \in Objects /\ call[u].held \in Nat
      BY <3>3, CacheAssumption DEF HoldingCalls
    <3>6. /\ lag[call[u].key][call[u].obj] \in -1..Window
          /\ lag'[call[u].key][call[u].obj] \in {0, lag[call[u].key][call[u].obj]}
      BY <1>7, <3>5, LagsWritten
    <3> QED  BY <3>3, <3>4, <3>5, <3>6 DEF RecentlyRead
  <2> QED  BY <1>a, <2>1, <2>2 DEF HeldRecent
<1>8. ASSUME Tick
      PROVE  FreshIsRecent'
  <2>1. Recent(lag', Older(data.at)) /\ Recent(lag', Older(heads.at))
    BY <1>0, <1>8, RecentOlder
  <2>2. data'.at = Older(data.at) /\ heads'.at = Older(heads.at)
    BY <1>0, <1>8, OlderProperties DEF Tick
  <2>3. ASSUME NEW u \in Threads, Holding(u)'
        PROVE  RecentlyRead(lag', call'[u])
    <3>1. call[u] \in Calls
      BY DEF TypeOK
    <3>2. Holding(u)
      BY <1>8, <2>3 DEF Tick, Holding
    <3>3. call[u] \in HoldingCalls /\ RecentlyRead(lag, call[u])
      BY <1>0, <3>2, CallForms DEF HeldRecent
    <3>4. /\ call'[u].obj = call[u].obj /\ call'[u].key = call[u].key
          /\ call'[u].held = call[u].held + 1 /\ call[u].seen = call'[u].seen
      BY <1>8, <3>2, <3>3 DEF Tick, HoldingCalls
    <3>5. call[u].key \in Keys /\ call[u].obj \in Objects /\ call[u].held \in Nat
      BY <3>3, CacheAssumption DEF HoldingCalls
    <3>6. /\ lag[call[u].key][call[u].obj] \in -1..Window /\ Window \in Nat
          /\ lag'[call[u].key][call[u].obj]
               \in {lag[call[u].key][call[u].obj], lag[call[u].key][call[u].obj] + 1}
          /\ lag[call[u].key][call[u].obj] # -1 => lag'[call[u].key][call[u].obj] # -1
      BY <1>8, <3>5, LagsOlder, CacheAssumption DEF Window
    <3> QED  BY <3>3, <3>4, <3>5, <3>6 DEF RecentlyRead
  <2> QED  BY <1>a, <2>1, <2>2, <2>3 DEF HeldRecent
<1>9. CASE UNCHANGED vars
  BY <1>9 DEF vars, FreshIsRecent, HistoriesCurrent, Holding
<1> QED
  BY <1>1, <1>2, <1>3, <1>4, <1>5, <1>6, <1>7, <1>8, <1>9 DEF Next, Step, Work

LEMMA RecentInit == Init => FreshIsRecent
<1> SUFFICES ASSUME Init  PROVE FreshIsRecent
  OBVIOUS
<1>1. DOMAIN data.at = {} /\ DOMAIN heads.at = {}
  BY EmptyDictProperties DEF Init
<1>2. \A t \in Threads : call[t].pc = "idle"
  BY DEF Init, NoCall
<1>3. \A k \in Keys : store[k] # NoObject => lag[k][store[k]] = 0
  BY DEF Init, Contents
<1> QED  BY <1>1, <1>2, <1>3 DEF FreshIsRecent, HistoriesCurrent, Recent, Holding

\* For any ttl and any time a fetch takes: an entry that counts as fresh is an
\* object the bucket held less than the entry's age and one fetch ago.
THEOREM FreshRecent == Spec => []FreshIsRecent
<1>1. Init => TypeOK /\ FreshIsRecent
  BY TypeInit, RecentInit
<1>2. TypeOK /\ FreshIsRecent /\ [Next]_vars => (TypeOK /\ FreshIsRecent)'
  BY TypeStep, RecentStep
<1> QED  BY <1>1, <1>2, PTL DEF Spec
-----------------------------------------------------------------------------
(* Large objects.                                                          *)

\* A ranged read goes on to pull the whole object only if the key held a small one.
SmallSeen(t) ==
  call[t].pc = "load" /\ call[t].op = "range" =>
    \E v \in Objects : Size[v] <= MaxItem /\ lag[call[t].key][v] # -1

\* What a key once held it has held ever since.
LEMMA LagStays ==
  ASSUME TypeOK, [Next]_vars, NEW k \in Keys, NEW v \in Objects, lag[k][v] # -1
  PROVE  lag'[k][v] # -1
<1>1. lag \in [Keys -> [Objects -> -1..Window]] /\ Window \in Nat
  BY CacheAssumption DEF TypeOK, Window
<1>2. lag[k][v] \in Nat
  BY <1>1
<1>3. ASSUME NEW i \in Keys, NEW w \in Contents, Write(i, w) PROVE lag'[k][v] # -1
  <2>1. lag' = [lag EXCEPT ![i] = [x \in Objects |-> IF x = w THEN 0 ELSE @[x]]]
    BY <1>3 DEF Write
  <2> QED BY <1>1, <1>2, <2>1
<1>4. CASE Tick
  <2>1. lag' = [i \in Keys |-> [w \in Objects |->
                  IF lag[i][w] \in 0..Window - 1 /\ store[i] # w
                    THEN lag[i][w] + 1 ELSE lag[i][w]]]
    BY <1>4 DEF Tick
  <2>2. lag'[k][v] \in {lag[k][v], lag[k][v] + 1}
    BY <2>1
  <2> QED BY <1>2, <2>2
<1>5. CASE lag' = lag
  BY <1>5
<1> QED BY <1>3, <1>4, <1>5
       DEF Next, Step, Work, Begin, Lookup, HeadLookup, HeadLoad, HeadKeep, LoadRange, Load,
           Keep, Fail, Return, vars

\* The head that lets a ranged read pull the whole object is that of a small one.
LEMMA KnownSmall ==
  ASSUME TypeOK, NEW t \in Threads, call[t] \in OpenCalls \cup HoldingCalls,
         NEW v \in Objects, HeadKnown(t, v), lag[call[t].key][v] # -1, lag' = lag
  PROVE  SmallSeen(t)'
<1>1. CASE Give(t, v)
  BY <1>1 DEF Give, SmallSeen, TypeOK
<1>2. CASE Drop(t, "loadrange")
  BY <1>2 DEF Drop, SmallSeen, TypeOK
<1>3. CASE Drop(t, "load") /\ ~(Size[v] > MaxItem)
  <2>1. call'[t].key = call[t].key
    BY <1>3 DEF Drop, TypeOK
  <2>2. Size[v] \in Int /\ MaxItem \in Int
    BY CacheAssumption DEF MaxItem
  <2>3. Size[v] <= MaxItem
    BY <1>3, <2>2
  <2> QED BY <2>1, <2>3 DEF SmallSeen
<1> QED BY <1>1, <1>2, <1>3 DEF HeadKnown

LEMMA SmallStep ==
  ASSUME TypeOK, FreshIsRecent, [Next]_vars, NEW t \in Threads, SmallSeen(t)
  PROVE  SmallSeen(t)'
<1>1. \A k \in Keys, v \in Objects : lag[k][v] # -1 => lag'[k][v] # -1
  BY LagStays
<1>2. ASSUME call[t].pc = "load",
             call'[t].pc = "load" => call'[t].op = call[t].op /\ call'[t].key = call[t].key
      PROVE  SmallSeen(t)'
  <2>1. call[t].key \in Keys
    BY <1>2, CallForms DEF OpenCalls
  <2> QED BY <1>1, <1>2, <2>1 DEF SmallSeen
<1>3. ASSUME call'[t].pc = "load" => call'[t].op # "range"
      PROVE  SmallSeen(t)'
  BY <1>3 DEF SmallSeen
<1>4. CASE call'[t] = call[t]
  BY <1>2, <1>3, <1>4
<1>5. ASSUME NEW u \in Threads, Step(u) \/ \E k \in Keys, op \in Ops : Begin(u, k, op), u # t
      PROVE  call'[t] = call[t]
  BY <1>5 DEF Step, Work, Begin, Lookup, HeadLookup, HeadLoad, HeadKeep, LoadRange, Load, Keep,
              Fail, Return, HeadKnown, Give, Carry, Drop, Goto, TypeOK
<1>6. ASSUME NEW k \in Keys, NEW op \in Ops, Begin(t, k, op)
      PROVE  SmallSeen(t)'
  BY <1>3, <1>6 DEF Begin, TypeOK
<1>7. CASE Lookup(t)
  <2>1. CASE \E v : Give(t, v)
    BY <1>3, <2>1 DEF Give, TypeOK
  <2>2. CASE Goto(t, IF call[t].op = "range" THEN "head" ELSE "load")
    <3>1. call[t] \in OpenCalls
      BY <1>7, CallForms DEF Lookup
    <3>2. /\ call'[t].pc = IF call[t].op = "range" THEN "head" ELSE "load"
          /\ call'[t].op = call[t].op
      BY <2>2, <3>1 DEF Goto, TypeOK, OpenCalls
    <3> QED BY <1>3, <3>2
  <2> QED BY <1>7, <2>1, <2>2 DEF Lookup
<1>8. CASE HeadLookup(t)
  <2> DEFINE k == call[t].key
  <2>1. call[t] \in OpenCalls /\ lag' = lag
    BY <1>8, CallForms DEF HeadLookup
  <2>2. CASE Has(heads, k) /\ HeadKnown(t, heads.at[k].obj)
    <3>1. k \in DOMAIN heads.at /\ Recent(lag, heads.at) /\ IsDict(heads, Keys, Entry)
      BY <2>2 DEF Has, FreshIsRecent, TypeOK
    <3>2. heads.at[k].obj \in Objects
      BY <3>1, DictEntries
    <3>3. lag[k][heads.at[k].obj] # -1
      BY <3>1 DEF Recent
    <3> QED BY <2>1, <2>2, <3>2, <3>3, KnownSmall
  <2>3. CASE Goto(t, "headload")
    BY <1>3, <2>1, <2>3 DEF Goto, TypeOK, OpenCalls
  <2> QED BY <1>8, <2>2, <2>3 DEF HeadLookup
<1>9. CASE HeadKeep(t)
  <2>1. Holding(t) /\ HeadKnown(t, call[t].obj) /\ lag' = lag
    BY <1>9 DEF HeadKeep, Holding
  <2>2. call[t] \in HoldingCalls /\ call[t].obj \in Objects
    BY <2>1, CallForms DEF HoldingCalls
  <2>3. lag[call[t].key][call[t].obj] # -1
    BY <2>1 DEF FreshIsRecent, RecentlyRead
  <2> QED BY <2>1, <2>2, <2>3, KnownSmall
<1>10. CASE HeadLoad(t) \/ LoadRange(t) \/ Load(t) \/ Keep(t) \/ Fail(t)
  <2>1. \/ \E v : Give(t, v)
        \/ \E pc \in {"keep", "headkeep"} : \E v : Carry(t, pc, v)
    BY <1>10 DEF HeadLoad, LoadRange, Load, Keep, Fail
  <2> QED BY <1>3, <2>1 DEF Give, Carry, TypeOK
<1>11. CASE Return(t)
  BY <1>3, <1>11 DEF Return, NoCall, TypeOK
<1>12. ASSUME NEW k \in Keys, NEW v \in Contents, Write(k, v)
       PROVE  SmallSeen(t)'
  <2>1. call'[t] = call[t] \/ call'[t] = [call[t] EXCEPT !.seen = @ \cup {v}]
    BY <1>12 DEF Write
  <2>2. CASE call[t].pc = "load"
    <3>1. call[t] \in OpenCalls
      BY <2>2, CallForms
    <3>2. call'[t].op = call[t].op /\ call'[t].key = call[t].key
      BY <2>1, <3>1 DEF OpenCalls
    <3> QED BY <1>2, <2>2, <3>2
  <2>3. CASE call[t].pc # "load"
    <3>1. call[t] \in Calls
      BY DEF TypeOK
    <3>2. call'[t].pc = call[t].pc
      BY <2>1, <3>1 DEF Calls, NoCall, DoneCalls, OpenCalls, HoldingCalls
    <3> QED BY <1>3, <2>3, <3>2
  <2> QED BY <2>2, <2>3
<1>13. CASE Tick
  <2>1. CASE Holding(t)
    <3>1. call[t] \in HoldingCalls /\ call'[t] = [call[t] EXCEPT !.held = @ + 1]
      BY <1>13, <2>1, CallForms DEF Tick
    <3>2. call'[t].pc # "load"
      BY <3>1 DEF HoldingCalls
    <3> QED BY <1>3, <3>2
  <2>2. CASE ~Holding(t)
    BY <1>4, <1>13, <2>2 DEF Tick
  <2> QED BY <2>1, <2>2
<1>14. CASE UNCHANGED vars
  BY <1>4, <1>14 DEF vars
<1> QED BY <1>4, <1>5, <1>6, <1>7, <1>8, <1>9, <1>10, <1>11, <1>12, <1>13, <1>14
        DEF Next, Step, Work

\* For any sizes and any interleaving: a ranged read that pulls a large object through
\* the cache was told by a head, kept or just asked for, that the object was small.
THEOREM LargePulledByChange == Spec => LargeOnlyByChange
<1> DEFINE AllSmall == \A t \in Threads : SmallSeen(t)
<1>1. Init => TypeOK /\ FreshIsRecent /\ AllSmall
  <2>1. Init => AllSmall
    BY DEF Init, NoCall, SmallSeen
  <2> QED BY <2>1, TypeInit, RecentInit
<1>2. TypeOK /\ FreshIsRecent /\ AllSmall /\ [Next]_vars => (TypeOK /\ FreshIsRecent /\ AllSmall)'
  BY TypeStep, RecentStep, SmallStep
<1>3. AllSmall => [\A t \in Threads :
                     LET k == call[t].key IN
                     call[t].pc = "load" /\ call[t].op = "range" /\ call'[t].pc = "done"
                       /\ call'[t].answer \in Objects /\ Size[call'[t].answer] > MaxItem
                     => \E v \in Objects : Size[v] <= MaxItem /\ lag[k][v] # -1]_vars
  BY DEF SmallSeen
<1> HIDE DEF AllSmall
<1> QED BY <1>1, <1>2, <1>3, PTL DEF Spec, LargeOnlyByChange
-----------------------------------------------------------------------------
(* The promise to the readers.                                             *)

\* What a cached fresh entry, or a thread's own answer of the backend, may answer.
LEMMA FreshAllowed ==
  ASSUME NEW lags \in Lags, NEW f, Recent(lags, f), NEW k \in DOMAIN f, k \in Keys,
         f[k] \in Entry, Fresh(f[k])
  PROVE  /\ lags[k][f[k].obj] # -1
         /\ Window = 0 \/ lags[k][f[k].obj] < Window
<1>1. /\ lags[k][f[k].obj] # -1
      /\ Ttl # 0 => lags[k][f[k].obj] <= f[k].age + FetchBound
  BY DEF Recent
<1>2. f[k].obj \in Objects /\ f[k].age \in 0..Ttl /\ Ttl \in Nat /\ FetchBound \in Nat
  BY CacheAssumption DEF Entry
<1>3. Ttl # 0 => f[k].age < Ttl
  BY DEF Fresh
<1>4. lags[k][f[k].obj] \in Int
  BY <1>2 DEF Lags
<1> QED  BY <1>1, <1>2, <1>3, <1>4 DEF Window

\* A step that gives thread t an allowed answer is the abstract Answer.
LEMMA GiveAnswers ==
  ASSUME TypeOK, NEW t \in Threads, call[t] \in OpenCalls \cup HoldingCalls,
         NEW v \in Answers, Give(t, v), UNCHANGED <<store, lag>>,
         \/ v = Error \/ v \in call[t].seen
         \/ /\ v \in Objects /\ lag[call[t].key][v] # -1
            /\ Window = 0 \/ lag[call[t].key][v] < Window
  PROVE  Promise!Answer(t, v)
<1> DEFINE view == [u \in Threads |-> View(call[u])]
<1>1. View(call[t]) = [stage |-> "open", key |-> call[t].key, seen |-> call[t].seen]
  BY DEF View, OpenCalls, HoldingCalls
<1>2. call'[t] = [pc |-> "done", key |-> call[t].key, answer |-> v]
      /\ \A u \in Threads \ {t} : call'[u] = call[u]
  BY DEF Give, TypeOK
<1>3. View(call'[t]) = [stage |-> "answered", key |-> call[t].key, answer |-> v]
  BY <1>2 DEF View
<1>4. view' = [view EXCEPT ![t] = [stage |-> "answered", key |-> @.key, answer |-> v]]
  <2>1. /\ view[t].key = call[t].key
        /\ view'[t] = [stage |-> "answered", key |-> call[t].key, answer |-> v]
        /\ \A u \in Threads \ {t} : view'[u] = view[u]
    BY <1>1, <1>2, <1>3
  <2>2. view' = [u \in Threads |-> view'[u]] /\ DOMAIN view = Threads
    OBVIOUS
  <2> HIDE DEF view
  <2> QED  BY <2>1, <2>2
<1>5. Promise!Allowed(view[t].key, view[t].seen, v)
  BY <1>1 DEF Promise!Allowed
<1> QED  BY <1>1, <1>4, <1>5 DEF Promise!Answer

\* A step of thread t that neither begins nor answers a call stutters.
LEMMA MoveStutters ==
  ASSUME TypeOK, NEW t \in Threads, call[t] \in OpenCalls \cup HoldingCalls,
         \/ \E pc \in {"head", "headload", "load"} : Goto(t, pc) /\ call[t] \in OpenCalls
         \/ \E pc \in {"load", "loadrange"} : Drop(t, pc)
         \/ \E pc \in {"keep", "headkeep"} : \E v : Carry(t, pc, v)
  PROVE  [u \in Threads |-> View(call[u])]' = [u \in Threads |-> View(call[u])]
<1>1. /\ \A u \in Threads \ {t} : call'[u] = call[u]
      /\ call'[t].pc \notin {"idle", "done"}
      /\ call'[t].key = call[t].key /\ call'[t].seen = call[t].seen
  <2>1. ASSUME NEW pc \in {"head", "headload", "load"}, Goto(t, pc), call[t] \in OpenCalls
        PROVE  <1>1!:
    BY <2>1 DEF Goto, OpenCalls, TypeOK
  <2>2. ASSUME NEW pc \in {"load", "loadrange"}, Drop(t, pc)
        PROVE  <1>1!:
    BY <2>2 DEF Drop, TypeOK
  <2>3. ASSUME NEW pc \in {"keep", "headkeep"}, NEW v, Carry(t, pc, v)
        PROVE  <1>1!:
    BY <2>3 DEF Carry, TypeOK
  <2> QED  BY <2>1, <2>2, <2>3
<1>2. call[t].pc \notin {"idle", "done"}
  BY DEF OpenCalls, HoldingCalls
<1>3. View(call'[t]) = View(call[t])
  BY <1>1, <1>2 DEF View
<1> QED  BY <1>1, <1>3

\* Every step of the cache is a step of what BoundedStaleness promises, or changes
\* nothing there.
LEMMA PromiseStep ==
  TypeOK /\ FreshIsRecent /\ [Next]_vars => [Promise!Next]_(Promise!sVars)
<1> SUFFICES ASSUME TypeOK, FreshIsRecent, [Next]_vars
             PROVE  Promise!Next \/ UNCHANGED Promise!sVars
  OBVIOUS
<1> DEFINE view == [u \in Threads |-> View(call[u])]
           Same == view' = view /\ store' = store /\ lag' = lag
           Answered(t) == \E v \in Answers : Promise!Answer(t, v)
<1>0. /\ HistoriesCurrent /\ Recent(lag, data.at) /\ Recent(lag, heads.at)
      /\ IsDict(data, Keys, Entry) /\ IsDict(heads, Keys, Entry) /\ lag \in Lags
      /\ \A t \in Threads : Holding(t) => RecentlyRead(lag, call[t])
  BY DEF FreshIsRecent, TypeOK, Lags
<1>a. Same => UNCHANGED Promise!sVars
  BY DEF Promise!sVars
<1>b. \A t \in Threads : Answered(t) => Promise!Next
  BY DEF Promise!Next, Answers, Contents
\* An answer the backend gives in this step is what the key holds.
<1>c. ASSUME NEW t \in Threads, call[t] \in OpenCalls
      PROVE  store[call[t].key] \in call[t].seen /\ store[call[t].key] \in Contents
  BY <1>0, <1>c DEF HistoriesCurrent, OpenCalls, TypeOK
\* A head that becomes known is allowed as an answer, or the call goes on.
<1>d. ASSUME NEW t \in Threads, call[t] \in OpenCalls \cup HoldingCalls,
             NEW v \in Objects, HeadKnown(t, v), UNCHANGED <<store, lag>>,
             \/ v \in call[t].seen
             \/ lag[call[t].key][v] # -1 /\ (Window = 0 \/ lag[call[t].key][v] < Window)
      PROVE  Answered(t) \/ Same
  <2>1. CASE Give(t, v)
    <3>1. v \in Answers
      BY DEF Answers, Contents
    <3> QED  BY <1>d, <2>1, <3>1, GiveAnswers
  <2>2. CASE \E pc \in {"load", "loadrange"} : Drop(t, pc)
    BY <1>d, <2>2, MoveStutters
  <2> QED  BY <1>d, <2>1, <2>2 DEF HeadKnown
<1> HIDE DEF Same, Answered
<1>1. ASSUME NEW t \in Threads, NEW k \in Keys, NEW op \in Ops, Begin(t, k, op)
      PROVE  Promise!Next
  <2>1. view[t] = Promise!Idle /\ Promise!Idle.stage = "idle"
    BY <1>1 DEF Begin, View, Promise!Idle
  <2>2. call'[t].pc \in {"lookup", "head"} /\ call'[t].key = k /\ call'[t].seen = {store[k]}
        /\ \A u \in Threads \ {t} : call'[u] = call[u]
    BY <1>1 DEF Begin, TypeOK
  <2>3. View(call'[t]) = [stage |-> "open", key |-> k, seen |-> {store[k]}]
    BY <2>2 DEF View
  <2>4. view' = [view EXCEPT ![t] = [stage |-> "open", key |-> k, seen |-> {store[k]}]]
    <3>1. /\ view'[t] = [stage |-> "open", key |-> k, seen |-> {store[k]}]
          /\ \A u \in Threads \ {t} : view'[u] = view[u]
      BY <2>2, <2>3
    <3>2. view' = [u \in Threads |-> view'[u]] /\ DOMAIN view = Threads
      OBVIOUS
    <3> HIDE DEF view
    <3> QED  BY <3>1, <3>2
  <2>5. Promise!Open(t, k)
    BY <1>1, <2>1, <2>4 DEF Promise!Open, Begin
  <2> QED  BY <2>5 DEF Promise!Next
<1>2. ASSUME NEW t \in Threads, Lookup(t)
      PROVE  Answered(t) \/ Same
  <2> DEFINE k == call[t].key
  <2>1. call[t] \in OpenCalls /\ UNCHANGED <<store, lag>>
    BY <1>2, CallForms DEF Lookup
  <2>2. CASE Has(data, k) /\ Fresh(data.at[k])
    <3>1. k \in DOMAIN data.at /\ Give(t, data.at[k].obj)
      BY <1>2, <2>2 DEF Lookup, Has
    <3>2. k \in Keys /\ data.at[k] \in Entry /\ data.at[k].obj \in Objects
      BY <1>0, <3>1, DictEntries
    <3>3. lag[k][data.at[k].obj] # -1 /\ (Window = 0 \/ lag[k][data.at[k].obj] < Window)
      BY <1>0, <2>2, <3>1, <3>2, FreshAllowed
    <3>4. data.at[k].obj \in Answers
      BY <3>2 DEF Answers, Contents
    <3>5. Promise!Answer(t, data.at[k].obj)
      BY <2>1, <3>1, <3>2, <3>3, <3>4, GiveAnswers
    <3> QED  BY <3>4, <3>5 DEF Answered
  <2>3. CASE ~(Has(data, k) /\ Fresh(data.at[k]))
    <3>1. \E pc \in {"head", "load"} : Goto(t, pc)
      BY <1>2, <2>3 DEF Lookup
    <3> QED  BY <2>1, <3>1, MoveStutters DEF Same
  <2> QED  BY <2>2, <2>3
<1>3. ASSUME NEW t \in Threads, HeadLookup(t)
      PROVE  Answered(t) \/ Same
  <2> DEFINE k == call[t].key
  <2>1. call[t] \in OpenCalls /\ UNCHANGED <<store, lag>>
    BY <1>3, CallForms DEF HeadLookup
  <2>2. CASE Has(heads, k) /\ Fresh(heads.at[k])
    <3>1. k \in DOMAIN heads.at /\ HeadKnown(t, heads.at[k].obj)
      BY <1>3, <2>2 DEF HeadLookup, Has
    <3>2. k \in Keys /\ heads.at[k] \in Entry /\ heads.at[k].obj \in Objects
      BY <1>0, <3>1, DictEntries
    <3>3. lag[k][heads.at[k].obj] # -1 /\ (Window = 0 \/ lag[k][heads.at[k].obj] < Window)
      BY <1>0, <2>2, <3>1, <3>2, FreshAllowed
    <3> QED  BY <1>d, <2>1, <3>1, <3>2, <3>3
  <2>3. CASE ~(Has(heads, k) /\ Fresh(heads.at[k]))
    <3>1. Goto(t, "headload")
      BY <1>3, <2>3 DEF HeadLookup
    <3> QED  BY <2>1, <3>1, MoveStutters DEF Same
  <2> QED  BY <2>2, <2>3
<1>4. ASSUME NEW t \in Threads, HeadLoad(t) \/ Load(t) \/ LoadRange(t) \/ Fail(t)
      PROVE  Answered(t) \/ Same
  <2> DEFINE v == store[call[t].key]
  <2>1. call[t] \in OpenCalls
    BY <1>4, CallForms DEF HeadLoad, Load, LoadRange, Fail
  <2>2. UNCHANGED <<store, lag>>
    BY <1>4 DEF HeadLoad, Load, LoadRange, Fail
  <2>3. v \in call[t].seen /\ v \in Answers
    BY <1>c, <2>1 DEF Answers
  <2>4. \/ Give(t, v)
        \/ Give(t, Error)
        \/ \E pc \in {"keep", "headkeep"} : Carry(t, pc, v)
    BY <1>4 DEF HeadLoad, Load, LoadRange, Fail
  <2>5. CASE Give(t, v)
    <3>1. Promise!Answer(t, v)
      BY <2>1, <2>2, <2>3, <2>5, GiveAnswers
    <3> QED  BY <2>3, <3>1 DEF Answered
  <2>6. CASE Give(t, Error)
    <3>1. Error \in Answers
      BY DEF Answers
    <3>2. Promise!Answer(t, Error)
      BY <2>1, <2>2, <2>6, <3>1, GiveAnswers
    <3> QED  BY <3>1, <3>2 DEF Answered
  <2>7. CASE \E pc \in {"keep", "headkeep"} : Carry(t, pc, v)
    BY <2>1, <2>2, <2>7, MoveStutters DEF Same
  <2> QED  BY <2>4, <2>5, <2>6, <2>7
<1>5. ASSUME NEW t \in Threads, HeadKeep(t) \/ Keep(t)
      PROVE  Answered(t) \/ Same
  <2>1. Holding(t) /\ UNCHANGED <<store, lag>>
    BY <1>5 DEF HeadKeep, Keep, Holding
  <2>2. /\ call[t] \in HoldingCalls /\ call[t].obj \in Objects
        /\ call[t].obj \in call[t].seen
    BY <1>0, <2>1, CallForms DEF HoldingCalls, RecentlyRead
  <2>3. CASE HeadKeep(t)
    BY <1>d, <2>1, <2>2, <2>3 DEF HeadKeep
  <2>4. CASE Keep(t)
    <3>1. Give(t, call[t].obj)
      BY <2>4 DEF Keep
    <3>2. call[t].obj \in Answers
      BY <2>2 DEF Answers, Contents
    <3>3. Promise!Answer(t, call[t].obj)
      BY <2>1, <2>2, <3>1, <3>2, GiveAnswers
    <3> QED  BY <3>2, <3>3 DEF Answered
  <2> QED  BY <1>5, <2>3, <2>4
<1>6. ASSUME NEW t \in Threads, Return(t)
      PROVE  Promise!Next
  <2>1. view[t].stage = "answered"
    BY <1>6 DEF Return, View
  <2>2. View(call'[t]) = Promise!Idle /\ \A u \in Threads \ {t} : call'[u] = call[u]
    BY <1>6 DEF Return, View, NoCall, Promise!Idle, TypeOK
  <2>3. view' = [view EXCEPT ![t] = Promise!Idle]
    <3>1. view'[t] = Promise!Idle /\ \A u \in Threads \ {t} : view'[u] = view[u]
      BY <2>2
    <3>2. view' = [u \in Threads |-> view'[u]] /\ DOMAIN view = Threads
      OBVIOUS
    <3> HIDE DEF view
    <3> QED  BY <3>1, <3>2
  <2>4. Promise!Close(t)
    BY <1>6, <2>1, <2>3 DEF Promise!Close, Return
  <2> QED  BY <2>4 DEF Promise!Next
<1>7. ASSUME NEW k \in Keys, NEW v \in Contents, Write(k, v)
      PROVE  Promise!Next
  <2>1. ASSUME NEW u \in Threads
        PROVE  View(call'[u]) = IF view[u].stage = "open" /\ view[u].key = k
                                  THEN [view[u] EXCEPT !.seen = @ \cup {v}]
                                  ELSE view[u]
    <3>1. call[u] \in Calls
      BY DEF TypeOK
    <3>2. CASE call[u].pc \in {"idle", "done"}
      <4>1. call'[u] = call[u]
        BY <1>7, <3>2 DEF Write
      <4>2. view[u].stage # "open"
        BY <3>2 DEF View
      <4> QED  BY <4>1, <4>2
    <3>3. CASE call[u].pc \notin {"idle", "done"}
      <4>1. view[u] = [stage |-> "open", key |-> call[u].key, seen |-> call[u].seen]
        BY <3>3 DEF View
      <4>2. CASE call[u].key = k
        <5>1. call'[u] = [call[u] EXCEPT !.seen = @ \cup {v}]
          BY <1>7, <3>3, <4>2 DEF Write
        <5>2. /\ call'[u].pc = call[u].pc /\ call'[u].key = call[u].key
              /\ call'[u].seen = call[u].seen \cup {v}
          BY <3>1, <3>3, <5>1 DEF Calls, NoCall, DoneCalls, OpenCalls, HoldingCalls
        <5>3. View(call'[u])
                = [stage |-> "open", key |-> call[u].key, seen |-> call[u].seen \cup {v}]
          BY <3>3, <5>2 DEF View
        <5> QED  BY <4>1, <4>2, <5>3
      <4>3. CASE call[u].key # k
        BY <1>7, <3>3, <4>1, <4>3 DEF Write
      <4> QED  BY <4>2, <4>3
    <3> QED  BY <3>2, <3>3
  <2>2. view' = [u \in Threads |->
                   IF view[u].stage = "open" /\ view[u].key = k
                     THEN [view[u] EXCEPT !.seen = @ \cup {v}] ELSE view[u]]
    BY <2>1
  <2>3. Promise!Change(k, v)
    BY <1>7, <2>2 DEF Promise!Change, Write
  <2> QED  BY <2>3 DEF Promise!Next, Contents
<1>8. ASSUME Tick
      PROVE  Promise!Next
  <2>1. \A u \in Threads : View(call'[u]) = View(call[u])
    <3> SUFFICES ASSUME NEW u \in Threads  PROVE View(call'[u]) = View(call[u])
      OBVIOUS
    <3>1. CASE Holding(u)
      <4>1. call[u] \in HoldingCalls /\ call'[u] = [call[u] EXCEPT !.held = @ + 1]
        BY <1>8, <3>1, CallForms DEF Tick
      <4>2. /\ call'[u].pc = call[u].pc /\ call'[u].key = call[u].key
            /\ call'[u].seen = call[u].seen /\ call[u].pc \notin {"idle", "done"}
        BY <4>1 DEF HoldingCalls
      <4> QED  BY <4>2 DEF View
    <3>2. CASE ~Holding(u)
      BY <1>8, <3>2 DEF Tick
    <3> QED  BY <3>1, <3>2
  <2>2. Promise!Elapse
    BY <1>8, <2>1 DEF Promise!Elapse, Tick
  <2> QED  BY <2>2 DEF Promise!Next
<1>9. CASE UNCHANGED vars
  BY <1>9 DEF vars, Promise!sVars
<1> QED
  BY <1>a, <1>b, <1>1, <1>2, <1>3, <1>4, <1>5, <1>6, <1>7, <1>8, <1>9 DEF Next, Step, Work

\* The cache starts as the promise does.
LEMMA PromiseInit == Init => Promise!Init
  BY DEF Init, Promise!Init, Promise!Idle, View, NoCall, Contents

\* The cache implements the promise, for any keys, objects, sizes and bounds: a
\* reader gets an object the bucket held during the read, or less than ttl and
\* one fetch ago, and is told of a missing object only when it was missing.
THEOREM PromiseKept == Spec => KeepsPromise
<1>1. Init => TypeOK /\ FreshIsRecent /\ Promise!Init
  BY TypeInit, RecentInit, PromiseInit
<1>2. TypeOK /\ FreshIsRecent /\ [Next]_vars
        => (TypeOK /\ FreshIsRecent)' /\ [Promise!Next]_(Promise!sVars)
  BY TypeStep, RecentStep, PromiseStep
<1> QED  BY <1>1, <1>2, PTL DEF Spec, KeepsPromise, Promise!Spec
-----------------------------------------------------------------------------
(* The order of evictions.                                                 *)

\* The order the dictionary is kept in is the order of use.
UseInv ==
  \A a, b \in DOMAIN data.at : <<a, b>> \in dataUse <=> Before(data.order, a, b)

\* A step that answers from the data, or stores there, uses its thread's key alone.
LEMMA OneUser ==
  ASSUME TypeOK, NEW t \in Threads, NEW v, Give(t, v), call[t].pc \in {"lookup", "keep"}
  PROVE  KeysOf(UsingData) = {call[t].key}
<1>1. call'[t].pc = "done" /\ \A u \in Threads : u # t => call'[u] = call[u]
  BY DEF Give, TypeOK
<1>2. UsingData = {t}
  BY <1>1 DEF UsingData
<1> QED  BY <1>2 DEF KeysOf

\* Any other step uses none.
LEMMA NoUser ==
  ASSUME \A u \in Threads : call[u].pc \in {"lookup", "keep"} => call'[u].pc # "done"
  PROVE  KeysOf(UsingData) = {}
<1>1. UsingData = {}
  BY DEF UsingData
<1> QED  BY <1>1 DEF KeysOf

\* The order of use follows a dictionary that puts the keys in now behind the others.
LEMMA UseFollows ==
  ASSUME UseInv, NEW now,
         dataUse' = AfterUse(dataUse, now, data'),
         DOMAIN data'.at \subseteq DOMAIN data.at \cup now,
         \A a, b \in DOMAIN data'.at :
           Before(data'.order, a, b) <=> a \notin now /\ (b \in now \/ Before(data.order, a, b))
  PROVE  UseInv'
<1> SUFFICES ASSUME NEW a \in DOMAIN data'.at, NEW b \in DOMAIN data'.at
             PROVE  <<a, b>> \in dataUse' <=> Before(data'.order, a, b)
  BY DEF UseInv
<1>1. <<a, b>> \in dataUse' <=> a \notin now /\ (b \in now \/ <<a, b>> \in dataUse)
  BY DEF AfterUse
<1>2. a \notin now /\ b \notin now => (<<a, b>> \in dataUse <=> Before(data.order, a, b))
  BY DEF UseInv
<1> QED  BY <1>1, <1>2

\* A store puts its key behind the others and takes out keys that come before all that
\* stay.
LEMMA KeepOrder ==
  ASSUME TypeOK, NEW t \in Threads, Keep(t)
  PROVE  /\ DOMAIN data'.at \subseteq DOMAIN data.at \cup {call[t].key}
         /\ \A a, b \in DOMAIN data'.at :
              Before(data'.order, a, b)
                <=> a # call[t].key /\ (b = call[t].key \/ Before(data.order, a, b))
         /\ \A out \in DOMAIN data.at \ DOMAIN data'.at, stays \in DOMAIN data'.at :
              stays # call[t].key => Before(data.order, out, stays)
<1> DEFINE k == call[t].key
           e == New(call[t].obj)
           base == IF Has(data, k) THEN Delete(data, k) ELSE data
           added == Assign(base, k, e)
<1>1. PICK n \in 0..Len(added.order) : data' = DropOldest(added, n)
  BY DEF Keep
<1>2. IsDict(data, Keys, Entry) /\ k \in Keys /\ e \in Entry
  <2>1. call[t] \in HoldingCalls
    BY CallForms DEF Keep, Holding
  <2> QED  BY <2>1, NewEntry DEF TypeOK, HoldingCalls
<1> HIDE DEF k, e
<1>3. /\ IsDict(base, Keys, Entry) /\ DOMAIN base.at = DOMAIN data.at \ {k}
      /\ \A a, b \in DOMAIN base.at : Before(base.order, a, b) <=> Before(data.order, a, b)
  <2>1. CASE Has(data, k)
    <3>1. k \in DOMAIN data.at
      BY <2>1 DEF Has
    <3>2. IsDict(Delete(data, k), Keys, Entry)
      BY <1>2, <3>1, DeleteProperties
    <3>3. DOMAIN Delete(data, k).at = DOMAIN data.at \ {k}
      BY DEF Delete, Restrict
    <3> QED  BY <1>2, <2>1, <3>1, <3>2, <3>3, DeletedBefore
  <2>2. CASE ~Has(data, k)
    BY <1>2, <2>2 DEF Has
  <2> QED  BY <2>1, <2>2
<1> HIDE DEF base
<1>4. /\ IsDict(added, Keys, Entry) /\ DOMAIN added.at = DOMAIN base.at \cup {k}
      /\ \A a, b \in DOMAIN added.at :
           Before(added.order, a, b) <=> a # k /\ (b = k \/ Before(base.order, a, b))
  <2>1. IsDict(added, Keys, Entry) /\ DOMAIN added.at = DOMAIN base.at \cup {k}
    BY <1>2, <1>3, AssignProperties
  <2>2. k \notin DOMAIN base.at
    BY <1>3
  <2>3. \A a, b \in DOMAIN base.at \cup {k} :
          Before(added.order, a, b) <=> a # k /\ (b = k \/ Before(base.order, a, b))
    <3>1. added.order = Append(base.order, k)
      BY <2>2 DEF Assign, Has
    <3>2. /\ base.order \in Seq(Keys) /\ k \in Keys /\ Range(base.order) = DOMAIN base.at
          /\ k \notin Range(base.order)
      BY <1>2, <1>3, <2>2 DEF IsDict
    <3> HIDE DEF added
    <3> QED  BY <3>1, <3>2, AppendBefore
  <2> QED  BY <2>1, <2>3
<1> HIDE DEF added
<1>5. DOMAIN data'.at \subseteq DOMAIN added.at
  BY <1>1, <1>4, DropOldestProperties
<1>6. \A b \in DOMAIN data'.at, a \in DOMAIN added.at :
        /\ a \in DOMAIN data'.at => (Before(data'.order, a, b) <=> Before(added.order, a, b))
        /\ a \notin DOMAIN data'.at => Before(added.order, a, b)
  BY <1>1, <1>4, DroppedBefore
<1>7. DOMAIN data'.at \subseteq DOMAIN data.at \cup {k}
  BY <1>3, <1>4, <1>5
<1>8. ASSUME NEW a \in DOMAIN data'.at, NEW b \in DOMAIN data'.at
      PROVE  Before(data'.order, a, b) <=> a # k /\ (b = k \/ Before(data.order, a, b))
  <2>1. Before(data'.order, a, b) <=> a # k /\ (b = k \/ Before(base.order, a, b))
    BY <1>4, <1>5, <1>6
  <2>2. a # k /\ b # k => (Before(base.order, a, b) <=> Before(data.order, a, b))
    BY <1>3, <1>4, <1>5
  <2> QED  BY <2>1, <2>2
<1>9. ASSUME NEW out \in DOMAIN data.at \ DOMAIN data'.at, NEW stays \in DOMAIN data'.at,
             stays # k
      PROVE  Before(data.order, out, stays)
  <2>1. out \in DOMAIN added.at /\ stays \in DOMAIN added.at
    BY <1>3, <1>4, <1>5
  <2>2. out # k /\ Before(base.order, out, stays)
    BY <1>4, <1>6, <1>9, <2>1
  <2> QED  BY <1>3, <1>4, <1>9, <2>1, <2>2
<1> QED  BY <1>7, <1>8, <1>9 DEF k

LEMMA UseStep ==
  ASSUME TypeOK, UseInv, Next, dataUse' = AfterUse(dataUse, KeysOf(UsingData), data')
  PROVE  UseInv'
<1> DEFINE Quiet == /\ KeysOf(UsingData) = {}
                    /\ DOMAIN data'.at \subseteq DOMAIN data.at
                    /\ \A a, b \in DOMAIN data'.at :
                         Before(data'.order, a, b) <=> Before(data.order, a, b)
<1>1. ASSUME Quiet  PROVE UseInv'
  <2>1. /\ dataUse' = AfterUse(dataUse, {}, data')
        /\ DOMAIN data'.at \subseteq DOMAIN data.at \cup {}
        /\ \A a, b \in DOMAIN data'.at :
             Before(data'.order, a, b) <=> a \notin {} /\ (b \in {} \/ Before(data.order, a, b))
    BY <1>1
  <2> HIDE DEF Quiet
  <2> QED  BY <2>1, UseFollows
<1> HIDE DEF Quiet
<1>2. ASSUME data' = data, \A u \in Threads : call[u].pc \in {"lookup", "keep"} => call'[u].pc # "done"
      PROVE  UseInv'
  BY <1>1, <1>2, NoUser DEF Quiet
<1>3. ASSUME NEW t \in Threads, Keep(t)  PROVE UseInv'
  <2> DEFINE now == {call[t].key}
  <2>1. KeysOf(UsingData) = now
    BY <1>3, OneUser DEF Keep
  <2>2. /\ dataUse' = AfterUse(dataUse, now, data')
        /\ DOMAIN data'.at \subseteq DOMAIN data.at \cup now
        /\ \A a, b \in DOMAIN data'.at :
             Before(data'.order, a, b) <=> a \notin now /\ (b \in now \/ Before(data.order, a, b))
    BY <1>3, <2>1, KeepOrder
  <2> HIDE DEF now
  <2> QED  BY <2>2, UseFollows
<1>4. ASSUME NEW t \in Threads, Lookup(t)  PROVE UseInv'
  <2> DEFINE k == call[t].key
  <2>1. IsDict(data, Keys, Entry) /\ call[t].pc = "lookup"
    BY <1>4 DEF Lookup, TypeOK
  <2>2. CASE ~Has(data, k)
    <3>1. data' = data /\ Goto(t, IF call[t].op = "range" THEN "head" ELSE "load")
      BY <1>4, <2>2 DEF Lookup
    <3> QED  BY <1>2, <3>1 DEF Goto, TypeOK
  <2>3. CASE Has(data, k) /\ ~Fresh(data.at[k])
    <3>1. data' = Delete(data, k) /\ Goto(t, IF call[t].op = "range" THEN "head" ELSE "load")
      BY <1>4, <2>3 DEF Lookup
    <3>2. KeysOf(UsingData) = {}
      BY <3>1, NoUser DEF Goto, TypeOK
    <3> HIDE DEF k
    <3>3. k \in DOMAIN data.at
      BY <2>3 DEF Has
    <3>4. DOMAIN data'.at = DOMAIN data.at \ {k}
      BY <3>1 DEF Delete, Restrict
    <3>5. \A a, b \in DOMAIN data'.at :
            Before(data'.order, a, b) <=> Before(data.order, a, b)
      BY <2>1, <3>1, <3>3, <3>4, DeletedBefore
    <3> QED  BY <1>1, <3>2, <3>4, <3>5 DEF Quiet
  <2>4. CASE Has(data, k) /\ Fresh(data.at[k])
    <3>1. data' = MoveToEnd(data, k) /\ Give(t, data.at[k].obj)
      BY <1>4, <2>4 DEF Lookup, Used
    <3>2. KeysOf(UsingData) = {k}
      BY <2>1, <3>1, OneUser
    <3> HIDE DEF k
    <3>3. k \in DOMAIN data.at
      BY <2>4 DEF Has
    <3>4. data'.at = data.at
      BY <2>1, <3>1, <3>3, MoveToEndProperties
    <3> DEFINE now == {k}
    <3>5. /\ dataUse' = AfterUse(dataUse, now, data')
          /\ DOMAIN data'.at \subseteq DOMAIN data.at \cup now
          /\ \A a, b \in DOMAIN data'.at :
               Before(data'.order, a, b) <=> a \notin now /\ (b \in now \/ Before(data.order, a, b))
      BY <2>1, <3>1, <3>2, <3>3, <3>4, MovedBefore
    <3> HIDE DEF now
    <3> QED  BY <3>5, UseFollows
  <2> QED  BY <2>2, <2>3, <2>4
<1>5. CASE Tick
  <2>1. /\ data' = [data EXCEPT !.at = Older(@)]
        /\ \A u \in Threads : call'[u].pc = call[u].pc
    <3>1. \A u \in Threads : Holding(u) => call[u] \in HoldingCalls
      BY CallForms
    <3> QED  BY <1>5, <3>1 DEF Tick, HoldingCalls
  <2>2. IsDict(data, Keys, Entry)
    BY DEF TypeOK
  <2>3. DOMAIN data'.at = DOMAIN data.at /\ data'.order = data.order
    BY <2>1, <2>2, OlderProperties DEF IsDict
  <2>4. KeysOf(UsingData) = {}
    BY <2>1, NoUser
  <2> QED  BY <1>1, <2>3, <2>4 DEF Quiet
<1>6. ASSUME NEW k \in Keys, NEW v \in Contents, Write(k, v)  PROVE UseInv'
  <2>1. \A u \in Threads : call[u].pc \in {"lookup", "keep"} => call'[u].pc # "done"
    <3> SUFFICES ASSUME NEW u \in Threads, call[u].pc \in {"lookup", "keep"}
                 PROVE  call'[u].pc # "done"
      OBVIOUS
    <3>1. call[u] \in OpenCalls \cup HoldingCalls
      BY CallForms DEF Holding
    <3> QED  BY <1>6, <3>1 DEF Write, OpenCalls, HoldingCalls
  <2> QED  BY <1>2, <1>6, <2>1 DEF Write
<1>7. ASSUME NEW t \in Threads, call[t].pc \notin {"lookup", "keep"}, data' = data,
             \A u \in Threads : u # t => call'[u] = call[u]
      PROVE  UseInv'
  BY <1>2, <1>7
<1>8. ASSUME NEW t \in Threads, NEW k \in Keys, NEW op \in Ops, Begin(t, k, op)  PROVE UseInv'
  BY <1>7, <1>8 DEF Begin, TypeOK
<1>9. ASSUME NEW t \in Threads,
             HeadLookup(t) \/ HeadLoad(t) \/ HeadKeep(t) \/ LoadRange(t) \/ Load(t)
               \/ Fail(t) \/ Return(t)
      PROVE  UseInv'
  BY <1>7, <1>9 DEF HeadLookup, HeadLoad, HeadKeep, LoadRange, Load, Fail, Return, HeadKnown,
                    Give, Carry, Drop, Goto, TypeOK
<1> QED  BY <1>3, <1>4, <1>5, <1>6, <1>8, <1>9 DEF Next, Step, Work

\* When a thread comes from keep to its answer, it has stored.
LEMMA KeepsOnly ==
  ASSUME TypeOK, Next, NEW t \in Threads, call[t].pc = "keep", call'[t].pc = "done"
  PROVE  Keep(t)
<1>1. call[t] \in HoldingCalls
  BY CallForms DEF Holding
<1>2. ~Tick
  <2>1. SUFFICES ASSUME Tick  PROVE call'[t].pc = call[t].pc
    OBVIOUS
  <2>2. call'[t] = [call[t] EXCEPT !.held = @ + 1]
    BY <2>1 DEF Tick, Holding
  <2> QED  BY <1>1, <2>2 DEF HoldingCalls
<1>3. \A k \in Keys, v \in Contents : ~Write(k, v)
  BY <1>1 DEF Write, HoldingCalls
<1>4. PICK u \in Threads : (\E k \in Keys, op \in Ops : Begin(u, k, op)) \/ Step(u)
  BY <1>2, <1>3 DEF Next
<1>5. u = t
  BY <1>4 DEF Step, Work, Begin, Lookup, HeadLookup, HeadLoad, HeadKeep, LoadRange, Load, Keep,
              Fail, Return, HeadKnown, Give, Carry, Drop, Goto, TypeOK
<1> QED  BY <1>4, <1>5
         DEF Step, Work, Begin, Lookup, HeadLookup, HeadLoad, HeadKeep, LoadRange, Load, Fail, Return

LEMMA EvictsByUse ==
  ASSUME TypeOK, UseInv, Next, NEW t \in Threads, call[t].pc = "keep", call'[t].pc = "done"
  PROVE  LeastRecent(dataUse, data, KeysOf(UsingData))
<1>1. Keep(t)
  BY KeepsOnly
<1>2. KeysOf(UsingData) = {call[t].key}
  BY <1>1, OneUser DEF Keep
<1> SUFFICES ASSUME NEW out \in DOMAIN data.at \ DOMAIN data'.at,
                    NEW stays \in DOMAIN data'.at \ {call[t].key}
             PROVE  <<out, stays>> \in dataUse
  BY <1>2 DEF LeastRecent
<1>3. Before(data.order, out, stays) /\ stays \in DOMAIN data.at
  BY <1>1, KeepOrder
<1> QED  BY <1>3 DEF UseInv

\* What is evicted for room was used less recently than everything that stays
\* (_store's loop, and move_to_end in _get_cached), for any keys, sizes and threads.
THEOREM EvictedByUse == WatchedSpec => DataEvictedByUse
<1>1. WatchedInit => TypeOK /\ UseInv
  <2> SUFFICES ASSUME WatchedInit  PROVE TypeOK /\ UseInv
    OBVIOUS
  <2>1. TypeOK /\ DOMAIN data.at = {}
    BY TypeInit, EmptyDictProperties DEF WatchedInit, Init
  <2> QED  BY <2>1 DEF UseInv
<1>2. TypeOK /\ UseInv /\ [WatchedNext]_watched => (TypeOK /\ UseInv)'
  <2> SUFFICES ASSUME TypeOK, UseInv, [WatchedNext]_watched  PROVE TypeOK' /\ UseInv'
    OBVIOUS
  <2>1. TypeOK'
    BY TypeStep DEF WatchedNext, watched
  <2>2. CASE WatchedNext
    BY <2>1, <2>2, UseStep DEF WatchedNext
  <2>3. CASE UNCHANGED watched
    BY <2>1, <2>3 DEF watched, vars, UseInv
  <2> QED  BY <2>1, <2>2, <2>3
<1>3. TypeOK /\ UseInv /\ [WatchedNext]_watched
        => [(\E t \in Threads : call[t].pc = "keep" /\ call'[t].pc = "done")
              => LeastRecent(dataUse, data, KeysOf(UsingData))]_watched
  BY EvictsByUse DEF WatchedNext
<1> QED  BY <1>1, <1>2, <1>3, PTL DEF WatchedSpec, DataEvictedByUse
=============================================================================
