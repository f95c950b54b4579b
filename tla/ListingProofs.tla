---------------------------- MODULE ListingProofs ----------------------------
(***************************************************************************)
(* Listing, for any names, directories, limits and starts: pages that do   *)
(* not overlap, and what a finished listing says of the files that stayed. *)
(***************************************************************************)
EXTENDS Listing, SequenceTheorems, TLAPS

\* The name that a key is listed by
NameOf(k) == IF Common[k] = NoName THEN k ELSE Common[k]

LEMMA NameTypes ==
  ASSUME NEW k \in Keys
  PROVE  /\ k \in Names /\ k \in Nat \ {0}
         /\ Common[k] \in Nat /\ Common[k] <= k
         /\ NameOf(k) \in Names /\ NameOf(k) \in Nat \ {0} /\ NameOf(k) <= k
<1>1. Names \subseteq Nat \ {0} /\ Keys \subseteq Names
  BY ListingAssumption DEF NoName
<1>2. Common[k] \in Names \cup {0}
  BY ListingAssumption DEF NoName
<1>3. Common[k] <= k
  BY ListingAssumption
<1>4. k \in Names /\ k \in Nat \ {0}
  BY <1>1
<1>5. CASE Common[k] = 0
  BY <1>3, <1>4, <1>5 DEF NameOf, NoName
<1>6. CASE Common[k] \in Names
  <2>1. Common[k] \in Nat \ {0}
    BY <1>1, <1>6
  <2>2. NameOf(k) = Common[k]
    BY <2>1 DEF NameOf, NoName
  <2> QED BY <2>1, <2>2, <1>3, <1>4, <1>6
<1> QED BY <1>2, <1>5, <1>6

\* The order of keys and that of the names they are listed by agree: no key behind a
\* name is listed before it.
LEMMA NamesInOrder ==
  ASSUME NEW j \in Keys, NEW k \in Keys, NameOf(j) <= k
  PROVE  NameOf(j) <= NameOf(k)
<1>1. /\ j \in Nat /\ k \in Nat /\ Common[j] \in Nat /\ Common[k] \in Nat
      /\ Common[j] <= j
  BY NameTypes
<1>2. CASE Common[k] = NoName
  BY <1>2 DEF NameOf
<1>3. CASE Common[k] # NoName /\ j <= k
  <2>1. Common[k] <= j => Common[j] = Common[k]
    BY <1>1, <1>3, ListingAssumption
  <2> QED BY <2>1, <1>1, <1>3 DEF NameOf
<1>4. CASE Common[k] # NoName /\ k < j
  <2>1. Common[j] # NoName /\ Common[j] <= k
    BY <1>1, <1>4 DEF NameOf
  <2>2. Common[k] = Common[j]
    BY <2>1, <1>1, <1>4, ListingAssumption
  <2> QED BY <2>1, <2>2, <1>1 DEF NameOf
<1> QED BY <1>1, <1>2, <1>3, <1>4
-----------------------------------------------------------------------------
\* A name put at the end of a list
LEMMA Appended ==
  ASSUME NEW T, NEW names \in Seq(T), NEW n \in T
  PROVE  /\ Append(names, n) \in Seq(T) /\ Len(Append(names, n)) = Len(names) + 1
         /\ ToSet(Append(names, n)) = ToSet(names) \cup {n}
<1>1. /\ Append(names, n) \in Seq(T) /\ Len(Append(names, n)) = Len(names) + 1
      /\ Len(names) \in Nat
      /\ DOMAIN names = 1..Len(names)
      /\ DOMAIN Append(names, n) = 1..Len(names) + 1
      /\ \A i \in 1..Len(names) : Append(names, n)[i] = names[i]
      /\ Append(names, n)[Len(names) + 1] = n
  BY AppendProperties, LenProperties
<1> DEFINE more == Append(names, n)
<1> HIDE DEF more
<1>2. ASSUME NEW x \in ToSet(more) PROVE x \in ToSet(names) \cup {n}
  <2>1. PICK i \in 1..Len(names) + 1 : x = more[i]
    BY <1>1 DEF ToSet, more
  <2>2. CASE i \in 1..Len(names)
    BY <1>1, <2>1, <2>2 DEF ToSet, more
  <2>3. CASE i = Len(names) + 1
    BY <1>1, <2>1, <2>3 DEF more
  <2> QED BY <1>1, <2>2, <2>3
<1>3. ASSUME NEW x \in ToSet(names) PROVE x \in ToSet(more)
  <2>1. PICK i \in 1..Len(names) : x = names[i]
    BY <1>1 DEF ToSet
  <2>2. i \in 1..Len(names) + 1 /\ x = more[i]
    BY <1>1, <2>1 DEF more
  <2> QED BY <1>1, <2>2 DEF ToSet, more
<1>4. n \in ToSet(more)
  <2>1. Len(names) + 1 \in 1..Len(names) + 1 /\ more[Len(names) + 1] = n
    BY <1>1 DEF more
  <2> QED BY <1>1, <2>1 DEF ToSet, more
<1>5. ToSet(more) = ToSet(names) \cup {n}
  BY <1>2, <1>3, <1>4
<1> QED BY <1>1, <1>5 DEF more

\* A list in order stays so when a name is added that is behind all of it.
LEMMA AddedInOrder ==
  ASSUME NEW T, NEW names \in Seq(T), NEW n \in T,
         Increasing(names), \A m \in ToSet(names) : m < n
  PROVE  Increasing(Append(names, n))
<1>1. /\ Len(names) \in Nat
      /\ DOMAIN names = 1..Len(names)
      /\ DOMAIN Append(names, n) = 1..Len(names) + 1
      /\ \A i \in 1..Len(names) : Append(names, n)[i] = names[i]
      /\ Append(names, n)[Len(names) + 1] = n
  BY AppendProperties, LenProperties
<1> DEFINE more == Append(names, n)
<1> HIDE DEF more
<1>2. ASSUME NEW i \in 1..Len(names) + 1, NEW j \in 1..Len(names) + 1, i < j
      PROVE  more[i] < more[j]
  <2>1. i \in 1..Len(names) /\ more[i] = names[i]
    BY <1>1, <1>2 DEF more
  <2>2. CASE j \in 1..Len(names)
    BY <1>1, <1>2, <2>1, <2>2 DEF Increasing, more
  <2>3. CASE j = Len(names) + 1
    <3>1. names[i] \in ToSet(names)
      BY <1>1, <2>1 DEF ToSet
    <3> QED BY <1>1, <2>1, <2>3, <3>1 DEF more
  <2> QED BY <1>1, <2>2, <2>3
<1> QED BY <1>1, <1>2 DEF Increasing, more

LEMMA NoNames == << >> \in Seq({}) /\ Len(<< >>) = 0 /\ ToSet(<< >>) = {} /\ Increasing(<< >>)
BY DEF ToSet, Increasing

LEMMA LimitInt == TypeOK => Limit \in Int
BY ListingAssumption DEF TypeOK, Limit

LEMMA PageTypes ==
  ASSUME TypeOK
  PROVE  OnPage \subseteq Names
<1>1. contents \in Seq(Keys) /\ prefixes \in Seq(Names) /\ Keys \subseteq Names
  BY ListingAssumption DEF TypeOK
<1>2. \A i \in DOMAIN contents : contents[i] \in Keys
  BY <1>1, LenProperties, ElementOfSeq
<1>3. \A i \in DOMAIN prefixes : prefixes[i] \in Names
  BY <1>1, LenProperties, ElementOfSeq
<1> QED BY <1>1, <1>2, <1>3 DEF OnPage, ToSet

LEMMA TypeStep == TypeOK /\ [Next]_listVars => TypeOK'
<1> SUFFICES ASSUME TypeOK, [Next]_listVars PROVE TypeOK'
  OBVIOUS
<1>0. Limit \in Int /\ Len(contents) \in Nat /\ Len(prefixes) \in Nat
  BY LimitInt, LenProperties DEF TypeOK
<1>9. << >> \in Seq(Keys) /\ << >> \in Seq(Names) /\ Len(<< >>) = 0
  BY EmptySeq
<1>1. CASE Ask
  <2>1. Limit' = Limit /\ stage' \in {"refused", "walking"} /\ last' = NoName
        /\ unread' \subseteq {Dir[k] : k \in Keys} /\ truncated' \in BOOLEAN
        /\ contents' = << >> /\ prefixes' = << >> /\ found' = {}
        /\ UNCHANGED <<bucket, store, asked, start, pivot, listed, steady, seen>>
    BY <1>1 DEF Ask, Limit
  <2>2. Len(contents') + Len(prefixes') <= Limit' \/ Limit' < 0
    BY <2>1, <1>0, <1>9
  <2> QED BY <2>1, <2>2, <1>9 DEF TypeOK, Ended
<1>2. ASSUME NEW d \in unread, Walk(d) PROVE TypeOK'
  BY <1>2 DEF Walk, TypeOK, Limit, Ended
<1>3. ASSUME NEW k \in found, Look(k) PROVE TypeOK'
  <2>1. k \in Keys
    BY DEF TypeOK
  <2>2. CASE UNCHANGED <<contents, prefixes, last>>
    BY <2>2, <1>3 DEF Look, RestAfter, TypeOK, Limit, Ended
  <2>3. CASE Added(k) /\ ~Full /\ found' = found \ {k} /\ UNCHANGED <<stage, truncated>>
    <3>1. k \in Names /\ (Common[k] # NoName => Common[k] \in Names)
      BY <2>1, NameTypes DEF NameOf
    <3>2. Len(contents) + Len(prefixes) < Limit
      BY <2>3, <1>0 DEF Full
    <3>3. /\ contents' \in Seq(Keys) /\ prefixes' \in Seq(Names) /\ last' \in Names
          /\ Len(contents') + Len(prefixes') = Len(contents) + Len(prefixes) + 1
      <4>1. contents \in Seq(Keys) /\ prefixes \in Seq(Names)
        BY DEF TypeOK
      <4>2. CASE Common[k] # NoName
        <5>1. contents' = contents /\ prefixes' = Append(prefixes, Common[k]) /\ last' = Common[k]
          BY <2>3, <4>2 DEF Added
        <5> QED BY <5>1, <4>1, <4>2, <3>1, <1>0, Appended
      <4>3. CASE Common[k] = NoName
        <5>1. prefixes' = prefixes /\ contents' = Append(contents, k) /\ last' = k
          BY <2>3, <4>3 DEF Added
        <5> QED BY <5>1, <4>1, <2>1, <3>1, <1>0, Appended
      <4> QED BY <4>2, <4>3
    <3>4. Limit' = Limit
      BY <1>3 DEF Look, Limit
    <3>5. Len(contents') + Len(prefixes') <= Limit'
      BY <3>2, <3>3, <3>4, <1>0
    <3> QED BY <3>3, <3>5, <2>3, <1>3 DEF Look, TypeOK, Ended
  <2> QED BY <2>2, <2>3, <1>3 DEF Look
<1>4. CASE EndOfFiles
  BY <1>4 DEF EndOfFiles, TypeOK, Limit, Ended
<1>5. CASE Follow
  <2>1. /\ Limit' = Limit /\ contents' = << >> /\ prefixes' = << >>
        /\ listed' = listed \cup OnPage
        /\ stage' \in {"asked", "done"} /\ pivot' \in {pivot, last}
        /\ UNCHANGED <<bucket, store, asked, start, unread, found, last, truncated, steady, seen>>
    BY <1>5 DEF Follow, Limit
  <2>2. Len(contents') + Len(prefixes') <= Limit' \/ Limit' < 0
    BY <2>1, <1>0, <1>9
  <2>3. listed' \subseteq Names
    BY <2>1, PageTypes DEF TypeOK
  <2> QED BY <2>1, <2>2, <2>3, <1>9 DEF TypeOK, Ended
<1>6. ASSUME NEW k \in Keys, Change(k) PROVE TypeOK'
  BY <1>6 DEF Change, TypeOK, Limit
<1>7. CASE ChangeBucket
  BY <1>7 DEF ChangeBucket, TypeOK, Limit
<1>8. CASE UNCHANGED listVars
  BY <1>8 DEF listVars, TypeOK, Limit
<1>10. CASE Break
  <2>1. /\ Limit' = Limit /\ contents' = << >> /\ prefixes' = << >> /\ found' = {}
        /\ stage' = "broken"
        /\ UNCHANGED <<bucket, store, asked, start, pivot, unread, last, truncated, listed,
                       steady, seen>>
    BY <1>10 DEF Break, Limit
  <2>2. Len(contents') + Len(prefixes') <= Limit' \/ Limit' < 0
    BY <2>1, <1>0, <1>9
  <2> QED BY <2>1, <2>2, <1>9 DEF TypeOK, Ended
<1> QED BY <1>1, <1>2, <1>3, <1>4, <1>5, <1>6, <1>7, <1>8, <1>10 DEF Next, Page

LEMMA InitTypes == Init => TypeOK
<1> SUFFICES ASSUME Init PROVE TypeOK
  OBVIOUS
<1>1. Limit \in Int
  BY ListingAssumption DEF Init, Limit
<1>2. Len(contents) + Len(prefixes) <= Limit \/ Limit < 0
  BY <1>1, EmptySeq DEF Init
<1>4. contents \in Seq(Keys) /\ prefixes \in Seq(Names)
  BY EmptySeq DEF Init
<1>3. start \in Names \cup {NoName}
  BY ListingAssumption DEF Init
<1> QED BY <1>2, <1>3, <1>4 DEF Init, TypeOK

\* Every variable keeps its type, and no page has more names than max-keys allows.
THEOREM ListingTypes == Spec => []TypeOK
BY InitTypes, TypeStep, PTL DEF Spec
-----------------------------------------------------------------------------
\* A key that the listing is to have
Wanted(k) == k > start /\ (start = NoName \/ Common[k] # start)

\* The name a page begins after is the start, or the last name listed.
PivotInv ==
  \/ listed = {} /\ pivot = start
  \/ /\ pivot \in listed /\ \A m \in listed : m <= pivot
     /\ \E j \in Keys : Wanted(j) /\ pivot = NameOf(j)

\* last is the last name on the page, of a key before those still to be looked at.
LastInv ==
  IF last = NoName THEN contents = << >> /\ prefixes = << >>
  ELSE /\ last \in OnPage /\ \A n \in OnPage : n <= last
       /\ \E j \in Keys : Wanted(j) /\ last = NameOf(j)
                        /\ (stage = "paging" => \A k \in found : j < k)

\* The inductive invariant behind OnceInOrder
OrderInv ==
  /\ stage # "done" => PivotInv
  /\ stage \in {"walking", "paging", "answered"} => LastInv
  /\ stage \notin {"walking", "paging", "answered"} => contents = << >> /\ prefixes = << >>
  /\ stage = "walking" => last = NoName
  /\ OnceInOrder

\* A key that is not skipped is to be listed, by a name behind those listed before.
LEMMA NotSkipped ==
  ASSUME TypeOK, PivotInv, NEW k \in Keys, ~Skipped(k)
  PROVE  Wanted(k) /\ \A m \in listed : m < NameOf(k)
<1>1. /\ k \in Nat \ {0} /\ Common[k] \in Nat /\ Common[k] <= k /\ NameOf(k) \in Nat
      /\ NameOf(k) = IF Common[k] = NoName THEN k ELSE Common[k]
  BY NameTypes DEF NameOf
<1>2. start \in Nat /\ pivot \in Nat /\ listed \subseteq Nat
  <2>1. Names \subseteq Nat
    BY ListingAssumption
  <2>2. start \in Names \cup {0} /\ pivot \in Names \cup {0} /\ listed \subseteq Names
    BY DEF TypeOK, NoName
  <2> QED BY <2>1, <2>2
<1>3. CASE listed = {} /\ pivot = start
  BY <1>1, <1>2, <1>3 DEF Skipped, Wanted, NoName
<1>4. ASSUME NEW j \in Keys, Wanted(j), pivot = NameOf(j), \A m \in listed : m <= pivot
      PROVE  Wanted(k) /\ \A m \in listed : m < NameOf(k)
  <2>1. /\ j \in Nat \ {0} /\ Common[j] \in Nat /\ Common[j] <= j /\ pivot \in Nat \ {0}
        /\ pivot = IF Common[j] = NoName THEN j ELSE Common[j]
    BY <1>4, NameTypes DEF NameOf
  <2>2. pivot < k /\ (Common[k] # NoName => Common[k] # pivot)
    BY <1>1, <2>1 DEF Skipped, NoName
  <2>3. pivot < NameOf(k)
    <3>1. pivot <= NameOf(k)
      BY <1>1, <2>1, <2>2, <1>4, NamesInOrder
    <3> QED BY <3>1, <2>2, <2>1, <1>1
  <2>4. ASSUME k < j PROVE FALSE
    <3>1. Common[j] # NoName /\ Common[j] = pivot
      BY <1>1, <2>1, <2>2, <2>4
    <3>2. Common[k] = Common[j]
      BY <3>1, <1>1, <2>1, <2>2, <2>4, ListingAssumption
    <3> QED BY <3>1, <3>2, <2>2
  <2>5. j <= k /\ start < k
    BY <2>4, <1>1, <1>2, <2>1, <1>4 DEF Wanted
  <2>6. ASSUME start # NoName, Common[k] = start PROVE FALSE
    <3>1. Common[k] <= j
      BY <2>6, <1>2, <2>1, <1>4 DEF Wanted
    <3>2. Common[j] = Common[k] \/ Common[k] = NoName
      BY <3>1, <2>5, ListingAssumption
    <3> QED BY <3>2, <2>6, <1>4 DEF Wanted
  <2> QED BY <2>3, <2>5, <2>6, <1>1, <1>2, <1>4 DEF Wanted
<1> QED BY <1>3, <1>4 DEF PivotInv

\* The name of a key that is not skipped is behind those on the page.
LEMMA BehindPage ==
  ASSUME TypeOK, LastInv, stage = "paging", NEW k \in found, ~Skipped(k)
  PROVE  \A n \in OnPage : n < NameOf(k)
<1> SUFFICES ASSUME NEW n \in OnPage PROVE n < NameOf(k)
  OBVIOUS
<1>1. last # NoName
  BY NoNames DEF LastInv, OnPage
<1>2. PICK j \in Keys : last = NameOf(j) /\ j < k
  BY <1>1 DEF LastInv
<1>3. k \in Keys
  BY DEF TypeOK
<1>4. /\ j \in Nat /\ k \in Nat /\ last \in Nat /\ last <= j /\ NameOf(k) \in Nat
      /\ NameOf(k) = IF Common[k] = NoName THEN k ELSE Common[k]
  BY <1>2, <1>3, NameTypes DEF NameOf
<1>5. last <= NameOf(k)
  BY <1>2, <1>3, <1>4, NamesInOrder
<1>6. last # NameOf(k)
  BY <1>1, <1>2, <1>4 DEF Skipped
<1>7. n <= last /\ n \in Nat
  BY <1>1, PageTypes, ListingAssumption DEF LastInv
<1> QED BY <1>4, <1>5, <1>6, <1>7

\* What Look does to the page
LEMMA Looked ==
  ASSUME TypeOK, NEW k \in found, Look(k)
  PROVE  /\ stage = "paging" /\ k \in Keys /\ \A j \in found : k <= j
         /\ UNCHANGED <<asked, start, pivot, listed, store, steady, seen>>
         /\ \/ /\ k \notin store \/ Skipped(k)
               /\ stage' = "paging" /\ found' = found \ {k}
               /\ UNCHANGED <<contents, prefixes, last, truncated>>
            \/ /\ k \in store /\ ~Skipped(k) /\ Full
               /\ stage' = "answered" /\ truncated' /\ found' = {}
               /\ UNCHANGED <<contents, prefixes, last>>
            \/ /\ k \in store /\ ~Skipped(k)
               /\ stage' = "paging" /\ found' = found \ {k} /\ UNCHANGED truncated
               /\ Added(k) /\ OnPage' = OnPage \cup {NameOf(k)} /\ last' = NameOf(k)
<1>1. k \in Keys
  BY DEF TypeOK
<1>2. ASSUME Added(k) PROVE OnPage' = OnPage \cup {NameOf(k)} /\ last' = NameOf(k)
  <2>1. contents \in Seq(Keys) /\ prefixes \in Seq(Names) /\ NameOf(k) \in Names
    BY <1>1, NameTypes DEF TypeOK
  <2>2. CASE Common[k] # NoName
    <3>1. /\ prefixes' = Append(prefixes, NameOf(k)) /\ contents' = contents /\ last' = NameOf(k)
      BY <1>2, <2>2 DEF Added, NameOf
    <3>2. ToSet(prefixes') = ToSet(prefixes) \cup {NameOf(k)}
      BY <2>1, <3>1, Appended
    <3> QED BY <3>1, <3>2 DEF OnPage
  <2>3. CASE Common[k] = NoName
    <3>1. contents' = Append(contents, k) /\ prefixes' = prefixes /\ last' = k /\ NameOf(k) = k
      BY <1>2, <2>3 DEF Added, NameOf
    <3>2. ToSet(contents') = ToSet(contents) \cup {k}
      BY <1>1, <2>1, <3>1, Appended
    <3> QED BY <3>1, <3>2 DEF OnPage
  <2> QED BY <2>2, <2>3
<1> QED BY <1>1, <1>2 DEF Look, RestAfter

\* A name behind those on the page and on the pages before keeps the page in order.
LEMMA AddedOnce ==
  ASSUME TypeOK, OnceInOrder, NEW k \in Keys, Added(k), listed' = listed,
         \A n \in OnPage : n < NameOf(k), \A m \in listed : m < NameOf(k),
         OnPage' = OnPage \cup {NameOf(k)}
  PROVE  OnceInOrder'
<1>1. contents \in Seq(Keys) /\ prefixes \in Seq(Names) /\ NameOf(k) \in Names
      /\ NameOf(k) \in Nat
  BY NameTypes DEF TypeOK
<1>2. NameOf(k) \notin ToSet(contents) /\ NameOf(k) \notin ToSet(prefixes)
  BY <1>1 DEF OnPage
<1>3. CASE Common[k] # NoName
  <2>1. prefixes' = Append(prefixes, NameOf(k)) /\ contents' = contents
    BY <1>3 DEF Added, NameOf
  <2>2. ToSet(prefixes') = ToSet(prefixes) \cup {NameOf(k)}
    BY <1>1, <2>1, Appended
  <2>3. Increasing(prefixes')
    <3>1. \A m \in ToSet(prefixes) : m < NameOf(k)
      BY DEF OnPage
    <3> QED BY <1>1, <2>1, <3>1, AddedInOrder DEF OnceInOrder
  <2> QED BY <1>2, <2>1, <2>2, <2>3 DEF OnceInOrder
<1>4. CASE Common[k] = NoName
  <2>1. contents' = Append(contents, k) /\ prefixes' = prefixes /\ NameOf(k) = k
    BY <1>4 DEF Added, NameOf
  <2>2. ToSet(contents') = ToSet(contents) \cup {k}
    BY <1>1, <2>1, Appended
  <2>3. Increasing(contents')
    <3>1. \A m \in ToSet(contents) : m < k
      BY <2>1 DEF OnPage
    <3> QED BY <1>1, <2>1, <3>1, AddedInOrder DEF OnceInOrder
  <2> QED BY <1>2, <2>1, <2>2, <2>3 DEF OnceInOrder
<1> QED BY <1>3, <1>4

LEMMA EmptyPage ==
  ASSUME contents = << >>, prefixes = << >>
  PROVE  OnPage = {} /\ OnceInOrder
BY NoNames DEF OnPage, OnceInOrder

LEMMA EmptiedPage ==
  ASSUME contents' = << >>, prefixes' = << >>
  PROVE  OnPage' = {} /\ OnceInOrder'
BY NoNames DEF OnPage, OnceInOrder

LEMMA OrderStep == TypeOK /\ OrderInv /\ [Next]_listVars => OrderInv'
<1> SUFFICES ASSUME TypeOK, OrderInv, [Next]_listVars PROVE OrderInv'
  OBVIOUS
<1>1. CASE Ask
  BY <1>1, EmptiedPage DEF Ask, OrderInv, PivotInv, LastInv, Wanted
<1>2. ASSUME NEW d \in unread, Walk(d) PROVE OrderInv'
  BY <1>2 DEF Walk, OrderInv, PivotInv, LastInv, OnPage, OnceInOrder, Wanted
<1>3. ASSUME NEW k \in found, Look(k) PROVE OrderInv'
  <2>1. /\ PivotInv /\ LastInv /\ OnceInOrder /\ k \in Keys
    BY <1>3, Looked DEF OrderInv
  <2>2. PivotInv'
    BY <1>3, <2>1, Looked DEF PivotInv, Wanted
  <2>3. CASE UNCHANGED <<contents, prefixes, last>> /\ stage' \in {"paging", "answered"} /\ found' \subseteq found
    <3>1. LastInv' /\ OnceInOrder'
      BY <1>3, <2>1, <2>3, Looked DEF LastInv, OnceInOrder, OnPage, Wanted
    <3> QED BY <2>2, <2>3, <3>1 DEF OrderInv
  <2>4. CASE /\ ~Skipped(k) /\ stage' = "paging" /\ found' = found \ {k}
             /\ Added(k) /\ OnPage' = OnPage \cup {NameOf(k)} /\ last' = NameOf(k)
    <3>1. Wanted(k) /\ \A m \in listed : m < NameOf(k)
      BY <2>1, <2>4, NotSkipped
    <3>2. \A n \in OnPage : n < NameOf(k)
      BY <1>3, <2>1, <2>4, Looked, BehindPage
    <3>7. OnceInOrder'
      BY <1>3, <2>1, <2>4, <3>1, <3>2, Looked, AddedOnce
    <3>3. \A n \in OnPage : n <= NameOf(k)
      <4> SUFFICES ASSUME NEW n \in OnPage PROVE n <= NameOf(k)
        OBVIOUS
      <4>1. n \in Nat /\ NameOf(k) \in Nat
        BY <2>1, PageTypes, NameTypes, ListingAssumption
      <4> QED BY <4>1, <3>2
    <3>4. \A j \in found \ {k} : k < j
      BY <1>3, <2>1, Looked, NameTypes DEF TypeOK
    <3>5. NameOf(k) # NoName /\ NameOf(k) <= NameOf(k)
      BY <2>1, NameTypes DEF NoName
    <3>6. LastInv'
      BY <1>3, <2>1, <2>4, <3>1, <3>3, <3>4, <3>5, Looked DEF LastInv, Wanted
    <3> QED BY <2>2, <2>4, <3>6, <3>7 DEF OrderInv
  <2> QED BY <2>3, <2>4, <1>3, Looked
<1>4. CASE EndOfFiles
  BY <1>4 DEF EndOfFiles, OrderInv, PivotInv, LastInv, OnPage, OnceInOrder, Wanted
<1>5. CASE Follow
  <2>1. /\ listed' = listed \cup OnPage /\ UNCHANGED <<start, last>>
        /\ contents' = << >> /\ prefixes' = << >>
        /\ stage' = "done" \/ (stage' = "asked" /\ pivot' = last /\ last # NoName)
    BY <1>5 DEF Follow, HasToken
  <2>2. LastInv /\ PivotInv /\ OnceInOrder
    BY <1>5 DEF Follow, OrderInv
  <2>3. stage' = "asked" => PivotInv'
    <3> SUFFICES ASSUME stage' = "asked" PROVE PivotInv'
      OBVIOUS
    <3>1. last \in OnPage /\ pivot' = last /\ \A n \in OnPage : n <= last
      BY <2>1, <2>2 DEF LastInv
    <3>2. \A m \in listed : m <= last
      <4>1. \A m \in listed : m < last
        BY <2>2, <3>1 DEF OnceInOrder, OnPage
      <4>2. listed \subseteq Nat /\ last \in Nat
        <5>1. listed \subseteq Names /\ last \in Names \cup {0}
          BY DEF TypeOK, NoName
        <5> QED BY <5>1, ListingAssumption
      <4> QED BY <4>1, <4>2
    <3>3. \E j \in Keys : Wanted(j) /\ last = NameOf(j)
      BY <2>1, <2>2 DEF LastInv
    <3> QED BY <2>1, <3>1, <3>2, <3>3 DEF PivotInv, Wanted
  <2> QED BY <2>1, <2>3, EmptiedPage DEF OrderInv
<1>6. ASSUME NEW k \in Keys, Change(k) PROVE OrderInv'
  BY <1>6 DEF Change, OrderInv, PivotInv, LastInv, OnPage, OnceInOrder, Wanted
<1>7. CASE ChangeBucket
  BY <1>7 DEF ChangeBucket, OrderInv, PivotInv, LastInv, OnPage, OnceInOrder, Wanted
<1>8. CASE UNCHANGED listVars
  BY <1>8 DEF listVars, OrderInv, PivotInv, LastInv, OnPage, OnceInOrder, Wanted
<1>9. CASE Break
  BY <1>9, EmptiedPage DEF Break, OrderInv, PivotInv, Wanted
<1> QED BY <1>1, <1>2, <1>3, <1>4, <1>5, <1>6, <1>7, <1>8, <1>9 DEF Next, Page

\* Names come once and in order over all pages, wherever pages are cut and whatever
\* files come and go.
THEOREM ListedOnceInOrder == Spec => []OnceInOrder
<1>1. Init => OrderInv
  BY EmptyPage DEF Init, OrderInv, PivotInv
<1>2. OrderInv => OnceInOrder
  BY DEF OrderInv
<1>3. Init => TypeOK
  BY InitTypes
<1> QED BY <1>1, <1>2, <1>3, TypeStep, OrderStep, PTL DEF Spec
-----------------------------------------------------------------------------
\* The name of k is on a page, this one or one before.
Named(k) == NameOf(k) \in listed \cup OnPage

\* A page that begins after x skips k.
Behind(x, k) == x # NoName /\ (k <= x \/ Common[k] = x)

\* Where a key that is wanted, and whose file stays, can be: still to be found, still to
\* be looked at, or on a page; and what the token skips is on a page.
KeptInSight(k) ==
  /\ Behind(pivot, k) => NameOf(k) \in listed
  /\ stage = "walking" => Dir[k] \in unread \/ k \in found
  /\ stage = "paging" => k \in found \/ Named(k)
  /\ stage = "answered" => Named(k) \/ truncated
  /\ stage = "answered" /\ Behind(last, k) => Named(k)

\* The inductive invariant behind ReportsSteady
SteadyInv ==
  /\ steady \subseteq store /\ store \subseteq seen
  /\ listed \cup OnPage \subseteq ListingOf(seen)
  /\ stage \notin Ended => \A k \in steady : Wanted(k) => KeptInSight(k)
  /\ stage \in {"walking", "paging"} => ~truncated
  /\ stage = "answered" /\ truncated /\ last = NoName => Limit <= 0
  /\ ReportsSteady

LEMMA NamesOfAll ==
  ASSUME NEW S
  PROVE  ListingOf(S) = {NameOf(k) : k \in {j \in S : Wanted(j)}}
BY DEF ListingOf, NameOf, Wanted

\* A key that the page begins after, that is skipped, or that is as far as the page goes,
\* is not lost.
LEMMA SkippedIsNamed ==
  ASSUME TypeOK, OrderInv, stage = "paging", NEW k \in Keys, KeptInSight(k), Skipped(k)
  PROVE  Named(k)
<1>1. CASE Behind(pivot, k)
  BY <1>1 DEF KeptInSight, Named
<1>2. CASE Common[k] # NoName /\ Common[k] = last
  BY <1>2 DEF OrderInv, LastInv, NameOf, Named
<1> QED BY <1>1, <1>2 DEF Skipped, Behind

LEMMA CutIsNamed ==
  ASSUME TypeOK, OrderInv, stage = "paging",
         NEW k \in Keys, k \in found \/ Named(k), Behind(last, k)
  PROVE  Named(k)
<1> SUFFICES ASSUME k \in found PROVE Named(k)
  OBVIOUS
<1>1. last # NoName /\ LastInv
  BY DEF Behind, OrderInv
<1>2. PICK j \in Keys : last = NameOf(j) /\ j < k
  BY <1>1 DEF LastInv
<1>3. last <= j /\ last \in Nat /\ j \in Nat /\ k \in Nat
  BY <1>2, NameTypes
<1>4. Common[k] = last
  BY <1>2, <1>3 DEF Behind
<1> QED BY <1>1, <1>4 DEF LastInv, NameOf, Named

LEMMA SteadyStep == TypeOK /\ OrderInv /\ SteadyInv /\ [Next]_listVars => SteadyInv'
<1> SUFFICES ASSUME TypeOK, OrderInv, SteadyInv, [Next]_listVars PROVE SteadyInv'
  OBVIOUS
<1>0. steady \subseteq Keys /\ seen \subseteq Keys /\ store \subseteq Keys
  BY DEF TypeOK
<1> USE NamesOfAll
<1>1. CASE Ask
  <2>1. /\ OnPage = {} /\ OnPage' = {} /\ ~truncated' /\ stage' \in {"walking", "refused"}
        /\ stage = "asked"
        /\ unread' = {Dir[k] : k \in Keys}
        /\ UNCHANGED <<store, asked, start, pivot, listed, steady, seen>>
    BY <1>1, EmptyPage, EmptiedPage DEF Ask, OrderInv
  <2>2. ASSUME NEW k \in steady, Wanted(k), stage' = "walking" PROVE KeptInSight(k)'
    BY <1>0, <2>1, <2>2 DEF SteadyInv, KeptInSight, Behind, Ended
  <2>3. ListingOf(seen)' = ListingOf(seen)
    BY <2>1 DEF ListingOf
  <2> QED BY <2>1, <2>2, <2>3 DEF SteadyInv, ReportsSteady, Wanted, Ended
<1>2. ASSUME NEW d \in unread, Walk(d) PROVE SteadyInv'
  <2>1. /\ stage = "walking" /\ stage' = IF unread' = {} THEN "paging" ELSE "walking"
        /\ unread' = unread \ {d}
        /\ found' = found \cup {k \in store : Dir[k] = d}
        /\ UNCHANGED <<OnPage, contents, prefixes, last, store, asked, start, pivot, listed, steady,
                       seen, truncated>>
    BY <1>2 DEF Walk, OnPage
  <2>2. ASSUME NEW k \in steady, Wanted(k) PROVE KeptInSight(k)'
    <3>1. KeptInSight(k) /\ k \in store
      BY <2>1, <2>2 DEF SteadyInv, Ended
    <3>2. Dir[k] \in unread' \/ k \in found'
      BY <2>1, <3>1 DEF KeptInSight
    <3>3. Behind(pivot, k)' => NameOf(k) \in listed'
      BY <2>1, <3>1 DEF KeptInSight, Behind
    <3> QED BY <2>1, <3>2, <3>3 DEF KeptInSight
  <2>3. ListingOf(seen)' = ListingOf(seen)
    BY <2>1 DEF ListingOf
  <2> QED BY <2>1, <2>2, <2>3 DEF SteadyInv, ReportsSteady, Wanted
<1>3. ASSUME NEW k \in found, Look(k) PROVE SteadyInv'
  <2>1. /\ stage = "paging" /\ k \in Keys /\ ~truncated
        /\ UNCHANGED <<asked, start, pivot, listed, store, steady, seen>>
        /\ ListingOf(seen)' = ListingOf(seen)
    BY <1>3, Looked DEF SteadyInv, ListingOf
  <2>2. ASSUME NEW j \in steady, Wanted(j)
        PROVE  KeptInSight(j) /\ (j \in found \/ Named(j)) /\ (Behind(pivot, j)' => NameOf(j) \in listed')
    BY <2>1, <2>2 DEF SteadyInv, KeptInSight, Behind, Ended
  <2>3. CASE /\ k \notin store \/ Skipped(k)
             /\ stage' = "paging" /\ found' = found \ {k}
             /\ UNCHANGED <<contents, prefixes, last, truncated>>
    <3>1. ASSUME NEW j \in steady, Wanted(j) PROVE j \in found' \/ Named(j)'
      <4>1. CASE j # k
        BY <2>1, <2>2, <2>3, <3>1, <4>1 DEF Named, OnPage
      <4>2. CASE j = k
        <5>1. Skipped(k)
          BY <2>3, <3>1, <4>2 DEF SteadyInv
        <5>2. Named(k)
          BY <2>1, <2>2, <3>1, <4>2, <5>1, SkippedIsNamed
        <5> QED BY <2>1, <2>3, <4>2, <5>2 DEF Named, OnPage
      <4> QED BY <4>1, <4>2
    <3>2. ASSUME NEW j \in steady, Wanted(j) PROVE KeptInSight(j)'
      BY <2>2, <2>3, <3>1, <3>2 DEF KeptInSight
    <3> QED BY <2>1, <2>3, <3>2 DEF SteadyInv, ReportsSteady, Wanted, OnPage
  <2>4. CASE /\ k \in store /\ ~Skipped(k) /\ Full
             /\ stage' = "answered" /\ truncated' /\ found' = {}
             /\ UNCHANGED <<contents, prefixes, last>>
    <3>1. ASSUME NEW j \in steady, Wanted(j) PROVE KeptInSight(j)'
      <4>1. Behind(last, j) => Named(j)
        BY <1>0, <2>1, <2>2, <3>1, CutIsNamed
      <4>2. Behind(last, j)' = Behind(last, j) /\ Named(j)' = Named(j)
        BY <2>1, <2>4 DEF Behind, Named, OnPage
      <4> QED BY <2>2, <2>4, <3>1, <4>1, <4>2 DEF KeptInSight
    <3>2. last = NoName => Limit <= 0
      <4> SUFFICES ASSUME last = NoName PROVE Limit <= 0
        OBVIOUS
      <4>1. contents = << >> /\ prefixes = << >>
        BY <2>1 DEF OrderInv, LastInv
      <4> QED BY <4>1, <2>4, NoNames, LimitInt DEF Full
    <3>3. Limit' = Limit
      BY <2>1 DEF Limit
    <3> QED BY <2>1, <2>4, <3>1, <3>2, <3>3 DEF SteadyInv, ReportsSteady, Wanted, OnPage
  <2>5. CASE /\ k \in store /\ ~Skipped(k)
             /\ stage' = "paging" /\ found' = found \ {k} /\ UNCHANGED truncated
             /\ OnPage' = OnPage \cup {NameOf(k)} /\ last' = NameOf(k)
    <3>1. ASSUME NEW j \in steady, Wanted(j) PROVE KeptInSight(j)'
      <4>1. j \in found' \/ Named(j)'
        BY <2>1, <2>2, <2>5, <3>1 DEF Named
      <4> QED BY <2>2, <2>5, <3>1, <4>1 DEF KeptInSight
    <3>2. Wanted(k)
      BY <2>1, <2>5, NotSkipped DEF OrderInv
    <3>3. NameOf(k) \in ListingOf(seen)
      BY <3>2, <2>5 DEF SteadyInv
    <3> QED BY <2>1, <2>5, <3>1, <3>3 DEF SteadyInv, ReportsSteady, Wanted
  <2> QED BY <1>3, Looked, <2>3, <2>4, <2>5
<1>4. CASE EndOfFiles
  <2>1. /\ stage = "paging" /\ stage' = "answered" /\ found = {} /\ ~truncated
        /\ UNCHANGED <<found, OnPage, contents, prefixes, last, store, asked, start, pivot, listed,
                       steady, seen, truncated>>
    BY <1>4 DEF EndOfFiles, OnPage, SteadyInv
  <2>2. ASSUME NEW k \in steady, Wanted(k) PROVE KeptInSight(k)'
    <3>1. KeptInSight(k)
      BY <2>1, <2>2 DEF SteadyInv, Ended
    <3>2. Named(k) /\ Named(k)' = Named(k) /\ Behind(pivot, k)' = Behind(pivot, k)
      BY <2>1, <3>1 DEF KeptInSight, Named, Behind
    <3> QED BY <2>1, <3>1, <3>2 DEF KeptInSight
  <2>3. ListingOf(seen)' = ListingOf(seen)
    BY <2>1 DEF ListingOf
  <2> QED BY <2>1, <2>2, <2>3 DEF SteadyInv, ReportsSteady, Wanted
<1>5. CASE Follow
  <2>1. /\ stage = "answered" /\ listed' = listed \cup OnPage /\ OnPage' = {}
        /\ UNCHANGED <<start, last, truncated, asked, store, steady, seen>>
        /\ \/ stage' = "done" /\ (~truncated \/ last = NoName)
           \/ stage' = "asked" /\ pivot' = last
    BY <1>5, EmptiedPage DEF Follow, HasToken
  <2>2. Limit' = Limit /\ ListingOf(seen)' = ListingOf(seen) /\ ListingOf(steady)' = ListingOf(steady)
    BY <2>1 DEF Limit, ListingOf
  <2>3. ASSUME NEW k \in steady, Wanted(k) PROVE KeptInSight(k)
    BY <2>1, <2>3 DEF SteadyInv, Ended
  <2>4. ASSUME NEW k \in steady, Wanted(k), stage' = "asked" PROVE KeptInSight(k)'
    BY <2>1, <2>3, <2>4 DEF KeptInSight, Behind, Named
  <2>5. ASSUME stage' = "done", Limit > 0 PROVE ListingOf(steady) \subseteq listed'
    <3>1. ~truncated
      BY <2>1, <2>5, LimitInt DEF SteadyInv
    <3>2. ASSUME NEW k \in steady, Wanted(k) PROVE NameOf(k) \in listed'
      BY <2>1, <2>3, <3>1, <3>2 DEF KeptInSight, Named
    <3> QED BY <3>2
  <2>6. listed' \subseteq ListingOf(seen)
    BY <2>1 DEF SteadyInv
  <2> QED BY <2>1, <2>2, <2>4, <2>5, <2>6 DEF SteadyInv, ReportsSteady, Wanted, Ended
<1>6. ASSUME NEW k \in Keys, Change(k) PROVE SteadyInv'
  <2>1. /\ steady' \subseteq steady /\ steady' \subseteq store' /\ store' \subseteq seen'
        /\ seen \subseteq seen' /\ stage \notin Ended
        /\ UNCHANGED <<stage, OnPage, unread, found, contents, prefixes, last, asked, start, pivot, listed,
                       truncated>>
    BY <1>6 DEF Change, SteadyInv, OnPage
  <2>2. ListingOf(seen) \subseteq ListingOf(seen)'
    BY <2>1 DEF ListingOf
  <2>3. ASSUME NEW j \in steady', Wanted(j) PROVE KeptInSight(j)'
    <3>1. KeptInSight(j)
      BY <2>1, <2>3 DEF SteadyInv
    <3> QED BY <2>1, <3>1 DEF KeptInSight, Behind, Named
  <2>4. Limit' = Limit
    BY <2>1 DEF Limit
  <2> QED BY <2>1, <2>2, <2>3, <2>4 DEF SteadyInv, ReportsSteady, Wanted, Ended
<1>7. CASE ChangeBucket
  BY <1>7 DEF ChangeBucket, SteadyInv, ReportsSteady, Wanted, KeptInSight, Behind, Named, OnPage,
     ListingOf, Limit
<1>8. CASE UNCHANGED listVars
  BY <1>8 DEF listVars, SteadyInv, ReportsSteady, Wanted, KeptInSight, Behind, Named, OnPage,
     ListingOf, Limit
<1>9. CASE Break
  <2>1. /\ stage' = "broken" /\ OnPage' = {} /\ stage = "paging" /\ ~truncated
        /\ UNCHANGED <<store, steady, seen, listed, truncated, start>>
    BY <1>9, EmptiedPage DEF Break, SteadyInv
  <2>2. ListingOf(seen)' = ListingOf(seen)
    BY <2>1 DEF ListingOf
  <2> QED BY <2>1, <2>2 DEF SteadyInv, ReportsSteady, Ended
<1> QED BY <1>1, <1>2, <1>3, <1>4, <1>5, <1>6, <1>7, <1>8, <1>9 DEF Next, Page

\* A finished listing of pages with room for a name has the name of every file that was
\* there all the time, and no name that no file ever had.
THEOREM ListsWhatStays == Spec => []ReportsSteady
<1>1. Init => SteadyInv
  <2> SUFFICES ASSUME Init PROVE SteadyInv
    OBVIOUS
  <2>1. /\ steady = store /\ seen = store /\ steady \subseteq Keys /\ listed = {} /\ OnPage = {}
        /\ stage = "asked" /\ pivot = start
    BY EmptyPage DEF Init
  <2>2. ASSUME NEW k \in steady, Wanted(k) PROVE ~Behind(pivot, k)
    <3>1. k \in Nat /\ start \in Nat
      <4>1. Names \subseteq Nat /\ start \in Names \cup {0} /\ k \in Names
        BY <2>1, ListingAssumption DEF Init, NoName
      <4> QED BY <4>1
    <3> QED BY <3>1, <2>1, <2>2 DEF Wanted, Behind
  <2> QED BY <2>1, <2>2 DEF SteadyInv, KeptInSight, ReportsSteady
<1>2. SteadyInv => ReportsSteady
  BY DEF SteadyInv
<1>3. Init => TypeOK /\ OrderInv
  BY InitTypes, EmptyPage DEF Init, OrderInv, PivotInv
<1> QED BY <1>1, <1>2, <1>3, TypeStep, OrderStep, SteadyStep, PTL DEF Spec
=============================================================================
