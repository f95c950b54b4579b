------------------------- MODULE LikePatternProofs -------------------------
(***************************************************************************)
(* The kernels of LIKE are right for every pattern and every value.  The   *)
(* work is in the range that stands for a prefix: a value that is in it    *)
(* but does not start with the prefix would differ from it in a first      *)
(* byte, and either choice of that byte puts it outside.                   *)
(***************************************************************************)
EXTENDS LikePattern, FiniteSetTheorems, TLAPS

Symbol == Byte \cup {AnyText, AnyByte}

\* A set of numbers has a least one, since the intervals below its numbers have a
\* smallest one.
LEMMA LeastExists ==
  ASSUME NEW K \in SUBSET Nat, K # {}
  PROVE  \E k \in K : \A j \in K : k <= j
<1> DEFINE T == {0..k : k \in K}
<1>1. T \subseteq FiniteSubsetsOf(Nat) /\ T # {}
  <2>1. ASSUME NEW k \in K PROVE 0..k \in FiniteSubsetsOf(Nat)
    <3>1. IsFiniteSet(0..k)
      BY FS_Interval
    <3>2. 0..k \in SUBSET Nat
      OBVIOUS
    <3> QED BY <3>1, <3>2 DEF FiniteSubsetsOf
  <2> QED BY <2>1
<1>2. \E x \in T : \A y \in T : <<y, x>> \notin StrictSubsetOrdering(Nat)
  BY <1>1, FS_StrictSubsetOrderingWellFounded, WFMin
<1>3. PICK k \in K : \A j \in K : <<0..j, 0..k>> \notin StrictSubsetOrdering(Nat)
  BY <1>2
<1>4. ASSUME NEW j \in K, j < k PROVE FALSE
  <2>1. 0..j \subseteq 0..k /\ 0..j # 0..k
    <3>1. k \in 0..k /\ k \notin 0..j
      BY <1>4
    <3> QED BY <3>1, <1>4
  <2>2. <<0..j, 0..k>> \in (SUBSET Nat) \X (SUBSET Nat)
    OBVIOUS
  <2>3. <<0..j, 0..k>> \in StrictSubsetOrdering(Nat)
    BY <2>1, <2>2, Zenon DEF StrictSubsetOrdering
  <2> QED BY <2>3, <1>3
<1> QED BY <1>4

\* Of the numbers up to n that a set has, one is the greatest.
LEMMA GreatestExists ==
  ASSUME NEW n \in Nat, NEW K \in SUBSET (1..n), K # {}
  PROVE  \E k \in K : \A j \in K : j <= k
<1> DEFINE M == {n - k : k \in K}
<1>1. M \in SUBSET Nat /\ M # {}
  <2>1. \A k \in K : n - k \in Nat
    OBVIOUS
  <2> QED BY <2>1
<1>2. PICK m \in M : \A j \in M : m <= j
  BY <1>1, LeastExists
<1>3. PICK k \in K : m = n - k
  OBVIOUS
<1>4. ASSUME NEW j \in K PROVE j <= k
  <2>1. n - k <= n - j
    BY <1>2, <1>3
  <2> QED BY <2>1
<1> QED BY <1>4

\* What is left of a prefix ends in a byte that can be counted up, and only bytes
\* that cannot have been cut off.
LEMMA TrimmedShape ==
  ASSUME NEW prefix \in Seq(Byte)
  PROVE  \/ /\ Trimmed(prefix) = << >>
            /\ \A i \in 1..Len(prefix) : prefix[i] = LastByte
         \/ \E n \in 1..Len(prefix) :
              /\ Trimmed(prefix) = SubSeq(prefix, 1, n)
              /\ prefix[n] # LastByte
              /\ \A i \in 1..Len(prefix) : i > n => prefix[i] = LastByte
<1> DEFINE kept == {i \in 1..Len(prefix) : prefix[i] # LastByte}
           n == CHOOSE n \in kept : \A i \in kept : i <= n
<1>1. CASE kept = {}
  BY <1>1 DEF Trimmed
<1>2. CASE kept # {}
  <2>1. Len(prefix) \in Nat /\ kept \in SUBSET (1..Len(prefix))
    OBVIOUS
  <2>2. \E k \in kept : \A i \in kept : i <= k
    BY <2>1, <1>2, GreatestExists
  <2>3. n \in kept /\ \A i \in kept : i <= n
    BY <2>2
  <2>4. Trimmed(prefix) = SubSeq(prefix, 1, n)
    BY <1>2 DEF Trimmed
  <2> HIDE DEF n
  <2>5. ASSUME NEW i \in 1..Len(prefix), i > n PROVE prefix[i] = LastByte
    BY <2>3, <2>5
  <2> QED BY <2>3, <2>4, <2>5
<1> QED BY <1>1, <1>2

\* The bound is the prefix up to some byte, with that byte counted up.
LEMMA UpperShape ==
  ASSUME NEW prefix \in Seq(Byte)
  PROVE  \/ /\ UpperBound(prefix) = << >>
            /\ \A i \in 1..Len(prefix) : prefix[i] = LastByte
         \/ \E n \in 1..Len(prefix) :
              LET u == UpperBound(prefix) IN
              /\ u # << >> /\ Len(u) = n /\ prefix[n] # LastByte
              /\ u[n] = prefix[n] + 1
              /\ \A j \in 1..n - 1 : u[j] = prefix[j]
              /\ \A i \in 1..Len(prefix) : i > n => prefix[i] = LastByte
<1>1. CASE Trimmed(prefix) = << >> /\ \A i \in 1..Len(prefix) : prefix[i] = LastByte
  BY <1>1 DEF UpperBound
<1>2. ASSUME NEW n \in 1..Len(prefix), Trimmed(prefix) = SubSeq(prefix, 1, n),
             prefix[n] # LastByte, \A i \in 1..Len(prefix) : i > n => prefix[i] = LastByte
      PROVE  LET u == UpperBound(prefix) IN
             /\ u # << >> /\ Len(u) = n /\ u[n] = prefix[n] + 1
             /\ \A j \in 1..n - 1 : u[j] = prefix[j]
  <2> DEFINE t == SubSeq(prefix, 1, n)
  <2>1. t \in Seq(Byte) /\ Len(t) = n /\ t # << >> /\ \A j \in 1..n : t[j] = prefix[j]
    OBVIOUS
  <2>2. UpperBound(prefix) = [t EXCEPT ![Len(t)] = @ + 1]
    BY <1>2, <2>1 DEF UpperBound
  <2> HIDE DEF t
  <2>3. UpperBound(prefix) = [t EXCEPT ![n] = t[n] + 1]
    BY <2>1, <2>2
  <2>4. t[n] + 1 \in Int /\ t \in Seq(Int)
    BY <2>1, LikeAssumption DEF Byte
  <2>5. [t EXCEPT ![n] = t[n] + 1] \in Seq(Int) /\ Len([t EXCEPT ![n] = t[n] + 1]) = n
    BY <2>1, <2>4
  <2> QED BY <2>1, <2>3, <2>4, <2>5
<1> QED BY <1>1, <1>2, TrimmedShape

\* Where a value that is not below a prefix leaves it, it goes above.
LEMMA FirstDifference ==
  ASSUME NEW s \in Seq(Byte), NEW prefix \in Seq(Byte),
         ~StartsWith(s, prefix), ~Less(s, prefix)
  PROVE  \E i \in 1..Len(prefix) :
           /\ i <= Len(s) /\ prefix[i] < s[i]
           /\ \A j \in 1..i - 1 : s[j] = prefix[j]
<1> DEFINE K == {i \in 1..Len(prefix) : i <= Len(s) /\ s[i] # prefix[i]}
<1>1. K # {}
  BY DEF StartsWith, Less
<1>2. PICK i \in K : \A j \in K : i <= j
  <2>1. K \in SUBSET Nat
    OBVIOUS
  <2> HIDE DEF K
  <2> QED BY <1>1, <2>1, LeastExists
<1>3. \A j \in 1..i - 1 : s[j] = prefix[j]
  BY <1>2
<1>4. s[i] \in Int /\ prefix[i] \in Int /\ s[i] # prefix[i]
  BY LikeAssumption DEF Byte
<1>5. ~(s[i] < prefix[i])
  BY <1>3 DEF Less
<1> QED BY <1>3, <1>4, <1>5

\* The range of the byte order that the code takes for prefix% holds exactly the
\* values that start with the prefix, for any bytes and any lengths
\* (_prefix_upper_bound).
THEOREM PrefixRangeExact ==
  ASSUME NEW prefix \in Seq(Byte), NEW s \in Seq(Byte)
  PROVE  InPrefixRange(s, prefix) <=> StartsWith(s, prefix)
<1> DEFINE u == UpperBound(prefix)
<1>0. /\ \A i \in 1..Len(s) : s[i] \in Int /\ s[i] <= LastByte
      /\ \A i \in 1..Len(prefix) : prefix[i] \in Int /\ prefix[i] <= LastByte
      /\ Len(s) \in Nat /\ Len(prefix) \in Nat /\ LastByte \in Int
  BY LikeAssumption DEF Byte
<1>1. ASSUME StartsWith(s, prefix) PROVE InPrefixRange(s, prefix)
  <2>1. ~Less(s, prefix)
    BY <1>0, <1>1 DEF Less, StartsWith
  <2>2. ASSUME u # << >> PROVE Less(s, u)
    <3>1. PICK n \in 1..Len(prefix) :
            /\ Len(u) = n /\ u[n] = prefix[n] + 1
            /\ \A j \in 1..n - 1 : u[j] = prefix[j]
      BY <2>2, UpperShape
    <3>2. n \in 1..Len(s) /\ s[n] < u[n] /\ \A j \in 1..n - 1 : s[j] = u[j]
      BY <1>0, <1>1, <3>1 DEF StartsWith
    <3> QED BY <3>1, <3>2 DEF Less
  <2> QED BY <2>1, <2>2 DEF InPrefixRange
<1>2. ASSUME InPrefixRange(s, prefix), ~StartsWith(s, prefix) PROVE FALSE
  <2>1. PICK i \in 1..Len(prefix) :
          /\ i <= Len(s) /\ prefix[i] < s[i]
          /\ \A j \in 1..i - 1 : s[j] = prefix[j]
    BY <1>2, FirstDifference DEF InPrefixRange
  <2>2. prefix[i] # LastByte
    BY <1>0, <2>1
  <2>3. PICK n \in 1..Len(prefix) :
          /\ u # << >> /\ Len(u) = n /\ u[n] = prefix[n] + 1
          /\ \A j \in 1..n - 1 : u[j] = prefix[j]
          /\ \A k \in 1..Len(prefix) : k > n => prefix[k] = LastByte
    BY <2>2, UpperShape
  <2>4. i <= n /\ u[i] <= s[i]
    BY <1>0, <2>1, <2>2, <2>3
  <2>5. \A j \in 1..i - 1 : s[j] = u[j]
    BY <2>1, <2>3, <2>4
  <2>6. Less(s, u)
    BY <1>2, <2>3 DEF InPrefixRange
  <2>7. i = n \/ u[i] < s[i]
    BY <1>0, <2>1, <2>3, <2>4
  <2> HIDE DEF u
  <2>8. ASSUME Len(s) < Len(u), \A j \in 1..Len(s) : s[j] = u[j] PROVE FALSE
    BY <1>0, <2>1, <2>3, <2>7, <2>8
  <2>9. ASSUME NEW k \in 1..Len(s), k <= Len(u), s[k] < u[k], \A j \in 1..k - 1 : s[j] = u[j]
        PROVE  FALSE
    BY <1>0, <2>1, <2>3, <2>4, <2>5, <2>7, <2>9
  <2> QED BY <2>6, <2>8, <2>9 DEF Less
<1> QED BY <1>1, <1>2

-----------------------------------------------------------------------------
\* A cut that advances by one character for each of the pattern's is at i after i.
LEMMA CutIsStraight ==
  ASSUME NEW m \in Nat, NEW cut, \A i \in 0..m : cut[i] \in Nat, cut[0] = 0,
         \A i \in 1..m : cut[i] = cut[i - 1] + 1
  PROVE  \A i \in 0..m : cut[i] = i
<1> DEFINE K == {i \in 0..m : cut[i] # i}
<1> SUFFICES ASSUME K # {} PROVE FALSE
  OBVIOUS
<1>1. PICK i \in K : \A j \in K : i <= j
  <2>1. K \in SUBSET Nat
    OBVIOUS
  <2> HIDE DEF K
  <2> QED BY <2>1, LeastExists
<1>2. i # 0 /\ i - 1 \in 0..m /\ i - 1 \notin K
  BY <1>1
<1>3. cut[i - 1] = i - 1 /\ cut[i] = cut[i - 1] + 1
  BY <1>2
<1> QED BY <1>2, <1>3

\* Without a wildcard a pattern is matched by itself only.
LEMMA ExactKernel ==
  ASSUME NEW p \in Seq(Symbol), NEW v \in Seq(Byte), Wildcards(p) = {}
  PROVE  v = p <=> Matches(p, v)
<1>1. \A i \in 1..Len(p) : p[i] \in Byte /\ p[i] # AnyText /\ p[i] # AnyByte
  BY DEF Wildcards, Symbol
<1>2. ASSUME v = p PROVE Matches(p, v)
  <2> DEFINE cut == [i \in 0..Len(p) |-> i]
  <2>1. cut \in [0..Len(p) -> 0..Len(v)] /\ cut[0] = 0 /\ cut[Len(p)] = Len(v)
    BY <1>2
  <2>2. \A i \in 1..Len(p) : cut[i] = cut[i - 1] + 1 /\ v[cut[i]] = p[i]
    BY <1>2
  <2> HIDE DEF cut
  <2> QED BY <1>1, <2>1, <2>2 DEF Matches
<1>3. ASSUME Matches(p, v) PROVE v = p
  <2>1. PICK cut \in [0..Len(p) -> 0..Len(v)] :
          /\ cut[0] = 0 /\ cut[Len(p)] = Len(v)
          /\ \A i \in 1..Len(p) : cut[i] = cut[i - 1] + 1 /\ v[cut[i]] = p[i]
    BY <1>1, <1>3 DEF Matches
  <2>2. \A i \in 0..Len(p) : cut[i] = i
    <3>1. Len(p) \in Nat /\ \A i \in 0..Len(p) : cut[i] \in Nat
      OBVIOUS
    <3> QED BY <2>1, <3>1, CutIsStraight
  <2>3. Len(v) = Len(p) /\ \A i \in 1..Len(p) : v[i] = p[i]
    BY <2>1, <2>2
  <2> QED BY <2>3
<1> QED BY <1>2, <1>3

\* With a % at its end and no other wildcard a pattern is matched by what starts with
\* the rest of it.
LEMMA PrefixMatches ==
  ASSUME NEW p \in Seq(Symbol), NEW v \in Seq(Byte), IsPrefixPattern(p)
  PROVE  StartsWith(v, SubSeq(p, 1, Len(p) - 1)) <=> Matches(p, v)
<1> DEFINE m == Len(p) - 1
           prefix == SubSeq(p, 1, m)
<1>1. m \in Nat /\ Len(p) = m + 1 /\ p[m + 1] = AnyText
  BY DEF IsPrefixPattern, Wildcards
<1>2. \A i \in 1..m : p[i] \in Byte /\ p[i] # AnyText /\ p[i] # AnyByte
  BY <1>1 DEF IsPrefixPattern, Wildcards, Symbol
<1>3. Len(prefix) = m /\ \A i \in 1..m : prefix[i] = p[i]
  BY <1>1
<1> HIDE DEF m, prefix
<1>4. ASSUME StartsWith(v, prefix) PROVE Matches(p, v)
  <2> DEFINE cut == [i \in 0..Len(p) |-> IF i = m + 1 THEN Len(v) ELSE i]
  <2>1. m <= Len(v) /\ \A i \in 1..m : v[i] = p[i]
    BY <1>3, <1>4 DEF StartsWith
  <2>2. cut \in [0..Len(p) -> 0..Len(v)] /\ cut[0] = 0 /\ cut[Len(p)] = Len(v)
    BY <1>1, <2>1
  <2>3. \A i \in 1..m : cut[i] = cut[i - 1] + 1 /\ v[cut[i]] = p[i]
    BY <1>1, <2>1
  <2>4. cut[m + 1 - 1] <= cut[m + 1]
    BY <1>1, <2>1
  <2> HIDE DEF cut
  <2>5. \A i \in 1..Len(p) :
          \/ p[i] = AnyText /\ cut[i - 1] <= cut[i]
          \/ p[i] \in Byte /\ cut[i] = cut[i - 1] + 1 /\ v[cut[i]] = p[i]
    BY <1>1, <1>2, <2>3, <2>4
  <2> QED BY <2>2, <2>5 DEF Matches
<1>5. ASSUME Matches(p, v) PROVE StartsWith(v, prefix)
  <2>1. PICK cut \in [0..Len(p) -> 0..Len(v)] :
          /\ cut[0] = 0 /\ \A i \in 1..m : cut[i] = cut[i - 1] + 1 /\ v[cut[i]] = p[i]
    <3>1. PICK cut \in [0..Len(p) -> 0..Len(v)] :
            /\ cut[0] = 0
            /\ \A i \in 1..Len(p) :
                 \/ p[i] = AnyText
                 \/ p[i] = AnyByte
                 \/ p[i] \in Byte /\ cut[i] = cut[i - 1] + 1 /\ v[cut[i]] = p[i]
      BY <1>5 DEF Matches
    <3>2. \A i \in 1..m : cut[i] = cut[i - 1] + 1 /\ v[cut[i]] = p[i]
      BY <1>1, <1>2, <3>1
    <3> QED BY <3>1, <3>2
  <2>2. \A i \in 0..m : cut[i] \in Nat
    BY <1>1, <2>1
  <2>3. \A i \in 0..m : cut[i] = i
    BY <1>1, <2>1, <2>2, CutIsStraight
  <2>4. m <= Len(v) /\ \A i \in 1..m : v[i] = p[i]
    BY <1>1, <2>1, <2>3
  <2> QED BY <1>3, <2>4 DEF StartsWith
<1> QED BY <1>4, <1>5 DEF prefix, m

\* Whichever kernel compile_mask chooses for a LIKE, it selects the values that match
\* the pattern.
THEOREM KernelRight ==
  ASSUME NEW p \in Seq(Symbol), NEW v \in Seq(Byte)
  PROVE  Kernel(p, v) <=> Matches(p, v)
<1>1. CASE Wildcards(p) = {}
  BY <1>1, ExactKernel DEF Kernel
<1>2. CASE Wildcards(p) # {} /\ IsPrefixPattern(p)
  <2> DEFINE prefix == SubSeq(p, 1, Len(p) - 1)
  <2>1. prefix \in Seq(Byte)
    BY <1>2 DEF IsPrefixPattern, Wildcards, Symbol
  <2>2. InPrefixRange(v, prefix) <=> StartsWith(v, prefix)
    BY <2>1, PrefixRangeExact
  <2>3. StartsWith(v, prefix) <=> Matches(p, v)
    BY <1>2, PrefixMatches
  <2> QED BY <1>2, <2>2, <2>3 DEF Kernel
<1>3. CASE Wildcards(p) # {} /\ ~IsPrefixPattern(p)
  BY <1>3 DEF Kernel
<1> QED BY <1>1, <1>2, <1>3

LikeTypes == pattern \in Seq(Symbol) /\ value \in Seq(Byte)

\* LIKE selects the values that match the pattern, for every pattern and value that can
\* be written.
THEOREM KernelsAlwaysMatch == LikeSpec => []KernelsMatch
<1>1. LikeInit => LikeTypes
  BY DEF LikeInit, LikeTypes
<1>2. LikeTypes /\ [LikeNext]_likeVars => LikeTypes'
  <2> SUFFICES ASSUME LikeTypes, [LikeNext]_likeVars PROVE LikeTypes'
    OBVIOUS
  <2>1. ASSUME NEW c \in Symbol, WritePattern(c) PROVE LikeTypes'
    BY <2>1 DEF LikeTypes, WritePattern
  <2>2. ASSUME NEW c \in Byte, WriteValue(c) PROVE LikeTypes'
    BY <2>2 DEF LikeTypes, WriteValue
  <2>3. CASE UNCHANGED likeVars
    BY <2>3 DEF LikeTypes, likeVars
  <2> QED BY <2>1, <2>2, <2>3 DEF LikeNext, Symbol
<1>3. LikeTypes => KernelsMatch
  BY KernelRight DEF LikeTypes, KernelsMatch
<1> QED BY <1>1, <1>2, <1>3, PTL DEF LikeSpec
=============================================================================
