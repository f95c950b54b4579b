---------------------------- MODULE SelectProofs ----------------------------
(***************************************************************************)
(* Proofs about SelectFilter and SelectRun, for any queries over any       *)
(* finite conditions and objects: that the predicates pushed to the reader *)
(* and the residual keep together the rows for which the condition is      *)
(* true, that enough columns are asked for, that the answer is streamed    *)
(* whole and in order, and that faults are told before anything is sent.   *)
(*                                                                         *)
(* What is defined by recursion over a condition (Evaluated, PartsOf,      *)
(* Conjuncts) is a function on Trees.  Its equation is proved first, by    *)
(* induction over Height; after that a property of conditions is proved of *)
(* the least nested condition that does not have it.                       *)
(***************************************************************************)
EXTENDS SelectRun, FiniteSetTheorems, FunctionTheorems, SequenceTheorems, TLAPS

\* A set of numbers has a least one, since the intervals below its numbers have a
\* smallest one.
LEMMA LeastNumber ==
  ASSUME NEW T \in SUBSET Nat, T # {}
  PROVE  \E n \in T : \A m \in T : n <= m
<1>1. PICK n \in T : \A m \in T : <<m, n>> \notin OpToRel(<, Nat)
  BY NatLessThanWellFounded, WFMin
<1>2. \A m \in T : ~(m < n)
  BY <1>1 DEF OpToRel
<1> QED  BY <1>2
-----------------------------------------------------------------------------
(* Recursion over conditions                                               *)

\* D[c][f] is what a definition by recursion says of c if what is defined is f: it
\* depends on what f is for less deeply nested conditions only.
Recursion(V, D) ==
  /\ V # {} /\ D \in [Trees -> [[Trees -> V] -> V]]
  /\ \A c \in Trees : \A f, g \in [Trees -> V] :
       (\A d \in Trees : Height[d] < Height[c] => f[d] = g[d]) => D[c][f] = D[c][g]
Solves(f, V, D) == f \in [Trees -> V] /\ \A c \in Trees : f[c] = D[c][f]

\* Such a definition has a solution.
LEMMA RecursionDefines ==
  ASSUME NEW V, NEW D, Recursion(V, D)
  PROVE  \E f : Solves(f, V, D)
<1> DEFINE F == [Trees -> V]
           Good(f, n) == \A c \in Trees : Height[c] < n => f[c] = D[c][f]
<1>1. \A c \in Trees : Height[c] \in Nat
  BY TreeAssumption
<1>2. \A f \in F, c \in Trees : D[c][f] \in V /\ f[c] \in V
  BY DEF Recursion
<1>3. \A c \in Trees : \A f, g \in F :
        (\A d \in Trees : Height[d] < Height[c] => f[d] = g[d]) => D[c][f] = D[c][g]
  BY DEF Recursion
<1>4. \E f : f \in F
  <2>1. PICK v \in V : TRUE
    BY DEF Recursion
  <2>2. [c \in Trees |-> v] \in F
    OBVIOUS
  <2> QED  BY <2>2
<1> HIDE DEF F
<1>5. \A n \in Nat : \E f \in F : Good(f, n)
  <2> DEFINE Bad == {n \in Nat : ~\E f \in F : Good(f, n)}
  <2>1. SUFFICES ASSUME Bad # {}  PROVE FALSE
    OBVIOUS
  <2>2. PICK n \in Bad : \A m \in Bad : n <= m
    BY <2>1, LeastNumber
  <2>3. n # 0
    <3>1. \A f \in F : Good(f, 0)
      BY <1>1
    <3> QED  BY <3>1, <1>4
  <2>4. n - 1 \in Nat /\ n - 1 \notin Bad /\ n \in Nat
    BY <2>2, <2>3
  <2>5. PICK f \in F : Good(f, n - 1)
    BY <2>4
  <2> DEFINE g == [c \in Trees |-> D[c][f]]
  <2>6. g \in F
    BY <1>2 DEF F
  <2>7. \A c \in Trees : g[c] = D[c][f]
    OBVIOUS
  <2> HIDE DEF g
  <2>8. ASSUME NEW c \in Trees, Height[c] < n  PROVE g[c] = D[c][g]
    <3>1. \A d \in Trees : Height[d] < Height[c] => f[d] = g[d]
      <4>1. SUFFICES ASSUME NEW d \in Trees, Height[d] < Height[c]  PROVE f[d] = g[d]
        OBVIOUS
      <4>2. Height[d] < n - 1
        BY <4>1, <2>8, <1>1, <2>4
      <4> QED  BY <4>2, <2>5, <2>7
    <3>2. D[c][f] = D[c][g]
      BY <3>1, <1>3, <2>6
    <3> QED  BY <3>2, <2>7
  <2>9. Good(g, n)
    BY <2>8
  <2> QED  BY <2>9, <2>6, <2>2
<1>6. ASSUME NEW f \in F, NEW g \in F, NEW m \in Nat, NEW n \in Nat, Good(f, m), Good(g, n)
      PROVE  \A c \in Trees : Height[c] < m /\ Height[c] < n => f[c] = g[c]
  <2> DEFINE Bad == {Height[c] : c \in {c \in Trees : Height[c] < m /\ Height[c] < n /\ f[c] # g[c]}}
  <2>1. SUFFICES ASSUME Bad # {}  PROVE FALSE
    OBVIOUS
  <2>2. Bad \in SUBSET Nat
    BY <1>1
  <2>3. PICK h \in Bad : \A k \in Bad : h <= k
    BY <2>1, <2>2, LeastNumber
  <2>4. PICK c \in Trees : Height[c] = h /\ Height[c] < m /\ Height[c] < n /\ f[c] # g[c]
    OBVIOUS
  <2>5. \A d \in Trees : Height[d] < Height[c] => f[d] = g[d]
    <3>1. SUFFICES ASSUME NEW d \in Trees, Height[d] < Height[c], f[d] # g[d]  PROVE FALSE
      OBVIOUS
    <3>2. Height[d] < m /\ Height[d] < n
      BY <3>1, <2>4, <1>1
    <3>3. Height[d] \in Bad
      BY <3>1, <3>2
    <3>4. h <= Height[d]
      BY <3>3, <2>3
    <3> QED  BY <3>1, <3>4, <2>4, <1>1
  <2>6. D[c][f] = D[c][g]
    BY <2>5, <1>3
  <2> QED  BY <2>4, <2>6, <1>6
<1> DEFINE G == [n \in Nat |-> CHOOSE f \in F : Good(f, n)]
           r == [c \in Trees |-> G[Height[c] + 1][c]]
<1>7. \A n \in Nat : G[n] \in F /\ Good(G[n], n)
  BY <1>5
<1> HIDE DEF G
<1>8. \A c \in Trees : r[c] = G[Height[c] + 1][c]
  OBVIOUS
<1>9. r \in F
  <2>1. \A c \in Trees : G[Height[c] + 1] \in F
    BY <1>1, <1>7
  <2>2. \A c \in Trees : G[Height[c] + 1][c] \in V
    BY <1>2, <2>1
  <2> QED  BY <2>2 DEF F
<1> HIDE DEF r
<1>10. ASSUME NEW c \in Trees  PROVE r[c] = D[c][r]
  <2> DEFINE n == Height[c] + 1
  <2>1. n \in Nat /\ G[n] \in F /\ Good(G[n], n)
    BY <1>1, <1>7
  <2>2. G[n][c] = D[c][G[n]]
    BY <2>1, <1>1
  <2>3. ASSUME NEW d \in Trees, Height[d] < Height[c]  PROVE r[d] = G[n][d]
    <3> DEFINE m == Height[d] + 1
    <3>1. m \in Nat /\ G[m] \in F /\ Good(G[m], m) /\ Height[d] < m /\ Height[d] < n
      BY <1>1, <1>7, <2>3
    <3> HIDE DEF m, n, Good
    <3>2. G[m][d] = G[n][d]
      BY <3>1, <2>1, <1>6
    <3> QED  BY <3>2, <1>8 DEF m
  <2>4. D[c][r] = D[c][G[n]]
    BY <2>1, <2>3, <1>3, <1>9
  <2> QED  BY <2>2, <2>4, <1>8
<1> QED  BY <1>9, <1>10 DEF F, Solves

\* What a condition is made of is less deeply nested.
LEMMA TreeShape ==
  ASSUME NEW c \in Trees
  PROVE  /\ Height[c] \in Nat
         /\ c.is \in {"and", "or"} =>
              /\ c.left \in Trees /\ Height[c.left] < Height[c]
              /\ c.right \in Trees /\ Height[c.right] < Height[c]
         /\ c.is = "not" => c.operand \in Trees /\ Height[c.operand] < Height[c]
         /\ c \in Leaves <=> c.is \notin {"and", "or", "not"}
  BY TreeAssumption DEF IsPart, Leaves

\* Some condition of every set of them is not nested deeper than another.
LEMMA SimplestCondition ==
  ASSUME NEW T \in SUBSET Trees, T # {}
  PROVE  \E c \in T : \A d \in T : ~(Height[d] < Height[c])
<1> DEFINE H == {Height[c] : c \in T}
<1>1. H \in SUBSET Nat /\ H # {}
  BY TreeShape
<1>2. PICK h \in H : \A k \in H : h <= k
  BY <1>1, LeastNumber
<1>3. PICK c \in T : h = Height[c]
  OBVIOUS
<1>4. ASSUME NEW d \in T  PROVE ~(Height[d] < Height[c])
  <2>1. Height[d] \in H
    OBVIOUS
  <2>2. h <= Height[d]
    BY <2>1, <1>2
  <2>3. Height[d] \in Nat /\ Height[c] \in Nat
    BY TreeShape
  <2> QED  BY <2>2, <2>3, <1>3
<1> QED  BY <1>4

\* The equations of PartsOf
LEMMA PartsEquation ==
  ASSUME NEW c \in Trees
  PROVE  /\ PartsOf(c) \in SUBSET Trees
         /\ PartsOf(c) = CASE c.is \in {"and", "or"} -> {c} \cup PartsOf(c.left) \cup PartsOf(c.right)
                           [] c.is = "not" -> {c} \cup PartsOf(c.operand)
                           [] OTHER -> {c}
<1>0. PICK V : V = SUBSET Trees
  OBVIOUS
<1> DEFINE Body(f, d) == CASE d.is \in {"and", "or"} -> {d} \cup f[d.left] \cup f[d.right]
                           [] d.is = "not" -> {d} \cup f[d.operand]
                           [] OTHER -> {d}
           D == [d \in Trees |-> [f \in [Trees -> V] |-> Body(f, d)]]
<1>1. \A d \in Trees, f \in [Trees -> V] : D[d][f] = Body(f, d)
  OBVIOUS
<1>2. ASSUME NEW d \in Trees, NEW f \in [Trees -> V]  PROVE Body(f, d) \in V
  BY <1>0, TreeShape
<1>3. D \in [Trees -> [[Trees -> V] -> V]]
  BY <1>2
<1>4. ASSUME NEW d \in Trees, NEW f \in [Trees -> V], NEW g \in [Trees -> V],
             \A e \in Trees : Height[e] < Height[d] => f[e] = g[e]
      PROVE  Body(f, d) = Body(g, d)
  BY <1>4, TreeShape
<1> HIDE DEF D, Body
<1>5. PICK f : Solves(f, V, D)
  <2>1. \A d \in Trees : \A p, q \in [Trees -> V] :
          (\A e \in Trees : Height[e] < Height[d] => p[e] = q[e]) => D[d][p] = D[d][q]
    BY <1>1, <1>4
  <2>2. Recursion(V, D)
    BY <1>0, <1>3, <2>1 DEF Recursion
  <2> QED  BY <2>2, RecursionDefines
<1>6. f = [d \in Trees |-> Body(f, d)]
  BY <1>1, <1>5 DEF Solves
<1> DEFINE parts == CHOOSE g : g = [d \in Trees |-> Body(g, d)]
<1>7. parts = [d \in Trees |-> Body(parts, d)]
  BY <1>6
<1>8. \A d \in Trees : PartsOf(d) = parts[d]
  BY DEF PartsOf, Body
<1> HIDE DEF parts
<1>9. \A d \in Trees : parts[d] = Body(parts, d)
  BY <1>7
<1>10. \A d \in Trees : parts[d] \in V
  <2> DEFINE T == {d \in Trees : parts[d] \notin V}
  <2>1. SUFFICES ASSUME T # {}  PROVE FALSE
    OBVIOUS
  <2>2. PICK d \in T : \A e \in T : ~(Height[e] < Height[d])
    BY <2>1, SimplestCondition
  <2>3. \A e \in Trees : Height[e] < Height[d] => parts[e] \in V
    BY <2>2
  <2>4. Body(parts, d) \in V
    BY <1>0, <2>3, TreeShape DEF Body
  <2> QED  BY <2>2, <2>4, <1>9
<1> QED  BY <1>8, <1>9, <1>10, <1>0, TreeShape DEF Body

\* The equations of Conjuncts
LEMMA ConjunctsEquation ==
  ASSUME NEW c \in Trees
  PROVE  /\ Conjuncts(c) \in SUBSET Trees
         /\ c.is = "and" => Conjuncts(c) = Conjuncts(c.left) \cup Conjuncts(c.right)
         /\ c.is # "and" => Conjuncts(c) = {c}
<1>0. PICK V : V = SUBSET Trees
  OBVIOUS
<1> DEFINE Body(f, d) == IF d.is = "and" THEN f[d.left] \cup f[d.right] ELSE {d}
           D == [d \in Trees |-> [f \in [Trees -> V] |-> Body(f, d)]]
<1>1. \A d \in Trees, f \in [Trees -> V] : D[d][f] = Body(f, d)
  OBVIOUS
<1>2. ASSUME NEW d \in Trees, NEW f \in [Trees -> V]  PROVE Body(f, d) \in V
  BY <1>0, TreeShape
<1>3. D \in [Trees -> [[Trees -> V] -> V]]
  BY <1>2
<1>4. ASSUME NEW d \in Trees, NEW f \in [Trees -> V], NEW g \in [Trees -> V],
             \A e \in Trees : Height[e] < Height[d] => f[e] = g[e]
      PROVE  Body(f, d) = Body(g, d)
  BY <1>4, TreeShape
<1> HIDE DEF D, Body
<1>5. PICK f : Solves(f, V, D)
  <2>1. \A d \in Trees : \A p, q \in [Trees -> V] :
          (\A e \in Trees : Height[e] < Height[d] => p[e] = q[e]) => D[d][p] = D[d][q]
    BY <1>1, <1>4
  <2>2. Recursion(V, D)
    BY <1>0, <1>3, <2>1 DEF Recursion
  <2> QED  BY <2>2, RecursionDefines
<1>6. f = [d \in Trees |-> Body(f, d)]
  BY <1>1, <1>5 DEF Solves
<1> DEFINE conjuncts == CHOOSE g : g = [d \in Trees |-> Body(g, d)]
<1>7. conjuncts = [d \in Trees |-> Body(conjuncts, d)]
  BY <1>6
<1>8. \A d \in Trees : Conjuncts(d) = conjuncts[d]
  BY DEF Conjuncts, Body
<1> HIDE DEF conjuncts
<1>9. \A d \in Trees : conjuncts[d] = Body(conjuncts, d)
  BY <1>7
<1>10. \A d \in Trees : conjuncts[d] \in V
  <2> DEFINE T == {d \in Trees : conjuncts[d] \notin V}
  <2>1. SUFFICES ASSUME T # {}  PROVE FALSE
    OBVIOUS
  <2>2. PICK d \in T : \A e \in T : ~(Height[e] < Height[d])
    BY <2>1, SimplestCondition
  <2>3. \A e \in Trees : Height[e] < Height[d] => conjuncts[e] \in V
    BY <2>2
  <2>4. Body(conjuncts, d) \in V
    BY <1>0, <2>3, TreeShape DEF Body
  <2> QED  BY <2>2, <2>4, <1>9
<1> QED  BY <1>8, <1>9, <1>10, <1>0, TreeShape DEF Body

\* AND is the least and OR the greatest of two truth values.
LEMMA TwoValues ==
  ASSUME NEW a \in 0..2, NEW b \in 0..2
  PROVE  /\ And(a, b) = IF a <= b THEN a ELSE b
         /\ Or(a, b) = IF a <= b THEN b ELSE a
         /\ Negation(a) \in 0..2
<1>1. PICK m : m = (IF a <= b THEN a ELSE b)
  OBVIOUS
<1>2. m \in {a, b} /\ \A y \in {a, b} : m <= y
  BY <1>1
<1>3. \A x \in {a, b} : (\A y \in {a, b} : x <= y) => x = m
  BY <1>1
<1>4. And(a, b) = m
  BY <1>2, <1>3 DEF And, Min
<1>5. PICK n : n = (IF a <= b THEN b ELSE a)
  OBVIOUS
<1>6. n \in {a, b} /\ \A y \in {a, b} : n >= y
  BY <1>5
<1>7. \A x \in {a, b} : (\A y \in {a, b} : x >= y) => x = n
  BY <1>5
<1>8. Or(a, b) = n
  BY <1>6, <1>7 DEF Or, Max
<1> QED  BY <1>1, <1>4, <1>5, <1>8 DEF Negation, Yes

\* The equations of Evaluated
LEMMA EvaluatedEquation ==
  ASSUME NEW leaf \in [Leaves -> 0..2], NEW c \in Trees
  PROVE  /\ Evaluated(c, leaf) \in 0..2
         /\ c.is = "and" =>
              Evaluated(c, leaf) = And(Evaluated(c.left, leaf), Evaluated(c.right, leaf))
         /\ c.is = "or" =>
              Evaluated(c, leaf) = Or(Evaluated(c.left, leaf), Evaluated(c.right, leaf))
         /\ c.is = "not" => Evaluated(c, leaf) = Negation(Evaluated(c.operand, leaf))
         /\ c \in Leaves => Evaluated(c, leaf) = leaf[c]
<1>0. PICK V : V = 0..2
  OBVIOUS
<1> DEFINE Body(f, d) == CASE d.is = "and" -> And(f[d.left], f[d.right])
                           [] d.is = "or"  -> Or(f[d.left], f[d.right])
                           [] d.is = "not" -> Negation(f[d.operand])
                           [] OTHER -> leaf[d]
           D == [d \in Trees |-> [f \in [Trees -> V] |-> Body(f, d)]]
<1>1. \A d \in Trees, f \in [Trees -> V] : D[d][f] = Body(f, d)
  OBVIOUS
<1>2. \A a, b \in V : And(a, b) \in V /\ Or(a, b) \in V /\ Negation(a) \in V
  BY <1>0, TwoValues
<1>3. \A d \in Trees : d \in Leaves => leaf[d] \in V
  BY <1>0
<1>4. ASSUME NEW d \in Trees, NEW f \in [Trees -> V]  PROVE Body(f, d) \in V
  BY <1>2, <1>3, TreeShape
<1>5. D \in [Trees -> [[Trees -> V] -> V]]
  BY <1>4
<1>6. ASSUME NEW d \in Trees, NEW f \in [Trees -> V], NEW g \in [Trees -> V],
             \A e \in Trees : Height[e] < Height[d] => f[e] = g[e]
      PROVE  Body(f, d) = Body(g, d)
  BY <1>6, TreeShape
<1> HIDE DEF D, Body
<1>7. PICK f : Solves(f, V, D)
  <2>1. \A d \in Trees : \A p, q \in [Trees -> V] :
          (\A e \in Trees : Height[e] < Height[d] => p[e] = q[e]) => D[d][p] = D[d][q]
    BY <1>1, <1>6
  <2>2. V # {}
    BY <1>0
  <2>3. Recursion(V, D)
    BY <1>5, <2>1, <2>2 DEF Recursion
  <2> QED  BY <2>3, RecursionDefines
<1>8. f = [d \in Trees |-> Body(f, d)]
  BY <1>1, <1>7 DEF Solves
<1> DEFINE truth == CHOOSE g : g = [d \in Trees |-> Body(g, d)]
<1>9. truth = [d \in Trees |-> Body(truth, d)]
  BY <1>8
<1>10. \A d \in Trees : Evaluated(d, leaf) = truth[d]
  BY DEF Evaluated, Body
<1> HIDE DEF truth
<1>11. \A d \in Trees : truth[d] = Body(truth, d)
  BY <1>9
<1>12. \A d \in Trees : truth[d] \in V
  <2> DEFINE T == {d \in Trees : truth[d] \notin V}
  <2>1. SUFFICES ASSUME T # {}  PROVE FALSE
    OBVIOUS
  <2>2. PICK d \in T : \A e \in T : ~(Height[e] < Height[d])
    BY <2>1, SimplestCondition
  <2>3. \A e \in Trees : Height[e] < Height[d] => truth[e] \in V
    BY <2>2
  <2>4. Body(truth, d) \in V
    BY <1>2, <1>3, <2>3, TreeShape DEF Body
  <2> QED  BY <2>2, <2>4, <1>11
<1> QED  BY <1>0, <1>10, <1>11, <1>12, TreeShape DEF Body
-----------------------------------------------------------------------------
(* Truth values and leaves                                                 *)

\* A row: it has numbers by the names of columns.
IsRow(row) == row \in [DOMAIN row -> Int]

\* The greatest of some truth values
LEMMA MaxTruth ==
  ASSUME NEW T \in SUBSET (0..2), T # {}
  PROVE  Max(T) \in T /\ \A t \in T : t <= Max(T)
<1>1. \E m \in T : \A t \in T : m >= t
  <2>1. CASE 2 \in T
    BY <2>1
  <2>2. CASE 2 \notin T /\ 1 \in T
    BY <2>2
  <2>3. CASE 2 \notin T /\ 1 \notin T
    <3>1. ASSUME NEW t \in T  PROVE t = 0
      BY <2>3
    <3>2. PICK m \in T : TRUE
      OBVIOUS
    <3>3. \A t \in T : m >= t
      BY <3>1
    <3> QED  BY <3>3
  <2> QED  BY <2>1, <2>2, <2>3
<1>2. PICK m \in T : \A t \in T : m >= t
  BY <1>1
<1>3. Max(T) \in T /\ \A t \in T : Max(T) >= t
  BY <1>2 DEF Max
<1> QED  BY <1>3

\* Whatever a column is called, an operand has a number for its value.
LEMMA ColumnIsThere ==
  ASSUME NEW N, NEW c, Exists(N, c)
  PROVE  ResolveColumn(N, c) \in Matching(N, c) /\ ResolveColumn(N, c) \in N
<1>1. Matching(N, c) # {}
  BY FS_EmptySet DEF Exists
<1>2. ResolveColumn(N, c) \in Matching(N, c)
  BY <1>1 DEF ResolveColumn
<1>3. Matching(N, c) \subseteq N
  BY DEF Matching
<1> QED  BY <1>2, <1>3

\* The value of an operand on a row
LEMMA ValueIsNumber ==
  ASSUME NEW o, IsOperand(o), NEW row, IsRow(row)
  PROVE  Value(o, row) \in Int
<1>1. CASE o.is # "column"
  BY <1>1 DEF IsOperand, IsColumn, IsLiteral, Value
<1>2. CASE o.is = "column" /\ Missing(DOMAIN row, o)
  BY <1>2 DEF Value, Null
<1>3. CASE o.is = "column" /\ ~Missing(DOMAIN row, o)
  <2>1. ResolveColumn(DOMAIN row, o) \in DOMAIN row
    BY <1>3, ColumnIsThere DEF Missing
  <2>2. row[ResolveColumn(DOMAIN row, o)] \in Int
    BY <2>1 DEF IsRow
  <2> QED  BY <1>3, <2>2 DEF Value
<1> QED  BY <1>1, <1>2, <1>3

Relations == {"=", "!=", "<", "<=", ">", ">="}

\* What a comparison of numbers gives, turned round and denied
LEMMA Comparing ==
  ASSUME NEW r \in Relations, NEW a \in Int, NEW b \in Int
  PROVE  /\ Compare(r, a, b) \in 0..2
         /\ Flipped[r] \in Relations /\ InverseOf(r) \in Relations
         /\ Compare(Flipped[r], b, a) = Compare(r, a, b)
         /\ Compare(InverseOf(r), a, b) = Negation(Compare(r, a, b))
         /\ Compare(r, a, b) = Unknown <=> a = Null \/ b = Null
<1> DEFINE Good(f, i) ==
             /\ Flipped[r] = f /\ InverseOf(r) = i /\ f \in Relations /\ i \in Relations
             /\ (Holds(f, b, a) <=> Holds(r, a, b)) /\ (Holds(i, a, b) <=> ~Holds(r, a, b))
<1>1. ASSUME r = "="  PROVE Good("=", "!=")
  BY <1>1 DEF Flipped, InverseOf, Holds, Relations
<1>2. ASSUME r = "!="  PROVE Good("!=", "=")
  BY <1>2 DEF Flipped, InverseOf, Holds, Relations
<1>3. ASSUME r = "<"  PROVE Good(">", ">=")
  BY <1>3 DEF Flipped, InverseOf, Holds, Relations
<1>4. ASSUME r = "<="  PROVE Good(">=", ">")
  BY <1>4 DEF Flipped, InverseOf, Holds, Relations
<1>5. ASSUME r = ">"  PROVE Good("<", "<=")
  BY <1>5 DEF Flipped, InverseOf, Holds, Relations
<1>6. ASSUME r = ">="  PROVE Good("<=", "<")
  BY <1>6 DEF Flipped, InverseOf, Holds, Relations
<1>7. \E f, i : Good(f, i)
  BY <1>1, <1>2, <1>3, <1>4, <1>5, <1>6 DEF Relations
<1>8. PICK f, i : Good(f, i)
  BY <1>7
<1>9. Compare(f, b, a) = Compare(r, a, b)
  <2>1. CASE Holds(r, a, b)
    BY <1>8, <2>1 DEF Compare, Truth
  <2>2. CASE ~Holds(r, a, b)
    BY <1>8, <2>2 DEF Compare, Truth
  <2> QED  BY <2>1, <2>2
<1>10. Compare(i, a, b) = Negation(Compare(r, a, b))
  <2>1. Holds(i, a, b) <=> ~Holds(r, a, b)
    BY <1>8
  <2>2. CASE Holds(r, a, b)
    BY <2>1, <2>2 DEF Compare, Truth, Negation, Yes, No, Unknown
  <2>3. CASE ~Holds(r, a, b)
    BY <2>1, <2>3 DEF Compare, Truth, Negation, Yes, No, Unknown
  <2> QED  BY <2>2, <2>3
<1>11. Compare(r, a, b) \in 0..2 /\ (Compare(r, a, b) = Unknown <=> a = Null \/ b = Null)
  BY DEF Compare, Truth, Yes, No, Unknown
<1> QED  BY <1>8, <1>9, <1>10, <1>11

\* A condition that is no AND, OR or NOT
LEMMA LeafShape ==
  ASSUME NEW d \in Leaves
  PROVE  \/ /\ d.is = "comparison" /\ d.rel \in Relations
            /\ IsOperand(d.left) /\ IsOperand(d.right)
         \/ d.is \in {"isnull", "like"} /\ IsOperand(d.operand) /\ d.negated \in BOOLEAN
         \/ /\ d.is = "in" /\ IsOperand(d.operand) /\ d.negated \in BOOLEAN
            /\ d.values # {} /\ \A v \in d.values : IsLiteral(v)
         \/ /\ d.is = "between" /\ d.negated \in BOOLEAN
            /\ IsOperand(d.operand) /\ IsOperand(d.low) /\ IsOperand(d.high)
<1>1. d \in Trees /\ d.is \notin {"and", "or", "not"}
  BY DEF Leaves
<1> QED  BY <1>1, TreeAssumption DEF Relations

\* An OR is true if something in it is, and false if all of it is.
LEMMA GreatestTruth ==
  ASSUME NEW T \in SUBSET (0..2), T # {}
  PROVE  /\ Max(T) \in 0..2
         /\ Max(T) = Yes <=> Yes \in T
         /\ Max(T) = No <=> \A t \in T : t = No
<1>1. PICK m : m = Max(T)
  OBVIOUS
<1>2. m \in T /\ (\A t \in T : t \in 0..2) /\ \A t \in T : t <= m
  BY <1>1, MaxTruth
<1>3. ASSUME Yes \in T  PROVE m = Yes
  BY <1>2, <1>3 DEF Yes
<1>4. ASSUME m = No, NEW t \in T  PROVE t = No
  BY <1>2, <1>4 DEF No
<1> QED  BY <1>1, <1>2, <1>3, <1>4

\* A literal is a number for a column of any kind, and NULL only if it was NULL.
LEMMA LiteralRead ==
  ASSUME NEW l, IsLiteral(l), NEW k
  PROVE  Coerced(l, k) \in Int /\ (Coerced(l, k) = Null <=> IsNullLiteral(l))
<1>1. l.is = "literal" /\ l.value \in Int /\ (l.kind = "null" <=> l.value = Null)
  BY DEF IsLiteral, Literal
<1>2. CASE Readable(l, k)
  <2>1. l.kind # "null"
    BY <1>2 DEF Readable
  <2>2. Parsed[k][Written[l]] \in Int \ {Null}
    BY <1>2, LiteralAssumption DEF Readable
  <2> QED  BY <1>2, <2>1, <2>2 DEF Coerced, IsNullLiteral
<1>3. CASE ~Readable(l, k)
  BY <1>1, <1>3 DEF Coerced, IsNullLiteral
<1> QED  BY <1>2, <1>3

\* A comparison of a column and a literal, for SQL
LEMMA ScalarMeaning ==
  ASSUME NEW o, o.is = "column", NEW l, IsLiteral(l), NEW r \in Relations,
         NEW row, IsRow(row), NEW kinds, DOMAIN kinds = DOMAIN row
  PROVE  /\ Related(r, o, l, row, kinds) = ScalarMask(r, o, l, row, kinds)
         /\ Related(Flipped[r], l, o, row, kinds) = ScalarMask(r, o, l, row, kinds)
         /\ ScalarMask(r, o, l, row, kinds) \in 0..2
<1> DEFINE x == Value(o, row)
           y == Coerced(l, KindOf(o, kinds))
           z == Beside(l, o, row, kinds)
<1>1. l.is = "literal" /\ l.value \in Int /\ (l.kind = "null" <=> l.value = Null)
  BY DEF IsLiteral, Literal
<1>2. x \in Int /\ y \in Int /\ (y = Null <=> IsNullLiteral(l))
  BY ValueIsNumber, LiteralRead DEF IsOperand, IsColumn
<1>3. z = IF NoSuch(o, kinds) THEN l.value ELSE y
  BY <1>1 DEF Beside, Value
<1>4. NoSuch(o, kinds) => x = Null
  BY DEF NoSuch, Value, Missing
<1>5. Beside(o, l, row, kinds) = x
  BY DEF Beside
<1>6. ~Unlike(o, l) /\ ~Unlike(l, o)
  BY DEF Unlike
<1>7. /\ Related(r, o, l, row, kinds) = Compare(r, x, z)
      /\ Related(Flipped[r], l, o, row, kinds) = Compare(Flipped[r], z, x)
  BY <1>5, <1>6 DEF Related
<1>8. z \in Int /\ (z = Null <=> IsNullLiteral(l))
  BY <1>1, <1>2, <1>3 DEF IsNullLiteral
<1>9. ScalarMask(r, o, l, row, kinds) = IF IsNullLiteral(l) THEN Unknown ELSE Compare(r, x, y)
  BY DEF ScalarMask
<1> HIDE DEF x, y, z
<1>10. Compare(Flipped[r], z, x) = Compare(r, x, z)
  BY <1>2, <1>8, Comparing
<1>11. CASE IsNullLiteral(l)
  BY <1>7, <1>8, <1>9, <1>10, <1>11 DEF Compare, Unknown
<1>12. CASE ~IsNullLiteral(l) /\ NoSuch(o, kinds)
  BY <1>4, <1>7, <1>9, <1>10, <1>12 DEF Compare, Unknown
<1>13. CASE ~IsNullLiteral(l) /\ ~NoSuch(o, kinds)
  <2>1. z = y
    BY <1>3, <1>13
  <2>2. Compare(r, x, y) \in 0..2
    BY <1>2, Comparing
  <2> QED  BY <1>7, <1>9, <1>10, <1>13, <2>1, <2>2
<1> QED  BY <1>11, <1>12, <1>13

\* A comparison of two literals
LEMMA LiteralMeaning ==
  ASSUME NEW a, IsLiteral(a), NEW b, IsLiteral(b), NEW r \in Relations, NEW row, NEW kinds
  PROVE  /\ Related(r, a, b, row, kinds) = PythonCompare(r, a, b)
         /\ PythonCompare(r, a, b) \in 0..2
<1>1. /\ a.is = "literal" /\ (IsNullLiteral(a) <=> a.value = Null)
      /\ b.is = "literal" /\ (IsNullLiteral(b) <=> b.value = Null)
  BY DEF IsLiteral, Literal, IsNullLiteral
<1>2. Beside(a, b, row, kinds) = a.value /\ Beside(b, a, row, kinds) = b.value
  BY <1>1 DEF Beside, Value
<1>3. Related(r, a, b, row, kinds) = IF Unlike(a, b) /\ a.value # Null /\ b.value # Null
                                       THEN Truth(r = "!=") ELSE Compare(r, a.value, b.value)
  BY <1>2 DEF Related
<1>4. CASE IsNullLiteral(a) \/ IsNullLiteral(b)
  BY <1>1, <1>3, <1>4 DEF PythonCompare, Compare, Unknown
<1>5. CASE ~IsNullLiteral(a) /\ ~IsNullLiteral(b) /\ Unlike(a, b)
  BY <1>1, <1>3, <1>5 DEF PythonCompare, Truth, Yes, No
<1>6. CASE ~IsNullLiteral(a) /\ ~IsNullLiteral(b) /\ ~Unlike(a, b)
  BY <1>1, <1>3, <1>6 DEF PythonCompare, Compare, Truth, Yes, No
<1> QED  BY <1>4, <1>5, <1>6

\* compile_mask compares as SQL does.
LEMMA RelatedTruth ==
  ASSUME NEW a, IsOperand(a), NEW b, IsOperand(b), NEW r \in Relations,
         NEW row, IsRow(row), NEW kinds, DOMAIN kinds = DOMAIN row
  PROVE  /\ ComparisonMask(r, a, b, row, kinds) = Related(r, a, b, row, kinds)
         /\ Related(r, a, b, row, kinds) \in 0..2
<1>1. CASE IsLiteral(a) /\ IsLiteral(b)
  <2>1. a.is = "literal" /\ b.is = "literal"
    BY <1>1 DEF IsLiteral, Literal
  <2>2. ComparisonMask(r, a, b, row, kinds) = PythonCompare(r, a, b)
    BY <2>1 DEF ComparisonMask
  <2> QED  BY <1>1, <2>2, LiteralMeaning
<1>2. CASE IsLiteral(a) /\ IsColumn(b)
  <2>1. a.is = "literal" /\ b.is = "column"
    BY <1>2 DEF IsLiteral, Literal, IsColumn
  <2>2. ComparisonMask(r, a, b, row, kinds) = ScalarMask(Flipped[r], b, a, row, kinds)
    BY <2>1 DEF ComparisonMask
  <2>3. Flipped[r] \in Relations /\ Flipped[Flipped[r]] = r
    BY DEF Flipped, Relations
  <2>4. /\ Related(Flipped[Flipped[r]], a, b, row, kinds) = ScalarMask(Flipped[r], b, a, row, kinds)
        /\ ScalarMask(Flipped[r], b, a, row, kinds) \in 0..2
    BY <1>2, <2>1, <2>3, ScalarMeaning
  <2> QED  BY <2>2, <2>3, <2>4
<1>3. CASE IsColumn(a) /\ IsLiteral(b)
  <2>1. a.is = "column" /\ b.is = "literal"
    BY <1>3 DEF IsLiteral, Literal, IsColumn
  <2>2. ComparisonMask(r, a, b, row, kinds) = ScalarMask(r, a, b, row, kinds)
    BY <2>1 DEF ComparisonMask
  <2> QED  BY <1>3, <2>1, <2>2, ScalarMeaning
<1>4. CASE IsColumn(a) /\ IsColumn(b)
  <2>1. a.is = "column" /\ b.is = "column"
    BY <1>4 DEF IsColumn
  <2>2. ComparisonMask(r, a, b, row, kinds) = Compare(r, Value(a, row), Value(b, row))
    BY <2>1 DEF ComparisonMask
  <2>3. Related(r, a, b, row, kinds) = Compare(r, Value(a, row), Value(b, row))
    BY <2>1 DEF Related, Unlike, Beside
  <2>4. Value(a, row) \in Int /\ Value(b, row) \in Int
    BY ValueIsNumber
  <2> QED  BY <2>2, <2>3, <2>4, Comparing
<1> QED  BY <1>1, <1>2, <1>3, <1>4 DEF IsOperand

\* On a comparison, both give the same.
LEMMA ComparisonTruth ==
  ASSUME NEW d \in Leaves, d.is = "comparison", NEW row, IsRow(row),
         NEW kinds, DOMAIN kinds = DOMAIN row
  PROVE  LeafMeaning(d, row, kinds) \in 0..2 /\ LeafMask(d, row, kinds) = LeafMeaning(d, row, kinds)
<1>1. d.rel \in Relations /\ IsOperand(d.left) /\ IsOperand(d.right)
  BY LeafShape
<1>2. LeafMeaning(d, row, kinds) = Related(d.rel, d.left, d.right, row, kinds)
  BY DEF LeafMeaning
<1>3. LeafMask(d, row, kinds) = ComparisonMask(d.rel, d.left, d.right, row, kinds)
  BY DEF LeafMask
<1> QED  BY <1>1, <1>2, <1>3, RelatedTruth

\* On a list
LEMMA MembershipTruth ==
  ASSUME NEW d \in Leaves, d.is = "in", NEW row, IsRow(row),
         NEW kinds, DOMAIN kinds = DOMAIN row
  PROVE  LeafMeaning(d, row, kinds) \in 0..2 /\ LeafMask(d, row, kinds) = LeafMeaning(d, row, kinds)
<1>1. /\ IsOperand(d.operand) /\ d.negated \in BOOLEAN
      /\ d.values # {} /\ \A v \in d.values : IsLiteral(v) /\ IsOperand(v)
  BY LeafShape DEF IsOperand
<1> DEFINE truth(v) == Related("=", d.operand, v, row, kinds)
           T == {truth(v) : v \in d.values}
<1>2. \A v \in d.values : truth(v) \in 0..2
  BY <1>1, RelatedTruth DEF Relations
<1>3. T \in SUBSET (0..2) /\ T # {}
  BY <1>1, <1>2
<1>4. LeafMeaning(d, row, kinds) = NegatedIf(d.negated, Max(T))
  BY DEF LeafMeaning
<1>5. LeafMask(d, row, kinds) = Membership(d, row, kinds)
  BY DEF LeafMask
<1> HIDE DEF truth
<1>6. (Yes \in T <=> \E v \in d.values : truth(v) = Yes)
        /\ ((\A t \in T : t = No) <=> \A v \in d.values : truth(v) = No)
  OBVIOUS
<1>7. CASE d.operand.is = "column"
  <2>1. \A v \in d.values : truth(v) = ScalarMask("=", d.operand, v, row, kinds)
    BY <1>1, <1>7, ScalarMeaning DEF truth, Relations
  <2>2. T = {ScalarMask("=", d.operand, v, row, kinds) : v \in d.values}
    BY <2>1
  <2>3. Membership(d, row, kinds) = NegatedIf(d.negated, Max(T))
    BY <1>7, <2>2 DEF Membership
  <2>4. Max(T) \in 0..2
    BY <1>3, GreatestTruth
  <2> HIDE DEF T
  <2>5. NegatedIf(d.negated, Max(T)) \in 0..2
    BY <1>1, <2>4 DEF NegatedIf, Negation, Yes
  <2> QED  BY <1>4, <1>5, <2>3, <2>5
<1>8. CASE d.operand.is # "column"
  <2>1. IsLiteral(d.operand)
    BY <1>1, <1>8 DEF IsOperand, IsColumn
  <2> DEFINE found(v) == ~IsNullLiteral(v) /\ ~Unlike(d.operand, v) /\ v.value = d.operand.value
  <2>2. \A v \in d.values : truth(v) = PythonCompare("=", d.operand, v)
    BY <1>1, <2>1, LiteralMeaning DEF truth, Relations
  <2>3. \A v \in d.values :
          PythonCompare("=", d.operand, v) =
            IF IsNullLiteral(d.operand) \/ IsNullLiteral(v) THEN Unknown
            ELSE IF found(v) THEN Yes ELSE No
    BY DEF PythonCompare, Truth, Holds
  <2>4. \A v \in d.values : found(v) => ~IsNullLiteral(v)
    OBVIOUS
  <2>5. Membership(d, row, kinds) =
          IF IsNullLiteral(d.operand) THEN Unknown
          ELSE IF \E v \in d.values : found(v) THEN Truth(~d.negated)
          ELSE IF \E v \in d.values : IsNullLiteral(v) THEN Unknown
          ELSE Truth(d.negated)
    BY <1>8 DEF Membership
  <2> HIDE DEF found, T
  <2>6. PICK m : m = Max(T)
    OBVIOUS
  <2>7. m \in 0..2 /\ (m = Yes <=> Yes \in T) /\ (m = No <=> \A t \in T : t = No)
    BY <1>3, <2>6, GreatestTruth
  <2>8. m = Yes <=> ~IsNullLiteral(d.operand) /\ \E v \in d.values : found(v)
    BY <1>6, <2>2, <2>3, <2>4, <2>7 DEF Yes, No, Unknown
  <2>9. m = No <=> ~IsNullLiteral(d.operand) /\ \A v \in d.values : ~found(v) /\ ~IsNullLiteral(v)
    BY <1>1, <1>6, <2>2, <2>3, <2>4, <2>7 DEF Yes, No, Unknown
  <2>10. Membership(d, row, kinds) = NegatedIf(d.negated, m)
    <3>1. CASE m = Yes
      <4>1. Membership(d, row, kinds) = Truth(~d.negated)
        BY <2>5, <2>8, <3>1
      <4>2. Truth(~d.negated) = NegatedIf(d.negated, Yes)
        BY <1>1 DEF NegatedIf, Negation, Truth, Yes, No
      <4> QED  BY <3>1, <4>1, <4>2
    <3>2. CASE m = No
      <4>1. Membership(d, row, kinds) = Truth(d.negated)
        BY <2>5, <2>9, <3>2
      <4>2. Truth(d.negated) = NegatedIf(d.negated, No)
        BY <1>1 DEF NegatedIf, Negation, Truth, Yes, No
      <4> QED  BY <3>2, <4>1, <4>2
    <3>3. CASE m = Unknown
      <4>1. IsNullLiteral(d.operand) \/ ((\A v \in d.values : ~found(v))
                                         /\ \E v \in d.values : IsNullLiteral(v))
        BY <2>8, <2>9, <3>3 DEF Yes, No, Unknown
      <4>2. Membership(d, row, kinds) = Unknown
        BY <2>5, <4>1
      <4> QED  BY <3>3, <4>2 DEF NegatedIf, Negation, Yes, Unknown
    <3> QED  BY <2>7, <3>1, <3>2, <3>3 DEF Yes, No, Unknown
  <2>11. NegatedIf(d.negated, m) \in 0..2
    BY <1>1, <2>7 DEF NegatedIf, Negation, Yes
  <2> QED  BY <1>4, <1>5, <2>6, <2>10, <2>11
<1> QED  BY <1>7, <1>8

\* A truth value that is denied
LEMMA Negated ==
  ASSUME NEW neg \in BOOLEAN, NEW a \in 0..2
  PROVE  NegatedIf(neg, a) \in 0..2
BY DEF NegatedIf, Negation, Yes

\* On a BETWEEN, unless it is given up: then it is unknown, and not true to SQL either.
LEMMA BetweenTruth ==
  ASSUME NEW d \in Leaves, d.is = "between", NEW row, IsRow(row),
         NEW kinds, DOMAIN kinds = DOMAIN row
  PROVE  /\ LeafMeaning(d, row, kinds) \in 0..2
         /\ ~NullBound(d) => LeafMask(d, row, kinds) = LeafMeaning(d, row, kinds)
         /\ NullBound(d) => /\ LeafMask(d, row, kinds) = Unknown
                            /\ ~d.negated => LeafMeaning(d, row, kinds) # Yes
<1>1. IsOperand(d.operand) /\ IsOperand(d.low) /\ IsOperand(d.high) /\ d.negated \in BOOLEAN
  BY LeafShape
<1> DEFINE a == Related(">=", d.operand, d.low, row, kinds)
           b == Related("<=", d.operand, d.high, row, kinds)
<1>2. a \in 0..2 /\ ComparisonMask(">=", d.operand, d.low, row, kinds) = a
  BY <1>1, RelatedTruth DEF Relations
<1>3. b \in 0..2 /\ ComparisonMask("<=", d.operand, d.high, row, kinds) = b
  BY <1>1, RelatedTruth DEF Relations
<1>4. LeafMeaning(d, row, kinds) = NegatedIf(d.negated, And(a, b))
  BY DEF LeafMeaning
<1>5. LeafMask(d, row, kinds) = IF NullBound(d) THEN Unknown ELSE NegatedIf(d.negated, And(a, b))
  BY <1>2, <1>3 DEF LeafMask, InBounds
<1>6. NullBound(d) => a = Unknown \/ b = Unknown
  <2>1. SUFFICES ASSUME NullBound(d)  PROVE a = Unknown \/ b = Unknown
    OBVIOUS
  <2>2. /\ d.operand.is = "column" /\ d.low.is = "literal" /\ d.high.is = "literal"
        /\ IsNullLiteral(d.low) \/ IsNullLiteral(d.high)
    BY <2>1 DEF NullBound, LiteralBounds
  <2>3. IsLiteral(d.low) /\ IsLiteral(d.high)
    BY <1>1, <2>2 DEF IsOperand, IsColumn
  <2>4. a = ScalarMask(">=", d.operand, d.low, row, kinds)
    BY <2>2, <2>3, ScalarMeaning DEF Relations
  <2>5. b = ScalarMask("<=", d.operand, d.high, row, kinds)
    BY <2>2, <2>3, ScalarMeaning DEF Relations
  <2> QED  BY <2>2, <2>4, <2>5 DEF ScalarMask
<1> HIDE DEF a, b
<1>7. And(a, b) \in 0..2 /\ (And(a, b) = IF a <= b THEN a ELSE b)
  BY <1>2, <1>3, TwoValues
<1>8. NegatedIf(d.negated, And(a, b)) \in 0..2
  BY <1>1, <1>7, Negated
<1>9. ASSUME NullBound(d)  PROVE And(a, b) # Yes
  BY <1>2, <1>3, <1>6, <1>7, <1>9 DEF Yes, Unknown
<1> QED  BY <1>4, <1>5, <1>8, <1>9 DEF NegatedIf

\* compile_mask and SQL agree on a leaf, but for a denied BETWEEN with NULL for a bound; one
\* that is not denied is true to neither.
LEMMA LeafTruth ==
  ASSUME NEW d \in Leaves, NEW row, IsRow(row), NEW kinds, DOMAIN kinds = DOMAIN row
  PROVE  /\ LeafMeaning(d, row, kinds) \in 0..2 /\ LeafMask(d, row, kinds) \in 0..2
         /\ ~NullBound(d) => LeafMask(d, row, kinds) = LeafMeaning(d, row, kinds)
         /\ NullBound(d) /\ ~d.negated => LeafMask(d, row, kinds) # Yes /\ LeafMeaning(d, row, kinds) # Yes
<1>1. CASE d.is = "comparison"
  BY <1>1, ComparisonTruth DEF NullBound
<1>2. CASE d.is = "in"
  BY <1>2, MembershipTruth DEF NullBound
<1>3. CASE d.is = "between"
  BY <1>3, BetweenTruth DEF Yes, Unknown
<1>4. CASE d.is = "isnull"
  <2>1. d.negated \in BOOLEAN
    BY <1>4, LeafShape
  <2>2. LeafMeaning(d, row, kinds) = NegatedIf(d.negated, Truth(Value(d.operand, row) = Null))
    BY <1>4 DEF LeafMeaning
  <2>3. LeafMask(d, row, kinds) = Truth((Value(d.operand, row) = Null) # d.negated)
    BY <1>4 DEF LeafMask
  <2>4. ((Value(d.operand, row) = Null) # d.negated)
          <=> IF d.negated THEN Value(d.operand, row) # Null ELSE Value(d.operand, row) = Null
    BY <2>1, Zenon
  <2>5. LeafMask(d, row, kinds) = IF d.negated
                             THEN IF Value(d.operand, row) = Null THEN No ELSE Yes
                             ELSE IF Value(d.operand, row) = Null THEN Yes ELSE No
    BY <2>3, <2>4 DEF Truth
  <2> QED
    BY <1>4, <2>1, <2>2, <2>5 DEF NullBound, NegatedIf, Negation, Truth, Yes, No
<1>5. CASE d.is = "like"
  <2>1. d.negated \in BOOLEAN
    BY <1>5, LeafShape
  <2> DEFINE m == IF Value(d.operand, row) = Null THEN Unknown
                  ELSE Truth(Subject(d.operand, row) \in d.pattern)
  <2>2. m \in 0..2
    BY DEF Truth, Yes, No, Unknown
  <2>3. LeafMeaning(d, row, kinds) = NegatedIf(d.negated, m) /\ LeafMask(d, row, kinds) = NegatedIf(d.negated, m)
    BY <1>5 DEF LeafMeaning, LeafMask
  <2> HIDE DEF m
  <2> QED  BY <1>5, <2>1, <2>2, <2>3, Negated DEF NullBound
<1> QED  BY <1>1, <1>2, <1>3, <1>4, <1>5, LeafShape
-----------------------------------------------------------------------------
(* The mask and the meaning of a condition                                 *)

\* NULL as a bound is all the same to compile_mask and to SQL, as long as it is not denied.
Harmless(c) ==
  \A d \in PartsOf(c) : /\ NullBound(d) => ~d.negated
                        /\ d.is = "not" => \A e \in PartsOf(d.operand) : ~NullBound(e)

\* The truth of a condition by that of what it is made of, for either
LEMMA ConditionTruth ==
  ASSUME NEW c \in Trees, NEW row, IsRow(row), NEW kinds, DOMAIN kinds = DOMAIN row
  PROVE  /\ Meaning(c, row, kinds) \in 0..2 /\ Mask(c, row, kinds) \in 0..2
         /\ c.is = "and" => /\ Meaning(c, row, kinds) = And(Meaning(c.left, row, kinds), Meaning(c.right, row, kinds))
                            /\ Mask(c, row, kinds) = And(Mask(c.left, row, kinds), Mask(c.right, row, kinds))
         /\ c.is = "or" => /\ Meaning(c, row, kinds) = Or(Meaning(c.left, row, kinds), Meaning(c.right, row, kinds))
                           /\ Mask(c, row, kinds) = Or(Mask(c.left, row, kinds), Mask(c.right, row, kinds))
         /\ c.is = "not" => /\ Meaning(c, row, kinds) = Negation(Meaning(c.operand, row, kinds))
                            /\ Mask(c, row, kinds) = Negation(Mask(c.operand, row, kinds))
         /\ c \in Leaves => /\ Meaning(c, row, kinds) = LeafMeaning(c, row, kinds)
                            /\ Mask(c, row, kinds) = LeafMask(c, row, kinds)
<1> DEFINE meanings == [d \in Leaves |-> LeafMeaning(d, row, kinds)]
           masks == [d \in Leaves |-> LeafMask(d, row, kinds)]
<1>1. meanings \in [Leaves -> 0..2] /\ masks \in [Leaves -> 0..2]
  BY LeafTruth
<1>2. \A d \in Leaves : meanings[d] = LeafMeaning(d, row, kinds) /\ masks[d] = LeafMask(d, row, kinds)
  OBVIOUS
<1>3. \A d : Meaning(d, row, kinds) = Evaluated(d, meanings) /\ Mask(d, row, kinds) = Evaluated(d, masks)
  BY DEF Meaning, Mask
<1> HIDE DEF meanings, masks
<1> QED  BY <1>1, <1>2, <1>3, EvaluatedEquation

\* Without NULL for a bound, compile_mask and SQL agree on the whole condition.
LEMMA SameTruth ==
  ASSUME NEW row, IsRow(row), NEW kinds, DOMAIN kinds = DOMAIN row
  PROVE  \A c \in Trees : (\A d \in PartsOf(c) : ~NullBound(d)) => Mask(c, row, kinds) = Meaning(c, row, kinds)
<1> DEFINE Plain(c) == \A d \in PartsOf(c) : ~NullBound(d)
           T == {c \in Trees : Plain(c) /\ Mask(c, row, kinds) # Meaning(c, row, kinds)}
<1>1. SUFFICES ASSUME T # {}  PROVE FALSE
  OBVIOUS
<1>2. PICK c \in T : \A d \in T : ~(Height[d] < Height[c])
  BY <1>1, SimplestCondition
<1>3. \A d \in Trees : Plain(d) /\ Height[d] < Height[c] => Mask(d, row, kinds) = Meaning(d, row, kinds)
  BY <1>2
<1>4. c \in Trees /\ Plain(c) /\ Mask(c, row, kinds) # Meaning(c, row, kinds)
  OBVIOUS
<1>5. CASE c.is \in {"and", "or"}
  <2>1. Plain(c.left) /\ Plain(c.right)
    BY <1>4, <1>5, PartsEquation
  <2>2. Mask(c.left, row, kinds) = Meaning(c.left, row, kinds) /\ Mask(c.right, row, kinds) = Meaning(c.right, row, kinds)
    BY <1>3, <1>4, <1>5, <2>1, TreeShape
  <2> QED  BY <1>4, <1>5, <2>2, ConditionTruth
<1>6. CASE c.is = "not"
  <2>1. Plain(c.operand)
    BY <1>4, <1>6, PartsEquation
  <2>2. Mask(c.operand, row, kinds) = Meaning(c.operand, row, kinds)
    BY <1>3, <1>4, <1>6, <2>1, TreeShape
  <2> QED  BY <1>4, <1>6, <2>2, ConditionTruth
<1>7. CASE c \in Leaves
  <2>1. ~NullBound(c)
    BY <1>4, <1>7, PartsEquation DEF Leaves
  <2> QED  BY <1>4, <1>7, <2>1, ConditionTruth, LeafTruth
<1> QED  BY <1>4, <1>5, <1>6, <1>7, TreeShape

\* compile_mask keeps the rows that SQL keeps.
LEMMA MaskKeepsTrueRows ==
  ASSUME NEW row, IsRow(row), NEW kinds, DOMAIN kinds = DOMAIN row
  PROVE  \A c \in Trees : Harmless(c) => (Mask(c, row, kinds) = Yes <=> Meaning(c, row, kinds) = Yes)
<1> DEFINE T == {c \in Trees : Harmless(c) /\ ~(Mask(c, row, kinds) = Yes <=> Meaning(c, row, kinds) = Yes)}
<1>1. SUFFICES ASSUME T # {}  PROVE FALSE
  OBVIOUS
<1>2. PICK c \in T : \A d \in T : ~(Height[d] < Height[c])
  BY <1>1, SimplestCondition
<1>3. \A d \in Trees : Harmless(d) /\ Height[d] < Height[c]
                         => (Mask(d, row, kinds) = Yes <=> Meaning(d, row, kinds) = Yes)
  BY <1>2
<1>4. c \in Trees /\ Harmless(c) /\ ~(Mask(c, row, kinds) = Yes <=> Meaning(c, row, kinds) = Yes)
  OBVIOUS
<1>5. CASE c.is \in {"and", "or"}
  <2>1. c.left \in Trees /\ c.right \in Trees
    BY <1>4, <1>5, TreeShape
  <2>2. Harmless(c.left) /\ Harmless(c.right)
    BY <1>4, <1>5, PartsEquation DEF Harmless
  <2>3. /\ Mask(c.left, row, kinds) = Yes <=> Meaning(c.left, row, kinds) = Yes
        /\ Mask(c.right, row, kinds) = Yes <=> Meaning(c.right, row, kinds) = Yes
    BY <1>3, <1>4, <1>5, <2>2, TreeShape
  <2>4. \A a, b \in 0..2 : /\ And(a, b) = Yes <=> a = Yes /\ b = Yes
                           /\ Or(a, b) = Yes <=> a = Yes \/ b = Yes
    BY TwoValues DEF Yes
  <2>5. /\ Mask(c.left, row, kinds) \in 0..2 /\ Meaning(c.left, row, kinds) \in 0..2
        /\ Mask(c.right, row, kinds) \in 0..2 /\ Meaning(c.right, row, kinds) \in 0..2
    BY <2>1, ConditionTruth
  <2> QED  BY <1>4, <1>5, <2>3, <2>4, <2>5, ConditionTruth
<1>6. CASE c.is = "not"
  <2>1. c.operand \in Trees /\ \A d \in PartsOf(c.operand) : ~NullBound(d)
    BY <1>4, <1>6, TreeShape, PartsEquation DEF Harmless
  <2>2. Mask(c.operand, row, kinds) = Meaning(c.operand, row, kinds)
    BY <2>1, SameTruth
  <2> QED  BY <1>4, <1>6, <2>2, ConditionTruth
<1>7. CASE c \in Leaves
  <2>1. NullBound(c) => ~c.negated
    BY <1>4, <1>7, PartsEquation DEF Leaves, Harmless
  <2> QED  BY <1>4, <1>7, <2>1, ConditionTruth, LeafTruth
<1> QED  BY <1>4, <1>5, <1>6, <1>7, TreeShape

\* A condition is true if all its conjuncts are.
LEMMA ConjunctsTruth ==
  ASSUME NEW row, IsRow(row), NEW kinds, DOMAIN kinds = DOMAIN row
  PROVE  \A c \in Trees : Meaning(c, row, kinds) = Yes <=> \A p \in Conjuncts(c) : Meaning(p, row, kinds) = Yes
<1> DEFINE True(c) == \A p \in Conjuncts(c) : Meaning(p, row, kinds) = Yes
           T == {c \in Trees : ~(Meaning(c, row, kinds) = Yes <=> True(c))}
<1>1. SUFFICES ASSUME T # {}  PROVE FALSE
  OBVIOUS
<1>2. PICK c \in T : \A d \in T : ~(Height[d] < Height[c])
  BY <1>1, SimplestCondition
<1>3. \A d \in Trees : Height[d] < Height[c] => (Meaning(d, row, kinds) = Yes <=> True(d))
  BY <1>2
<1>4. c \in Trees /\ ~(Meaning(c, row, kinds) = Yes <=> True(c))
  OBVIOUS
<1>5. CASE c.is = "and"
  <2>1. c.left \in Trees /\ c.right \in Trees
    BY <1>4, <1>5, TreeShape
  <2>2. (Meaning(c.left, row, kinds) = Yes <=> True(c.left)) /\ (Meaning(c.right, row, kinds) = Yes <=> True(c.right))
    BY <1>3, <1>4, <1>5, TreeShape
  <2>3. True(c) <=> True(c.left) /\ True(c.right)
    BY <1>4, <1>5, ConjunctsEquation
  <2>4. Meaning(c, row, kinds) = And(Meaning(c.left, row, kinds), Meaning(c.right, row, kinds))
    BY <1>4, <1>5, ConditionTruth
  <2>5. Meaning(c.left, row, kinds) \in 0..2 /\ Meaning(c.right, row, kinds) \in 0..2
    BY <2>1, ConditionTruth
  <2>6. \A a, b \in 0..2 : And(a, b) = Yes <=> a = Yes /\ b = Yes
    BY TwoValues DEF Yes
  <2> HIDE DEF True
  <2> QED  BY <1>4, <2>2, <2>3, <2>4, <2>5, <2>6
<1>6. CASE c.is # "and"
  BY <1>4, <1>6, ConjunctsEquation
<1> QED  BY <1>5, <1>6

\* They are parts of it.
LEMMA ConjunctsAreParts ==
  \A c \in Trees : \A p \in Conjuncts(c) : p \in Trees /\ PartsOf(p) \subseteq PartsOf(c)
<1> DEFINE Good(c) == \A p \in Conjuncts(c) : p \in Trees /\ PartsOf(p) \subseteq PartsOf(c)
           T == {c \in Trees : ~Good(c)}
<1>1. SUFFICES ASSUME T # {}  PROVE FALSE
  OBVIOUS
<1>2. PICK c \in T : \A d \in T : ~(Height[d] < Height[c])
  BY <1>1, SimplestCondition
<1>3. \A d \in Trees : Height[d] < Height[c] => Good(d)
  BY <1>2
<1>4. c \in Trees /\ ~Good(c)
  OBVIOUS
<1>5. CASE c.is = "and"
  <2>1. Good(c.left) /\ Good(c.right)
    BY <1>3, <1>4, <1>5, TreeShape
  <2>2. PartsOf(c.left) \subseteq PartsOf(c) /\ PartsOf(c.right) \subseteq PartsOf(c)
    BY <1>4, <1>5, PartsEquation
  <2>3. Conjuncts(c) = Conjuncts(c.left) \cup Conjuncts(c.right)
    BY <1>4, <1>5, ConjunctsEquation
  <2> QED  BY <1>4, <2>1, <2>2, <2>3
<1>6. CASE c.is # "and"
  BY <1>4, <1>6, ConjunctsEquation
<1> QED  BY <1>5, <1>6
-----------------------------------------------------------------------------
(* What the reader applies                                                 *)

IsPredicate(p, N) ==
  \E n \in N : \E rel, values, kind :
    p = [column |-> n, rel |-> rel, values |-> values, kind |-> kind]

\* P are predicates for the columns of a row, and true of it if m is.
Pushes(P, row, m) ==
  /\ \A p \in P : IsPredicate(p, DOMAIN row)
  /\ m = Yes <=> \A p \in P : Applies(p, row)

\* A literal is only coerced to the kind of a column that is there.
LEMMA TargetExists ==
  ASSUME NEW o, NEW literals, NEW kinds, NEW format,
         Target(o, literals, kinds, format) \notin {"none", "missing"}
  PROVE  o.is = "column" /\ ~Missing(DOMAIN kinds, o)
BY DEF Target, NoSuch

\* The reader takes a predicate for a column of these kinds.
Fits(p, kinds) == \/ p.kind \in {"none", kinds[p.column]}
                  \/ {p.kind, kinds[p.column]} \subseteq Numbers

\* A predicate is about the column that the operand stands for.
LEMMA PredicateColumn ==
  ASSUME NEW o, o.is = "column", NEW row, NEW kinds, DOMAIN kinds = DOMAIN row,
         ~Missing(DOMAIN row, o), NEW rel, NEW values, NEW kind, kind # "missing"
  PROVE  LET p == Predicate(o, rel, values, kind, kinds) IN
         /\ IsPredicate(p, DOMAIN row) /\ p.rel = rel /\ p.values = values /\ p.kind = kind
         /\ row[p.column] = Value(o, row) /\ kinds[p.column] = KindOf(o, kinds)
<1>1. ResolveColumn(DOMAIN row, o) \in DOMAIN row
  BY ColumnIsThere DEF Missing
<1>2. Value(o, row) = row[ResolveColumn(DOMAIN row, o)]
  BY DEF Value
<1>3. Predicate(o, rel, values, kind, kinds) =
        [column |-> ResolveColumn(DOMAIN row, o), rel |-> rel, values |-> values, kind |-> kind]
  BY DEF Predicate
<1>4. PICK n \in DOMAIN row : n = ResolveColumn(DOMAIN row, o)
  BY <1>1
<1>5. PICK p : p = [column |-> n, rel |-> rel, values |-> values, kind |-> kind]
  OBVIOUS
<1>6. IsPredicate(p, DOMAIN row)
  BY <1>5 DEF IsPredicate
<1>7. KindOf(o, kinds) = kinds[n]
  BY <1>4 DEF KindOf
<1>8. /\ p.rel = rel /\ p.values = values /\ p.kind = kind
      /\ row[p.column] = Value(o, row) /\ kinds[p.column] = KindOf(o, kinds)
  BY <1>2, <1>4, <1>5, <1>7
<1> QED  BY <1>3, <1>4, <1>5, <1>6, <1>8

\* A literal that is coerced for the reader is what it is for the column, if the reader
\* takes the predicate.
LEMMA TargetReads ==
  ASSUME NEW o, NEW L, NEW kinds, NEW format, Typed(format) \/ IsFiniteSet(L),
         NEW k, k = Target(o, L, kinds, format), k \notin {"none", "missing"},
         k = KindOf(o, kinds) \/ {k, KindOf(o, kinds)} \subseteq Numbers,
         NEW l \in L, ~IsNullLiteral(l), l.is = "literal"
  PROVE  Coerced(l, k) = Coerced(l, KindOf(o, kinds))
<1> DEFINE given == {m.kind : m \in L}
<1>1. CASE k = KindOf(o, kinds)
  BY <1>1
<1>2. CASE k # KindOf(o, kinds)
  <2>1. {k, KindOf(o, kinds)} \subseteq Numbers
    BY <1>2
  <2>2. ~Typed(format) /\ Cardinality(given) = 1 /\ k = CHOOSE g \in given : TRUE
    BY <1>2 DEF Target
  <2>3. IsFiniteSet(given)
    <3> DEFINE f == [m \in L |-> m.kind]
    <3>1. f \in Surjection(L, given)
      BY DEF Surjection
    <3> QED  BY <2>2, <3>1, FS_Surjection
  <2>4. PICK g : given = {g}
    BY <2>2, <2>3, FS_Singleton
  <2>5. l.kind = k
    BY <2>2, <2>4
  <2>6. ~Readable(l, k) /\ ~Readable(l, KindOf(o, kinds))
    BY <2>1, <2>5 DEF Readable, Numbers
  <2> QED  BY <2>6 DEF Coerced
<1> QED  BY <1>1, <1>2

\* The comparison of a column and a literal that is pushed, for SQL
LEMMA PushedScalar ==
  ASSUME NEW o, o.is = "column", NEW L, NEW l \in L, IsLiteral(l), ~IsNullLiteral(l),
         NEW r \in Relations, NEW row, IsRow(row), NEW kinds, DOMAIN kinds = DOMAIN row,
         NEW format, Typed(format) \/ IsFiniteSet(L),
         NEW k, k = Target(o, L, kinds, format), k \notin {"none", "missing"},
         k = KindOf(o, kinds) \/ {k, KindOf(o, kinds)} \subseteq Numbers
  PROVE  /\ Coerced(l, k) \in Int /\ Coerced(l, k) # Null
         /\ Related(r, o, l, row, kinds) = Compare(r, Value(o, row), Coerced(l, k))
         /\ Related(Flipped[r], l, o, row, kinds) = Compare(r, Value(o, row), Coerced(l, k))
<1>1. Coerced(l, k) \in Int /\ Coerced(l, k) # Null
  BY LiteralRead
<1>2. Coerced(l, k) = Coerced(l, KindOf(o, kinds))
  <2>1. l.is = "literal"
    BY DEF IsLiteral, Literal
  <2> QED  BY <2>1, TargetReads
<1>3. ScalarMask(r, o, l, row, kinds) = Compare(r, Value(o, row), Coerced(l, k))
  BY <1>2 DEF ScalarMask
<1> QED  BY <1>1, <1>3, ScalarMeaning

\* A comparison with one literal
LEMMA OneLiteral ==
  ASSUME NEW p, NEW row, NEW l, p.values = {l}, p.rel \in Relations
  PROVE  Applies(p, row) <=> Compare(p.rel, row[p.column], Coerced(l, p.kind)) = Yes
<1>1. {Coerced(m, p.kind) : m \in p.values} = {Coerced(l, p.kind)}
  OBVIOUS
<1>2. p.rel \notin {"is null", "is not null", "in", "not in"}
  BY DEF Relations
<1> QED  BY <1>1, <1>2 DEF Applies

\* A comparison, denied or not, is true of the rows its predicate keeps.
LEMMA PushedComparison ==
  ASSUME NEW c \in Leaves, c.is = "comparison", NEW neg \in BOOLEAN, NEW row, IsRow(row),
         NEW kinds, DOMAIN kinds = DOMAIN row, NEW format,
         PushComparison(c, neg, kinds, format) # {},
         \A p \in PushComparison(c, neg, kinds, format) : p.kind # "missing" /\ Fits(p, kinds)
  PROVE  Pushes(PushComparison(c, neg, kinds, format), row,
                NegatedIf(neg, LeafMeaning(c, row, kinds)))
<1>1. c.rel \in Relations /\ IsOperand(c.left) /\ IsOperand(c.right)
  BY LeafShape
<1> DEFINE turned == c.left.is = "literal" /\ c.right.is = "column"
           column == IF turned THEN c.right ELSE c.left
           literal == IF turned THEN c.left ELSE c.right
           rel == IF turned THEN Flipped[c.rel] ELSE c.rel
           k == Target(column, {literal}, kinds, format)
           p == Predicate(column, IF neg THEN InverseOf(rel) ELSE rel, {literal}, k, kinds)
           x == Value(column, row)
           y == Coerced(literal, k)
<1>2. /\ literal.is = "literal" /\ ~IsNullLiteral(literal) /\ column.is = "column" /\ k # "none"
      /\ PushComparison(c, neg, kinds, format) = {p}
  BY DEF PushComparison
<1>3. IsLiteral(literal)
  BY <1>1, <1>2 DEF IsOperand, IsColumn
<1>4. IsOperand(column) /\ x \in Int
  BY <1>1, ValueIsNumber
<1>5. rel \in Relations /\ InverseOf(rel) \in Relations
  BY <1>1, Comparing DEF Relations, Flipped, InverseOf
<1>6. LeafMeaning(c, row, kinds) = IF turned THEN Related(Flipped[rel], literal, column, row, kinds)
                                   ELSE Related(rel, column, literal, row, kinds)
  <2>1. LeafMeaning(c, row, kinds) = Related(c.rel, c.left, c.right, row, kinds)
    BY DEF LeafMeaning
  <2>2. Flipped[Flipped[c.rel]] = c.rel
    BY <1>1 DEF Flipped, Relations
  <2> QED  BY <2>1, <2>2
<1>7. k # "missing"
  BY <1>2 DEF Predicate
<1>8. ~Missing(DOMAIN row, column)
  BY <1>2, <1>7, TargetExists
<1> HIDE DEF rel, k, column, literal, turned
<1>9. /\ IsPredicate(p, DOMAIN row) /\ p.values = {literal} /\ row[p.column] = x /\ p.kind = k
      /\ p.rel = (IF neg THEN InverseOf(rel) ELSE rel) /\ kinds[p.column] = KindOf(column, kinds)
  BY <1>2, <1>7, <1>8, PredicateColumn
<1>10. k = KindOf(column, kinds) \/ {k, KindOf(column, kinds)} \subseteq Numbers
  <2>1. Fits(p, kinds)
    BY <1>2
  <2> HIDE DEF p
  <2> QED  BY <1>2, <1>9, <2>1 DEF Fits
<1>11. /\ y \in Int
       /\ Related(rel, column, literal, row, kinds) = Compare(rel, x, y)
       /\ Related(Flipped[rel], literal, column, row, kinds) = Compare(rel, x, y)
  <2>1. k = Target(column, {literal}, kinds, format) /\ IsFiniteSet({literal})
    BY FS_Singleton DEF k
  <2> QED  BY <1>2, <1>3, <1>5, <1>7, <1>10, <2>1, PushedScalar
<1> HIDE DEF p
<1>12. Applies(p, row) <=> Compare(p.rel, x, y) = Yes
  BY <1>5, <1>9, OneLiteral
<1>13. Compare(InverseOf(rel), x, y) = Negation(Compare(rel, x, y))
  BY <1>4, <1>5, <1>11, Comparing
<1>14. LeafMeaning(c, row, kinds) = Compare(rel, x, y)
  BY <1>6, <1>11
<1> HIDE DEF x, y
<1>15. NegatedIf(neg, LeafMeaning(c, row, kinds)) = Yes <=> Applies(p, row)
  BY <1>9, <1>12, <1>13, <1>14 DEF NegatedIf
<1> QED  BY <1>2, <1>9, <1>15 DEF Pushes

\* So is a null test,
LEMMA PushedNullTest ==
  ASSUME NEW c \in Leaves, c.is = "isnull", NEW neg \in BOOLEAN, NEW row, IsRow(row),
         NEW kinds, DOMAIN kinds = DOMAIN row, NEW format,
         PushNullTest(c, neg, kinds, format) # {},
         \A p \in PushNullTest(c, neg, kinds, format) : p.kind # "missing"
  PROVE  Pushes(PushNullTest(c, neg, kinds, format), row, NegatedIf(neg, LeafMeaning(c, row, kinds)))
<1>1. IsOperand(c.operand) /\ c.negated \in BOOLEAN
  BY LeafShape
<1> DEFINE k == IF NoSuch(c.operand, kinds) THEN "missing" ELSE "none"
           rel == IF c.negated # neg THEN "is not null" ELSE "is null"
           p == Predicate(c.operand, rel, {}, k, kinds)
           x == Value(c.operand, row)
<1>2. c.operand.is = "column" /\ PushNullTest(c, neg, kinds, format) = {p}
  BY DEF PushNullTest
<1>3. k # "missing"
  <2>1. p.kind = k
    BY DEF Predicate
  <2>2. p.kind # "missing"
    BY <1>2
  <2> QED  BY <2>1, <2>2
<1>4. ~Missing(DOMAIN row, c.operand)
  BY <1>3 DEF NoSuch
<1>5. rel = IF c.negated THEN IF neg THEN "is null" ELSE "is not null"
            ELSE IF neg THEN "is not null" ELSE "is null"
  BY <1>1
<1> HIDE DEF rel, k
<1>6. IsPredicate(p, DOMAIN row) /\ p.rel = rel /\ row[p.column] = x
  BY <1>2, <1>3, <1>4, PredicateColumn
<1> HIDE DEF p
<1>7. LeafMeaning(c, row, kinds) = NegatedIf(c.negated, Truth(x = Null))
  BY DEF LeafMeaning
<1>8. Applies(p, row) <=> IF rel = "is null" THEN x = Null ELSE x # Null
  BY <1>5, <1>6 DEF Applies
<1> HIDE DEF x
<1>9. NegatedIf(neg, LeafMeaning(c, row, kinds)) = Yes <=> Applies(p, row)
  <2>1. LeafMeaning(c, row, kinds) = IF c.negated THEN IF x = Null THEN No ELSE Yes
                              ELSE IF x = Null THEN Yes ELSE No
    BY <1>7 DEF NegatedIf, Negation, Truth, Yes, No
  <2>2. LeafMeaning(c, row, kinds) \in 0..2
    BY LeafTruth
  <2>3. NegatedIf(neg, LeafMeaning(c, row, kinds)) = Yes
          <=> LeafMeaning(c, row, kinds) = (IF neg THEN No ELSE Yes)
    BY <2>2 DEF NegatedIf, Negation, Yes, No
  <2>4. rel = "is null" <=> (c.negated <=> neg)
    BY <1>5
  <2>5. LeafMeaning(c, row, kinds) = (IF neg THEN No ELSE Yes)
          <=> IF c.negated <=> neg THEN x = Null ELSE x # Null
    BY <1>1, <2>1 DEF Yes, No
  <2>6. Applies(p, row) <=> IF c.negated <=> neg THEN x = Null ELSE x # Null
    BY <1>8, <2>4
  <2> QED  BY <2>3, <2>5, <2>6
<1> QED  BY <1>2, <1>6, <1>9 DEF Pushes

\* a list,
LEMMA PushedList ==
  ASSUME NEW c \in Leaves, c.is = "in", NEW neg \in BOOLEAN, NEW row, IsRow(row),
         NEW kinds, DOMAIN kinds = DOMAIN row, NEW format,
         PushList(c, neg, kinds, format) # {},
         \A p \in PushList(c, neg, kinds, format) : p.kind # "missing" /\ Fits(p, kinds)
  PROVE  Pushes(PushList(c, neg, kinds, format), row, NegatedIf(neg, LeafMeaning(c, row, kinds)))
<1>1. /\ IsOperand(c.operand) /\ c.negated \in BOOLEAN
      /\ c.values # {} /\ \A v \in c.values : IsLiteral(v)
  BY LeafShape
<1> DEFINE k == Target(c.operand, c.values, kinds, format)
           rel == IF c.negated # neg THEN "not in" ELSE "in"
           p == Predicate(c.operand, rel, c.values, k, kinds)
           x == Value(c.operand, row)
           y(v) == Coerced(v, k)
           T == {Related("=", c.operand, v, row, kinds) : v \in c.values}
           m == Max(T)
<1>2. /\ NullLiteral \notin c.values /\ k # "none"
      /\ PushList(c, neg, kinds, format) = {p} /\ Typed(format)
  BY DEF PushList, MembershipPushed, Typed
<1>3. \A v \in c.values : ~IsNullLiteral(v)
  BY <1>1, <1>2 DEF IsLiteral, NullLiteral, IsNullLiteral, Literal
<1>4. k # "missing"
  <2>1. p.kind = k
    BY DEF Predicate
  <2>2. p.kind # "missing"
    BY <1>2
  <2> QED  BY <2>1, <2>2
<1>5. c.operand.is = "column" /\ ~Missing(DOMAIN row, c.operand)
  <2>1. Target(c.operand, c.values, kinds, format) \notin {"none", "missing"}
    BY <1>2, <1>4
  <2> HIDE DEF k, rel, p, x, m
  <2>2. c.operand.is = "column" /\ ~Missing(DOMAIN kinds, c.operand)
    BY <2>1, TargetExists
  <2> QED  BY <2>2
<1>6. rel = IF c.negated THEN IF neg THEN "in" ELSE "not in"
            ELSE IF neg THEN "not in" ELSE "in"
  BY <1>1
<1>7. x \in Int
  BY <1>1, ValueIsNumber
<1>8. LeafMeaning(c, row, kinds) = NegatedIf(c.negated, m)
  BY DEF LeafMeaning
<1> HIDE DEF rel, k, m, T
<1>9. /\ IsPredicate(p, DOMAIN row) /\ p.rel = rel /\ p.values = c.values /\ row[p.column] = x
      /\ p.kind = k /\ kinds[p.column] = KindOf(c.operand, kinds)
  BY <1>2, <1>4, <1>5, PredicateColumn
<1>10. k = KindOf(c.operand, kinds) \/ {k, KindOf(c.operand, kinds)} \subseteq Numbers
  <2>1. Fits(p, kinds)
    BY <1>2
  <2> HIDE DEF p
  <2> QED  BY <1>2, <1>9, <2>1 DEF Fits
<1>11. ASSUME NEW v \in c.values
       PROVE  /\ y(v) \in Int /\ y(v) # Null
              /\ Related("=", c.operand, v, row, kinds) = Compare("=", x, y(v))
  BY <1>1, <1>2, <1>3, <1>4, <1>5, <1>10, PushedScalar DEF k, Relations
<1> HIDE DEF p, x, y
<1>12. T = {Compare("=", x, y(v)) : v \in c.values}
  BY <1>11 DEF T
<1>13. \A v \in c.values : /\ Compare("=", x, y(v)) \in 0..2
                           /\ Compare("=", x, y(v)) = Yes <=> x # Null /\ y(v) = x
                           /\ Compare("=", x, y(v)) = No <=> x # Null /\ y(v) # x
  BY <1>7, <1>11 DEF Compare, Holds, Truth, Yes, No, Unknown
<1> DEFINE within == \E v \in c.values : y(v) = x
<1>14. m \in 0..2 /\ (m = Yes <=> x # Null /\ within) /\ (m = No <=> x # Null /\ ~within)
  <2>1. T \in SUBSET (0..2) /\ T # {}
    BY <1>1, <1>12, <1>13
  <2>2. m \in 0..2 /\ (m = Yes <=> Yes \in T) /\ (m = No <=> \A t \in T : t = No)
    BY <2>1, GreatestTruth DEF m
  <2>3. Yes \in T <=> x # Null /\ within
    BY <1>12, <1>13
  <2>4. (\A t \in T : t = No) <=> x # Null /\ ~within
    BY <1>1, <1>12, <1>13
  <2> QED  BY <2>2, <2>3, <2>4
<1>15. x \in {Coerced(l, p.kind) : l \in p.values} <=> within
  BY <1>9 DEF y
<1>16. Applies(p, row) <=> x # Null /\ IF rel = "in" THEN within ELSE ~within
  BY <1>6, <1>9, <1>15 DEF Applies
<1> HIDE DEF within
<1>17. NegatedIf(neg, LeafMeaning(c, row, kinds)) = Yes <=> Applies(p, row)
  <2>1. NegatedIf(neg, LeafMeaning(c, row, kinds)) = Yes
          <=> m = (IF c.negated THEN IF neg THEN Yes ELSE No ELSE IF neg THEN No ELSE Yes)
    BY <1>1, <1>8, <1>14 DEF NegatedIf, Negation, Yes, No
  <2>2. m = (IF c.negated THEN IF neg THEN Yes ELSE No ELSE IF neg THEN No ELSE Yes)
          <=> x # Null /\ IF rel = "in" THEN within ELSE ~within
    BY <1>6, <1>14 DEF Yes, No
  <2> QED  BY <1>16, <2>1, <2>2
<1> QED  BY <1>2, <1>9, <1>17 DEF Pushes

\* and a BETWEEN, of which the two predicates are the two bounds.
LEMMA PushedBetween ==
  ASSUME NEW c \in Leaves, c.is = "between", NEW row, IsRow(row),
         NEW kinds, DOMAIN kinds = DOMAIN row, NEW format,
         PushBetween(c, kinds, format) # {},
         \A p \in PushBetween(c, kinds, format) : p.kind # "missing" /\ Fits(p, kinds)
  PROVE  Pushes(PushBetween(c, kinds, format), row, LeafMeaning(c, row, kinds))
<1>1. IsOperand(c.operand) /\ IsOperand(c.low) /\ IsOperand(c.high)
  BY LeafShape
<1> DEFINE L == {c.low, c.high}
           k == Target(c.operand, L, kinds, format)
           p == Predicate(c.operand, ">=", {c.low}, k, kinds)
           q == Predicate(c.operand, "<=", {c.high}, k, kinds)
           x == Value(c.operand, row)
           low == Coerced(c.low, k)
           high == Coerced(c.high, k)
<1>2. /\ ~c.negated /\ LiteralBounds(c) /\ k # "none"
      /\ ~IsNullLiteral(c.low) /\ ~IsNullLiteral(c.high)
      /\ PushBetween(c, kinds, format) = {p, q}
  BY DEF PushBetween
<1>3. k # "missing"
  <2>1. p.kind = k
    BY DEF Predicate
  <2>2. p.kind # "missing"
    BY <1>2
  <2> QED  BY <2>1, <2>2
<1>4. c.operand.is = "column" /\ ~Missing(DOMAIN row, c.operand)
  BY <1>2, <1>3, TargetExists
<1>5. IsLiteral(c.low) /\ IsLiteral(c.high)
  BY <1>1, <1>2 DEF IsOperand, IsColumn, LiteralBounds
<1>6. x \in Int
  BY <1>1, ValueIsNumber
<1> DEFINE a == Compare(">=", x, low)
           b == Compare("<=", x, high)
<1>7. c.low \in L /\ c.high \in L /\ IsFiniteSet(L)
  <2>1. L = {c.low} \cup {c.high}
    OBVIOUS
  <2>2. IsFiniteSet({c.low})
    BY FS_Singleton
  <2> QED  BY <2>1, <2>2, FS_AddElement
<1> HIDE DEF L, k, x
<1>8. /\ IsPredicate(p, DOMAIN row) /\ p.values = {c.low} /\ p.rel = ">=" /\ row[p.column] = x
      /\ p.kind = k /\ kinds[p.column] = KindOf(c.operand, kinds)
  BY <1>3, <1>4, PredicateColumn DEF x
<1>9. /\ IsPredicate(q, DOMAIN row) /\ q.values = {c.high} /\ q.rel = "<=" /\ row[q.column] = x
      /\ q.kind = k
  BY <1>3, <1>4, PredicateColumn DEF x
<1>10. k = KindOf(c.operand, kinds) \/ {k, KindOf(c.operand, kinds)} \subseteq Numbers
  <2>1. Fits(p, kinds)
    BY <1>2
  <2> HIDE DEF p
  <2> QED  BY <1>2, <1>8, <2>1 DEF Fits
<1>11. low \in Int /\ Related(">=", c.operand, c.low, row, kinds) = a
  BY <1>2, <1>3, <1>4, <1>5, <1>7, <1>10, PushedScalar DEF k, x, Relations
<1>12. high \in Int /\ Related("<=", c.operand, c.high, row, kinds) = b
  BY <1>2, <1>3, <1>4, <1>5, <1>7, <1>10, PushedScalar DEF k, x, Relations
<1>13. a \in 0..2 /\ b \in 0..2
  BY <1>6, <1>11, <1>12, Comparing DEF Relations
<1>14. LeafMeaning(c, row, kinds) = And(a, b)
  BY <1>2, <1>11, <1>12 DEF LeafMeaning, NegatedIf
<1> HIDE DEF p, q
<1> HIDE DEF low, high
<1>15. (Applies(p, row) <=> a = Yes) /\ (Applies(q, row) <=> b = Yes)
  <2>1. Applies(p, row) <=> Compare(p.rel, row[p.column], Coerced(c.low, p.kind)) = Yes
    BY <1>8, OneLiteral DEF Relations
  <2>2. Applies(q, row) <=> Compare(q.rel, row[q.column], Coerced(c.high, q.kind)) = Yes
    BY <1>9, OneLiteral DEF Relations
  <2> QED  BY <1>8, <1>9, <2>1, <2>2 DEF low, high
<1> HIDE DEF a, b
<1>16. And(a, b) = Yes <=> a = Yes /\ b = Yes
  BY <1>13, TwoValues DEF Yes
<1> QED  BY <1>2, <1>8, <1>9, <1>14, <1>15, <1>16 DEF Pushes

\* The predicates for a conjunct say what it says.
LEMMA PushedTruth ==
  ASSUME NEW part \in Trees, NEW row, IsRow(row),
         NEW kinds, DOMAIN kinds = DOMAIN row, NEW format,
         Predicates(part, kinds, format) # {},
         \A p \in Predicates(part, kinds, format) : p.kind # "missing" /\ Fits(p, kinds)
  PROVE  Pushes(Predicates(part, kinds, format), row, Meaning(part, row, kinds))
<1> DEFINE c == Inner(part)
           neg == c # part
           P == Predicates(part, kinds, format)
<1>1. /\ neg => part.is = "not" /\ c = part.operand
      /\ neg => c.is \in {"comparison", "isnull", "in"}
  BY DEF Inner
<1>2. c.is \in {"comparison", "isnull", "in", "between"}
  BY DEF Predicates
<1>3. c \in Leaves
  BY <1>1, <1>2, TreeShape DEF Leaves
<1>4. Meaning(part, row, kinds) = NegatedIf(neg, LeafMeaning(c, row, kinds))
  <2>1. CASE neg
    <3>1. Meaning(part, row, kinds) = Negation(Meaning(c, row, kinds))
      BY <1>1, <2>1, ConditionTruth
    <3>2. Meaning(c, row, kinds) = LeafMeaning(c, row, kinds)
      BY <1>3, ConditionTruth DEF Leaves
    <3> QED  BY <2>1, <3>1, <3>2 DEF NegatedIf
  <2>2. CASE ~neg
    BY <1>3, <2>2, ConditionTruth DEF NegatedIf
  <2> QED  BY <2>1, <2>2
<1>5. /\ c.is = "comparison" => P = PushComparison(c, neg, kinds, format)
      /\ c.is = "isnull" => P = PushNullTest(c, neg, kinds, format)
      /\ c.is = "in" => P = PushList(c, neg, kinds, format)
      /\ c.is = "between" => P = PushBetween(c, kinds, format)
  BY DEF Predicates
<1>6. P # {} /\ \A p \in P : p.kind # "missing" /\ Fits(p, kinds)
  OBVIOUS
<1>7. neg \in BOOLEAN
  OBVIOUS
<1>8. c.is = "between" => ~neg
  BY <1>1
<1> HIDE DEF P, c, neg
<1>9. CASE c.is = "comparison"
  BY <1>3, <1>4, <1>5, <1>6, <1>7, <1>9, PushedComparison DEF P
<1>10. CASE c.is = "isnull"
  BY <1>3, <1>4, <1>5, <1>6, <1>7, <1>10, PushedNullTest DEF P
<1>11. CASE c.is = "in"
  BY <1>3, <1>4, <1>5, <1>6, <1>7, <1>11, PushedList DEF P
<1>12. CASE c.is = "between"
  <2>1. Meaning(part, row, kinds) = LeafMeaning(c, row, kinds)
    BY <1>4, <1>8, <1>12 DEF NegatedIf
  <2> QED  BY <1>3, <1>5, <1>6, <1>12, <2>1, PushedBetween DEF P
<1> QED  BY <1>2, <1>9, <1>10, <1>11, <1>12

\* What is pushed and what is left say together what the condition says.
LEMMA PlanTruth ==
  ASSUME NEW c \in Trees, NEW row, IsRow(row),
         NEW kinds, DOMAIN kinds = DOMAIN row, NEW format, ~PlanRefused(c, kinds, format),
         ~RejectedPredicates(Pushed(c, kinds, format), kinds)
  PROVE  /\ \A p \in Pushed(c, kinds, format) : IsPredicate(p, DOMAIN row)
         /\ Meaning(c, row, kinds) = Yes <=>
              /\ \A p \in Pushed(c, kinds, format) : Applies(p, row)
              /\ \A part \in Residual(c, kinds, format) : Meaning(part, row, kinds) = Yes
<1> DEFINE P(part) == Predicates(part, kinds, format)
<1>1. \A p \in Pushed(c, kinds, format) : p.kind # "missing" /\ Fits(p, kinds)
  BY DEF PlanRefused, RejectedPredicates, Fits
<1>2. \A part \in Conjuncts(c) : P(part) \subseteq Pushed(c, kinds, format)
  BY DEF Pushed
<1>3. \A part \in Conjuncts(c) : P(part) # {} => Pushes(P(part), row, Meaning(part, row, kinds))
  <2>1. SUFFICES ASSUME NEW part \in Conjuncts(c), P(part) # {}
                 PROVE  Pushes(P(part), row, Meaning(part, row, kinds))
    OBVIOUS
  <2>2. \A p \in P(part) : p.kind # "missing" /\ Fits(p, kinds)
    BY <1>1, <1>2
  <2>3. part \in Trees
    BY ConjunctsAreParts
  <2> QED  BY <2>1, <2>2, <2>3, PushedTruth
<1>4. \A p \in Pushed(c, kinds, format) : \E part \in Conjuncts(c) : P(part) # {} /\ p \in P(part)
  BY DEF Pushed
<1>5. \A part : part \in Residual(c, kinds, format) <=> part \in Conjuncts(c) /\ P(part) = {}
  BY DEF Residual
<1> HIDE DEF P
<1>6. Meaning(c, row, kinds) = Yes <=> \A part \in Conjuncts(c) : Meaning(part, row, kinds) = Yes
  BY ConjunctsTruth
<1>7. \A part \in Conjuncts(c) : P(part) # {} =>
        /\ \A p \in P(part) : IsPredicate(p, DOMAIN row)
        /\ Meaning(part, row, kinds) = Yes <=> \A p \in P(part) : Applies(p, row)
  BY <1>3 DEF Pushes
<1>8. ASSUME NEW p \in Pushed(c, kinds, format)  PROVE IsPredicate(p, DOMAIN row)
  BY <1>4, <1>7
<1>9. ASSUME \A part \in Conjuncts(c) : Meaning(part, row, kinds) = Yes
      PROVE  /\ \A p \in Pushed(c, kinds, format) : Applies(p, row)
             /\ \A part \in Residual(c, kinds, format) : Meaning(part, row, kinds) = Yes
  BY <1>4, <1>5, <1>7, <1>9
<1>10. ASSUME \A p \in Pushed(c, kinds, format) : Applies(p, row),
              \A part \in Residual(c, kinds, format) : Meaning(part, row, kinds) = Yes,
              NEW part \in Conjuncts(c)
       PROVE  Meaning(part, row, kinds) = Yes
  <2>1. CASE P(part) = {}
    BY <1>5, <1>10, <2>1
  <2>2. CASE P(part) # {}
    <3>1. \A p \in P(part) : Applies(p, row)
      BY <1>2, <1>10 DEF P
    <3> QED  BY <1>7, <2>2, <3>1
  <2> QED  BY <2>1, <2>2
<1> QED  BY <1>6, <1>8, <1>9, <1>10
-----------------------------------------------------------------------------
(* The columns that are asked for                                          *)

\* A column that is resolved among all names is resolved among those that are resolved.
LEMMA MatchingAmongAsked ==
  ASSUME NEW N, IsFiniteSet(N), NEW C, \A c \in C : Exists(N, c),
         NEW c \in C
  PROVE  Matching({ResolveColumn(N, d) : d \in C}, c) = Matching(N, c)
<1> DEFINE A == {ResolveColumn(N, d) : d \in C}
           n == ResolveColumn(N, c)
<1>1. A \subseteq N
  BY ColumnIsThere
<1>2. n \in A /\ n \in Matching(N, c)
  BY ColumnIsThere
<1>3. Matching(N, c) = {n}
  <2>1. IsFiniteSet(Matching(N, c))
    <3>1. Matching(N, c) \subseteq N
      BY DEF Matching
    <3> QED  BY <3>1, FS_Subset
  <2>2. PICK m : Matching(N, c) = {m}
    BY <2>1, FS_Singleton DEF Exists
  <2> QED  BY <1>2, <2>2
<1> HIDE DEF A, n
<1>4. CASE c.name \in N
  BY <1>1, <1>2, <1>3, <1>4 DEF A, Matching
<1>5. CASE c.name \notin N
  <2>1. Matching(A, c) = {m \in A : m \in Matching(N, c)}
    BY <1>1, <1>5 DEF Matching
  <2> QED  BY <1>2, <1>3, <2>1 DEF A
<1> QED  BY <1>4, <1>5 DEF A

\* The columns that have the same match among the names A as in a row
SameAmong(A, row, C) == \A c \in C : Matching(A, c) = Matching(DOMAIN row, c)

\* Some columns of a row
LEMMA RowNarrowed ==
  ASSUME NEW row, IsRow(row), NEW A \in SUBSET DOMAIN row
  PROVE  IsRow(Restrict(row, A)) /\ DOMAIN Restrict(row, A) = A
BY DEF IsRow, Restrict

\* A column that is among those that are left has the value it had.
LEMMA ValueNarrowed ==
  ASSUME NEW row, IsRow(row), NEW A \in SUBSET DOMAIN row,
         NEW o, IsColumn(o) => Matching(A, o) = Matching(DOMAIN row, o)
  PROVE  Value(o, Restrict(row, A)) = Value(o, row)
<1> DEFINE narrow == Restrict(row, A)
<1>1. DOMAIN narrow = A /\ \A n \in A : narrow[n] = row[n]
  BY DEF Restrict
<1>2. CASE ~IsColumn(o)
  BY <1>2 DEF IsColumn, Value
<1>3. CASE IsColumn(o)
  <2>1. /\ Exists(A, o) <=> Exists(DOMAIN row, o)
        /\ ResolveColumn(A, o) = ResolveColumn(DOMAIN row, o)
    BY <1>3 DEF Exists, ResolveColumn
  <2>2. Exists(A, o) => ResolveColumn(A, o) \in A
    BY ColumnIsThere
  <2>3. Value(o, narrow) = IF ~Exists(A, o) THEN Null ELSE narrow[ResolveColumn(A, o)]
    BY <1>1, <1>3 DEF IsColumn, Value, Missing
  <2>4. Value(o, row) = IF ~Exists(DOMAIN row, o) THEN Null ELSE row[ResolveColumn(DOMAIN row, o)]
    BY <1>3 DEF IsColumn, Value, Missing
  <2> HIDE DEF narrow
  <2> QED  BY <1>1, <2>1, <2>2, <2>3, <2>4 DEF narrow
<1> QED  BY <1>2, <1>3

\* Nor is a comparison any other on some columns of a row.
LEMMA ScalarNarrowed ==
  ASSUME NEW row, IsRow(row), NEW kinds, DOMAIN kinds = DOMAIN row, NEW A \in SUBSET DOMAIN row,
         NEW o, IsColumn(o), Matching(A, o) = Matching(DOMAIN row, o), NEW l, NEW r
  PROVE  ScalarMask(r, o, l, Restrict(row, A), Restrict(kinds, A)) = ScalarMask(r, o, l, row, kinds)
<1> DEFINE few == Restrict(kinds, A)
           narrow == Restrict(row, A)
<1>1. DOMAIN few = A /\ DOMAIN narrow = A /\ \A n \in A : few[n] = kinds[n]
  BY DEF Restrict
<1>2. Value(o, narrow) = Value(o, row)
  BY ValueNarrowed
<1>3. /\ Exists(A, o) <=> Exists(DOMAIN row, o)
      /\ ResolveColumn(A, o) = ResolveColumn(DOMAIN row, o)
  BY DEF Exists, ResolveColumn
<1> HIDE DEF few, narrow
<1>4. CASE Exists(DOMAIN row, o)
  <2>1. ResolveColumn(A, o) \in A
    BY <1>3, <1>4, ColumnIsThere
  <2>2. KindOf(o, few) = KindOf(o, kinds)
    BY <1>1, <1>3, <2>1 DEF KindOf
  <2>3. ScalarMask(r, o, l, narrow, few) = ScalarMask(r, o, l, row, kinds)
    BY <1>2, <2>2 DEF ScalarMask
  <2> QED  BY <2>3 DEF few, narrow
<1>5. CASE ~Exists(DOMAIN row, o)
  <2>1. Value(o, row) = Null /\ Value(o, narrow) = Null
    BY <1>2, <1>5 DEF Value, Missing, IsColumn
  <2>2. ScalarMask(r, o, l, narrow, few) = ScalarMask(r, o, l, row, kinds)
    BY <2>1 DEF ScalarMask, Compare
  <2> QED  BY <2>2 DEF few, narrow
<1> QED  BY <1>4, <1>5

LEMMA ComparisonNarrowed ==
  ASSUME NEW row, IsRow(row), NEW kinds, DOMAIN kinds = DOMAIN row, NEW A \in SUBSET DOMAIN row,
         NEW a, IsOperand(a), IsColumn(a) => Matching(A, a) = Matching(DOMAIN row, a),
         NEW b, IsOperand(b), IsColumn(b) => Matching(A, b) = Matching(DOMAIN row, b), NEW r
  PROVE  ComparisonMask(r, a, b, Restrict(row, A), Restrict(kinds, A))
           = ComparisonMask(r, a, b, row, kinds)
<1> DEFINE few == Restrict(kinds, A)
           narrow == Restrict(row, A)
<1>1. /\ a.is = "column" <=> IsColumn(a)
      /\ b.is = "column" <=> IsColumn(b)
      /\ a.is \in {"literal", "column"} /\ b.is \in {"literal", "column"}
  BY DEF IsOperand, IsColumn, IsLiteral, Literal
<1>2. Value(a, narrow) = Value(a, row) /\ Value(b, narrow) = Value(b, row)
  BY ValueNarrowed
<1>3. ASSUME b.is = "column"
      PROVE  \A l, q : ScalarMask(q, b, l, narrow, few) = ScalarMask(q, b, l, row, kinds)
  BY <1>1, <1>3, ScalarNarrowed
<1>4. ASSUME a.is = "column"
      PROVE  \A l, q : ScalarMask(q, a, l, narrow, few) = ScalarMask(q, a, l, row, kinds)
  BY <1>1, <1>4, ScalarNarrowed
<1> HIDE DEF few, narrow
<1>5. CASE a.is = "literal" /\ b.is = "literal"
  BY <1>5 DEF ComparisonMask, few, narrow
<1>6. CASE a.is = "literal" /\ b.is = "column"
  BY <1>3, <1>6 DEF ComparisonMask, few, narrow
<1>7. CASE a.is = "column" /\ b.is = "literal"
  BY <1>4, <1>7 DEF ComparisonMask, few, narrow
<1>8. CASE a.is = "column" /\ b.is = "column"
  BY <1>2, <1>8 DEF ComparisonMask, few, narrow
<1> QED  BY <1>1, <1>5, <1>6, <1>7, <1>8

\* A condition is no other if only its columns are there.
LEMMA MaskNarrowed ==
  ASSUME NEW row, IsRow(row), NEW kinds, DOMAIN kinds = DOMAIN row, NEW A \in SUBSET DOMAIN row
  PROVE  \A c \in Trees : SameAmong(A, row, ColumnsIn(c))
           => Mask(c, Restrict(row, A), Restrict(kinds, A)) = Mask(c, row, kinds)
<1> DEFINE narrow == Restrict(row, A)
           few == Restrict(kinds, A)
           Good(c) == SameAmong(A, row, ColumnsIn(c))
           Same(c) == Mask(c, narrow, few) = Mask(c, row, kinds)
           T == {c \in Trees : Good(c) /\ ~Same(c)}
<1>1. SUFFICES ASSUME T # {}  PROVE FALSE
  OBVIOUS
<1>2. PICK c \in T : \A d \in T : ~(Height[d] < Height[c])
  BY <1>1, SimplestCondition
<1>3. \A d \in Trees : Good(d) /\ Height[d] < Height[c] => Same(d)
  BY <1>2
<1>4. c \in Trees /\ Good(c) /\ ~Same(c)
  OBVIOUS
<1>5. IsRow(narrow) /\ DOMAIN few = DOMAIN narrow
  BY RowNarrowed DEF Restrict
<1> HIDE DEF narrow, few
<1>6. CASE c.is \in {"and", "or"}
  <2>1. PartsOf(c.left) \subseteq PartsOf(c) /\ PartsOf(c.right) \subseteq PartsOf(c)
    BY <1>4, <1>6, PartsEquation
  <2>2. Good(c.left) /\ Good(c.right)
    BY <1>4, <2>1 DEF SameAmong, ColumnsIn
  <2>3. Same(c.left) /\ Same(c.right)
    BY <1>3, <1>4, <1>6, <2>2, TreeShape
  <2> QED  BY <1>4, <1>5, <1>6, <2>3, ConditionTruth
<1>7. CASE c.is = "not"
  <2>1. PartsOf(c.operand) \subseteq PartsOf(c)
    BY <1>4, <1>7, PartsEquation
  <2>2. Good(c.operand)
    BY <1>4, <2>1 DEF SameAmong, ColumnsIn
  <2>3. Same(c.operand)
    BY <1>3, <1>4, <1>7, <2>2, TreeShape
  <2> QED  BY <1>4, <1>5, <1>7, <2>3, ConditionTruth
<1>8. CASE c \in Leaves
  <2>1. c \in PartsOf(c)
    BY <1>4, <1>8, PartsEquation DEF Leaves
  <2>2. \A o \in Operands(c) : IsColumn(o) => Matching(A, o) = Matching(DOMAIN row, o)
    BY <1>4, <1>8, <2>1 DEF SameAmong, ColumnsIn, LeafColumns
  <2>3. \A o \in Operands(c) : Value(o, narrow) = Value(o, row)
    BY <2>2, ValueNarrowed DEF narrow
  <2>4. \A o \in Operands(c) : \A l, r : IsColumn(o)
          => ScalarMask(r, o, l, narrow, few) = ScalarMask(r, o, l, row, kinds)
    BY <2>2, ScalarNarrowed DEF narrow, few
  <2>5. \A a, b \in Operands(c) : \A r : IsOperand(a) /\ IsOperand(b)
          => ComparisonMask(r, a, b, narrow, few) = ComparisonMask(r, a, b, row, kinds)
    BY <2>2, ComparisonNarrowed DEF narrow, few
  <2>6. Mask(c, narrow, few) = LeafMask(c, narrow, few) /\ Mask(c, row, kinds) = LeafMask(c, row, kinds)
    BY <1>4, <1>5, <1>8, ConditionTruth
  <2>7. LeafMask(c, narrow, few) = LeafMask(c, row, kinds)
    <3>1. CASE c.is = "comparison"
      <4>1. {c.left, c.right} \subseteq Operands(c) /\ IsOperand(c.left) /\ IsOperand(c.right)
        BY <1>8, <3>1, LeafShape DEF Operands
      <4>2. ComparisonMask(c.rel, c.left, c.right, narrow, few)
              = ComparisonMask(c.rel, c.left, c.right, row, kinds)
        BY <2>5, <4>1
      <4> QED  BY <3>1, <4>2 DEF LeafMask
    <3>2. CASE c.is = "between"
      <4>1. /\ {c.operand, c.low, c.high} \subseteq Operands(c)
            /\ IsOperand(c.operand) /\ IsOperand(c.low) /\ IsOperand(c.high)
        BY <1>8, <3>2, LeafShape DEF Operands
      <4>2. \A b \in {c.low, c.high} : \A r :
              ComparisonMask(r, c.operand, b, narrow, few) = ComparisonMask(r, c.operand, b, row, kinds)
        BY <2>5, <4>1
      <4>3. InBounds(c, narrow, few) = InBounds(c, row, kinds)
        BY <4>2 DEF InBounds
      <4> QED  BY <3>2, <4>3 DEF LeafMask
    <3>3. CASE c.is = "in"
      <4>1. c.operand \in Operands(c)
        BY <3>3 DEF Operands
      <4>2. CASE c.operand.is = "column"
        <5>1. \A v : ScalarMask("=", c.operand, v, narrow, few)
                       = ScalarMask("=", c.operand, v, row, kinds)
          BY <2>4, <4>1, <4>2 DEF IsColumn
        <5>2. {ScalarMask("=", c.operand, v, narrow, few) : v \in c.values}
                = {ScalarMask("=", c.operand, v, row, kinds) : v \in c.values}
          BY <5>1
        <5>3. Membership(c, narrow, few) = Membership(c, row, kinds)
          BY <4>2, <5>2 DEF Membership
        <5> QED  BY <3>3, <5>3 DEF LeafMask
      <4>3. CASE c.operand.is # "column"
        <5>1. Membership(c, narrow, few) = Membership(c, row, kinds)
          BY <4>3 DEF Membership
        <5> QED  BY <3>3, <5>1 DEF LeafMask
      <4> QED  BY <4>2, <4>3
    <3>4. CASE c.is \in {"isnull", "like"}
      <4>1. Value(c.operand, narrow) = Value(c.operand, row)
        BY <2>3, <3>4 DEF Operands
      <4>2. Subject(c.operand, narrow) = Subject(c.operand, row)
        BY <4>1 DEF Subject
      <4> QED  BY <3>4, <4>1, <4>2 DEF LeafMask
    <3> QED  BY <1>8, <3>1, <3>2, <3>3, <3>4, LeafShape
  <2> QED  BY <1>4, <2>6, <2>7
<1> QED  BY <1>4, <1>6, <1>7, <1>8, TreeShape
-----------------------------------------------------------------------------
(* The object of a query                                                   *)

\* What a query is
LEMMA QueryShape ==
  ASSUME query \in Queries
  PROVE  /\ query.where = NoCondition \/ query.where \in Trees
         /\ \A i \in DOMAIN query.columns : IsColumn(query.columns[i][1])
         /\ Len(query.header) \in Nat /\ DOMAIN query.header = 1..Len(query.header)
         /\ IsInjective(query.header)
         /\ Len(query.table) \in Nat /\ DOMAIN query.table = 1..Len(query.table)
         /\ \A i \in DOMAIN query.table :
              /\ DOMAIN query.table[i] = DOMAIN query.header
              /\ \A j \in DOMAIN query.header : query.table[i][j] \in Int
<1>1. query.header \in Seq(Range(query.header)) /\ query.table \in Seq(Range(query.table))
  BY SelectAssumption
<1>2. /\ Len(query.header) \in Nat /\ DOMAIN query.header = 1..Len(query.header)
      /\ Len(query.table) \in Nat /\ DOMAIN query.table = 1..Len(query.table)
  BY <1>1, LenProperties
<1> QED  BY <1>2, SelectAssumption

\* The columns are as many to the reader as they are to S3, and called differently.
LEMMA NamesOfColumns ==
  ASSUME query \in Queries
  PROVE  /\ DOMAIN S3Names = 1..Len(query.header) \/ DOMAIN query.table = {}
         /\ \E w \in Nat : DOMAIN S3Names = 1..w
         /\ DOMAIN ReaderNames = DOMAIN S3Names
         /\ IsInjective(ReaderNames)
<1>1. Len(query.header) \in Nat /\ DOMAIN query.header = 1..Len(query.header)
        /\ IsInjective(query.header)
  BY QueryShape
<1>2. Width \in 0..Len(query.header)
  BY <1>1 DEF Width
<1>3. \A from \in {0, 1}, prefix \in {"_", "col_"} :
        DOMAIN Numbered(Width, from, prefix) = 1..Width
  BY DEF Numbered
<1>4. IsInjective(Numbered(Width, 0, "col_"))
  <2>1. \A m, n \in 0..Len(query.header) :
          NumberedName("col_", m) = NumberedName("col_", n) => m = n
    BY SelectAssumption
  <2>2. SUFFICES ASSUME NEW i \in 1..Width, NEW j \in 1..Width,
                        NumberedName("col_", i + 0 - 1) = NumberedName("col_", j + 0 - 1)
                 PROVE  i = j
    BY DEF Numbered, IsInjective
  <2>3. i + 0 - 1 \in 0..Len(query.header) /\ j + 0 - 1 \in 0..Len(query.header)
    BY <1>1, <1>2
  <2>4. i + 0 - 1 = j + 0 - 1
    BY <2>1, <2>2, <2>3
  <2> QED  BY <1>2, <2>4
<1>5. CASE SourceFormat = "csv" /\ HeaderInfo(query.request) = "NONE"
  <2>1. S3Names = Numbered(Width, 1, "_") /\ ReaderNames = Numbered(Width, 0, "col_")
    BY <1>5 DEF S3Names, ReaderNames
  <2>2. Width = Len(query.header) \/ DOMAIN query.table = {}
    BY DEF Width
  <2>3. DOMAIN S3Names = 1..Width /\ DOMAIN ReaderNames = 1..Width
    BY <1>3, <2>1
  <2>4. Width \in Nat
    BY <1>2
  <2> QED  BY <1>4, <2>1, <2>2, <2>3, <2>4
<1>6. CASE ~(SourceFormat = "csv" /\ HeaderInfo(query.request) = "NONE")
  <2>1. Width = Len(query.header) /\ ReaderNames = query.header
    BY <1>6 DEF Width, ReaderNames
  <2>2. S3Names = Numbered(Width, 1, "_") \/ S3Names = query.header
    BY DEF S3Names
  <2>3. DOMAIN S3Names = 1..Len(query.header)
    BY <1>1, <1>3, <2>1, <2>2
  <2>4. \E w \in Nat : DOMAIN S3Names = 1..w
    BY <1>1, <2>3
  <2>5. DOMAIN ReaderNames = DOMAIN S3Names
    BY <1>1, <2>1, <2>3
  <2>6. IsInjective(ReaderNames)
    BY <1>1, <2>1
  <2> QED  BY <2>3, <2>4, <2>5, <2>6
<1> QED  BY <1>5, <1>6

\* There are finitely many columns.
LEMMA FiniteNames ==
  ASSUME query \in Queries
  PROVE  IsFiniteSet(ToSet(S3Names))
<1>1. PICK w \in Nat : DOMAIN S3Names = 1..w
  BY NamesOfColumns
<1>2. IsFiniteSet(DOMAIN S3Names)
  BY <1>1, FS_Interval
<1> DEFINE f == [i \in DOMAIN S3Names |-> S3Names[i]]
<1>3. f \in Surjection(DOMAIN S3Names, ToSet(S3Names))
  BY DEF Surjection, ToSet
<1> QED  BY <1>2, <1>3, FS_Surjection

\* The rows of the table, by the names of their columns
LEMMA TableRows ==
  ASSUME query \in Queries
  PROVE  /\ DOMAIN Table = DOMAIN query.table
         /\ DOMAIN ColumnKinds = ToSet(S3Names)
         /\ \A i \in DOMAIN Table : IsRow(Table[i]) /\ DOMAIN Table[i] = ToSet(S3Names)
<1>1. DOMAIN Table = DOMAIN query.table /\ DOMAIN ColumnKinds = ToSet(S3Names)
  BY DEF Table, ColumnKinds
<1>2. ASSUME NEW i \in DOMAIN query.table
      PROVE  IsRow(Table[i]) /\ DOMAIN Table[i] = ToSet(S3Names)
  <2>1. Table[i] = [n \in ToSet(S3Names) |->
                      query.table[i][CHOOSE j \in DOMAIN S3Names : S3Names[j] = n]]
    BY DEF Table, ByName
  <2>2. DOMAIN S3Names = DOMAIN query.header
    BY NamesOfColumns, QueryShape
  <2>3. ASSUME NEW n \in ToSet(S3Names)
        PROVE  query.table[i][CHOOSE j \in DOMAIN S3Names : S3Names[j] = n] \in Int
    <3>1. (CHOOSE j \in DOMAIN S3Names : S3Names[j] = n) \in DOMAIN query.header
      BY <2>2 DEF ToSet
    <3> QED  BY <3>1, QueryShape
  <2> QED  BY <2>1, <2>3 DEF IsRow
<1> QED  BY <1>1, <1>2

\* The reader finds of a row what the predicate says, whatever it calls the columns.
LEMMA ReaderApplies ==
  ASSUME query \in Queries, NEW i \in DOMAIN query.table,
         NEW p, IsPredicate(p, ToSet(S3Names))
  PROVE  Applies(ForReader(p), ByName(ReaderNames, query.table[i])) <=> Applies(p, Table[i])
<1> DEFINE j == CHOOSE j \in DOMAIN S3Names : S3Names[j] = p.column
           q == ForReader(p)
<1>1. p.column \in ToSet(S3Names)
  BY DEF IsPredicate
<1>2. j \in DOMAIN S3Names /\ j \in DOMAIN ReaderNames
  BY <1>1, NamesOfColumns DEF ToSet
<1>3. Table[i][p.column] = query.table[i][j]
  BY <1>1 DEF Table, ByName
<1>4. q.column = ReaderNames[j] /\ q.rel = p.rel /\ q.values = p.values /\ q.kind = p.kind
  BY DEF ForReader, IsPredicate
<1> HIDE DEF j, q
<1>5. q.column \in ToSet(ReaderNames)
  BY <1>2, <1>4 DEF ToSet
<1>6. (CHOOSE k \in DOMAIN ReaderNames : ReaderNames[k] = q.column) = j
  BY <1>2, <1>4, NamesOfColumns DEF IsInjective
<1>7. ByName(ReaderNames, query.table[i])[q.column] = query.table[i][j]
  BY <1>5, <1>6 DEF ByName
<1> QED  BY <1>3, <1>4, <1>7 DEF Applies, q

\* With the columns that are asked for, a row is as good as with all.
LEMMA AskedIsEnough ==
  ASSUME query \in Queries, ~ProjectionRefused
  PROVE  /\ Asked \subseteq ToSet(S3Names)
         /\ \A c \in NeededColumns : Matching(Asked, c) = Matching(ToSet(S3Names), c)
         /\ All => Asked = ToSet(S3Names)
<1>1. CASE All \/ SourceFormat = "csv"
  BY <1>1 DEF Asked
<1>2. CASE ~(All \/ SourceFormat = "csv")
  <2>1. Asked = {ResolveColumn(ToSet(S3Names), c) : c \in NeededColumns}
    BY <1>2 DEF Asked
  <2>2. ASSUME NEW c \in NeededColumns  PROVE Exists(ToSet(S3Names), c)
    <3>1. IsColumn(c)
      <4>1. c \in SelectedColumns => IsColumn(c)
        BY QueryShape DEF SelectedColumns
      <4>2. c \notin SelectedColumns => IsColumn(c)
        BY DEF NeededColumns, ColumnsIn, LeafColumns
      <4> QED  BY <4>1, <4>2
    <3> QED  BY <1>2, <3>1 DEF ProjectionRefused, Missing, IsColumn
  <2>3. \A c \in NeededColumns : Matching(Asked, c) = Matching(ToSet(S3Names), c)
    BY <2>1, <2>2, FiniteNames, MatchingAmongAsked
  <2>4. Asked \subseteq ToSet(S3Names)
    BY <2>1, <2>2, ColumnIsThere
  <2> QED  BY <1>2, <2>3, <2>4
<1> QED  BY <1>1, <1>2

\* The morsel that the reader gives, given predicates
Morsel(preds) == [i \in Kept(preds) |-> Restrict(Table[i], Asked)]

\* A row of the morsel has what the SELECT and the condition look at.
LEMMA NarrowRow ==
  ASSUME query \in Queries, ~ProjectionRefused, NEW i \in DOMAIN Table
  PROVE  /\ IsRow(Table[i]) /\ Asked \in SUBSET DOMAIN Table[i]
         /\ SameAmong(Asked, Table[i], NeededColumns)
         /\ Projected(Restrict(Table[i], Asked)) = Projected(Table[i])
<1>1. IsRow(Table[i]) /\ DOMAIN Table[i] = ToSet(S3Names)
  BY TableRows
<1>2. SameAmong(Asked, Table[i], NeededColumns) /\ Asked \in SUBSET DOMAIN Table[i]
  BY <1>1, AskedIsEnough DEF SameAmong
<1>3. CASE All
  <2>1. \A j \in DOMAIN S3Names : S3Names[j] \in Asked
    BY <1>3, AskedIsEnough DEF ToSet
  <2>2. \A j \in DOMAIN S3Names : Restrict(Table[i], Asked)[S3Names[j]] = Table[i][S3Names[j]]
    BY <2>1 DEF Restrict
  <2> QED  BY <1>1, <1>2, <1>3, <2>2 DEF Projected
<1>4. CASE ~All
  <2>1. ASSUME NEW j \in DOMAIN query.columns
        PROVE  Value(query.columns[j][1], Restrict(Table[i], Asked))
                 = Value(query.columns[j][1], Table[i])
    <3>1. query.columns[j][1] \in NeededColumns
      BY DEF NeededColumns, SelectedColumns
    <3> QED  BY <1>1, <1>2, <3>1, ValueNarrowed DEF SameAmong
  <2> QED  BY <1>1, <1>2, <1>4, <2>1 DEF Projected
<1> QED  BY <1>3, <1>4

\* What is pushed to the reader, and what is left for compile_mask: as planned, or nothing
\* and the whole condition
Planned(preds, rest) ==
  \/ Without /\ preds = {} /\ rest = {}
  \/ /\ ~Without /\ ~PlanRefused(query.where, ColumnKinds, SourceFormat)
     /\ preds = Pushed(query.where, ColumnKinds, SourceFormat)
     /\ rest = Residual(query.where, ColumnKinds, SourceFormat)
  \/ ~Without /\ preds = {} /\ rest = {query.where}

\* What is left for compile_mask is part of the condition.
LEMMA PlannedParts ==
  ASSUME query \in Queries, NEW P, NEW R, Planned(P, R), NEW part \in R
  PROVE  /\ part \in Trees /\ ColumnsIn(part) \subseteq NeededColumns
         /\ Harmless(query.where) => Harmless(part)
<1>1. ~Without /\ query.where \in Trees
  BY QueryShape DEF Planned, Without
<1>2. part = query.where \/ part \in Conjuncts(query.where)
  BY DEF Planned, Residual
<1>3. part \in Trees /\ PartsOf(part) \subseteq PartsOf(query.where)
  BY <1>1, <1>2, ConjunctsAreParts
<1>4. ColumnsIn(part) \subseteq ColumnsIn(query.where)
  BY <1>3 DEF ColumnsIn
<1> QED  BY <1>1, <1>3, <1>4 DEF NeededColumns, Harmless

\* A row is selected if the reader, which takes the predicates, keeps it and what is left is true of it.
LEMMA SelectedRows ==
  ASSUME query \in Queries, NEW P, NEW R, Planned(P, R), ~RejectedPredicates(P, ColumnKinds),
         NEW i \in DOMAIN Table
  PROVE  i \in Selected <=>
           i \in Kept(P) /\ \A part \in R : Meaning(part, Table[i], ColumnKinds) = Yes
<1>1. /\ DOMAIN Table = DOMAIN query.table /\ DOMAIN ColumnKinds = ToSet(S3Names)
      /\ IsRow(Table[i]) /\ DOMAIN Table[i] = ToSet(S3Names)
  BY TableRows
<1>2. CASE Without
  BY <1>1, <1>2 DEF Planned, Kept, Selected
<1>3. CASE ~Without /\ P = {} /\ R = {query.where}
  BY <1>1, <1>3 DEF Kept, Selected
<1>4. CASE /\ ~Without /\ ~PlanRefused(query.where, ColumnKinds, SourceFormat)
           /\ P = Pushed(query.where, ColumnKinds, SourceFormat)
           /\ R = Residual(query.where, ColumnKinds, SourceFormat)
  <2>1. query.where \in Trees
    BY <1>4, QueryShape DEF Without
  <2>2. /\ \A p \in P : IsPredicate(p, ToSet(S3Names))
        /\ Meaning(query.where, Table[i], ColumnKinds) = Yes <=>
             /\ \A p \in P : Applies(p, Table[i])
             /\ \A part \in R : Meaning(part, Table[i], ColumnKinds) = Yes
    BY <1>1, <1>4, <2>1, PlanTruth
  <2>3. \A p \in P : Applies(ForReader(p), ByName(ReaderNames, query.table[i]))
                       <=> Applies(p, Table[i])
    BY <1>1, <2>2, ReaderApplies
  <2>4. i \in Kept(P) <=> \A p \in P : Applies(p, Table[i])
    BY <1>1, <2>3 DEF Kept
  <2> QED  BY <1>4, <2>2, <2>4 DEF Selected
<1> QED  BY <1>2, <1>3, <1>4 DEF Planned
-----------------------------------------------------------------------------
(* A run                                                                   *)

\* What depends on the query only stays as it is.
LEMMA QueryKept ==
  ASSUME query' = query
  PROVE  /\ S3Names' = S3Names /\ ReaderNames' = ReaderNames
         /\ SourceFormat' = SourceFormat /\ OutputFormat' = OutputFormat /\ Batchable' = Batchable
         /\ (All' <=> All) /\ (Without' <=> Without) /\ (Untouched' <=> Untouched)
<1>1. SourceFormat' = SourceFormat /\ OutputFormat' = OutputFormat
  BY DEF SourceFormat, OutputFormat
<1>2. (All' <=> All) /\ (Without' <=> Without)
  BY DEF All, Without
<1>3. Width' = Width
  BY <1>1 DEF Width
<1>4. S3Names' = S3Names /\ ReaderNames' = ReaderNames
  BY <1>1, <1>3 DEF S3Names, ReaderNames
<1> QED  BY <1>1, <1>2, <1>4 DEF Batchable, Untouched

\* So do the columns that are asked for,
LEMMA ColumnsKept ==
  ASSUME query' = query
  PROVE  /\ ColumnKinds' = ColumnKinds /\ Asked' = Asked /\ NeededColumns' = NeededColumns
         /\ ProjectionRefused' <=> ProjectionRefused
<1>1. /\ S3Names' = S3Names /\ SourceFormat' = SourceFormat
      /\ (All' <=> All) /\ (Without' <=> Without)
  BY QueryKept
<1>2. NeededColumns' = NeededColumns
  BY <1>1 DEF NeededColumns, SelectedColumns
<1> QED  BY <1>1, <1>2 DEF ColumnKinds, Asked, ProjectionRefused

\* the rows and the answer.
LEMMA RowsKept ==
  ASSUME query' = query
  PROVE  /\ Table' = Table /\ Answer' = Answer
         /\ \A P, R : Planned(P, R)' <=> Planned(P, R)
         /\ \A P : Morsel(P)' = Morsel(P)
<1>1. /\ S3Names' = S3Names /\ ReaderNames' = ReaderNames /\ SourceFormat' = SourceFormat
      /\ (All' <=> All) /\ (Without' <=> Without)
      /\ ColumnKinds' = ColumnKinds /\ Asked' = Asked
  BY QueryKept, ColumnsKept
<1>2. Table' = Table
  BY <1>1 DEF Table
<1>3. Selected' = Selected
  BY <1>1, <1>2 DEF Selected
<1>4. Answer' = Answer
  BY <1>1, <1>2, <1>3 DEF Answer, ProjectedAll, Projected, FirstOf, All
<1>5. ASSUME NEW CONSTANT P, NEW CONSTANT R  PROVE Planned(P, R)' <=> Planned(P, R)
  BY <1>1 DEF Planned
<1>6. ASSUME NEW CONSTANT P  PROVE Morsel(P)' = Morsel(P)
  BY <1>1, <1>2 DEF Morsel, Kept, ForReader
<1> QED  BY <1>2, <1>4, <1>5, <1>6

Stages == {"received", "parsed", "opened", "planned", "read", "streaming", "over"}

\* Where a run is, and what it has: the rows of the morsel, and the predicates that were
\* applied to get them
SelectInv ==
  /\ query \in Queries /\ stage \in Stages
  /\ DOMAIN rows \subseteq DOMAIN query.table
  /\ stage \in {"received", "parsed", "opened", "planned"} => rows = NoRows
  /\ stage \in {"planned", "read"} => ~ProjectionRefused /\ Planned(pushed, residual)
  /\ stage = "read" => /\ names = Asked /\ rows = Morsel(pushed)
                       /\ ~RejectedPredicates(pushed, ColumnKinds)

\* SelectInv holds at first,
LEMMA SelectInvInit == Init => SelectInv
BY DEF Init, SelectInv, Stages, NoRows

\* and after every step: only Plan, Read, ReadAll and Filter change what it is about.
LEMMA SelectInvNext == SelectInv /\ [Next]_selectVars => SelectInv'
<1> SUFFICES ASSUME SelectInv, [Next]_selectVars  PROVE SelectInv'
  OBVIOUS
<1>1. query' = query
  BY DEF Next, selectVars, Parse, SendFile, Open, Plan, Read, ReadAll, ReadOverflows, Unreadable,
         Filter, FilterFails, SendBatch, BatchFails, SendEnd, Gives, Refuse, Raise, Goto
<1>2. /\ Asked' = Asked /\ (ProjectionRefused' <=> ProjectionRefused)
      /\ ColumnKinds' = ColumnKinds
      /\ \A P, R : Planned(P, R)' <=> Planned(P, R)
      /\ \A P : Morsel(P)' = Morsel(P)
  BY <1>1, ColumnsKept, RowsKept
<1>3. \A P : DOMAIN Morsel(P) = Kept(P) /\ Kept(P) \subseteq DOMAIN query.table
  BY DEF Morsel, Kept
<1>4. CASE Parse
  BY <1>1, <1>4 DEF SelectInv, Stages, Parse, Refuse, Raise, Goto
<1>5. CASE SendFile
  BY <1>1, <1>5 DEF SelectInv, Stages, SendFile
<1>6. CASE Open
  BY <1>1, <1>6 DEF SelectInv, Stages, Open, Refuse, Raise, Goto
<1>7. CASE Plan
  BY <1>1, <1>2, <1>7 DEF SelectInv, Stages, Plan, PlanFails, Refuse, Raise, Planned
<1>8. CASE Read \/ ReadAll
  <2>1. PICK P, R : /\ Gives(P, R) /\ Planned(P, R) /\ ~ProjectionRefused
                    /\ ~RejectedPredicates(P, ColumnKinds)
    <3>1. Planned(pushed, residual) /\ ~ProjectionRefused
      BY <1>8 DEF SelectInv, Read, ReadAll
    <3>2. Read => Gives(pushed, residual) /\ ~RejectedPredicates(pushed, ColumnKinds)
      BY DEF Read, ReaderFails
    <3>3. ReadAll => Gives({}, {query.where}) /\ Planned({}, {query.where})
      BY <3>1 DEF ReadAll, Planned
    <3>4. ~RejectedPredicates({}, ColumnKinds)
      BY DEF RejectedPredicates
    <3> QED  BY <1>8, <3>1, <3>2, <3>3, <3>4
  <2>2. /\ pushed' = P /\ residual' = R /\ stage' \in {"read", "streaming", "over"}
        /\ stage' = "read" => names' = Asked /\ rows' = Morsel(P)
        /\ stage' # "read" => rows' = rows
    BY <2>1 DEF Gives, Morsel
  <2>3. DOMAIN rows' \subseteq DOMAIN query.table
    BY <1>3, <2>2 DEF SelectInv
  <2>4. ~ProjectionRefused' /\ Planned(pushed, residual)'
    BY <1>2, <2>1, <2>2
  <2>5. stage' = "read" => /\ names' = Asked' /\ rows' = Morsel(pushed)'
                           /\ ~RejectedPredicates(pushed, ColumnKinds)'
    BY <1>2, <2>1, <2>2 DEF RejectedPredicates
  <2> QED  BY <1>1, <2>2, <2>3, <2>4, <2>5 DEF SelectInv, Stages
<1>9. CASE Filter
  <2>1. DOMAIN rows' \subseteq DOMAIN rows
    <3>1. \A S : FirstOf(S) \subseteq S
      BY DEF FirstOf
    <3> QED  BY <1>9, <3>1 DEF Filter, ProjectedAll, Restrict
  <2> QED  BY <1>1, <1>9, <2>1 DEF SelectInv, Stages, Filter
<1>10. CASE ReadOverflows \/ Unreadable \/ FilterFails \/ SendBatch \/ BatchFails \/ SendEnd
  BY <1>1, <1>10 DEF SelectInv, Stages, ReadOverflows, Unreadable, FilterFails, SendBatch,
                     BatchFails, SendEnd, Refuse, Raise
<1>11. CASE UNCHANGED selectVars
  BY <1>1, <1>2, <1>11 DEF SelectInv, selectVars
<1> QED  BY <1>4, <1>5, <1>6, <1>7, <1>8, <1>9, <1>10, <1>11 DEF Next

\* In every state of a run: the morsel holds the rows that the predicates let through, with
\* the columns asked for, and what was pushed and what is left are the whole condition.
THEOREM SelectInvAlways == Spec => []SelectInv
BY SelectInvInit, SelectInvNext, PTL DEF Spec

\* How far a run gets with an object that has a fault, or an output that cannot be written
FaultInv ==
  /\ stage # "over" => raised = "none"
  /\ stage \notin {"streaming", "over"} => events = << >>
  /\ stage \in {"opened", "planned", "read", "streaming"} => query.fault \notin {"garbled", "short"}
  /\ stage \in {"read", "streaming"} => query.fault # "unreadable"
  /\ stage = "read" => query.fault # "columns"
  /\ stage = "streaming" /\ query.fault # "none" => rows = NoRows
  /\ stage = "streaming" /\ (query.fault # "none" \/ Unwritable(query.request)) => events = << >>

\* FaultInv holds at first,
LEMMA FaultInvInit == Init => FaultInv
BY DEF Init, FaultInv

\* Without a row there is no batch.
LEMMA NothingToSend ==
  ASSUME rows = NoRows, events = << >>
  PROVE  ~(Offset < Size(rows))
<1>1. DOMAIN rows = {}
  BY DEF NoRows
<1>2. Size(rows) = 0
  BY <1>1, FS_EmptySet DEF Size
<1>3. Len(events) = 0
  OBVIOUS
<1>4. BatchRows \in Nat
  BY SelectAssumption
<1>5. BatchRows * Len(events) = 0
  BY <1>3, <1>4
<1>6. Offset = 0
  BY <1>5 DEF Offset
<1> QED  BY <1>2, <1>6

\* and after every step: a fault stops the run before a row is streamed.
LEMMA FaultInvNext ==
  SelectInv /\ FaultInv /\ [Next]_selectVars => FaultInv'
<1> SUFFICES ASSUME SelectInv, FaultInv, [Next]_selectVars  PROVE FaultInv'
  OBVIOUS
<1>1. query.fault \in {"none", "garbled", "short", "unreadable", "columns"}
  BY SelectAssumption DEF SelectInv
<1>2. CASE Parse
  BY <1>2 DEF FaultInv, Parse, Refuse, Raise, Goto
<1>3. CASE SendFile
  BY <1>3 DEF FaultInv, SendFile
<1>4. CASE Open
  BY <1>4 DEF FaultInv, Open, Uncaught, Refuse, Raise, Goto
<1>5. CASE Plan
  BY <1>5 DEF FaultInv, Plan, Refuse, Raise
<1>6. CASE Read \/ ReadAll
  BY <1>6 DEF SelectInv, FaultInv, Read, ReadAll, Gives, ReaderFails
<1>7. CASE ReadOverflows \/ Unreadable \/ FilterFails
  BY <1>7 DEF FaultInv, ReadOverflows, Unreadable, FilterFails, Refuse, Raise
<1>8. CASE Filter
  BY <1>1, <1>8 DEF FaultInv, Filter
<1>9. CASE SendBatch
  <2>1. Offset < Size(rows) /\ ~Unwritable(query.request) /\ stage = "streaming"
    BY <1>9 DEF SendBatch
  <2>2. query.fault = "none"
    BY <2>1, NothingToSend DEF FaultInv
  <2> QED  BY <1>9, <2>1, <2>2 DEF FaultInv, SendBatch
<1>10. CASE BatchFails \/ SendEnd
  BY <1>10 DEF FaultInv, BatchFails, SendEnd
<1>11. CASE UNCHANGED selectVars
  BY <1>11 DEF FaultInv, selectVars
<1> QED  BY <1>2, <1>3, <1>4, <1>5, <1>6, <1>7, <1>8, <1>9, <1>10, <1>11 DEF Next

\* The literals that are compared with columns are in the condition,
LEMMA ScalarsAreOperands ==
  ASSUME NEW d, NEW kinds, NEW s \in Scalars(d, kinds)
  PROVE  s[2] \in Operands(d) /\ s[2].is = "literal"
<1>1. PICK t \in Comparisons(d) : s \in {<<t[2], t[3]>>, <<t[3], t[2]>>}
  BY DEF Scalars
<1>2. t[2] \in Operands(d) /\ t[3] \in Operands(d)
  BY DEF Comparisons, Operands
<1>3. s[2] \in {t[2], t[3]}
  BY <1>1
<1>4. s[2].is = "literal"
  BY DEF Scalars
<1> QED  BY <1>2, <1>3, <1>4

\* and so are those that are pushed.
LEMMA PushedAreOperands ==
  ASSUME NEW c \in Trees, NEW kinds, NEW format, NEW p \in Pushed(c, kinds, format),
         NEW l \in p.values
  PROVE  \E d \in PartsOf(c) \cap Leaves : l \in Operands(d) /\ l.is = "literal"
<1>1. PICK part \in Conjuncts(c) : p \in Predicates(part, kinds, format)
  BY DEF Pushed
<1>2. part \in Trees /\ PartsOf(part) \subseteq PartsOf(c)
  BY ConjunctsAreParts
<1> DEFINE d == Inner(part)
           neg == d # part
<1>3. d.is \in {"comparison", "isnull", "in", "between"}
  BY <1>1 DEF Predicates
<1>4. d \in PartsOf(part) /\ d \in Leaves
  <2>1. CASE d = part
    BY <1>2, <1>3, <2>1, PartsEquation, TreeShape
  <2>2. CASE d # part
    <3>1. part.is = "not" /\ d = part.operand
      BY <2>2 DEF Inner
    <3>2. d \in Trees
      BY <1>2, <3>1, TreeShape
    <3>3. d \in PartsOf(d) /\ PartsOf(d) \subseteq PartsOf(part)
      BY <1>2, <1>3, <3>1, <3>2, PartsEquation
    <3> QED  BY <1>3, <3>2, <3>3, TreeShape
  <2> QED  BY <2>1, <2>2
<1>5. \/ d.is = "comparison" /\ p \in PushComparison(d, neg, kinds, format)
      \/ d.is = "isnull" /\ p \in PushNullTest(d, neg, kinds, format)
      \/ d.is = "in" /\ p \in PushList(d, neg, kinds, format)
      \/ d.is = "between" /\ p \in PushBetween(d, kinds, format)
  BY <1>1, <1>3 DEF Predicates
<1> HIDE DEF d, neg
<1>6. l \in Operands(d) /\ l.is = "literal"
  <2>0. \A o, r, v, k : Predicate(o, r, v, k, kinds).values = v
    BY DEF Predicate
  <2>1. CASE d.is = "comparison"
    <3>1. /\ l \in {d.left, d.right} /\ l.is = "literal"
      BY <1>5, <2>0, <2>1 DEF PushComparison
    <3> QED  BY <2>1, <3>1 DEF Operands
  <2>2. CASE d.is = "isnull"
    <3>1. \E r, k : p = Predicate(d.operand, r, {}, k, kinds)
      BY <1>5, <2>2, Zenon DEF PushNullTest
    <3> QED  BY <2>0, <3>1
  <2>3. CASE d.is = "in"
    <3>1. \E r, k : p = Predicate(d.operand, r, d.values, k, kinds)
      BY <1>5, <2>3, Zenon DEF PushList
    <3>2. l \in d.values
      BY <2>0, <3>1
    <3>3. IsLiteral(l)
      BY <1>4, <2>3, <3>2, LeafShape
    <3> QED  BY <2>3, <3>2, <3>3 DEF Operands, IsLiteral, Literal
  <2>4. CASE d.is = "between"
    <3>1. l \in {d.low, d.high} /\ LiteralBounds(d)
      BY <1>5, <2>0, <2>4 DEF PushBetween
    <3> QED  BY <2>4, <3>1 DEF Operands, LiteralBounds
  <2> QED  BY <1>3, <2>1, <2>2, <2>3, <2>4 DEF d
<1> QED  BY <1>2, <1>4, <1>6

\* Something overflows only if an int of the condition is too large.
LEMMA OverflowIsWide ==
  ASSUME SelectInv, [Next]_selectVars, raised' = "OverflowError", raised = "none"
  PROVE  ~Without /\ HasWide(query.where)
<1>1. \A l, k : Overflows(l, k) \/ MayOverflow(l, k) => l.kind = "int" /\ l.value \in Wide
  BY LiteralAssumption DEF Overflows, MayOverflow
<1>2. ASSUME ~Without, NEW p \in Pushed(query.where, ColumnKinds, SourceFormat),
             NEW l \in p.values, Overflows(l, p.kind) \/ MayOverflow(l, p.kind)
      PROVE  HasWide(query.where)
  <2>1. query.where \in Trees
    BY <1>2, QueryShape DEF SelectInv, Without
  <2>2. \E d \in PartsOf(query.where) \cap Leaves : l \in Operands(d) /\ l.is = "literal"
    BY <2>1, PushedAreOperands
  <2> QED  BY <1>1, <1>2, <2>2 DEF HasWide
<1>3. CASE Plan
  <2>1. Overflowing
    BY <1>3 DEF Plan, Refuse, Raise
  <2> QED  BY <1>2, <2>1 DEF Overflowing, PlanOverflows
<1>4. CASE ReadOverflows
  <2>1. ReaderOverflows(pushed) /\ Planned(pushed, residual)
    BY <1>4 DEF ReadOverflows, SelectInv
  <2>2. ~Without /\ pushed = Pushed(query.where, ColumnKinds, SourceFormat)
    BY <2>1 DEF ReaderOverflows, Planned
  <2> QED  BY <1>2, <2>1, <2>2 DEF ReaderOverflows
<1>5. CASE FilterFails
  <2>1. Planned(pushed, residual) /\ query \in Queries
    BY <1>5 DEF FilterFails, SelectInv
  <2>2. PICK part \in residual :
          MaskOverflows(part, MorselKinds) \/ KernelOverflows(part, MorselKinds)
    BY <1>5 DEF FilterFails, Refuse, Raise
  <2>3. PICK d \in PartsOf(part) \cap Leaves : \E s \in Scalars(d, MorselKinds) :
          \/ Overflows(s[2], KindOf(s[1], MorselKinds))
          \/ MayOverflow(s[2], KindOf(s[1], MorselKinds))
    BY <2>2 DEF MaskOverflows, KernelOverflows
  <2>4. PICK s \in Scalars(d, MorselKinds) : s[2].kind = "int" /\ s[2].value \in Wide
    BY <1>1, <2>3
  <2>5. s[2] \in Operands(d) /\ s[2].is = "literal"
    BY ScalarsAreOperands
  <2>6. ~Without /\ PartsOf(part) \subseteq PartsOf(query.where)
    <3>1. ~Without
      BY <2>1 DEF Planned
    <3>2. query.where \in Trees /\ (part = query.where \/ part \in Conjuncts(query.where))
      BY <2>1, <3>1, QueryShape DEF Planned, Residual, Without
    <3> QED  BY <3>1, <3>2, ConjunctsAreParts
  <2> QED  BY <2>3, <2>4, <2>5, <2>6 DEF HasWide
<1>6. CASE Parse \/ SendFile \/ Open \/ Read \/ ReadAll \/ Unreadable \/ Filter
           \/ SendBatch \/ BatchFails \/ SendEnd \/ UNCHANGED selectVars
  BY <1>6 DEF Parse, SendFile, Open, Read, ReadAll, Unreadable, Filter, SendBatch, BatchFails,
              SendEnd, Gives, Refuse, Raise, Goto, selectVars
<1> QED  BY <1>3, <1>4, <1>5, <1>6 DEF Next

\* The step that ends a run
LEMMA FaultsAreToldNext ==
  SelectInv /\ FaultInv /\ FaultsAreTold /\ [Next]_selectVars => FaultsAreTold'
<1> SUFFICES ASSUME SelectInv, FaultInv, FaultsAreTold, [Next]_selectVars, stage' = "over"
             PROVE  FaultsAreTold'
  BY DEF FaultsAreTold
<1> DEFINE Hopeless == (query.fault # "none" /\ ~Untouched) \/ Unwritable(query.request)
<1>1. CASE Parse \/ Open \/ Plan \/ Read \/ ReadAll \/ ReadOverflows \/ Unreadable \/ Filter
           \/ FilterFails
  <2>1. events = << >> /\ events' = events /\ query' = query /\ raised = "none"
    BY <1>1 DEF FaultInv, Parse, Open, Plan, Read, ReadAll, ReadOverflows, Unreadable, Filter,
                FilterFails, Gives, Refuse, Raise, Goto
  <2>2. \/ raised' \in {"none", "S3Error", "OverflowError"}
        \/ raised' = "ValueError" /\ query.request.expression = "outsized"
        \/ raised' = "ValueError" /\ query.fault = "short" /\ Compression(query.request) = "BZIP2"
        \/ raised' = "csv.Error" /\ query.fault = "unreadable" /\ SourceFormat = "csv"
    BY <1>1, <2>1 DEF Parse, Open, Uncaught, Plan, Read, ReadAll, ReadOverflows, Unreadable,
                Filter, FilterFails, Gives, Refuse, Raise, Goto
  <2>3. raised' = "OverflowError" => ~Without /\ HasWide(query.where)
    BY <2>1, OverflowIsWide
  <2>4. (Without' <=> Without) /\ SourceFormat' = SourceFormat
    BY <2>1, QueryKept
  <2>5. Sent' = {}
    BY <2>1 DEF Sent
  <2>6. HasWide(query.where)' <=> HasWide(query.where)
    BY <2>1 DEF HasWide
  <2> QED  BY <2>1, <2>2, <2>3, <2>4, <2>5, <2>6 DEF FaultsAreTold
<1>2. CASE SendFile
  <2>1. query' = query /\ raised' = "none"
    BY <1>2 DEF SendFile, FaultInv
  <2>2. Untouched /\ ~Unwritable(query.request)
    BY <1>2 DEF SendFile, Untouched, OutputFormat, Unwritable
  <2>3. Untouched'
    BY <2>1, <2>2, QueryKept
  <2> QED  BY <2>1, <2>2, <2>3 DEF FaultsAreTold
<1>3. CASE SendBatch
  BY <1>3 DEF SendBatch
<1>4. CASE BatchFails \/ SendEnd
  <2>1. query' = query /\ raised' = "none" /\ stage = "streaming"
    BY <1>4 DEF BatchFails, SendEnd, FaultInv
  <2>2. SUFFICES ASSUME query.fault # "none" \/ Unwritable(query.request)  PROVE Sent' = {}
    BY <2>1 DEF FaultsAreTold
  <2>3. events = << >>
    BY <2>1, <2>2 DEF FaultInv
  <2>4. events' = <<ErrorEvent>> \/ events' = <<Stats(Cardinality(Sent)), End>>
    BY <1>4, <2>3 DEF BatchFails, SendEnd
  <2>5. \A k \in DOMAIN events' : events'[k].is # "Records"
    BY <2>4 DEF ErrorEvent, Stats, End
  <2> QED  BY <2>5 DEF Sent
<1>5. CASE UNCHANGED selectVars
  <2>1. query' = query /\ events' = events /\ raised' = raised /\ stage' = stage
    BY <1>5 DEF selectVars
  <2>2. /\ Sent' = Sent /\ (Untouched' <=> Untouched) /\ (Without' <=> Without)
        /\ SourceFormat' = SourceFormat
    BY <2>1, QueryKept DEF Sent
  <2>3. HasWide(query.where)' <=> HasWide(query.where)
    BY <2>1 DEF HasWide
  <2> QED  BY <2>1, <2>2, <2>3 DEF FaultsAreTold
<1> QED  BY <1>1, <1>2, <1>3, <1>4, <1>5 DEF Next

\* A run that raises sends nothing, and raises an S3Error but for a number that Python finds
\* too large, a bzip2 object that is cut off and a CSV whose first line csv does not read; no
\* row is sent of an object with a fault, nor for an output that cannot be written.
THEOREM FaultsAreToldAlways == Spec => []FaultsAreTold
<1>1. Init => FaultsAreTold
  BY DEF Init, FaultsAreTold
<1> QED
  BY <1>1, SelectInvInit, SelectInvNext, FaultInvInit, FaultInvNext, FaultsAreToldNext, PTL DEF Spec

\* The columns that are read are all that the SELECT and what is left of the condition look
\* at, and each name stands among them for the column it stands for among all.
THEOREM AsksForEnoughAlways == Spec => []AsksForEnough
<1>1. SelectInv => AsksForEnough
  <2> SUFFICES ASSUME SelectInv, stage = "read",
                      NEW c \in SelectedColumns \cup UNION {ColumnsIn(part) : part \in residual}
               PROVE  Matching(names, c) = Matching(ToSet(S3Names), c)
    BY DEF AsksForEnough
  <2>1. /\ query \in Queries /\ ~ProjectionRefused /\ names = Asked
        /\ Planned(pushed, residual)
    BY DEF SelectInv
  <2>2. c \in NeededColumns
    <3>1. CASE c \in SelectedColumns
      BY <3>1 DEF NeededColumns
    <3>2. CASE c \notin SelectedColumns
      <4>1. PICK part \in residual : c \in ColumnsIn(part)
        BY <3>2
      <4> QED  BY <2>1, <4>1, PlannedParts
    <3> QED  BY <3>1, <3>2
  <2> QED  BY <2>1, <2>2, AskedIsEnough
<1> QED  BY <1>1, SelectInvAlways, PTL
-----------------------------------------------------------------------------
(* The rows that are kept                                                  *)

\* compile_mask can be trusted with the condition.
Trusted == Without \/ Harmless(query.where)

\* LIMIT only leaves rows out.
LEMMA FirstOfRows ==
  ASSUME NEW S
  PROVE  FirstOf(S) \subseteq S
BY DEF FirstOf

\* The rows of the morsel that the residual is true of are the selected ones.
LEMMA MorselFiltered ==
  ASSUME query \in Queries, ~ProjectionRefused, Trusted,
         NEW P, NEW R, Planned(P, R), ~RejectedPredicates(P, ColumnKinds)
  PROVE  {i \in Kept(P) : \A part \in R :
            Mask(part, Morsel(P)[i], Restrict(ColumnKinds, Asked)) = Yes} = Selected
<1> DEFINE few == Restrict(ColumnKinds, Asked)
<1>1. DOMAIN Table = DOMAIN query.table
        /\ \A i \in DOMAIN Table : DOMAIN ColumnKinds = DOMAIN Table[i]
  BY TableRows
<1>2. Kept(P) \subseteq DOMAIN Table /\ Selected \subseteq DOMAIN Table
  BY <1>1 DEF Kept, Selected
<1>3. ASSUME NEW i \in Kept(P), NEW part \in R
      PROVE  Mask(part, Morsel(P)[i], few) = Yes <=> Meaning(part, Table[i], ColumnKinds) = Yes
  <2>1. Morsel(P)[i] = Restrict(Table[i], Asked)
    BY DEF Morsel
  <2>2. /\ IsRow(Table[i]) /\ Asked \in SUBSET DOMAIN Table[i]
        /\ SameAmong(Asked, Table[i], NeededColumns)
    BY <1>2, NarrowRow
  <2>3. part \in Trees /\ ColumnsIn(part) \subseteq NeededColumns
    BY PlannedParts
  <2>4. Mask(part, Morsel(P)[i], few) = Mask(part, Table[i], ColumnKinds)
    BY <1>1, <1>2, <2>1, <2>2, <2>3, MaskNarrowed DEF SameAmong
  <2>5. ~Without
    BY DEF Planned
  <2>6. Harmless(part)
    BY <2>5, PlannedParts DEF Trusted
  <2> QED  BY <1>1, <1>2, <2>2, <2>3, <2>4, <2>6, MaskKeepsTrueRows
<1>4. ASSUME NEW i \in DOMAIN Table
      PROVE  i \in Selected <=>
               i \in Kept(P) /\ \A part \in R : Meaning(part, Table[i], ColumnKinds) = Yes
  BY SelectedRows
<1> QED  BY <1>2, <1>3, <1>4

\* The limit and the projection give the same of the morsel and of the table.
LEMMA AnswerIsGiven ==
  ASSUME query \in Queries, ~ProjectionRefused, NEW P
  PROVE  Selected \subseteq Kept(P) =>
           ProjectedAll(Restrict(Morsel(P), FirstOf(Selected))) = Answer
<1> SUFFICES ASSUME Selected \subseteq Kept(P)
             PROVE  ProjectedAll(Restrict(Morsel(P), FirstOf(Selected))) = Answer
  OBVIOUS
<1> DEFINE S == FirstOf(Selected)
<1>1. S \subseteq Kept(P) /\ S \subseteq DOMAIN Table
  BY FirstOfRows DEF Selected
<1>2. \A i \in S : Projected(Restrict(Table[i], Asked)) = Projected(Table[i])
  BY <1>1, NarrowRow
<1>3. ProjectedAll(Restrict(Morsel(P), S)) = [i \in S |-> Projected(Restrict(Table[i], Asked))]
  <2>1. DOMAIN Restrict(Morsel(P), S) = S
    BY DEF Restrict
  <2>2. \A i \in S : Restrict(Morsel(P), S)[i] = Restrict(Table[i], Asked)
    BY <1>1 DEF Restrict, Morsel
  <2> QED  BY <2>1, <2>2 DEF ProjectedAll
<1>4. Answer = [i \in S |-> Projected(Table[i])]
  <2>1. DOMAIN Restrict(Table, S) = S /\ \A i \in S : Restrict(Table, S)[i] = Table[i]
    BY DEF Restrict
  <2> QED  BY <2>1 DEF ProjectedAll, Answer
<1> QED  BY <1>2, <1>3, <1>4

\* If the reader keeps no row, the answer has none.
LEMMA NothingSelected ==
  ASSUME query \in Queries, NEW P, NEW R, Planned(P, R), ~RejectedPredicates(P, ColumnKinds),
         Kept(P) = {}
  PROVE  Answer = NoRows
<1>1. Selected = {}
  <2>1. Selected \subseteq DOMAIN Table
    BY DEF Selected
  <2> QED  BY <2>1, SelectedRows
<1>2. FirstOf(Selected) = {}
  BY <1>1, FirstOfRows
<1>3. DOMAIN Restrict(Table, FirstOf(Selected)) = {}
  BY <1>2 DEF Restrict
<1> QED  BY <1>3 DEF Answer, ProjectedAll, NoRows

TrueRows == stage = "streaming" /\ Trusted => rows = Answer

\* The step that begins to stream gives the answer, and none changes it after that.
LEMMA TrueRowsNext ==
  SelectInv /\ TrueRows /\ [Next]_selectVars => TrueRows'
<1> SUFFICES ASSUME SelectInv, TrueRows, [Next]_selectVars, stage' = "streaming", Trusted'
             PROVE  rows' = Answer'
  BY DEF TrueRows
<1>1. query' = query
  BY DEF Next, selectVars, Parse, SendFile, Open, Plan, Read, ReadAll, ReadOverflows, Unreadable,
         Filter, FilterFails, SendBatch, BatchFails, SendEnd, Gives, Refuse, Raise, Goto
<1>2. Answer' = Answer /\ Trusted
  BY <1>1, QueryKept, RowsKept DEF Trusted
<1>3. SUFFICES rows' = Answer
  BY <1>2
<1>4. query \in Queries
  BY DEF SelectInv
<1>5. CASE Read \/ ReadAll
  <2>1. PICK P, R : Gives(P, R) /\ Planned(P, R) /\ ~RejectedPredicates(P, ColumnKinds)
    <3>1. Planned(pushed, residual)
      BY <1>5 DEF SelectInv, Read, ReadAll
    <3>2. Read => Gives(pushed, residual) /\ ~RejectedPredicates(pushed, ColumnKinds)
      BY DEF Read, ReaderFails
    <3>3. ReadAll => Gives({}, {query.where}) /\ Planned({}, {query.where})
      BY <3>1 DEF ReadAll, Planned
    <3>4. ~RejectedPredicates({}, ColumnKinds)
      BY DEF RejectedPredicates
    <3> QED  BY <1>5, <3>1, <3>2, <3>3, <3>4
  <2>2. Kept(P) = {} /\ rows' = rows
    BY <2>1 DEF Gives
  <2>3. rows = NoRows
    BY <1>5 DEF SelectInv, Read, ReadAll
  <2> QED  BY <1>4, <2>1, <2>2, <2>3, NothingSelected
<1>6. CASE Filter
  <2>1. /\ ~ProjectionRefused /\ Planned(pushed, residual) /\ rows = Morsel(pushed)
        /\ ~RejectedPredicates(pushed, ColumnKinds) /\ names = Asked
        /\ rows' = ProjectedAll(Restrict(rows, FirstOf({i \in DOMAIN rows : Chosen(rows[i])})))
    BY <1>6 DEF SelectInv, Filter
  <2> DEFINE few == Restrict(ColumnKinds, Asked)
  <2>2. {i \in DOMAIN rows : Chosen(rows[i])}
          = {i \in Kept(pushed) : \A part \in residual : Mask(part, Morsel(pushed)[i], few) = Yes}
    <3>1. DOMAIN Morsel(pushed) = Kept(pushed)
      BY DEF Morsel
    <3> QED  BY <2>1, <3>1 DEF Chosen, MorselKinds
  <2>3. {i \in Kept(pushed) : \A part \in residual : Mask(part, Morsel(pushed)[i], few) = Yes}
          = Selected
    BY <1>2, <1>4, <2>1, MorselFiltered
  <2>4. Selected \subseteq Kept(pushed)
    BY <2>3
  <2>5. ProjectedAll(Restrict(Morsel(pushed), FirstOf(Selected))) = Answer
    BY <1>4, <2>1, <2>4, AnswerIsGiven
  <2> QED  BY <2>1, <2>2, <2>3, <2>5
<1>7. CASE SendBatch
  BY <1>2, <1>7 DEF TrueRows, SendBatch
<1>8. CASE Parse \/ SendFile \/ Open \/ Plan \/ ReadOverflows \/ Unreadable \/ FilterFails
           \/ BatchFails \/ SendEnd
  BY <1>8 DEF Parse, SendFile, Open, Plan, ReadOverflows, Unreadable, FilterFails, BatchFails,
              SendEnd, Refuse, Raise, Goto
<1>9. CASE UNCHANGED selectVars
  BY <1>2, <1>9 DEF TrueRows, selectVars
<1> QED  BY <1>5, <1>6, <1>7, <1>8, <1>9 DEF Next

\* The rows that are streamed are the rows that SQL selects, in the columns of the SELECT,
\* whatever was pushed to the reader and whatever the columns are called there, unless the
\* condition has a BETWEEN with NULL for a bound that is denied: those may be lost.
THEOREM KeepsTrueRowsAlways ==
  Spec => [](Without \/ Harmless(query.where) => KeepsTrueRows)
<1>1. Init => TrueRows
  BY DEF Init, TrueRows
<1>2. TrueRows => (Without \/ Harmless(query.where) => KeepsTrueRows)
  BY DEF TrueRows, Trusted, KeepsTrueRows
<1> QED  BY <1>1, <1>2, SelectInvInit, SelectInvNext, TrueRowsNext, PTL DEF Spec
-----------------------------------------------------------------------------
(* The stream                                                              *)

\* The place of a row among finitely many
LEMMA Ranks ==
  ASSUME NEW D \in SUBSET Nat, IsFiniteSet(D)
  PROVE  /\ Cardinality(D) \in Nat
         /\ \A i \in D : Rank(D, i) \in 1..Cardinality(D)
         /\ \A i, j \in D : i < j => Rank(D, i) < Rank(D, j)
<1> DEFINE Below(i) == {j \in D : j <= i}
<1>1. \A i : IsFiniteSet(Below(i)) /\ Cardinality(Below(i)) \in Nat
               /\ Cardinality(Below(i)) <= Cardinality(D)
  BY FS_Subset, FS_CardinalityType
<1>2. Cardinality(D) \in Nat
  BY FS_CardinalityType
<1>3. \A i : Rank(D, i) = Cardinality(Below(i))
  BY DEF Rank
<1>4. ASSUME NEW i \in D  PROVE Cardinality(Below(i)) # 0
  <2>4. i \in Below(i)
    OBVIOUS
  <2> QED  BY <1>1, <2>4, FS_EmptySet
<1>5. ASSUME NEW i \in D, NEW j \in D, i < j
      PROVE  Cardinality(Below(i)) < Cardinality(Below(j))
  <2> i \in Nat /\ j \in Nat
    OBVIOUS
  <2>1. \A k \in Below(i) : k \in Below(j)
    BY <1>5
  <2>2. j \in Below(j)
    OBVIOUS
  <2>3. j \notin Below(i)
    BY <1>5
  <2>4. Below(i) \in SUBSET Below(j) /\ j \in Below(j) /\ j \notin Below(i)
    BY <2>1, <2>2, <2>3
  <2>5. Cardinality(Below(i)) <= Cardinality(Below(j))
    BY <1>1, <2>4, FS_Subset
  <2>6. Cardinality(Below(i)) # Cardinality(Below(j))
    BY <1>1, <2>4, FS_Subset
  <2> QED  BY <1>1, <2>5, <2>6
<1> HIDE DEF Below
<1> QED  BY <1>1, <1>2, <1>3, <1>4, <1>5

\* Multiples of a number
LEMMA Times ==
  ASSUME NEW b \in Nat, NEW m \in Nat, NEW n \in Nat
  PROVE  /\ m * b \in Nat /\ (m + 1) * b = m * b + b /\ m * b = b * m
         /\ m <= n => m * b <= n * b
<1>1. m * b \in Nat /\ (m + 1) * b = m * b + b /\ m * b = b * m
  OBVIOUS
<1>2. ASSUME m <= n  PROVE m * b <= n * b
  <2>1. (n - m) \in Nat /\ (n - m) * b \in Nat
    BY <1>2
  <2>2. n * b = m * b + (n - m) * b
    OBVIOUS
  <2> QED  BY <1>1, <2>1, <2>2
<1> QED  BY <1>1, <1>2

\* What the event k holds
Slice(k) == IF Batchable THEN Cut((k - 1) * BatchRows, k * BatchRows) ELSE rows

\* The events so far
StreamInv ==
  stage = "streaming" =>
    /\ events \in Seq(Range(events))
    /\ \A k \in 1..Len(events) : events[k] = Records(Slice(k))
    /\ ~Batchable => Len(events) <= 1

\* The positions of the rows
LEMMA RowsAreFinite ==
  ASSUME SelectInv
  PROVE  DOMAIN rows \in SUBSET Nat /\ IsFiniteSet(DOMAIN rows)
<1>1. DOMAIN query.table = 1..Len(query.table) /\ Len(query.table) \in Nat
  BY QueryShape DEF SelectInv
<1>2. IsFiniteSet(DOMAIN query.table) /\ DOMAIN query.table \subseteq Nat
  BY <1>1, FS_Interval
<1> QED  BY <1>2, FS_Subset DEF SelectInv

\* The lesser of two numbers
LEMMA MinOfTwo ==
  ASSUME NEW a \in Int, NEW b \in Int
  PROVE  Min({a, b}) = IF a <= b THEN a ELSE b
<1>1. PICK m : m = (IF a <= b THEN a ELSE b)
  OBVIOUS
<1>2. m \in {a, b} /\ \A y \in {a, b} : m <= y
  BY <1>1
<1>3. \A x \in {a, b} : (\A y \in {a, b} : x <= y) => x = m
  BY <1>1
<1> QED  BY <1>1, <1>2, <1>3 DEF Min

\* A batch ends where the next one begins, or has the last row.
LEMMA BatchIsSlice ==
  ASSUME SelectInv, NEW m \in Nat, Offset = BatchRows * m \/ ~Batchable
  PROVE  Batch(Offset) = Slice(m + 1)
<1>1. CASE ~Batchable
  BY <1>1 DEF Batch, Slice
<1>2. CASE Batchable
  <2> DEFINE n == BatchRows * m
             size == Size(rows)
             to == Min({n + BatchRows, size})
  <2>1. BatchRows \in Nat
    BY SelectAssumption
  <2>2. n \in Nat /\ (m + 1 - 1) * BatchRows = n /\ (m + 1) * BatchRows = n + BatchRows
    BY <2>1, Times
  <2>3. /\ size \in Nat
        /\ \A i \in DOMAIN rows : Rank(DOMAIN rows, i) \in 1..size
    BY RowsAreFinite, Ranks DEF Size
  <2>4. to = IF n + BatchRows <= size THEN n + BatchRows ELSE size
    BY <2>1, <2>2, <2>3, MinOfTwo
  <2>5. Batch(Offset) = Cut(n, to)
    BY <1>2 DEF Batch
  <2>6. Slice(m + 1) = Cut(n, n + BatchRows)
    BY <1>2, <2>2 DEF Slice
  <2> HIDE DEF n, size, to
  <2>7. \A i \in DOMAIN rows :
          Rank(DOMAIN rows, i) \in n + 1..to <=> Rank(DOMAIN rows, i) \in n + 1..n + BatchRows
    BY <2>1, <2>2, <2>3, <2>4
  <2>8. {i \in DOMAIN rows : Rank(DOMAIN rows, i) \in n + 1..to}
          = {i \in DOMAIN rows : Rank(DOMAIN rows, i) \in n + 1..n + BatchRows}
    BY <2>7
  <2> QED  BY <2>5, <2>6, <2>8 DEF Cut
<1> QED  BY <1>1, <1>2

\* A sequence is one of its own elements.
LEMMA SequenceOfItself ==
  ASSUME NEW S, NEW s \in Seq(S)
  PROVE  s \in Seq(Range(s)) /\ Range(s) \subseteq S
<1>1. Len(s) \in Nat /\ s \in [1..Len(s) -> S] /\ DOMAIN s = 1..Len(s)
  BY LenProperties
<1>2. s \in [1..Len(s) -> Range(s)] /\ Range(s) \subseteq S
  BY <1>1 DEF Range
<1> QED  BY <1>1, <1>2

\* A sequence with one element more
LEMMA Appended ==
  ASSUME NEW s, s \in Seq(Range(s)), NEW e
  PROVE  /\ Len(s) \in Nat /\ DOMAIN s = 1..Len(s)
         /\ Append(s, e) \in Seq(Range(Append(s, e)))
         /\ Len(Append(s, e)) = Len(s) + 1
         /\ \A i \in 1..Len(s) : Append(s, e)[i] = s[i]
         /\ Append(s, e)[Len(s) + 1] = e
<1> DEFINE S == Range(s) \cup {e}
<1>1. Len(s) \in Nat /\ DOMAIN s = 1..Len(s) /\ s \in [1..Len(s) -> Range(s)]
  BY LenProperties
<1>2. s \in Seq(S) /\ e \in S
  BY <1>1
<1> HIDE DEF S
<1>3. /\ Append(s, e) \in Seq(S) /\ Len(Append(s, e)) = Len(s) + 1
      /\ \A i \in 1..Len(s) : Append(s, e)[i] = s[i]
      /\ Append(s, e)[Len(s) + 1] = e
  BY <1>2, AppendProperties
<1> QED  BY <1>1, <1>3, SequenceOfItself

\* The event that SendBatch appends is the next slice.
LEMMA StreamNext ==
  SelectInv /\ FaultInv /\ StreamInv /\ [Next]_selectVars => StreamInv'
<1> SUFFICES ASSUME SelectInv, FaultInv, StreamInv, [Next]_selectVars, stage' = "streaming"
             PROVE  /\ events' \in Seq(Range(events'))
                    /\ \A k \in 1..Len(events') : events'[k] = Records(Slice(k))'
                    /\ ~Batchable' => Len(events') <= 1
  BY DEF StreamInv
<1>1. CASE Read \/ ReadAll \/ Filter
  <2>1. events' = << >>
    BY <1>1 DEF FaultInv, Read, ReadAll, Filter, Gives
  <2> QED  BY <2>1
<1>2. CASE SendBatch
  <2>1. /\ stage = "streaming" /\ Offset < Size(rows)
        /\ query' = query /\ rows' = rows
        /\ events' = Append(events, Records(Batch(Offset)))
    BY <1>2 DEF SendBatch
  <2> DEFINE m == Len(events)
  <2>2. /\ events \in Seq(Range(events))
        /\ \A k \in 1..m : events[k] = Records(Slice(k))
        /\ ~Batchable => m <= 1
    BY <2>1 DEF StreamInv
  <2>3. /\ m \in Nat /\ DOMAIN events = 1..m
        /\ events' \in Seq(Range(events')) /\ Len(events') = m + 1
        /\ \A k \in 1..m : events'[k] = events[k]
        /\ events'[m + 1] = Records(Batch(Offset))
    BY <2>1, <2>2, Appended
  <2>4. \A k : Slice(k)' = Slice(k)
    <3>1. Batchable' = Batchable
      BY <2>1, QueryKept
    <3> QED  BY <2>1, <3>1 DEF Slice, Cut
  <2>5. Batch(Offset) = Slice(m + 1)
    <3>1. Offset = BatchRows * m \/ ~Batchable
      BY DEF Offset
    <3> QED  BY <2>3, <3>1, BatchIsSlice
  <2>6. ~Batchable => m = 0
    <3>1. ~Batchable /\ events # << >> => Offset = Size(rows)
      BY DEF Offset
    <3>2. Size(rows) \in Nat
      BY RowsAreFinite, Ranks DEF Size
    <3>3. ~Batchable => events = << >>
      BY <2>1, <3>1, <3>2
    <3> QED  BY <3>3
  <2> HIDE DEF m
  <2>7. \A k \in 1..m + 1 : events'[k] = Records(Slice(k))
    <3>1. SUFFICES ASSUME NEW k \in 1..m + 1  PROVE events'[k] = Records(Slice(k))
      OBVIOUS
    <3>2. k = m + 1 \/ k \in 1..m
      BY <2>3
    <3> QED  BY <2>2, <2>3, <2>5, <3>2
  <2> QED  BY <2>1, <2>3, <2>4, <2>6, <2>7, QueryKept DEF Records
<1>3. CASE Parse \/ SendFile \/ Open \/ Plan \/ ReadOverflows \/ Unreadable \/ FilterFails
           \/ BatchFails \/ SendEnd
  BY <1>3 DEF Parse, SendFile, Open, Plan, ReadOverflows, Unreadable, FilterFails, BatchFails,
              SendEnd, Refuse, Raise, Goto
<1>4. CASE UNCHANGED selectVars
  <2>1. query' = query /\ rows' = rows /\ events' = events /\ stage = "streaming"
    BY <1>4 DEF selectVars
  <2>2. Batchable' = Batchable
    BY <2>1, QueryKept
  <2> QED  BY <2>1, <2>2 DEF StreamInv, Slice, Cut, Records
<1> QED  BY <1>1, <1>2, <1>3, <1>4 DEF Next

\* The positions of the rows in the event k
Part(k) ==
  {i \in DOMAIN rows :
     Batchable => Rank(DOMAIN rows, i) \in (k - 1) * BatchRows + 1..k * BatchRows}

\* A slice has the rows at these positions.
LEMMA SliceHasPart ==
  ASSUME NEW S, rows = [i \in S |-> rows[i]], NEW k
  PROVE  DOMAIN Slice(k) = Part(k) /\ Slice(k) = Restrict(rows, Part(k))
<1>1. CASE Batchable
  <2>1. Slice(k) = Restrict(rows, Part(k))
    BY <1>1 DEF Slice, Cut, Part
  <2> QED  BY <2>1 DEF Restrict
<1>2. CASE ~Batchable
  <2>1. Slice(k) = rows /\ Part(k) = DOMAIN rows
    BY <1>2 DEF Slice, Part
  <2> QED  BY <2>1 DEF Restrict
<1> QED  BY <1>1, <1>2

\* The parts follow each other, and the first m of them have the first rows, as many as
\* there are before the next one.
LEMMA PartsInOrder ==
  ASSUME SelectInv, Batchable, NEW m \in Nat
  PROVE  /\ \A k, l \in 1..m : k < l => \A i \in Part(k), j \in Part(l) : i < j
         /\ \A i \in DOMAIN rows :
              (\E k \in 1..m : i \in Part(k)) <=> Rank(DOMAIN rows, i) <= m * BatchRows
<1> DEFINE D == DOMAIN rows
           r(i) == Rank(D, i)
           B == BatchRows
<1>1. D \in SUBSET Nat /\ IsFiniteSet(D)
  BY RowsAreFinite
<1>2. \A i \in D : r(i) \in Nat /\ 1 <= r(i)
  BY <1>1, Ranks
<1>3. \A i, j \in D : i < j => r(i) < r(j)
  BY <1>1, Ranks
<1>4. B \in Nat /\ 1 <= B
  <2>1. B \in Nat \ {0}
    BY SelectAssumption
  <2> HIDE DEF B
  <2> QED  BY <2>1
<1>5. \A i, k : i \in Part(k) <=> i \in D /\ r(i) \in (k - 1) * B + 1..k * B
  BY DEF Part
<1> HIDE DEF r, B, D
<1>6. ASSUME NEW k \in 1..m, NEW l \in 1..m, k < l, NEW i \in Part(k), NEW j \in Part(l)
      PROVE  i < j
  <2>1. k * B <= (l - 1) * B /\ k * B \in Nat /\ (l - 1) * B \in Nat
    BY <1>4, <1>6, Times
  <2>2. i \in D /\ j \in D /\ r(i) <= k * B /\ (l - 1) * B + 1 <= r(j)
    BY <1>5, <1>6
  <2>3. r(i) < r(j)
    BY <1>2, <2>1, <2>2
  <2>4. i \in Nat /\ j \in Nat
    BY <1>1, <2>2
  <2>5. ~(j < i) /\ j # i
    BY <1>2, <1>3, <2>2, <2>3
  <2> QED  BY <2>4, <2>5
<1>7. ASSUME NEW i \in D, NEW k \in 1..m, i \in Part(k)  PROVE r(i) <= m * B
  <2>1. k * B <= m * B /\ k * B \in Nat /\ m * B \in Nat
    BY <1>4, Times
  <2>2. r(i) <= k * B
    BY <1>5, <1>7
  <2> QED  BY <1>2, <2>1, <2>2
<1>8. ASSUME NEW i \in D, r(i) <= m * B  PROVE \E k \in 1..m : i \in Part(k)
  <2> DEFINE T == {n \in Nat : r(i) <= n * B}
  <2>1. m \in T
    BY <1>8
  <2>2. PICK k \in T : \A n \in T : k <= n
    <3>1. T \in SUBSET Nat /\ T # {}
      BY <2>1
    <3> HIDE DEF T
    <3> QED  BY <3>1, LeastNumber
  <2>3. k \in Nat /\ r(i) <= k * B /\ k <= m
    BY <2>1, <2>2
  <2>4. k # 0
    <3>1. 0 * B = 0
      BY <1>4
    <3> QED  BY <1>2, <2>3, <3>1
  <2>5. k - 1 \in Nat /\ ~(r(i) <= (k - 1) * B) /\ (k - 1) * B \in Nat /\ k * B \in Nat
    <3>1. k - 1 \in Nat
      BY <2>3, <2>4
    <3>2. k - 1 \notin T
      BY <2>2, <2>3, <3>1
    <3> QED  BY <1>4, <2>3, <3>1, <3>2, Times
  <2>6. r(i) \in (k - 1) * B + 1..k * B
    BY <1>2, <2>3, <2>5
  <2> QED  BY <1>5, <2>3, <2>4, <2>6
<1> QED  BY <1>6, <1>7, <1>8 DEF D, r, B

\* What was sent while the rows are streamed
LEMMA StreamedSoFar ==
  ASSUME SelectInv, StreamInv, stage = "streaming", rows = Answer
  PROVE  /\ FromAnswer(Len(events))
         /\ \A i \in SentUpTo(Len(events)), j \in DOMAIN Answer :
              j < i => j \in SentUpTo(Len(events))
         /\ Offset >= Size(rows) => SentUpTo(Len(events)) = DOMAIN Answer
         /\ \A i \in SentUpTo(Len(events)) :
              \E k \in 1..Len(events) : i \in Part(k)
         /\ \A k \in 1..Len(events) : events[k] = Records(Slice(k)) /\ DOMAIN Slice(k) = Part(k)
<1> DEFINE m == Len(events)
           D == DOMAIN rows
<1>1. /\ m \in Nat /\ (~Batchable => m <= 1)
      /\ \A k \in 1..m : events[k] = Records(Slice(k))
  <2>1. events \in Seq(Range(events))
    BY DEF StreamInv
  <2> QED  BY <2>1, LenProperties DEF StreamInv
<1>2. \A k : DOMAIN Slice(k) = Part(k) /\ Slice(k) = Restrict(rows, Part(k))
  <2>1. rows = [i \in D |-> rows[i]]
    BY DEF Answer, ProjectedAll
  <2> QED  BY <2>1, SliceHasPart
<1>3. \A k : Part(k) \subseteq D
  BY DEF Part
<1>4. \A k \in 1..m : events[k].is = "Records" /\ events[k].rows = Slice(k)
  <2>1. \A part : Records(part).is = "Records" /\ Records(part).rows = part
    BY DEF Records
  <2> QED  BY <1>1, <2>1
<1>5. D \in SUBSET Nat /\ IsFiniteSet(D)
  BY RowsAreFinite
<1>6. /\ Size(rows) \in Nat
      /\ \A i \in D : Rank(D, i) \in 1..Size(rows)
      /\ \A i, j \in D : i < j => Rank(D, i) < Rank(D, j)
  BY <1>5, Ranks DEF Size
<1>7. \A i : i \in SentUpTo(m) <=> \E k \in 1..m : i \in Part(k)
  BY <1>2, <1>4 DEF SentUpTo
<1>8. \A k, l \in 1..m : k < l => \A i \in Part(k), j \in Part(l) : i < j
  <2>1. CASE Batchable
    BY <1>1, <2>1, PartsInOrder
  <2>2. CASE ~Batchable
    BY <1>1, <2>2
  <2> QED  BY <2>1, <2>2
<1>9. FromAnswer(m)
  BY <1>2, <1>3, <1>4, <1>8 DEF FromAnswer
<1>10. /\ \A i \in SentUpTo(m), j \in D : j < i => j \in SentUpTo(m)
       /\ Offset >= Size(rows) => SentUpTo(m) = D
  <2>1. CASE Batchable
    <3> DEFINE n == m * BatchRows
    <3>1. \A i \in D : i \in SentUpTo(m) <=> Rank(D, i) <= n
      BY <1>1, <1>7, <2>1, PartsInOrder
    <3>2. n \in Nat /\ Offset = n
      BY <1>1, <2>1, SelectAssumption, Times DEF Offset
    <3>3. SentUpTo(m) \subseteq D
      BY <1>3, <1>7
    <3> HIDE DEF n, m, D
    <3>4. ASSUME NEW i \in SentUpTo(m), NEW j \in D, j < i  PROVE j \in SentUpTo(m)
      <4>1. Rank(D, i) <= n /\ Rank(D, j) < Rank(D, i)
        BY <1>6, <3>1, <3>3, <3>4
      <4>2. Rank(D, i) \in Nat /\ Rank(D, j) \in Nat
        BY <1>6, <3>3
      <4> QED  BY <3>1, <3>2, <4>1, <4>2
    <3>5. ASSUME Offset >= Size(rows), NEW i \in D  PROVE i \in SentUpTo(m)
      <4>1. Rank(D, i) <= Size(rows) /\ Rank(D, i) \in Nat
        BY <1>6
      <4> QED  BY <1>6, <3>1, <3>2, <3>5, <4>1
    <3> QED  BY <3>3, <3>4, <3>5
  <2>2. CASE ~Batchable
    <3>1. \A k : Part(k) = D
      BY <2>2 DEF Part
    <3>2. CASE m = 0
      <4>1. SentUpTo(m) = {}
        BY <1>7, <3>2
      <4>2. events = << >>
        <5>1. events \in Seq(Range(events))
          BY DEF StreamInv
        <5> QED  BY <3>2, <5>1, EmptySeq
      <4>3. Offset = 0
        BY <2>2, <4>2 DEF Offset
      <4>4. Offset >= Size(rows) => D = {}
        BY <1>5, <1>6, <4>3, FS_EmptySet DEF Size
      <4> QED  BY <4>1, <4>4
    <3>3. CASE m = 1
      <4>1. SentUpTo(m) = D
        BY <1>7, <3>1, <3>3
      <4> QED  BY <4>1
    <3>4. m = 0 \/ m = 1
      <4> HIDE DEF m
      <4> QED  BY <1>1, <2>2
    <3> QED  BY <3>2, <3>3, <3>4
  <2> QED  BY <2>1, <2>2
<1> HIDE DEF D, m
<1> QED  BY <1>1, <1>2, <1>7, <1>9, <1>10 DEF D, m

\* Every row was sent in one event.
LEMMA SentOnce ==
  ASSUME SelectInv, StreamInv, stage = "streaming", rows = Answer, Offset >= Size(rows)
  PROVE  Cardinality(Sent) = Size(Answer)
<1> DEFINE m == Len(events)
           D == DOMAIN rows
           F == [e \in Sent |-> e[2]]
<1>1. /\ FromAnswer(m) /\ SentUpTo(m) = D
      /\ \A i \in SentUpTo(m) : \E k \in 1..m : i \in Part(k)
      /\ \A k \in 1..m : events[k] = Records(Slice(k)) /\ DOMAIN Slice(k) = Part(k)
  BY StreamedSoFar
<1>2. \A k \in 1..m : events[k].is = "Records" /\ DOMAIN events[k].rows = Part(k)
  <2>1. \A part : Records(part).is = "Records" /\ Records(part).rows = part
    BY DEF Records
  <2> QED  BY <1>1, <2>1
<1>3. DOMAIN events = 1..m
  <2>1. events \in Seq(Range(events))
    BY DEF StreamInv
  <2> QED  BY <2>1, LenProperties
<1>4. D \in SUBSET Nat /\ IsFiniteSet(D)
  BY RowsAreFinite
<1>5. \A k, l \in 1..m : k < l => \A i \in Part(k), j \in Part(l) : i < j
  BY <1>1, <1>2 DEF FromAnswer
<1>6. \A k : Part(k) \subseteq D
  BY DEF Part
<1>7. \A e : e \in Sent <=> \E k \in 1..m : e \in {k} \X Part(k)
  BY <1>2, <1>3 DEF Sent
<1> HIDE DEF m, D
<1>8. \A e \in Sent : F[e] \in D
  BY <1>6, <1>7
<1>9. ASSUME NEW a \in Sent, NEW b \in Sent, F[a] = F[b]  PROVE a = b
  <2>1. PICK k \in 1..m : a \in {k} \X Part(k)
    BY <1>7
  <2>2. PICK l \in 1..m : b \in {l} \X Part(l)
    BY <1>7
  <2>3. a = <<k, F[a]>> /\ b = <<l, F[a]>> /\ F[a] \in Part(k) /\ F[a] \in Part(l)
    BY <1>9, <2>1, <2>2
  <2>4. F[a] \in Nat
    BY <1>4, <1>8
  <2> HIDE DEF F
  <2>5. ~(F[a] < F[a])
    BY <2>4
  <2>6. ~(k < l) /\ ~(l < k)
    BY <1>5, <2>3, <2>5
  <2>7. k = l
    BY <2>6
  <2> QED  BY <2>3, <2>7
<1>10. ASSUME NEW i \in D  PROVE \E e \in Sent : F[e] = i
  <2>1. PICK k \in 1..m : i \in Part(k)
    BY <1>1, <1>10
  <2>2. <<k, i>> \in Sent
    BY <1>7, <2>1
  <2> QED  BY <2>2
<1>11. F \in [Sent -> D]
  BY <1>8
<1> HIDE DEF F
<1>12. F \in Bijection(Sent, D)
  BY <1>9, <1>10, <1>11, Fun_IsBij
<1>13. ExistsBijection(D, Sent)
  BY <1>12, Fun_ExistsBij, Fun_ExistsBijSymmetric
<1> QED  BY <1>4, <1>13, FS_Bijection DEF Size, D

\* A Parquet file that is sent as it is is the answer.
LEMMA WholeFile ==
  ASSUME query \in Queries, Untouched
  PROVE  Answer = ProjectedAll(Table) /\ Size(Answer) = Size(Table)
<1>1. Selected = DOMAIN Table /\ FirstOf(Selected) = Selected
  BY DEF Untouched, Selected, FirstOf
<1>2. Restrict(Table, DOMAIN Table) = Table
  BY DEF Restrict, Table
<1>3. Answer = ProjectedAll(Table)
  BY <1>1, <1>2 DEF Answer
<1>4. DOMAIN ProjectedAll(Table) = DOMAIN Table
  BY DEF ProjectedAll
<1> QED  BY <1>3, <1>4 DEF Size

\* How a stream ends: StreamTellsAll, of a stream that has ended
ToldAll(n) ==
  \/ /\ events[n] = End /\ events[n - 1] = Stats(Size(Answer))
     /\ FromAnswer(n - 2) /\ SentUpTo(n - 2) = DOMAIN Answer
  \/ /\ events[n] = ErrorEvent
     /\ FromAnswer(n - 1)
     /\ \A i \in SentUpTo(n - 1), j \in DOMAIN Answer : j < i => j \in SentUpTo(n - 1)

StreamTold == Trusted => StreamTellsAll

\* The step that ends a run: SendFile, BatchFails and SendEnd end the stream as they should,
\* and any other raises.
LEMMA StreamToldNext ==
  SelectInv /\ FaultInv /\ TrueRows /\ StreamInv /\ StreamTold /\ [Next]_selectVars
    => StreamTold'
<1> SUFFICES ASSUME SelectInv, FaultInv, TrueRows, StreamInv, StreamTold, [Next]_selectVars,
                    Trusted', stage' = "over", raised' = "none",
                    NEW CONSTANT n, n = Len(events')
             PROVE  ToldAll(n)'
  BY DEF StreamTold, StreamTellsAll, ToldAll
<1>1. query' = query
  BY DEF Next, selectVars, Parse, SendFile, Open, Plan, Read, ReadAll, ReadOverflows, Unreadable,
         Filter, FilterFails, SendBatch, BatchFails, SendEnd, Gives, Refuse, Raise, Goto
<1>2. Answer' = Answer /\ Trusted
  BY <1>1, QueryKept, RowsKept DEF Trusted
<1>3. ASSUME NEW CONSTANT m \in Nat, \A k \in 1..m : events'[k] = events[k]
      PROVE  (FromAnswer(m)' <=> FromAnswer(m)) /\ SentUpTo(m)' = SentUpTo(m)
  BY <1>2, <1>3 DEF FromAnswer, SentUpTo
<1>4. ASSUME stage = "streaming"
      PROVE  \E m \in Nat :
               /\ events \in Seq(Range(events)) /\ m = Len(events)
               /\ FromAnswer(m)
               /\ \A i \in SentUpTo(m), j \in DOMAIN Answer : j < i => j \in SentUpTo(m)
               /\ Offset >= Size(rows) =>
                    SentUpTo(m) = DOMAIN Answer /\ Cardinality(Sent) = Size(Answer)
  <2>1. rows = Answer /\ events \in Seq(Range(events))
    BY <1>2, <1>4 DEF TrueRows, StreamInv
  <2>2. Len(events) \in Nat
    BY <2>1, LenProperties
  <2> QED  BY <1>4, <2>1, <2>2, StreamedSoFar, SentOnce
<1>5. CASE SendFile
  <2> DEFINE P == ProjectedAll(Table)
  <2>1. Answer = P /\ Size(Answer) = Size(Table)
    BY <1>5, WholeFile DEF SelectInv, SendFile
  <2>2. events' = <<Records(P), Stats(Size(Answer)), End>>
    BY <1>5, <2>1 DEF SendFile
  <2>3. n = 3 /\ events'[3] = End /\ events'[2] = Stats(Size(Answer)) /\ events'[1] = Records(P)
    BY <2>2
  <2>4. Size(Answer)' = Size(Answer)
    BY <1>2 DEF Size
  <2>5. Restrict(P, DOMAIN P) = P
    BY DEF Restrict, ProjectedAll
  <2>6. Records(P).is = "Records" /\ Records(P).rows = P
    BY DEF Records
  <2> HIDE DEF P
  <2>7. FromAnswer(1)' /\ SentUpTo(1)' = DOMAIN Answer'
    BY <1>2, <2>1, <2>3, <2>5, <2>6 DEF FromAnswer, SentUpTo
  <2>8. n - 1 = 2 /\ n - 2 = 1
    BY <2>3
  <2> QED  BY <2>3, <2>4, <2>7, <2>8 DEF ToldAll, Stats, End
<1>6. CASE BatchFails
  <2>1. stage = "streaming" /\ events' = Append(events, ErrorEvent)
    BY <1>6 DEF BatchFails
  <2>2. PICK m \in Nat :
          /\ events \in Seq(Range(events)) /\ m = Len(events)
          /\ FromAnswer(m)
          /\ \A i \in SentUpTo(m), j \in DOMAIN Answer : j < i => j \in SentUpTo(m)
    BY <1>4, <2>1
  <2>3. /\ n = m + 1 /\ events'[n] = ErrorEvent
        /\ \A k \in 1..m : events'[k] = events[k]
    BY <2>1, <2>2, Appended
  <2>4. n - 1 = m
    BY <2>3
  <2>5. /\ FromAnswer(n - 1)' /\ SentUpTo(n - 1)' = SentUpTo(m)
    BY <1>3, <2>2, <2>3, <2>4
  <2> QED  BY <1>2, <2>2, <2>3, <2>5 DEF ToldAll, ErrorEvent
<1>7. CASE SendEnd
  <2>1. /\ stage = "streaming" /\ Offset >= Size(rows)
        /\ events' = events \o <<Stats(Cardinality(Sent)), End>>
    BY <1>7 DEF SendEnd
  <2>2. PICK m \in Nat :
          /\ events \in Seq(Range(events)) /\ m = Len(events)
          /\ FromAnswer(m)
          /\ SentUpTo(m) = DOMAIN Answer /\ Cardinality(Sent) = Size(Answer)
    BY <1>4, <2>1
  <2>3. /\ n = m + 2 /\ events'[n] = End /\ events'[n - 1] = Stats(Size(Answer))
        /\ \A k \in 1..m : events'[k] = events[k]
    <3> DEFINE tail == <<Stats(Size(Answer)), End>>
               S == Range(events) \cup {tail[1], tail[2]}
    <3>1. tail \in Seq(S) /\ Len(tail) = 2
      OBVIOUS
    <3>2. tail[1] = Stats(Size(Answer)) /\ tail[2] = End
      OBVIOUS
    <3>3. events' = events \o tail
      BY <2>1, <2>2
    <3> HIDE DEF tail
    <3>4. events \in Seq(S)
      BY <2>2, LenProperties
    <3> HIDE DEF S
    <3>5. /\ Len(events') = m + 2
          /\ \A k \in 1..m + 2 :
               events'[k] = IF k <= m THEN events[k] ELSE tail[k - m]
      <4>1. /\ Len(events \o tail) = Len(events) + Len(tail)
            /\ \A k \in 1..Len(events) + Len(tail) :
                 (events \o tail)[k] = IF k <= Len(events) THEN events[k] ELSE tail[k - Len(events)]
        BY <3>1, <3>4, ConcatProperties
      <4> QED  BY <2>2, <3>1, <3>3, <4>1
    <3>6. events'[m + 1] = tail[m + 1 - m] /\ events'[m + 2] = tail[m + 2 - m]
      BY <3>5
    <3>7. m + 1 - m = 1 /\ m + 2 - m = 2 /\ m + 2 - 1 = m + 1
      OBVIOUS
    <3>8. \A k \in 1..m : events'[k] = events[k]
      BY <3>5
    <3> QED  BY <3>2, <3>5, <3>6, <3>7, <3>8
  <2>4. n - 2 = m
    BY <2>3
  <2>5. FromAnswer(n - 2)' /\ SentUpTo(n - 2)' = SentUpTo(m)
    BY <1>3, <2>2, <2>3, <2>4
  <2>6. Size(Answer)' = Size(Answer)
    BY <1>2 DEF Size
  <2> QED  BY <1>2, <2>2, <2>3, <2>5, <2>6 DEF ToldAll, Stats, End
<1>8. CASE Parse \/ Open \/ Plan \/ Read \/ ReadAll \/ ReadOverflows \/ Unreadable \/ Filter
           \/ FilterFails \/ SendBatch
  BY <1>8 DEF Parse, Open, Plan, Read, ReadAll, ReadOverflows, Unreadable, Filter, FilterFails,
              SendBatch, Gives, Refuse, Raise, Goto
<1>9. CASE UNCHANGED selectVars
  <2>1. events' = events /\ raised' = raised /\ stage' = stage
    BY <1>9 DEF selectVars
  <2>2. ToldAll(n)
    BY <1>2, <2>1 DEF StreamTold, StreamTellsAll, ToldAll
  <2>3. ASSUME NEW CONSTANT k
        PROVE  (FromAnswer(k)' <=> FromAnswer(k)) /\ SentUpTo(k)' = SentUpTo(k)
    BY <1>2, <2>1 DEF FromAnswer, SentUpTo
  <2>4. Size(Answer)' = Size(Answer)
    BY <1>2 DEF Size
  <2> QED  BY <1>2, <2>1, <2>2, <2>3, <2>4 DEF ToldAll, Stats, End, ErrorEvent
<1> QED  BY <1>5, <1>6, <1>7, <1>8, <1>9 DEF Next

\* A stream that ends with End has every row of the answer once, in order, and Stats that
\* agree with it; one that fails has none but the first of them, no Stats and no End:
\* where compile_mask can be trusted, as in KeepsTrueRowsAlways.
THEOREM StreamTellsAllAlways ==
  Spec => [](Without \/ Harmless(query.where) => StreamTellsAll)
<1>1. Init => TrueRows /\ StreamInv /\ StreamTold
  BY DEF Init, TrueRows, StreamInv, StreamTold, StreamTellsAll
<1>2. StreamTold => (Without \/ Harmless(query.where) => StreamTellsAll)
  BY DEF StreamTold, Trusted
<1> QED
  BY <1>1, <1>2, SelectInvInit, SelectInvNext, FaultInvInit, FaultInvNext, TrueRowsNext,
     StreamNext, StreamToldNext, PTL DEF Spec
=============================================================================
