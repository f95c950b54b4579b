---------------------------- MODULE SelectFilter ----------------------------
(***************************************************************************)
(* The WHERE clause of S3 Select (select/evaluate.py): plan splits it into *)
(* predicates that the reader of the object applies and a residual, which  *)
(* compile_mask evaluates over the rows that were read.                    *)
(*                                                                         *)
(* The values of columns and literals are numbers, in the order the values *)
(* have; the kind of a column or a literal says what they stand for.  Ints *)
(* and floats of one value are one number, FALSE and TRUE are 0 and 1 as   *)
(* they are in Python, and texts are numbers in the order of texts.  The   *)
(* pattern of a LIKE is the set of texts that match it.                    *)
(***************************************************************************)
EXTENDS Conditions, SequencesExt

CONSTANTS
  Height,     \* how deep each condition is nested that is asked or part of one
  Written,    \* literal -> the text that str makes of it; that of a text is itself
  Parsed,     \* kind -> text -> the value of that kind it is read as, if it can be
  Wide,       \* the ints of more than 64 bits
  Huge,       \* those of them that float does not take
  Lower       \* name -> the name in lower case

IsColumn(o) == o.is = "column"
IsLiteral(o) ==
  /\ o = Literal(o.kind, o.value)
  /\ o.kind \in {"int", "float", "bool", "str", "null"}
  /\ o.value \in Int /\ (o.kind = "null" <=> o.value = Null)
IsOperand(o) == IsColumn(o) \/ IsLiteral(o)

\* The conditions: what the parser builds are finite trees.
Trees == DOMAIN Height
IsPart(part, c) == part \in Trees /\ Height[part] < Height[c]
ASSUME TreeAssumption ==
  /\ Height \in [Trees -> Nat]
  /\ \A c \in Trees :
       \/ c.is \in {"and", "or"} /\ IsPart(c.left, c) /\ IsPart(c.right, c)
       \/ c.is = "not" /\ IsPart(c.operand, c)
       \/ /\ c.is = "comparison" /\ c.rel \in {"=", "!=", "<", "<=", ">", ">="}
          /\ IsOperand(c.left) /\ IsOperand(c.right)
       \/ c.is \in {"isnull", "like"} /\ IsOperand(c.operand) /\ c.negated \in BOOLEAN
       \/ /\ c.is = "in" /\ IsOperand(c.operand) /\ c.negated \in BOOLEAN
          /\ c.values # {} /\ \A v \in c.values : IsLiteral(v)
       \/ /\ c.is = "between" /\ c.negated \in BOOLEAN
          /\ IsOperand(c.operand) /\ IsOperand(c.low) /\ IsOperand(c.high)
ASSUME LiteralAssumption ==
  /\ DOMAIN Parsed = {"int", "float", "decimal", "bool", "date", "datetime"}
  /\ \A k \in DOMAIN Parsed : \A text \in DOMAIN Parsed[k] : Parsed[k][text] \in Int \ {Null}
  /\ Huge \subseteq Wide

\* resolve_column: the columns of an object with these names that c can stand for.  It
\* has to be one; a name that is written as it is in the object is that one.
Matching(names, c) ==
  IF c.name \in names THEN {c.name}
  ELSE {n \in names : ~c.quoted /\ Lower[n] = Lower[c.name]}
Exists(names, c) == Cardinality(Matching(names, c)) = 1
ResolveColumn(names, c) == CHOOSE n \in Matching(names, c) : TRUE
Missing(names, o) == o.is = "column" /\ ~Exists(names, o)
KindOf(o, kinds) == kinds[ResolveColumn(DOMAIN kinds, o)]
NoSuch(o, kinds) == Missing(DOMAIN kinds, o)

\* The truth values, in the order in which AND is the least and OR the greatest
No == 0
Unknown == 1
Yes == 2
Truth(b) == IF b THEN Yes ELSE No
And(a, b) == Min({a, b})
Or(a, b) == Max({a, b})
Negation(a) == Yes - a
NegatedIf(neg, a) == IF neg THEN Negation(a) ELSE a

Flipped == [r \in {"=", "!=", "<", "<=", ">", ">="} |->
              CASE r = "<" -> ">" [] r = "<=" -> ">=" [] r = ">" -> "<" [] r = ">=" -> "<="
                [] OTHER -> r]
\* A bug for KeepsTrueRows: the opposite of "less" is taken for its inverse.
Opposite(r) == CASE r = "=" -> "!=" [] r = "!=" -> "=" [] OTHER -> Flipped[r]
InverseOf(r) == CASE r = "=" -> "!=" [] r = "!=" -> "=" [] r = "<" -> ">=" [] r = "<=" -> ">"
                [] r = ">" -> "<=" [] r = ">=" -> "<"

Holds(r, a, b) == CASE r = "=" -> a = b [] r = "!=" -> a # b [] r = "<" -> a < b
                    [] r = "<=" -> a <= b [] r = ">" -> a > b [] r = ">=" -> a >= b

\* A comparison kernel: a comparison with NULL is unknown.
Compare(r, a, b) == IF a = Null \/ b = Null THEN Unknown ELSE Truth(Holds(r, a, b))

\* A column that does not exist is at most compared with NULL: any value will do.
Value(o, row) ==
  IF o.is # "column" THEN o.value
  ELSE IF Missing(DOMAIN row, o) THEN Null ELSE row[ResolveColumn(DOMAIN row, o)]

IsNullLiteral(o) == o.is = "literal" /\ o.kind = "null"

\* coerce: what a literal is for a column of kind k.  It is taken as it is, or its text is
\* read; one that is neither cannot be compared with the column.
TakenAsItIs(l, k) ==
  \/ l.kind = "null"
  \/ k \in {"int", "float", "decimal"} /\ l.kind \in {"int", "float"}
  \/ k = "bool" /\ l.kind = "bool"
  \/ k \in {"str", "bytes"} /\ l.kind = "str"
Readable(l, k) ==
  /\ l.kind = "str" \/ (k \in {"date", "datetime"} /\ l.kind # "null")
  /\ k \in DOMAIN Parsed /\ Written[l] \in DOMAIN Parsed[k]
Coercible(l, k) == TakenAsItIs(l, k) \/ Readable(l, k)
Coerced(l, k) == IF Readable(l, k) THEN Parsed[k][Written[l]] ELSE l.value

\* OverflowError: float raises it, and a reader or a kernel may, given an int of 64 bits.
Overflows(l, k) == l.kind = "int" /\ k = "float" /\ l.value \in Huge
MayOverflow(l, k) == l.kind = "int" /\ k \in {"int", "float"} /\ l.value \in Wide

\* A text and another literal are never equal, and have no order.
Unlike(a, b) == a.is = "literal" /\ b.is = "literal" /\ (a.kind = "str") # (b.kind = "str")
-----------------------------------------------------------------------------
(* What SQL says of a condition and a row, for all operands alike, with a  *)
(* literal beside a column read as a value of the column's kind            *)

Leaves == {c \in Trees : c.is \notin {"and", "or", "not"}}

\* The truth of a condition, given that of its leaves
Evaluated(c, leaf) ==
  LET truth[d \in Trees] ==
        CASE d.is = "and" -> And(truth[d.left], truth[d.right])
          [] d.is = "or"  -> Or(truth[d.left], truth[d.right])
          [] d.is = "not" -> Negation(truth[d.operand])
          [] OTHER -> leaf[d]
  IN truth[c]

Beside(o, other, row, kinds) ==
  IF o.is = "literal" /\ other.is = "column" /\ ~NoSuch(other, kinds)
    THEN Coerced(o, KindOf(other, kinds)) ELSE Value(o, row)
Related(r, a, b, row, kinds) ==
  LET x == Beside(a, b, row, kinds)
      y == Beside(b, a, row, kinds)
  IN IF Unlike(a, b) /\ x # Null /\ y # Null THEN Truth(r = "!=") ELSE Compare(r, x, y)

\* What LIKE looks at: a literal is looked at as a text.
Subject(o, row) == IF o.is = "literal" /\ ~IsNullLiteral(o) THEN Written[o] ELSE Value(o, row)

LeafMeaning(c, row, kinds) ==
  CASE c.is = "comparison" -> Related(c.rel, c.left, c.right, row, kinds)
    [] c.is = "isnull" -> NegatedIf(c.negated, Truth(Value(c.operand, row) = Null))
    [] c.is = "in" ->
         NegatedIf(c.negated, Max({Related("=", c.operand, v, row, kinds) : v \in c.values}))
    [] c.is = "between" ->
         NegatedIf(c.negated, And(Related(">=", c.operand, c.low, row, kinds),
                                  Related("<=", c.operand, c.high, row, kinds)))
    [] c.is = "like" ->
         NegatedIf(c.negated, IF Value(c.operand, row) = Null THEN Unknown
                              ELSE Truth(Subject(c.operand, row) \in c.pattern))
Meaning(c, row, kinds) == Evaluated(c, [d \in Leaves |-> LeafMeaning(d, row, kinds)])
-----------------------------------------------------------------------------
(* compile_mask                                                            *)

LiteralBounds(c) == c.low.is = "literal" /\ c.high.is = "literal"

\* between is unknown if a bound of a column is NULL; it looks at nothing then.
NullBound(c) ==
  /\ c.is = "between" /\ c.operand.is = "column" /\ LiteralBounds(c)
  /\ IsNullLiteral(c.low) \/ IsNullLiteral(c.high)

\* The comparisons in a leaf, and in them the literals that are coerced for a column
Comparisons(c) ==
  CASE c.is = "comparison" -> {<<c.rel, c.left, c.right>>}
    [] c.is = "in" -> {<<"=", c.operand, v>> : v \in c.values}
    [] c.is = "between" /\ ~NullBound(c) -> {<<">=", c.operand, c.low>>, <<"<=", c.operand, c.high>>}
    [] OTHER -> {}
Scalars(c, kinds) ==
  {s \in UNION {{<<t[2], t[3]>>, <<t[3], t[2]>>} : t \in Comparisons(c)} :
     s[1].is = "column" /\ s[2].is = "literal" /\ ~NoSuch(s[1], kinds)}

\* A comparison with NULL does not look at the column.
BadScalar(column, literal, kinds) ==
  ~IsNullLiteral(literal) /\ (NoSuch(column, kinds) \/ ~Coercible(literal, KindOf(column, kinds)))
\* Two columns of different kinds are refused by the kernels, unless they are numbers.
Numbers == {"int", "float"}
BadComparison(r, left, right, kinds) ==
  \/ left.is = "column" /\ right.is = "literal" /\ BadScalar(left, right, kinds)
  \/ left.is = "literal" /\ right.is = "column" /\ BadScalar(right, left, kinds)
  \/ /\ Unlike(left, right) /\ r \notin {"=", "!="}
     /\ ~IsNullLiteral(left) /\ ~IsNullLiteral(right)
  \/ /\ left.is = "column" /\ right.is = "column"
     /\ \/ NoSuch(left, kinds) \/ NoSuch(right, kinds)
        \/ /\ KindOf(left, kinds) # KindOf(right, kinds)
           /\ ~({KindOf(left, kinds), KindOf(right, kinds)} \subseteq Numbers)

\* A condition and all that it is made of
PartsOf(c) ==
  LET parts[d \in Trees] ==
        CASE d.is \in {"and", "or"} -> {d} \cup parts[d.left] \cup parts[d.right]
          [] d.is = "not" -> {d} \cup parts[d.operand]
          [] OTHER -> {d}
  IN parts[c]

\* compile_mask raises SQLError or OverflowError, whatever the rows: it builds every part.
\* The kernels may do so on what they are given to compare.
LeafRefused(c, kinds) ==
  \/ \E t \in Comparisons(c) : BadComparison(t[1], t[2], t[3], kinds)
  \/ c.is = "isnull" /\ NoSuch(c.operand, kinds)
  \/ /\ c.is = "like" /\ c.operand.is = "column"
     /\ NoSuch(c.operand, kinds) \/ KindOf(c.operand, kinds) \notin {"str", "bytes"}
Refused(c, kinds) == \E d \in PartsOf(c) \cap Leaves : LeafRefused(d, kinds)
MaskOverflows(c, kinds) ==
  \E d \in PartsOf(c) \cap Leaves : \E s \in Scalars(d, kinds) : Overflows(s[2], KindOf(s[1], kinds))
KernelRefuses(c) ==
  \E d \in PartsOf(c) \cap Leaves : \E t \in Comparisons(d) : IsColumn(t[2]) \/ IsColumn(t[3])
KernelOverflows(c, kinds) ==
  \E d \in PartsOf(c) \cap Leaves : \E s \in Scalars(d, kinds) : MayOverflow(s[2], KindOf(s[1], kinds))

\* comparison: two literals are compared by Python, and a comparison with a column on its
\* right only is turned round first.
ScalarMask(r, column, literal, row, kinds) ==
  IF IsNullLiteral(literal) THEN Unknown
  ELSE Compare(r, Value(column, row), Coerced(literal, KindOf(column, kinds)))
PythonCompare(r, a, b) ==
  IF IsNullLiteral(a) \/ IsNullLiteral(b) THEN Unknown
  ELSE Truth(IF Unlike(a, b) THEN r = "!=" ELSE Holds(r, a.value, b.value))
ComparisonMask(r, left, right, row, kinds) ==
  CASE left.is = "literal" /\ right.is = "literal" -> PythonCompare(r, left, right)
    [] left.is = "literal" /\ right.is = "column" -> ScalarMask(Flipped[r], right, left, row, kinds)
    [] left.is = "column" /\ right.is = "literal" -> ScalarMask(r, left, right, row, kinds)
    [] OTHER -> Compare(r, Value(left, row), Value(right, row))

\* membership: an OR of equality masks for a column, Python's "in" for a literal
Membership(c, row, kinds) ==
  IF c.operand.is = "column"
    THEN NegatedIf(c.negated, Max({ScalarMask("=", c.operand, v, row, kinds) : v \in c.values}))
  ELSE IF IsNullLiteral(c.operand) THEN Unknown
  ELSE IF \E v \in c.values : ~IsNullLiteral(v) /\ ~Unlike(c.operand, v) /\ v.value = c.operand.value
    THEN Truth(~c.negated)
  ELSE IF \E v \in c.values : IsNullLiteral(v) THEN Unknown
  ELSE Truth(c.negated)

InBounds(c, row, kinds) ==
  IF NullBound(c) THEN Unknown
  ELSE NegatedIf(c.negated, And(ComparisonMask(">=", c.operand, c.low, row, kinds),
                                ComparisonMask("<=", c.operand, c.high, row, kinds)))

LeafMask(c, row, kinds) ==
  CASE c.is = "comparison" -> ComparisonMask(c.rel, c.left, c.right, row, kinds)
    [] c.is = "isnull" -> Truth((Value(c.operand, row) = Null) # c.negated)
    [] c.is = "in" -> Membership(c, row, kinds)
    [] c.is = "between" -> InBounds(c, row, kinds)
    [] c.is = "like" ->
         NegatedIf(c.negated, IF Value(c.operand, row) = Null THEN Unknown
                              ELSE Truth(Subject(c.operand, row) \in c.pattern))
Mask(c, row, kinds) == Evaluated(c, [d \in Leaves |-> LeafMask(d, row, kinds)])
-----------------------------------------------------------------------------
(* plan                                                                    *)

Typed(format) == format # "csv"
PushableKinds(format) ==
  CASE format = "parquet" -> {"int", "float", "str", "date", "datetime", "bool"}
    [] format = "json" -> {"int", "float", "str", "bool"}
    [] format = "csv" -> {"int", "float", "str"}
MembershipPushed(format) == format # "csv"
NullTestsPushed(format) == format # "csv"

\* conjuncts: their order and number change nothing, so they are a set.
Conjuncts(c) ==
  LET conjuncts[d \in Trees] ==
        IF d.is = "and" THEN conjuncts[d.left] \cup conjuncts[d.right] ELSE {d}
  IN conjuncts[c]

\* The kind that literals are coerced to, or "none": the reader cannot apply this.  A
\* column that is looked for and does not exist is of the kind "missing".
Target(o, literals, kinds, format) ==
  LET given == {l.kind : l \in literals}
      k == IF Typed(format) THEN KindOf(o, kinds)
           ELSE IF Cardinality(given) = 1 THEN CHOOSE g \in given : TRUE ELSE "none"
  IN  IF o.is # "column" THEN "none"
      ELSE IF NoSuch(o, kinds) THEN "missing"
      ELSE IF k \in PushableKinds(format) THEN k ELSE "none"

Predicate(o, rel, values, kind, kinds) ==
  [column |-> IF kind = "missing" THEN "missing" ELSE ResolveColumn(DOMAIN kinds, o),
   rel |-> rel, values |-> values, kind |-> kind]

\* _predicates: the predicates for one part of the condition, none if it cannot be
\* pushed.  A NOT is taken into a comparison, a null test or a list.
Inner(part) == IF part.is = "not" /\ part.operand.is \in {"comparison", "isnull", "in"}
                 THEN part.operand ELSE part

PushComparison(c, negated, kinds, format) ==
  LET turned == c.left.is = "literal" /\ c.right.is = "column"
      column == IF turned THEN c.right ELSE c.left
      literal == IF turned THEN c.left ELSE c.right
      rel == IF turned THEN Flipped[c.rel] ELSE c.rel
      k == Target(column, {literal}, kinds, format)
  IN
  IF literal.is # "literal" \/ IsNullLiteral(literal) \/ column.is # "column" \/ k = "none"
    THEN {}
    ELSE {Predicate(column, IF negated THEN InverseOf(rel) ELSE rel, {literal}, k, kinds)}

PushNullTest(c, negated, kinds, format) ==
  IF c.operand.is # "column" \/ ~NullTestsPushed(format) THEN {}
  ELSE {Predicate(c.operand, IF c.negated # negated THEN "is not null" ELSE "is null",
                   {}, IF NoSuch(c.operand, kinds) THEN "missing" ELSE "none", kinds)}

PushList(c, negated, kinds, format) ==
  LET k == Target(c.operand, c.values, kinds, format) IN
  IF ~MembershipPushed(format) \/ NullLiteral \in c.values \/ k = "none" THEN {}
  ELSE {Predicate(c.operand, IF c.negated # negated THEN "not in" ELSE "in", c.values, k, kinds)}

PushBetween(c, kinds, format) ==
  LET k == Target(c.operand, {c.low, c.high}, kinds, format) IN
  IF c.negated \/ ~LiteralBounds(c) THEN {}
  ELSE IF IsNullLiteral(c.low) \/ IsNullLiteral(c.high) \/ k = "none" THEN {}
  ELSE {Predicate(c.operand, ">=", {c.low}, k, kinds),
        Predicate(c.operand, "<=", {c.high}, k, kinds)}

Predicates(part, kinds, format) ==
  LET c == Inner(part)
      negated == c # part
  IN CASE c.is = "comparison" -> PushComparison(c, negated, kinds, format)
       [] c.is = "isnull" -> PushNullTest(c, negated, kinds, format)
       [] c.is = "in" -> PushList(c, negated, kinds, format)
       [] c.is = "between" -> PushBetween(c, kinds, format)
       [] OTHER -> {}

Pushed(c, kinds, format) == UNION {Predicates(part, kinds, format) : part \in Conjuncts(c)}

\* The conjuncts left for compile_mask; together they are the residual.
Residual(c, kinds, format) == {part \in Conjuncts(c) : Predicates(part, kinds, format) = {}}

\* plan raises SQLError: there is no such column, or a literal does not fit it; or
\* OverflowError.  The reader may raise that too.
PlanRefused(c, kinds, format) ==
  \E p \in Pushed(c, kinds, format) :
    p.kind = "missing" \/ \E l \in p.values : ~Coercible(l, p.kind)
PlanOverflows(c, kinds, format) ==
  \E p \in Pushed(c, kinds, format) : \E l \in p.values : Overflows(l, p.kind)
ReaderOverflows(pushed) == \E p \in pushed : \E l \in p.values : MayOverflow(l, p.kind)

\* columns_used: the columns in a condition
Operands(c) ==
  CASE c.is = "comparison" -> {c.left, c.right}
    [] c.is = "between" -> {c.operand, c.low, c.high}
    [] c.is = "in" -> {c.operand} \cup c.values
    [] OTHER -> {c.operand}
LeafColumns(c) == {o \in Operands(c) : IsColumn(o)}
ColumnsIn(c) == UNION {LeafColumns(d) : d \in PartsOf(c) \cap Leaves}
-----------------------------------------------------------------------------
(* The readers, as evaluate.py uses them                                   *)

Applies(p, row) ==
  LET x == row[p.column]
      values == {Coerced(l, p.kind) : l \in p.values}
  IN CASE p.rel = "is null" -> x = Null
       [] p.rel = "is not null" -> x # Null
       [] p.rel = "in" -> x # Null /\ x \in values
       [] p.rel = "not in" -> x # Null /\ x \notin values
       [] OTHER -> \A v \in values : Compare(p.rel, x, v) = Yes

\* A literal pushed as it was written may be of another kind than the column.  The reader
\* compares it only if both are numbers.
RejectedPredicates(pushed, kinds) ==
  \E p \in pushed : /\ p.kind \notin {"none", kinds[p.column]}
                     /\ ~({p.kind, kinds[p.column]} \subseteq Numbers)
=============================================================================
