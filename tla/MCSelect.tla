------------------------------ MODULE MCSelect ------------------------------
(* Conditions on three columns and nine rows of them, and on one column of *)
(* every kind, for TLC.                                                    *)
EXTENDS SelectRun, TLC

CONSTANTS noCondition, noLimit

x == Column("x", FALSE)
y == Column("id", FALSE)
one == Literal("int", 1)
two == Literal("int", 2)
\* '2' and a text that is no number
twoText == Literal("str", 2)
word == Literal("str", 5)

Rels == {"=", "!=", "<", "<=", ">", ">="}
ColumnComparisons ==
  {Comparison(r, c, l) : r \in Rels, c \in {x, y}, l \in {one, twoText, word, NullLiteral}}
  \cup {Comparison(r, one, x) : r \in Rels}
  \cup {Comparison("<", x, y), Comparison("=", one, two)}
NullTests == {IsNull(c, n) : c \in {x, y}, n \in BOOLEAN}
Lists ==
  {InList(c, vs, n) : c \in {x, y}, n \in BOOLEAN,
                      vs \in {{one}, {one, two}, {one, twoText}, {one, NullLiteral}}}
  \cup {InList(one, {two, NullLiteral}, n) : n \in BOOLEAN}
Betweens ==
  {Between(c, b[1], b[2], n) : c \in {x, y}, n \in BOOLEAN,
                               b \in {<<one, one>>, <<one, two>>, <<two, one>>, <<one, twoText>>}}
  \cup {Between(two, one, x, n) : n \in BOOLEAN}
  \cup {Between(x, one, y, n) : n \in BOOLEAN}
Likes == {Like(y, {2}, n) : n \in BOOLEAN}
Simple == ColumnComparisons \cup NullTests \cup Lists \cup Betweens \cup Likes

\* Some of each, pushed and not pushed, to be combined
Parts ==
  {Comparison("<", x, two), Comparison(">=", one, x), Comparison("=", y, twoText),
   Comparison("=", x, NullLiteral), Comparison("<", x, word),
   Not(Comparison("<", x, two)), IsNull(x, FALSE), Not(InList(x, {one}, FALSE)),
   InList(y, {one, NullLiteral}, TRUE), Between(x, one, two, FALSE),
   Not(Between(x, one, one, FALSE)), Like(y, {2}, TRUE)}
Pairs == {BoolOp(op, p, q) : op \in {"and", "or"}, p \in Parts, q \in Parts}
Triples == {BoolOp("and", p, BoolOp(op, q, IsNull(y, TRUE))) :
              op \in {"and", "or"}, p \in Parts, q \in Parts}
SomeConditions == Simple \cup {Not(c) : c \in Simple} \cup Pairs
                    \cup {Not(c) : c \in Pairs} \cup Triples

\* The bounds NULL, alone and in a NOT
NullBounds == {Between(x, NullLiteral, b, n) : b \in {one, two}, n \in BOOLEAN}
                \cup {Between(x, one, NullLiteral, n) : n \in BOOLEAN}
                \cup {IsNull(x, n) : n \in BOOLEAN}
Above == Comparison(">", x, two)
FewConditions == {Comparison("=", x, one), Comparison("=", x, twoText), Not(IsNull(x, FALSE))}

\* The object has the columns x, id and Id.  Names in other cases, quoted or not, that stand
\* for one column, for several or for none, and numbers for a CSV without names
SomeNames == {Column(n, FALSE) : n \in {"X", "id", "Id", "ID", "_1", "_3"}}
               \cup {Column(n, TRUE) : n \in {"X", "Id"}}
NamedConditions ==
  UNION {{Comparison("=", c, one), Comparison("<", two, c), Comparison("=", c, NullLiteral),
          IsNull(c, TRUE), InList(c, {one, NullLiteral}, FALSE), InList(c, {one}, TRUE),
          Between(c, one, two, FALSE), Between(x, one, c, FALSE), Between(c, NullLiteral, one, FALSE),
          Comparison("=", x, c), Like(c, {2}, FALSE)} : c \in SomeNames}

\* Literals of every kind: an int that str writes as a day, one too wide for a column and one
\* too large for a float; texts that are read as a number, as truth, as a day and as an hour
\* of that day
SomeLiterals ==
  {one, two, Literal("int", 9), Literal("int", 10), Literal("int", 11), Literal("float", 2),
   Literal("bool", 1), Literal("str", 1), word, Literal("str", 3), Literal("str", 4),
   Literal("str", 6), Literal("str", 8), NullLiteral}
WrittenAs(l) == CASE l.value = 9 -> 3 [] l.kind = "float" -> 12 [] l.kind = "bool" -> 13 [] OTHER -> l.value
WrittenOf == [l \in SomeLiterals \cup {twoText} |-> WrittenAs(l)]
ParsedOf ==
  LET numbers == 1 :> 1 @@ 2 :> 2 @@ 8 :> 1 IN
  [k \in {"int", "float", "decimal"} |-> numbers]
    @@ "bool" :> (6 :> 1) @@ "date" :> (3 :> 3 @@ 4 :> 3) @@ "datetime" :> (3 :> 3 @@ 4 :> 4)
ConditionsOn(k, l) ==
  {Comparison(r, k, l) : r \in {"=", "!=", "<", ">="}} \cup {Comparison(r, l, k) : r \in {"=", "<"}}
  \cup {Not(Comparison("<", k, l)), Not(InList(k, {l}, FALSE)), InList(k, {l, two}, FALSE)}
  \cup {Between(k, l, two, n) : n \in BOOLEAN \ {l = NullLiteral}} \cup {Between(one, k, l, TRUE)}
KindConditions ==
  UNION {ConditionsOn(x, l) : l \in SomeLiterals} \cup {IsNull(x, FALSE), Like(x, {1, 3}, TRUE)}
LiteralConditions ==
  UNION {{Comparison(r, l, m) : r \in {"=", "!=", "<"}} \cup {InList(l, {m}, TRUE), InList(l, {two, m}, FALSE)}
           \cup {Between(l, m, two, TRUE)} : l \in SomeLiterals, m \in SomeLiterals}
  \cup {Like(l, {1, 3}, n) : l \in SomeLiterals, n \in BOOLEAN}

\* All of them, what they are made of, and how deep they are nested
SomeTrees == SomeConditions \cup NullBounds \cup FewConditions \cup NamedConditions \cup {Above}
               \cup KindConditions \cup LiteralConditions
               \cup {p.operand : p \in {p \in KindConditions : p.is = "not"}}
               \cup Parts \cup {p.operand : p \in {p \in Parts : p.is = "not"}}
               \cup {BoolOp(op, q, IsNull(y, TRUE)) : op \in {"and", "or"}, q \in Parts}
RECURSIVE Nesting(_)
Nesting(c) ==
  CASE c.is \in {"and", "or"} -> 1 + Max({Nesting(c.left), Nesting(c.right)})
    [] c.is = "not" -> 1 + Nesting(c.operand)
    [] OTHER -> 0
NestingOf == [c \in SomeTrees |-> Nesting(c)]

NamedProjections == {<< >>, <<<<y, "b">>, <<x, "id">>>>} \cup {<<<<c, "b">>>> : c \in SomeNames}

NameOf(prefix, n) == prefix \o ToString(n)
Names == {"x", "X", "id", "Id", "ID", "_1", "_2", "_3"}
LowerOf == [n \in Names |-> CASE n = "X" -> "x" [] n \in {"Id", "ID"} -> "id" [] OTHER -> n]
TheHeader == <<"x", "id", "Id">>
KindsOf(f) ==
  <<"int", CASE f = "parquet" -> "decimal" [] f = "json" -> "int" [] f = "csv" -> "str", "int">>

\* One column, of each kind that an object of a format can have, and its rows
OneKind(f) ==
  CASE f = "parquet" -> {"int", "float", "decimal", "bool", "str", "bytes", "date", "datetime", "other"}
    [] f = "json" -> {"int", "float", "bool", "str", "other"}
    [] f = "csv" -> {"int", "float", "bool", "str", "date"}
RowsOf(k) == IF k = "bool" THEN <<<<Null>>, <<0>>, <<1>>>> ELSE <<<<Null>>, <<1>>, <<2>>, <<3>>, <<4>>>>

ValueAt(i) == CASE i = 0 -> Null [] OTHER -> i
NineRows == [i \in 1..9 |-> <<ValueAt((i - 1) \div 3), ValueAt((i - 1) % 3), ValueAt(i % 3)>>]
UpToFive == {SubSeq(NineRows, 5, n) : n \in 4..9}

\* Requests
Plain == [xml |-> TRUE, expression |-> "query", type |-> Absent, inputs |-> {"JSON"},
          compression |-> Absent, lines |-> "LINES", header |-> "USE", delimiter |-> "usual",
          newline |-> "usual", quote |-> "usual", outputs |-> {"JSON"}, codec |-> Absent,
          outDelimiter |-> "usual", outQuote |-> "usual"]
Elements == {"Parquet", "JSON", "CSV"}
EachFormat == {[Plain EXCEPT !.inputs = {e}] : e \in Elements}
EachPair == {[r EXCEPT !.outputs = {e}] : r \in EachFormat, e \in Elements}
EachHeader == EachFormat \cup {[Plain EXCEPT !.inputs = {"CSV"}, !.header = h] : h \in {Absent, "IGNORE"}}
Documents ==
  {[Plain EXCEPT !.xml = w, !.expression = e, !.type = t] :
     w \in BOOLEAN, e \in {"query", "wrong", "outsized", Absent}, t \in {Absent, "SQL", "other"}}
  \cup {[Plain EXCEPT !.inputs = i, !.compression = c, !.lines = l, !.header = h] :
          i \in SUBSET Elements, c \in {Absent, "NONE", "GZIP", "other"},
          l \in {Absent, "LINES"}, h \in {Absent, "USE", "other"}}
  \cup {[Plain EXCEPT !.inputs = {"CSV"}, !.delimiter = d, !.newline = n, !.quote = q] :
          d \in {"usual", "odd", "long"}, n \in {"usual", "odd"}, q \in {"usual", "odd"}}
  \cup {[r EXCEPT !.outputs = o, !.codec = c, !.outDelimiter = d, !.outQuote = q] :
          r \in EachFormat, o \in SUBSET Elements, c \in {Absent, "none", "other"},
          d \in {"usual", "long"}, q \in {"usual", "long"}}
Packed(faults) ==
  {<<[r EXCEPT !.compression = c], f>> :
     r \in {r \in EachHeader : r.inputs # {"Parquet"}}, c \in {"GZIP", "BZIP2"}, f \in faults}
Broken == Packed({"none", "garbled", "short"}) \cup EachPair \X {"unreadable", "columns"}

Query(r, where, columns, limit, table, fault) ==
  [request |-> r, where |-> where, columns |-> columns, limit |-> limit,
   header |-> TheHeader, kinds |-> KindsOf(Input(r)), table |-> table, fault |-> fault]
KindQueries ==
  UNION {{[Query(r, w, << >>, noLimit, RowsOf(k), "none") EXCEPT !.header = <<"x">>, !.kinds = <<k>>] :
            w \in KindConditions, k \in OneKind(Input(r))} : r \in EachFormat}

\* Every condition on the nine rows, those on columns of every kind; a few on objects of every length with every limit and
\* pair of formats; names; objects with a fault; and requests of all kinds.
SomeProjections == {<< >>, <<<<x, "a">>>>}
FewProjections == {<< >>, <<<<y, "b">>, <<x, "id">>>>}
SomeQueries ==
  {Query(r, w, cs, noLimit, NineRows, "none") :
     r \in EachFormat, w \in {noCondition} \cup SomeConditions, cs \in SomeProjections}
  \cup {Query(r, w, cs, l, t, "none") :
          r \in EachPair, w \in {noCondition} \cup FewConditions, cs \in FewProjections,
          l \in {noLimit, 0, 1, 2, 3, 4}, t \in UpToFive}
  \cup {Query(r, w, cs, noLimit, NineRows, "none") :
          r \in EachHeader, w \in NamedConditions, cs \in NamedProjections}
  \cup {Query(r, w, cs, noLimit, << >>, "none") :
          r \in EachHeader, w \in {noCondition} \cup Likes, cs \in NamedProjections}
  \cup {Query(b[1], w, cs, noLimit, t, b[2]) :
          b \in Broken, w \in {noCondition, Above} \cup FewConditions, cs \in FewProjections,
          t \in {<< >>, NineRows}}
  \cup {Query(r, w, << >>, noLimit, NineRows, "none") :
          r \in Documents, w \in {noCondition, Comparison("=", x, one)}}
  \cup KindQueries
  \cup {Query(Plain, w, << >>, noLimit, NineRows, "none") : w \in LiteralConditions}

NullBoundQueries ==
  {Query(Plain, w, << >>, noLimit, NineRows, "none") : w \in NullBounds}
=============================================================================
