------------------------------ MODULE SqlParser ------------------------------
(***************************************************************************)
(* The parser of S3 Select (select/sql.py): recursive descent over the     *)
(* tokens of an expression, with an index that only advances.              *)
(*                                                                         *)
(* A place of the parser is a record of its index, the column references   *)
(* it has seen and the tree it has just built.  Where the code raises      *)
(* SQLError the place is Nowhere: no token is there, so whatever is parsed *)
(* next fails as well.                                                     *)
(***************************************************************************)
EXTENDS Conditions, Sequences

CONSTANTS
  Names, QuotedNames,         \* the tokens "ident" and "quoted"
  Whole, Fractions, Strings,  \* the tokens "number", without and with a point, and "string"
  Relations,                  \* the tokens "op"
  Meant,                      \* token of a literal -> its value
  NoName                      \* there is no alias, or no prefix

ASSUME SqlAssumption ==
  /\ "s3object" \in Names /\ NoName \notin Names \cup QuotedNames
  /\ Whole \cup Fractions \cup Strings \subseteq DOMAIN Meant

Identifiers == Names \cup QuotedNames

VARIABLE text   \* the tokens of the expression

Token(i) == IF i \in DOMAIN text THEN text[i] ELSE "end"
Nowhere == [at |-> Len(text) + 1, refs |-> << >>, tree |-> << >>, failed |-> TRUE]
Here(i) == [at |-> i, refs |-> << >>, tree |-> << >>, failed |-> FALSE]

Sees(p, tokens) == ~p.failed /\ Token(p.at) \in tokens
Advance(p) == [p EXCEPT !.at = @ + 1]
Accept(p, t) == IF Sees(p, {t}) THEN Advance(p) ELSE p
Accepted(p, t) == Sees(p, {t})
Expect(p, tokens) == IF Sees(p, tokens) THEN Advance(p) ELSE Nowhere
Gives(p, tree) == IF p.failed THEN p ELSE [p EXCEPT !.tree = tree]
-----------------------------------------------------------------------------
LiteralOf(t) ==
  CASE t \in Whole -> Literal("int", Meant[t])
    [] t \in Fractions -> Literal("float", Meant[t])
    [] t \in Strings -> Literal("str", Meant[t])
    [] t = "TRUE" -> Literal("bool", 1)
    [] t = "FALSE" -> Literal("bool", 0)
    [] t = "NULL" -> NullLiteral
Literals == Whole \cup Fractions \cup Strings \cup {"TRUE", "FALSE", "NULL"}

ParseLiteral(p) == IF Sees(p, Literals) THEN Gives(Advance(p), LiteralOf(Token(p.at))) ELSE Nowhere

ColumnOf(t) == Column(t, t \in QuotedNames)

ParseColumnRef(p) ==
  LET dotted == Token(p.at + 1) = "."
      i == IF dotted THEN p.at + 2 ELSE p.at
      prefix == IF dotted THEN Token(p.at) ELSE NoName
  IN  IF ~Sees(p, Identifiers) \/ Token(i) \notin Identifiers THEN Nowhere
      ELSE [p EXCEPT !.at = i + 1, !.refs = Append(@, <<prefix, ColumnOf(Token(i))>>),
                     !.tree = ColumnOf(Token(i))]

\* A name with a parenthesis behind it is a function: not supported.
ParseOperand(p) ==
  IF Sees(p, Identifiers)
    THEN IF Token(p.at + 1) = "(" THEN Nowhere ELSE ParseColumnRef(p)
    ELSE ParseLiteral(p)

\* The literals of an IN, which have been seen up to p
RECURSIVE ParseValues(_)
ParseValues(p) ==
  IF Accepted(p, ",")
    THEN LET l == ParseLiteral(Advance(p)) IN ParseValues(Gives(l, Append(p.tree, l.tree)))
    ELSE p

\* IS NULL, IN, BETWEEN, LIKE and the comparisons, behind the operand at o
IsTail(o) ==
  LET p == Accept(Advance(o), "NOT")
  IN  Gives(Expect(p, {"NULL"}), IsNull(o.tree, p.at # o.at + 1))

InTail(o, p, negated) ==
  LET first == ParseLiteral(Expect(Advance(p), {"("}))
      values == ParseValues(Gives(first, <<first.tree>>))
  IN  Gives(Expect(values, {")"}), InList(o.tree, values.tree, negated))

BetweenTail(o, p, negated) ==
  LET low == ParseOperand(Advance(p))
      high == ParseOperand(Expect(low, {"AND"}))
  IN  Gives(high, Between(o.tree, low.tree, high.tree, negated))

LikeTail(o, p, negated) ==
  LET q == Expect(Advance(p), Strings)
  IN  IF q.failed THEN q ELSE Gives(q, Like(o.tree, Meant[Token(q.at - 1)], negated))

ComparisonTail(o) ==
  LET q == ParseOperand(Expect(o, Relations))
      rel == Token(o.at)
  IN  Gives(q, Comparison(IF rel = "<>" THEN "!=" ELSE rel, o.tree, q.tree))

PredicateTail(o) ==
  LET p == Accept(o, "NOT")
      negated == p.at # o.at
  IN  CASE Accepted(o, "IS") -> IsTail(o)
        [] Accepted(p, "IN") -> InTail(o, p, negated)
        [] Accepted(p, "BETWEEN") -> BetweenTail(o, p, negated)
        [] Accepted(p, "LIKE") -> LikeTail(o, p, negated)
        [] OTHER -> IF negated THEN Nowhere ELSE ComparisonTail(o)

RECURSIVE ParseOr(_), OrsFrom(_), ParseAnd(_), AndsFrom(_), ParseNot(_)
ParsePredicate(p) ==
  IF Accepted(p, "(") THEN Expect(ParseOr(Advance(p)), {")"}) ELSE PredicateTail(ParseOperand(p))

\* A bug for ParsesTheLanguage: NOT reaches as far as it can.
NotOfAnd(p) ==
  IF Accepted(p, "NOT")
    THEN LET q == ParseAnd(Advance(p)) IN Gives(q, Not(q.tree))
    ELSE ParsePredicate(p)
ParseNot(p) ==
  IF Accepted(p, "NOT")
    THEN LET q == ParseNot(Advance(p)) IN Gives(q, Not(q.tree))
    ELSE ParsePredicate(p)

AndsFrom(left) ==
  IF Accepted(left, "AND")
    THEN LET q == ParseNot(Advance(left)) IN AndsFrom(Gives(q, BoolOp("and", left.tree, q.tree)))
    ELSE left
ParseAnd(p) == AndsFrom(ParseNot(p))

OrsFrom(left) ==
  IF Accepted(left, "OR")
    THEN LET q == ParseAnd(Advance(left)) IN OrsFrom(Gives(q, BoolOp("or", left.tree, q.tree)))
    ELSE left
ParseOr(p) == OrsFrom(ParseAnd(p))
-----------------------------------------------------------------------------
\* The names of the columns of the result, seen up to p; the columns are the first
\* references.
RECURSIVE ParseItems(_)
ParseItems(p) ==
  LET column == IF Token(p.at + 1) = "(" THEN Nowhere ELSE ParseColumnRef(p)
      named == Accept(column, "AS")
      renamed == named.at # column.at \/ Sees(named, Identifiers)
      end == IF renamed THEN Expect(named, Identifiers) ELSE column
      name == IF renamed THEN Token(named.at) ELSE column.tree.name
  IN  IF end.failed THEN end
      ELSE IF Accepted(end, ",") THEN ParseItems(Gives(Advance(end), Append(p.tree, name)))
      ELSE Gives(end, Append(p.tree, name))

ParseProjection(p) ==
  IF Accepted(p, "*") THEN Gives(Advance(p), << >>) ELSE ParseItems(p)

\* FROM S3Object [[AS] alias]
ParseSource(p) ==
  LET source == Expect(Expect(p, {"FROM"}), {"s3object"})
      aliased == Accept(source, "AS")
  IN  IF Accepted(source, "[") THEN Nowhere
      ELSE IF aliased.at # source.at \/ Sees(aliased, Names)
        THEN Gives(Expect(aliased, Names), Token(aliased.at))
      ELSE Gives(source, NoName)

NoClause == << >>
ParseWhere(p) == IF Accepted(p, "WHERE") THEN ParseOr(Advance(p)) ELSE Gives(p, NoClause)
ParseLimit(p) ==
  IF Accepted(p, "LIMIT")
    THEN Gives(Expect(Advance(p), Whole), Token(p.at + 1))
    ELSE Gives(p, NoName)

ResultColumns(names, refs) == [i \in DOMAIN names |-> <<refs[i][2], names[i]>>]

\* The query, or << >> if the expression is refused
Parsed ==
  LET projection == ParseProjection(Expect(Here(1), {"SELECT"}))
      source == ParseSource(projection)
      where == ParseWhere(source)
      limit == ParseLimit(where)
      end == Accept(limit, ";")
  IN  IF end.failed \/ end.at # Len(text) + 1 THEN << >>
      ELSE IF \E i \in DOMAIN end.refs : end.refs[i][1] \notin {NoName, source.tree} THEN << >>
      ELSE <<[projection |-> ResultColumns(projection.tree, end.refs),
              where |-> where.tree, limit |-> limit.tree]>>
=============================================================================
