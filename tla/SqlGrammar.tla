----------------------------- MODULE SqlGrammar -----------------------------
(***************************************************************************)
(* The SQL that S3 Select supports (README.md and the docstring of         *)
(* select/sql.py), as the set of trees that a text can be read as: nothing *)
(* is said of where to start or how far to read.  AND binds tighter than   *)
(* OR, NOT tighter than both, and chains lean to the left.                 *)
(***************************************************************************)
EXTENDS SqlParser, FiniteSets

Before(ts, k) == SubSeq(ts, 1, k - 1)
After(ts, k) == SubSeq(ts, k + 1, Len(ts))
Positions(ts, t) == {k \in DOMAIN ts : ts[k] = t}

\* A name can be given the alias of the table as a prefix.
ColumnTrees(ts, alias) ==
  IF Len(ts) = 1 THEN {ColumnOf(n) : n \in Identifiers \cap {ts[1]}}
  ELSE IF Len(ts) = 3 /\ ts[1] = alias /\ ts[2] = "."
    THEN {ColumnOf(n) : n \in Identifiers \cap {ts[3]}}
  ELSE {}

LiteralTrees(ts) == IF Len(ts) = 1 /\ ts[1] \in Literals THEN {LiteralOf(ts[1])} ELSE {}
OperandTrees(ts, alias) == ColumnTrees(ts, alias) \cup LiteralTrees(ts)

RECURSIVE ValueLists(_)
ValueLists(ts) ==
  {<<l>> : l \in LiteralTrees(ts)}
    \cup UNION {{Append(ls, l) : ls \in ValueLists(Before(ts, k)), l \in LiteralTrees(After(ts, k))} :
                  k \in Positions(ts, ",")}

Comparisons(ts, alias) ==
  UNION {{Comparison(IF ts[k] = "<>" THEN "!=" ELSE ts[k], l, r) :
            l \in OperandTrees(Before(ts, k), alias), r \in OperandTrees(After(ts, k), alias)} :
          k \in {k \in DOMAIN ts : ts[k] \in Relations}}

\* The operand of a test that may have a NOT before it, at k
Tested(ts, k, alias) ==
  LET negated == k > 1 /\ ts[k - 1] = "NOT"
  IN  {<<o, negated>> : o \in OperandTrees(Before(ts, IF negated THEN k - 1 ELSE k), alias)}

NullTests(ts, alias) ==
  UNION {{IsNull(o, After(ts, k) # <<"NULL">>) : o \in OperandTrees(Before(ts, k), alias)} :
          k \in {k \in Positions(ts, "IS") : After(ts, k) \in {<<"NULL">>, <<"NOT", "NULL">>}}}

Memberships(ts, alias) ==
  UNION {{InList(o[1], vs, o[2]) :
            o \in Tested(ts, k, alias), vs \in ValueLists(SubSeq(ts, k + 2, Len(ts) - 1))} :
          k \in {k \in Positions(ts, "IN") : k + 2 < Len(ts) /\ ts[k + 1] = "(" /\ ts[Len(ts)] = ")"}}

Ranges(ts, alias) ==
  UNION {{Between(o[1], l, h, o[2]) :
            o \in Tested(ts, k[1], alias), l \in OperandTrees(SubSeq(ts, k[1] + 1, k[2] - 1), alias),
            h \in OperandTrees(After(ts, k[2]), alias)} :
          k \in {k \in Positions(ts, "BETWEEN") \X Positions(ts, "AND") : k[1] < k[2]}}

LikeTests(ts, alias) ==
  UNION {{Like(o[1], Meant[ts[k + 1]], o[2]) : o \in Tested(ts, k, alias)} :
          k \in {k \in Positions(ts, "LIKE") : Len(ts) = k + 1 /\ ts[k + 1] \in Strings}}

RECURSIVE OrTrees(_, _), AndTrees(_, _), NotTrees(_, _)
PredicateTrees(ts, alias) ==
  (IF Len(ts) > 2 /\ ts[1] = "(" /\ ts[Len(ts)] = ")"
     THEN OrTrees(SubSeq(ts, 2, Len(ts) - 1), alias) ELSE {})
  \cup Comparisons(ts, alias) \cup NullTests(ts, alias) \cup Memberships(ts, alias)
  \cup Ranges(ts, alias) \cup LikeTests(ts, alias)

NotTrees(ts, alias) ==
  PredicateTrees(ts, alias)
    \cup IF Len(ts) > 1 /\ ts[1] = "NOT" THEN {Not(t) : t \in NotTrees(Tail(ts), alias)} ELSE {}
AndTrees(ts, alias) ==
  NotTrees(ts, alias)
    \cup UNION {{BoolOp("and", l, r) : l \in AndTrees(Before(ts, k), alias),
                                       r \in NotTrees(After(ts, k), alias)} : k \in Positions(ts, "AND")}
OrTrees(ts, alias) ==
  AndTrees(ts, alias)
    \cup UNION {{BoolOp("or", l, r) : l \in OrTrees(Before(ts, k), alias),
                                      r \in AndTrees(After(ts, k), alias)} : k \in Positions(ts, "OR")}
-----------------------------------------------------------------------------
\* column [[AS] name]
ItemTrees(ts, alias) ==
  {<<c, c.name>> : c \in ColumnTrees(ts, alias)}
    \cup (IF Len(ts) > 1 /\ ts[Len(ts)] \in Identifiers
            THEN {<<c, ts[Len(ts)]>> :
                    c \in UNION {ColumnTrees(SubSeq(ts, 1, k), alias) :
                                   k \in {Len(ts) - 1}
                                         \cup (IF ts[Len(ts) - 1] = "AS" THEN {Len(ts) - 2} ELSE {})}}
            ELSE {})

RECURSIVE ItemLists(_, _)
ItemLists(ts, alias) ==
  {<<i>> : i \in ItemTrees(ts, alias)}
    \cup UNION {{Append(is, i) : is \in ItemLists(Before(ts, k), alias),
                                 i \in ItemTrees(After(ts, k), alias)} : k \in Positions(ts, ",")}
Projections(ts, alias) == IF ts = <<"*">> THEN {<< >>} ELSE ItemLists(ts, alias)

Sources == {<<"s3object">>} \cup {<<"s3object", n>> : n \in Names}
             \cup {<<"s3object", "AS", n>> : n \in Names}
AliasOf(source) == IF Len(source) = 1 THEN NoName ELSE source[Len(source)]

\* << >>: no WHERE
WhereTrees(ts, alias) ==
  IF ts = << >> THEN {NoClause}
  ELSE IF ts[1] = "WHERE" THEN OrTrees(Tail(ts), alias) ELSE {}

LimitOf(ts) == IF ts = << >> THEN {NoName}
               ELSE IF Len(ts) = 2 /\ ts[1] = "LIMIT" THEN {ts[2]} \cap Whole ELSE {}

\* The clauses end at e, at f, at w and at l.
Queries(ts) ==
  LET l == IF ts # << >> /\ ts[Len(ts)] = ";" THEN Len(ts) - 1 ELSE Len(ts) IN
  IF ts = << >> \/ ts[1] # "SELECT" THEN {}
  ELSE UNION {
    LET source == SubSeq(ts, k[1] + 1, k[2])
        alias == AliasOf(source)
    IN  {[projection |-> p, where |-> c, limit |-> n] :
           p \in Projections(SubSeq(ts, 2, k[1] - 1), alias),
           c \in WhereTrees(SubSeq(ts, k[2] + 1, k[3]), alias),
           n \in LimitOf(SubSeq(ts, k[3] + 1, l))} :
      k \in {k \in Positions(ts, "FROM") \X (1..l) \X (1..l) :
               /\ k[1] < k[2] /\ k[2] <= k[3] /\ k[3] \in {l, l - 2}
               /\ SubSeq(ts, k[1] + 1, k[2]) \in Sources}}

\* The parser accepts the texts of the language and no others, and reads each as the
\* one query it stands for.
ParsesTheLanguage ==
  Queries(text) = {Parsed[i] : i \in DOMAIN Parsed}
=============================================================================
