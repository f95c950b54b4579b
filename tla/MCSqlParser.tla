---------------------------- MODULE MCSqlParser ----------------------------
(* Queries and what becomes of them when tokens are mistyped, and, where   *)
(* there is no query, every LIKE of a few characters, for TLC.             *)
EXTENDS SqlGrammar, LikePattern, TLC

CONSTANT MaxEdits

VARIABLE edits

Select(where) == <<"SELECT", "*", "FROM", "s3object", "WHERE">> \o where
LongQueries ==
  { <<"SELECT", "a", "b", ",", "s", ".", "b", "AS", "q", "FROM", "s3object", "AS", "s", "LIMIT", "2", ";">>,
    <<"SELECT", "*", "FROM", "s3object", "s", "WHERE", "s", ".", "a", "IS", "NOT", "NULL", "LIMIT", "2">>,
    Select(<<"NOT", "a", "=", "2", "AND", "b", "<>", "x", "OR", "NOT", "NOT", "a", "LIKE", "x">>),
    Select(<<"a", "=", "b", "OR", "b", "=", "2.5", "AND", "(", "a", "=", "2", "OR", "2", "=", "b", ")">>),
    Select(<<"a", "BETWEEN", "2", "AND", "b", "AND", "b", "NOT", "BETWEEN", "a", "AND", "TRUE">>),
    Select(<<"a", "NOT", "IN", "(", "2", ",", "NULL", ",", "x", ")", "OR", "q", "IN", "(", "2", ")">>),
    Select(<<"a", "=", "2", "AND", "b", "=", "2", "AND", "q", "=", "2">>),
    Select(<<"a", "=", "2", "OR", "b", "=", "2", "OR", "(", "(", "q", "=", "2", ")", ")">>),
    <<"SELECT", "*", "FROM", "s3object", "s", "LIMIT", "2">>,
    Select(<<"NOT", "a", "=", "2", "OR", "b", "IS", "NULL">>),
    Select(<<"a", "NOT", "LIKE", "x", "AND", "b", "=", "2">>) }
ShortQueries ==
  { <<"SELECT", "a", "FROM", "s3object">>, Select(<<"NOT", "a", "=", "2">>) }

Keywords == {"SELECT", "FROM", "WHERE", "LIMIT", "AS", "AND", "OR", "NOT", "IS", "NULL", "IN",
             "BETWEEN", "LIKE", "TRUE"}
Tokens == Keywords \cup Names \cup QuotedNames \cup Whole \cup Fractions \cup Strings \cup {"=", "<>"}
            \cup {"(", ")", ",", ".", "*", ";", "["}
MeantOf == "2" :> 2 @@ "2.5" :> 25 @@ "x" :> 5

\* Two tokens are mistyped in a short query, one in a long one.
Init == /\ LikeInit
        /\ \/ text \in ShortQueries /\ edits = 0
           \/ text \in LongQueries /\ edits = MaxEdits - 1
           \/ text = << >> /\ edits = MaxEdits

Remove == \E i \in DOMAIN text : text' = Before(text, i) \o After(text, i)
Insert == \E i \in 1..Len(text) + 1, t \in Tokens :
            text' = Before(text, i) \o <<t>> \o SubSeq(text, i, Len(text))
Replace == \E i \in DOMAIN text, t \in Tokens : text' = [text EXCEPT ![i] = t]

Mistype == /\ edits < MaxEdits
           /\ edits' = edits + 1
           /\ Remove \/ Insert \/ Replace

Next == \/ Mistype /\ UNCHANGED likeVars
        \/ text = << >> /\ LikeNext /\ UNCHANGED <<text, edits>>
Spec == Init /\ [][Next]_<<text, edits, likeVars>>
=============================================================================
