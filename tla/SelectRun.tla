------------------------------ MODULE SelectRun ------------------------------
(***************************************************************************)
(* A run of S3 Select over one object (execute, _run, _read and _stream in *)
(* select/__init__.py): parse, decompress, plan, read, filter, limit,      *)
(* project, and send the rows in batches as an event stream.  The object   *)
(* is read once, so nothing changes under the run; what can go wrong is    *)
(* that the object is not what the request says, that the reader refuses   *)
(* the predicates, that the condition is refused after the reading, that   *)
(* something raises what nobody catches, and that the rows cannot be       *)
(* written out when half of them were sent.                                *)
(*                                                                         *)
(* Rows are told apart by their position in the object: the rows of a      *)
(* morsel, an event or an answer are a function from positions.            *)
(***************************************************************************)
EXTENDS SelectFilter, SelectRequest

CONSTANTS
  Queries,      \* the requests, what they ask for and the objects they ask it of
  NoCondition,  \* there is no WHERE
  NoLimit,      \* there is no LIMIT
  BatchRows,    \* BATCH_ROWS
  NumberedName(_, _)  \* a prefix and a number -> the name they make

ASSUME SelectAssumption ==
  /\ BatchRows \in Nat \ {0}
  /\ \A q \in Queries :
       /\ q.where = NoCondition \/ q.where \in Trees
       /\ \A i \in DOMAIN q.columns : IsColumn(q.columns[i][1])
       /\ q.limit = NoLimit \/ q.limit \in Nat
       /\ q.fault \in {"none", "garbled", "short", "unreadable", "columns"}
       \* An object that is not compressed cannot be compressed wrongly.
       /\ q.fault \in {"garbled", "short"} => Compression(q.request) # "NONE"
       \* The columns have different names, and every row has a value for each.
       /\ q.header \in Seq(Range(q.header)) /\ IsInjective(q.header)
       /\ DOMAIN q.kinds = DOMAIN q.header
       /\ q.table \in Seq(Range(q.table))
       /\ \A i \in DOMAIN q.table :
            /\ DOMAIN q.table[i] = DOMAIN q.header
            /\ \A j \in DOMAIN q.header : q.table[i][j] \in Int
  /\ \A width \in {Len(q.header) : q \in Queries} :
       \A prefix \in {"_", "col_"}, m, n \in 0..width :
         NumberedName(prefix, m) = NumberedName(prefix, n) => m = n

\* A query: the request, where (the condition), columns (pairs of a column and the name
\* it is given; none of them: SELECT * ), limit; and the object: header (the names of
\* its columns), kinds (of its columns), table (its rows) and fault: "none", or it is
\* "garbled", not compressed as the request says; "short", its compressed end is missing;
\* "unreadable" for its reader or, in the first line, for csv; or its "columns" cannot be
\* decoded, or are not as many in the rows as in the header.
VARIABLES
  query,
  stage,      \* "received", "parsed", "opened", "planned", "read", "streaming" or "over"
  pushed,     \* the predicates given to the reader
  residual,   \* the conjuncts compile_mask has to evaluate
  names,      \* the columns of the morsel
  rows,       \* the rows, as far as they were filtered
  events,     \* the event stream sent so far
  raised      \* the exception that was raised instead; "none"

selectVars == <<query, stage, pushed, residual, names, rows, events, raised>>

NoRows == [i \in {} |-> << >>]

Init ==
  /\ query \in Queries
  /\ stage = "received"
  /\ pushed = {} /\ residual = {} /\ names = {} /\ rows = NoRows /\ events = << >>
  /\ raised = "none"

SourceFormat == Input(query.request)
OutputFormat == Output(query.request)
All == query.columns = << >>
Without == query.where = NoCondition

Records(part) == [is |-> "Records", rows |-> part]
Stats(returned) == [is |-> "Stats", returned |-> returned]
End == [is |-> "End"]
ErrorEvent == [is |-> "error"]

Raise(exception) ==
  /\ stage' = "over" /\ raised' = exception
  /\ UNCHANGED <<query, pushed, residual, names, rows, events>>
Refuse == Raise("S3Error")
Goto(s) == stage' = s /\ UNCHANGED <<query, pushed, residual, names, rows, events, raised>>
-----------------------------------------------------------------------------
\* parse_request and parse.  For a number of too many digits int raises ValueError, which
\* nobody catches.
Parse ==
  /\ stage = "received"
  /\ CASE Malformed(query.request) \/ query.request.expression = "wrong" -> Refuse
       [] ~Malformed(query.request) /\ query.request.expression = "outsized" -> Raise("ValueError")
       [] OTHER -> Goto("parsed")

\* The names S3 has for the columns, and those the reader has: it numbers the columns of
\* a CSV without a header from 0, and hadro those of one whose header is not used from 1.
Numbered(n, from, prefix) == [i \in 1..n |-> NumberedName(prefix, i + from - 1)]
Width == IF SourceFormat = "csv" /\ HeaderInfo(query.request) = "NONE" /\ DOMAIN query.table = {} THEN 0
         ELSE Len(query.header)
S3Names ==
  IF SourceFormat = "csv" /\ HeaderInfo(query.request) # "USE" THEN Numbered(Width, 1, "_")
  ELSE query.header
ReaderNames ==
  IF SourceFormat = "csv" /\ HeaderInfo(query.request) = "NONE" THEN Numbered(Width, 0, "col_")
  ELSE query.header

\* A row by the names of its columns, and the row that a SELECT makes of it
ByName(header, row) == [n \in ToSet(header) |-> row[CHOOSE i \in DOMAIN header : header[i] = n]]
Projected(row) ==
  IF All THEN [i \in DOMAIN S3Names |-> <<S3Names[i], row[S3Names[i]]>>]
  ELSE [i \in DOMAIN query.columns |-> <<query.columns[i][2], Value(query.columns[i][1], row)>>]
ProjectedAll(table) == [i \in DOMAIN table |-> Projected(table[i])]
Size(table) == Cardinality(DOMAIN table)
Table == [i \in DOMAIN query.table |-> ByName(S3Names, query.table[i])]

\* A Parquet file that is asked for whole is sent as it is.
Untouched ==
  SourceFormat = "parquet" /\ OutputFormat = "parquet" /\ All /\ Without /\ query.limit = NoLimit

SendFile ==
  /\ stage = "parsed" /\ Untouched
  /\ events' = <<Records(ProjectedAll(Table)), Stats(Size(Table)), End>>
  /\ stage' = "over"
  /\ UNCHANGED <<query, pushed, residual, names, rows, raised>>

\* The object is decompressed, and its names and kinds are read.  bz2 raises ValueError
\* for an end that is missing, which _decompress does not catch, and csv raises its own
\* Error for some first lines, which _describe does not; others pass it, for the reader.
\* A bug for FaultsAreTold: gzip's EOFError is not caught either.
AnyShort == query.fault = "short"
Uncaught == query.fault = "short" /\ Compression(query.request) = "BZIP2"
Open ==
  /\ stage = "parsed" /\ ~Untouched
  /\ CASE Uncaught -> Raise("ValueError")
       [] ~Uncaught /\ query.fault \in {"garbled", "short"} -> Refuse
       [] query.fault = "unreadable" /\ SourceFormat # "csv" -> Refuse \/ Goto("opened")
       [] query.fault = "unreadable" /\ SourceFormat = "csv" -> Raise("csv.Error") \/ Goto("opened")
       [] OTHER -> Goto("opened")

ColumnKinds == [n \in ToSet(S3Names) |->
                  query.kinds[CHOOSE i \in DOMAIN S3Names : S3Names[i] = n]]

\* The columns that a projection makes necessary, and whether they are there
\* A bug for AsksForEnough: the columns of the condition are left to the reader.
SelectedColumns == {query.columns[i][1] : i \in DOMAIN query.columns}
OnlySelected == SelectedColumns
NeededColumns == SelectedColumns \cup IF Without THEN {} ELSE ColumnsIn(query.where)
ProjectionRefused == ~All /\ \E c \in NeededColumns : Missing(ToSet(S3Names), c)

\* What the reader is asked for; the CSV reader always gives all columns.
Asked == IF All \/ SourceFormat = "csv" THEN ToSet(S3Names)
         ELSE {ResolveColumn(ToSet(S3Names), c) : c \in NeededColumns}

\* If the plan is refused for one conjunct and overflows in another, the first counts.
PlanFails == ProjectionRefused \/ (~Without /\ PlanRefused(query.where, ColumnKinds, SourceFormat))
Overflowing == ~Without /\ PlanOverflows(query.where, ColumnKinds, SourceFormat)
Plan ==
  /\ stage = "opened"
  /\ \/ PlanFails /\ Refuse
     \/ ~ProjectionRefused /\ Overflowing /\ Raise("OverflowError")
     \/ /\ ~PlanFails /\ ~Overflowing
        /\ stage' = "planned"
        /\ pushed' = IF Without THEN {} ELSE Pushed(query.where, ColumnKinds, SourceFormat)
        /\ residual' = IF Without THEN {} ELSE Residual(query.where, ColumnKinds, SourceFormat)
        /\ UNCHANGED <<query, names, rows, events, raised>>

\* The predicates in the reader's names
ForReader(p) ==
  [p EXCEPT !.column = ReaderNames[CHOOSE j \in DOMAIN S3Names : S3Names[j] = p.column]]
Kept(preds) ==
  {i \in DOMAIN query.table :
     \A p \in preds : Applies(ForReader(p), ByName(ReaderNames, query.table[i]))}

\* The morsel: the rows that are left, with the columns that were asked for.  Without a
\* row there may be none: nothing to evaluate the residual on, and no result.
Gives(preds, rest) ==
  /\ pushed' = preds /\ residual' = rest
  /\ \/ query.fault # "columns" /\ stage' = "read" /\ names' = Asked
        /\ rows' = [i \in Kept(preds) |-> Restrict(Table[i], Asked)]
        /\ UNCHANGED raised
     \/ Kept(preds) = {} /\ stage' = "streaming" /\ UNCHANGED <<names, rows, raised>>
     \/ query.fault = "columns" /\ stage' = "over" /\ raised' = "S3Error" /\ UNCHANGED <<names, rows>>
  /\ UNCHANGED <<query, events>>

ReaderFails(preds) == query.fault = "unreadable" \/ RejectedPredicates(preds, ColumnKinds)

Read == stage = "planned" /\ ~ReaderFails(pushed) /\ Gives(pushed, residual)

\* The reader refuses a predicate, which it may for any: everything is read, and filtered
\* afterwards.
ReadAll ==
  /\ stage = "planned" /\ pushed # {} /\ ~ReaderFails({})
  /\ Gives({}, {query.where})

ReadOverflows == stage = "planned" /\ ReaderOverflows(pushed) /\ Raise("OverflowError")

\* It refuses the object, if there were predicates for the second time.
Unreadable == stage = "planned" /\ ReaderFails({}) /\ Refuse

\* The kinds of the morsel's columns, and whether a row is left
MorselKinds == Restrict(ColumnKinds, names)
Chosen(row) == \A part \in residual : Mask(part, row, MorselKinds) = Yes

\* The place of a position among others, and the first of them, as many as LIMIT leaves
Rank(positions, i) == Cardinality({j \in positions : j <= i})
FirstOf(positions) ==
  IF query.limit # NoLimit /\ query.limit < Cardinality(positions)
    THEN {i \in positions : Rank(positions, i) <= query.limit} ELSE positions

\* The residual is evaluated, the limit cuts what it leaves, and the columns are those
\* of the SELECT.
Filter ==
  /\ stage = "read"
  /\ \A part \in residual : ~Refused(part, MorselKinds) /\ ~MaskOverflows(part, MorselKinds)
  /\ rows' = ProjectedAll(Restrict(rows, FirstOf({i \in DOMAIN rows : Chosen(rows[i])})))
  /\ stage' = "streaming"
  /\ UNCHANGED <<query, pushed, residual, names, events, raised>>

FilterFails ==
  /\ stage = "read"
  /\ \/ /\ {part \in residual : Refused(part, MorselKinds) \/ KernelRefuses(part)} # {}
        /\ Refuse
     \/ /\ {part \in residual : MaskOverflows(part, MorselKinds)
                                \/ KernelOverflows(part, MorselKinds)} # {}
        /\ Raise("OverflowError")
-----------------------------------------------------------------------------
Batchable == OutputFormat # "parquet"

\* The number of rows before the next batch
Offset == IF Batchable THEN BatchRows * Len(events)
          ELSE IF events = << >> THEN 0 ELSE Size(rows)

\* The batch that begins after n rows
\* A bug for StreamTellsAll: the last batch has to be a full one.
Cut(from, to) == Restrict(rows, {i \in DOMAIN rows : Rank(DOMAIN rows, i) \in from + 1..to})
FullBatch(n) == Cut(n, IF n + BatchRows <= Size(rows) THEN n + BatchRows ELSE n)
Batch(n) == IF Batchable THEN Cut(n, Min({n + BatchRows, Size(rows)})) ELSE rows

\* The rows sent so far, each with the event it was sent in
Sent == UNION {{k} \X DOMAIN events[k].rows : k \in {k \in DOMAIN events : events[k].is = "Records"}}

SendBatch ==
  /\ stage = "streaming"
  /\ Offset < Size(rows) /\ ~Unwritable(query.request)
  /\ events' = Append(events, Records(Batch(Offset)))
  /\ UNCHANGED <<query, stage, pushed, residual, names, rows, raised>>

\* A batch cannot be written in the output format: the stream ends with an error.
BatchFails ==
  /\ stage = "streaming"
  /\ Offset < Size(rows)
  /\ events' = Append(events, ErrorEvent)
  /\ stage' = "over"
  /\ UNCHANGED <<query, pushed, residual, names, rows, raised>>

SendEnd ==
  /\ stage = "streaming"
  /\ Offset >= Size(rows)
  /\ events' = events \o <<Stats(Cardinality(Sent)), End>>
  /\ stage' = "over"
  /\ UNCHANGED <<query, pushed, residual, names, rows, raised>>

Next == \/ Parse \/ SendFile \/ Open \/ Plan \/ Read \/ ReadAll \/ ReadOverflows \/ Unreadable
        \/ Filter \/ FilterFails \/ SendBatch \/ BatchFails \/ SendEnd
Spec == Init /\ [][Next]_selectVars
-----------------------------------------------------------------------------
\* The answer SQL gives.
Selected == IF Without THEN DOMAIN Table
            ELSE {i \in DOMAIN Table : Meaning(query.where, Table[i], ColumnKinds) = Yes}
Answer == ProjectedAll(Restrict(Table, FirstOf(Selected)))

\* The rows that are streamed are those for which the condition is true under SQL's
\* three-valued logic, in their order, with the columns of the SELECT under their names,
\* whichever part of the condition the reader applied, compile_mask applied, or both
\* refused first, and whatever the reader calls the columns.
KeepsTrueRows == stage = "streaming" => rows = Answer

\* The first n events have rows of the answer, each event behind the one before it.
FromAnswer(n) ==
  /\ \A k \in 1..n : /\ events[k].is = "Records"
                     /\ DOMAIN events[k].rows \subseteq DOMAIN Answer
                     /\ events[k].rows = Restrict(Answer, DOMAIN events[k].rows)
  /\ \A k, l \in 1..n : k < l =>
       \A i \in DOMAIN events[k].rows, j \in DOMAIN events[l].rows : i < j
SentUpTo(n) == UNION {DOMAIN events[k].rows : k \in 1..n}

\* A stream that ends with End has every row of the answer once, in order, and Stats
\* that agree with it, however it was cut; one that fails has none but the first of them,
\* no Stats and no End.
StreamTellsAll ==
  stage = "over" /\ raised = "none" =>
    LET n == Len(events) IN
    \/ /\ events[n] = End /\ events[n - 1] = Stats(Size(Answer))
       /\ FromAnswer(n - 2) /\ SentUpTo(n - 2) = DOMAIN Answer
    \/ /\ events[n] = ErrorEvent
       /\ FromAnswer(n - 1)
       /\ \A i \in SentUpTo(n - 1), j \in DOMAIN Answer : j < i => j \in SentUpTo(n - 1)

\* The reader was asked for every column that the SELECT and what is left of the
\* condition look at, and among those it gave each name stands for the same column as
\* among all.
AsksForEnough ==
  stage = "read" =>
    \A c \in SelectedColumns \cup UNION {ColumnsIn(part) : part \in residual} :
      ~Missing(ToSet(S3Names), c) =>
        Matching(names, c) = Matching(ToSet(S3Names), c)

\* An int of the condition is too large for 64 bits.
HasWide(c) ==
  \E d \in PartsOf(c) \cap Leaves : \E l \in Operands(d) :
    l.is = "literal" /\ l.kind = "int" /\ l.value \in Wide

\* What is raised is raised before anything is streamed; no row is sent of an object with
\* a fault, unless it is sent untouched, nor for an output that cannot be written.  Nothing
\* but an S3Error is raised, except for what Python itself finds too large, for a bzip2
\* object whose end is missing, and for a CSV whose first line csv does not read.
FaultsAreTold ==
  stage = "over" =>
    /\ raised # "none" => events = << >>
    /\ (query.fault # "none" /\ ~Untouched) \/ Unwritable(query.request) => Sent = {}
    /\ \/ raised \in {"none", "S3Error"}
       \/ raised = "ValueError" /\ query.request.expression = "outsized"
       \/ raised = "ValueError" /\ query.fault = "short" /\ Compression(query.request) = "BZIP2"
       \/ raised = "csv.Error" /\ query.fault = "unreadable" /\ SourceFormat = "csv"
       \/ raised = "OverflowError" /\ ~Without /\ HasWide(query.where)
=============================================================================
