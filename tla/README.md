# A TLA+ verification of hadro

hadro is a read-only, S3-compatible object server in Python. It serves a local
directory or Google Cloud Storage through the S3 API, can cache a slow backend in
memory, can shape its responses to look like a remote store, and answers S3
Select queries over Parquet, JSON Lines and CSV objects. This directory holds TLA+
modules translated from the code under `src/src/hadro`, TLC configurations that
check them on small instances, and proofs that TLAPS checks for every instance.

Contents: [the system](#the-system) · [modules](#modules) ·
[runs and bounds](#runs-and-bounds) · [fairness](#fairness) · [proofs](#proofs) ·
[what was found](#what-was-found) · [what is not modelled](#what-is-not-modelled) ·
[plan](#plan)

## The system

A request comes in over HTTP (uvicorn) and passes, outside in: the shaping
middleware (`shaping.py`), the check of signatures (`app.py`, `auth.py`) and the router,
whose first routes refuse writes (`app.py`). The handlers (`api/objects.py`,
`api/buckets.py`, `select/`) are plain functions that Starlette runs on a pool of
threads. They call the storage backend (`storage/local.py`, `storage/gcs.py`), with
or without the cache (`storage/cache.py`) in between. The responses go back through
the same layers, on the event loop. So there are two kinds of concurrency: threads
that interleave in the handlers and the cache, and coroutines that interleave at
each `await` in the shaper.

| component | state | operations | used by |
|---|---|---|---|
| object cache, `storage/cache.py` | `_data` and `_heads` (ordered dictionaries), `_size`, a lock | `head_object`, `get_object`, pass-through lists | handlers, on several threads |
| object requests, `api/objects.py` | none; over the cache or, without one, the backend | GetObject, HeadObject, SelectObjectContent, ranges | router |
| listings, `api/buckets.py` | none: the client carries a token | ListObjects, ListObjectsV2, ListBuckets, HeadBucket, GetBucketLocation | router |
| local backend, `storage/local.py` | the directory | list, head, get | cache, handlers |
| GCS backend, `storage/gcs.py` | a client made on first use | list, head, get | cache, handlers |
| S3 Select, `select/__init__.py`, `select/evaluate.py` | local to a run | parse, plan, read, filter, limit, stream | object requests |
| SQL parser, `select/sql.py` | an index into the tokens | `parse` | S3 Select |
| S3 Select formats, `select/formats.py`, `select/eventstream.py` | none | write rows, frame messages | S3 Select |
| shaping, `shaping.py` | `_link_free_at`, `_requests`; per response `stream_free_at` | delay, refuse, pace | the ASGI server |
| application, `app.py`, `errors.py` | configuration | routing, middleware, `drain` | the ASGI server |
| authentication, `auth.py` | none | verify a SigV4 signature | application |
| test server, `server.py` | a socket, a thread, uvicorn's server | start, stop | tests |
| configuration, command line, `config.py`, `cli.py` | none | read settings | start-up |
| XML, `s3xml.py` | none | lay out responses | handlers |

What is hard about each, and what makes it correct:

* **Object cache.** A call takes the lock for one look at a dictionary or one change
  of it and drops it around the backend call. Between its miss and its store other
  threads miss, store, expire and evict the same key, and the bucket changes. It is
  correct if an answer is never older than the ttl and one fetch, if the byte counter
  that drives the eviction loop is the bytes cached, if the least recently used
  goes first, and if changes in the bucket show up in the end.
* **Object requests.** A GET is two calls (metadata, content) that the cache may
  answer from fills of different age. It is correct if an undisturbed response
  is coherent in every part and a 404 is true; the range arithmetic has to be exact.
* **Listings.** A page is built from a walk that is no snapshot, and the next page
  from a token that is only a name. It is correct if nothing is listed twice, on one page or
  two, or out of order, nothing that is there all the time is missing, and the client gets to the end.
* **S3 Select.** Two evaluators (the reader's predicates and boolean masks) share one
  condition by rules that split, turn round, negate and coerce it. It is correct if the
  rows kept are those for which SQL's three-valued logic says TRUE, and if a
  stream that ends normally has told all of the answer.
* **SQL parser.** One token of look-ahead decides between the AND of BETWEEN and the AND
  that joins conditions, between NOT before a test and NOT before a condition. It is
  correct if it reads exactly the documented language, each text as one query.
* **Shaping.** All responses book chunks on one link, between awaits of their own, and
  clients go away while a chunk waits. It is correct if the rates are kept together
  and separately, no link time is lost, each body is closed once, by its last unit, and
  every response ends.
* **Local backend.** A path is looked at in one system call and opened in another. It is
  correct if a 404 is true and whatever is told of a file is true of one that was there,
  whichever of the two calls fails.
* **Application.** Four parties may answer a request: the shaper, the signature check, a
  handler, the framework. It is correct if a body that nobody asked for is not
  taken for the next request of the connection.
* **Authentication.** A signature covers a canonical form of the request, and everything between client and
  server may rewrite the rest; the check and the handlers each have a view of their own of it. It is
  correct if what a handler acts upon means what was signed, and what was signed is not refused.
* **Test server.** The caller, uvicorn's thread and two deadlines race. It is correct
  if a server that is up serves on the port it names, one that was stopped does not come
  up after all, and every call ends.

`PROJECT.json` lists every hazard at the line where it bites, with the properties that
cover it or the reason why none does yet.

## Modules

```
OrderedDict <- ObjectCache <- EvictionOrder
                    |  \-- implements BoundedStaleness
               LocalFiles <- ObjectApi -> ByteRange

SelectRequest, Conditions <- SelectFilter <- SelectRun
Conditions <- SqlParser <- SqlGrammar            LikePattern
Shaper <- LinkRate       SigV4 <- Requests       Listing       TestServer

proofs: EvictionOrder <- ObjectCacheProofs       SelectRun <- SelectProofs
        ObjectCacheProofs, ObjectApi <- ObjectApiProofs       LinkRate <- ShaperProofs
        LikePatternProofs    RequestsProofs    ListingProofs    TestServerProofs
```

(`A <- B`: B extends A.) Each `MC` module extends the one it is named after, gives
names to the values its constants take and holds nothing else, but for MCSqlParser, which
also holds the few lines that produce the texts and extends LikePattern.

**OrderedDict** is `collections.OrderedDict` as the cache uses it: a function from keys
to values with a sequence of the keys. `Assign` keeps the place of a key that is
there, `MoveToEnd` and `DropOldest` are `move_to_end` and repeated
`popitem(last=False)`.

**ObjectCache** is `CachedBackend`. A call of a thread is a record in `call`; its `pc`
says which critical section or backend call comes next:

| pc | action | code |
|---|---|---|
| `lookup` | `Lookup` | `_get_cached`, under the lock: hit, miss, or expired and removed |
| `head` | `HeadLookup` | the look at `_heads` in `head_object` |
| `headload`, `load`, `loadrange` | `HeadLoad`, `Load`, `LoadRange`, or `Fail` | the backend call, no lock held |
| `headkeep` | `HeadKeep` | the store in `_heads`, with its eviction |
| `keep` | `Keep` | `_store`: replace, count, evict until `max_bytes` holds |
| `done` | `Return` | the answer goes to the handler |

`Write` changes the bucket, `Tick` advances the clock. A time stamp is kept as the
entry's age, which is all the code computes with it; ages past the ttl are not
told apart. Objects are whole contents with a size; a range read is modelled by the
object it reads from. `lag` and `seen` are history variables: how long ago a key held an
object, and what it held since a call began. `FetchBound` is how many ticks may pass
between the backend's answer and its storing (the entry is stamped when it is stored).
The eviction loop is one action, because the lock is held all the way; `Evictions`
characterises how many turns it takes.

**BoundedStaleness** is what a reader is promised, with no word of dictionaries, locks
or ages: an answer is what the bucket held during the read, or less than `Bound`
ticks ago; an error; or None if the object was missing during the read.
`KeepsPromise` in ObjectCache states that the cache implements it (`view` is what a
reader sees of a call, `Bound` is ttl plus one fetch).

**EvictionOrder** extends the cache with two histories, which key was last used before
which, and compares them with what is evicted.

**ByteRange** is `_parse_range` on the two numbers of a header, and the definition of a
byte range (RFC 9110) to compare it with, except where `EmptyTail` says that the code does
something else. **LocalFiles** is `head_object` and `get_object`
of the local backend over the same bucket: `Resolve` is the look at the path, `Open` the
`stat` or `open`, which raises when the file is gone by then. Either may also `Raise` for
other reasons: a name that no file can have, a file that may not be read, a disk that fails. **ObjectApi**
runs GetObject and HeadObject on top of ObjectCache or of LocalFiles, as `cached` says
(`create_backend` makes no cache of no bytes): `Arrive` begins the metadata lookup, `Looked` answers or goes on,
`Read` begins the content call, `Got` makes the response from metadata and content,
`Sent` ends the request. A response records which object each of its parts describes.

**Shaper** is the middleware. An action is what a coroutine does between two awaits:
`Accept` (up to the sleep of the delay), `Admit`, `Produce` (the application's next
message, up to the sleep of its first chunk), `Wake`, `Sent` (the next chunk is booked or
the application goes on), `Disconnect` (the client goes away: a plain response goes on to its end, its
sends going nowhere) and `Cancel` (a streaming response is cancelled then). Times are kept relative to the clock,
which makes `max(now, x)` the maximum with 0 in `Tick`. **LinkRate** watches it from any
moment on and counts ticks and units sent (`UnitsSent`).

**Listing** is `list_objects` of the API over the generator of the local backend and a
client that follows the tokens: `Ask` (a negative max-keys and a missing bucket are refused), `Walk` (one directory of `os.walk`), `Look` (stat
of the next key and the API's decision about it), `Break` (a stat that raises something else than
FileNotFoundError, which ends the request), `EndOfFiles`, `Follow` (if the page `HasToken`). `Change` writes or removes a
file at any point, `ChangeBucket` a bucket. A page is two sequences, `contents` and `prefixes`, to which
names are appended as to the lists of the code. Names are places in the order of names; the assumptions
say what makes a function a grouping by common prefixes.

**Conditions** is the constructors of the WHERE trees that parser and evaluator share.
**SelectRequest** is what is refused in a request document and which formats it asks for.
**SelectFilter** is `resolve_column`, `columns_used`, `plan`, `coerce` and `compile_mask`:
`ResolveColumn`, `ColumnsIn`, `Pushed`, `Residual`, `PlanRefused`, `Mask`, `Refused`, and
`Meaning`, what SQL says. Columns are of nine kinds and literals of five; a value is a number and the kind says
what it stands for, so that 1, 1.0 and TRUE are one value, as in Python, and a text is another
(`Unlike`). What `coerce` makes of a literal is `Coerced`, from `Written` (str of it) and `Parsed` (what a text
is read as for a column's kind); an int of more digits than a double has raises OverflowError
(`Overflows`). The readers' predicates are external (`Applies`). A condition is any
record whose parts are less deeply nested than it is: `Height` says how deep, its domain `Trees` is
the conditions there are, and what the code computes by recursion is a recursive function on it. The conjuncts and the predicates are
sets: their order and number change nothing. **SelectRun** is
a run from the document to the last event:

| stage | actions | code |
|---|---|---|
| `received` | `Parse` | `parse_request`, `parse` |
| `parsed` | `SendFile`, `Open` | a Parquet file asked for whole; `_decompress`, `_describe`, `_csv_header` |
| `opened` | `Plan` | the projection's names, `plan` |
| `planned` | `Read`, `ReadAll`, `ReadOverflows`, `Unreadable` | `_read`, again without predicates if the reader refused them |
| `read` | `Filter`, `FilterFails` | the mask of the residual, the limit, the columns of the SELECT |
| `streaming` | `SendBatch`, `BatchFails`, `SendEnd` | `_stream` |

Columns have up to three sets of names: the header's, those S3 gives (`_1`, ...) and those
of the reader (`col_0`, ...; `NumberedName`). `S3Names`, `ReaderNames` and `names`, the columns that came, keep them apart.
The rows of the object, a morsel, an event and the answer are functions from positions in the
object, so that a row that is lost, doubled or out of its place is told from another with the
same values.
**LikePattern** is the choice of a kernel for LIKE and
`_prefix_upper_bound`, over byte strings.

**SqlParser** is the recursive descent of `select/sql.py`, one operator per method, over
a sequence of tokens. **SqlGrammar** says which trees a sequence of tokens stands for, as
sets, without look-ahead or order of attempts: a text is split wherever it can be.

**SigV4** is `verify`. A digest is a record of what was digested and a signature
one of the secret and the text signed, so hashes are injective. A pair of a query can be
spelled and a header be spaced in several ways, which is what `canonical_query` and the
joining of headers forget (`StringToSign`). A header comes in one or more lines, whose texts
hold no comma: `app.py` makes a dictionary of them, so the text to sign has the last (`TextOf`), a handler
reads the first (`Read`), and `Meaning`, what a client signs, has all of them in order.
**Requests** is one connection through `create_app`: `Send` (what arrives may differ
from what was sent, in the call and in its proof), `SlowDown` (the shaper's 503), `Admitted` and `Check` (the signature
middleware), `Handle` (the route, `Operation`, and who reads the body, `Reads`), `Finish`,
and `Impatient`, the client that does not wait any longer to be asked for its body.

**TestServer** is `Server`. A caller's `pc` stops where another thread can come between:
`Start`, `Bind`, `Launch`, `Poll` in `start`, `AskToExit`, `Join`, `Close` in `stop`. uvicorn's
thread, external, does `Listen`, `Serving`, `Shutdown` and `Drained`.

## Runs and bounds

| run | module, cfg | distinct states | checks |
|---|---|---|---|
| `cache_reads` | MCObjectCache | 360 k | `TypeOK`, `SizeAccounting`, `FreshIsRecent`, `LargeOnlyByChange`, `KeepsPromise`, `ChangesShowUp` |
| `cache_eviction` | MCEvictionOrder, MCEviction.cfg | 41 k | `SizeAccounting`, `DataEvictedByUse` |
| `head_order` (violation) | MCEvictionOrder, MCHeadOrder.cfg | | `HeadsEvictedByUse` |
| `object_api` | MCObjectApi | 2.3 M | `HonestNotFound`, `ServesRecent`, `QuietIsCoherent` |
| `shaped_responses` | MCShaper | 328 k | `TypeOK`, `CompleteWhenClosed`, `NoIdleLink`, `ResponsesEnd` |
| `link_rate` | MCLinkRate | 1.8 M | `LinkKept`, `StreamKept` |
| `listing` | MCListing | 548 k | `TypeOK`, `OnceInOrder`, `ReportsSteady`, `ListingEnds` |
| `select` | MCSelect | 181 k | `KeepsTrueRows`, `StreamTellsAll`, `AsksForEnough`, `FaultsAreTold` |
| `select_null_bounds` (violation) | MCSelect, MCSelectNullBounds.cfg | | `KeepsTrueRows` |
| `sql_language` | MCSqlParser | 224 k | `ParsesTheLanguage`, `KernelsMatch` |
| `requests` | MCRequests | 6.7 M | `KeepsStep`, `HandledWasSigned`, `HonestPasses` |
| `test_server` | MCTestServer | 345 k | `UpMeansServed`, `StopIsFinal`, `CallsEnd`, `ThreadsStop` |

What the bounds are and why they are enough:

* `cache_reads`: one key, since entries of different keys meet only in evictions; two
  threads, all three kinds of call; two objects of one byte and one of two in a cache of
  four bytes, so that the limit for one entry (a quarter) separates them; ttl 2,
  so that an entry can be fresh, older and expired; one tick between answer and store; one
  change of the bucket, to any object or none. One change gives every order of a miss, a
  change, another thread's store and a late store; what more changes could do is covered
  by the proofs, which have no bounds.
* `cache_eviction`: two keys of one byte and four of two in eight bytes, so that a store
  evicts none, one or two entries; two threads that miss and store the same keys; ttl 1, so
  that entries expire between. Keys of one size and threads are symmetric.
* `head_order`: three keys, room for two heads, one thread: the least that shows it.
* `object_api`: one key, two threads, an empty, a small and a large object, one change, ttl 1; no
  header, a range inside, one that begins inside and ends beyond, and a suffix; with a
  cache and without.
* `shaped_responses`: two connections, three requests of which the second is refused,
  responses of one or two messages of no, one and three units in chunks of two: an empty message, a
  single chunk, a full chunk with a short one. Three requests let a connection be used
  again while the other's chunks are still booked.
* `link_rate`: two connections, two requests, bodies of one, three and five units in chunks
  of two, with rates that do not divide each other (3 ticks per unit for a response, 2 for
  the link), watched from every moment on; one message a response.
* `listing`: seven names, five keys: two at the ends of which one is alone under a prefix,
  two under one prefix, one between; at most two names a page, and a max-keys of -1, 0, 1 and 3;
  start-after none or between the keys of a prefix. Any file and the bucket change at any time
  and as often as they like. With one and two names a page a prefix comes first and last on a page,
  and pages run full with a prefix half reported.
* `select`: about 2,500 conditions, every kind of leaf with operands of every kind,
  negated, and pairs and triples of twelve of them, with and without a projection, on nine
  rows of three columns over {NULL, 1, 2}, in three formats; some 150 conditions of one column
  and a literal, for each kind of column that a format can have (int, float, decimal, bool, str, bytes, date,
  datetime and another) and fourteen literals, among them an int that reads as a day, one over 64 bits and one over
  the doubles, texts that read as numbers, truth, days and hours, and NULL; 1,200 of two literals; four conditions on objects of 0 to
  5 rows with limits 0 to 4 or none and every pair of formats, in batches of two. With two
  values and NULL every comparison can come out each way on both sides of every literal. The
  columns are x, id and Id: names in other cases, quoted, ambiguous, missing and numbered, in
  conditions and projections, with each kind of header. Objects that are garbled, cut
  short (GZIP and BZIP2), unreadable as a whole or in their columns; and documents with
  each element missing, right and wrong.
* `sql_language`: thirteen queries that have every clause and test, and everything that
  removing, inserting or replacing a token makes of them (two tokens in the two short
  ones), with an alphabet of all keywords, names, literals and signs. For `KernelsMatch`, where
  there is no text: three bytes, patterns up to three characters, values up to four.
* `requests`: some twenty calls, one or two for each route, that differ in the order, spelling, number
  and values of the query's pairs, in a header's text, spacing and lines (a second one before or behind
  the first) and in the body; on the way one
  of these may change, and the proof may be replaced by one with another key, date, hash, flaw, list of headers
  or place. Proofs of every kind, flaw and payload, with the right and the wrong key and
  secret; a URL good for one or two seconds, or for more than a date can hold; a clock of five half seconds. One
  request after the other: what is carried over is only whether the connection is in step.
* `test_server`: two servers, one on a fixed port and one on any, two ports, three starts:
  a server is started again while it runs, and takes the port of another or of itself.

Deadlock is checked wherever the system cannot stop by itself. It is switched off where a finished state is
final: a select run that is over, a listing that is done, a text or pattern at the
bound of its length, a connection that is out of step.

Every property of a passing run has a mutant in `PROJECT.json`: a definition of the model with a
plausible bug (a dropped check, a wrong order, an off-by-one) under which TLC finds the
property violated. The mutated definitions stand next to the ones they replace,
marked "A bug for ...".

## Fairness

* Cache (`FairSpec` of ObjectCache): weak fairness of each thread's `Step` and of `Tick`.
  Threads of the pool are scheduled by the operating system and backend calls return or
  raise; the clock runs. Nothing makes clients call or the bucket change.
  `Tick` waits for a thread that holds an answer for `FetchBound` ticks: that is the
  meaning of the bound, not a wait of the code.
* Shaper: weak fairness of each connection's `Run` and of `Tick`. The event loop resumes
  every coroutine whose sleep or send is over. It includes that the application
  goes on with its response; `MaxMessages` bounds how many messages it sends.
  Connections need not be accepted nor clients stay.
* Listing: weak fairness of `Page` as a whole: the server answers and the client follows.
  Changes of files are not fair, and they may go on for ever without hindering the listing.
* Test server (`FairSpec`): weak fairness of each caller's `InCall`, which includes that
  deadlines pass, and of uvicorn's `Serving` and `Shutdown`, which wait for nothing. Its thread may hang
  while it starts up and while it drains: `Listen` and `Drained` are not fair.

## Proofs

TLAPS checks these for every value of the constants that the named assumptions allow
(`CacheAssumption`, `ApiAssumption`, `LikeAssumption`, `LiteralAssumption`, `SigV4Assumption`,
`RequestsAssumption`, `ListingAssumption`, `ShaperAssumption`, `ServerAssumption`, `TreeAssumption`,
`SelectAssumption`). No theorem assumes anything else. Most say what kind of thing a constant is;
those on prefixes (Listing) and on what a signature covers (SigV4) are discussed with their arguments.
`TreeAssumption` says that conditions are finite trees of what the parser builds;
`LiteralAssumption` that `Parsed` gives values for six kinds and that what float refuses is an int of more
than 64 bits; `SelectAssumption` that the columns of an object have different names, every row has a value for
each, and two numbers make two names.

| theorem | says |
|---|---|
| ObjectCacheProofs `TypeCorrect` | `Spec => []TypeOK` |
| `SizesRight` | `Spec => []SizeAccounting` |
| `FreshRecent` | `Spec => []FreshIsRecent` |
| `LargePulledByChange` | `Spec => LargeOnlyByChange`: a ranged read pulls a large object only if the key held a small one |
| `PromiseKept` | `Spec => KeepsPromise`: the cache implements BoundedStaleness |
| `EvictedByUse` | `WatchedSpec => DataEvictedByUse`: what goes out was used less recently than what stays |
| ObjectApiProofs `RangeExact` | `ParseRange` serves what a header asks for, for every header and size but the empty tail |
| `NotFoundHonest` | `ApiSpec => []HonestNotFound`: a 404 only if the object was missing during the request |
| `ServedIsRecent` | `ApiSpec => []ServesRecent`: each part of a response is of an object that was there in the window |
| `QuietCoherent` | `ApiSpec => []QuietIsCoherent`: with no change in the window the response is the current object's in every part |
| LikePatternProofs `PrefixRangeExact` | the byte range for `prefix%` holds the strings with that prefix and no others |
| LikePatternProofs `KernelsAlwaysMatch` | `LikeSpec => []KernelsMatch` |
| ListingProofs `ListingTypes` | `Spec => []TypeOK` |
| `ListedOnceInOrder` | `Spec => []OnceInOrder`: no name comes twice, on a page or over the pages |
| `ListsWhatStays` | `Spec => []ReportsSteady`: no file that stays is missing |
| RequestsProofs `OnlySignedHandled` | `Spec => []HandledWasSigned`: with headers in several lines and a proof altered on the way, too |
| `BodiesRead` | `Spec => []KeepsStep` |
| `HonestPass` | `Spec => []HonestPasses`: what was signed, still means the same and is in time, with no signed header in several lines, is not refused |
| ShaperProofs `ShapedTypes` | `Spec => []TypeOK` |
| `ClosedByTheLast` | `Spec => []CompleteWhenClosed` |
| `NoTimeLost` | `Spec => []NoIdleLink` |
| `LinkRateKept` | `WatchedSpec => []LinkKept`: no more is sent than the link allows, from any moment to any other |
| `StreamRateKept` | `WatchedSpec => []StreamKept`: the same of a response and its own rate |
| TestServerProofs `ServedWhileUp` | `Spec => []UpMeansServed` |
| `StoppedForGood` | `Spec => []StopIsFinal` |
| SelectProofs `SelectInvAlways` | `Spec => []SelectInv`: what a run has, at each of its stages |
| `KeepsTrueRowsAlways` | `Spec => [](Without \/ Harmless(query.where) => KeepsTrueRows)`: the rows are those for which SQL says TRUE |
| `StreamTellsAllAlways` | the same of `StreamTellsAll`: a stream tells the whole answer once and in order, or the first of it and an error |
| `AsksForEnoughAlways` | `Spec => []AsksForEnough` |
| `FaultsAreToldAlways` | `Spec => []FaultsAreTold`: nothing but S3Error is raised, for four causes excepted |

*The cache.* `TypeOK` is inductive; it includes that a dictionary's order lists each key
once, which is where most of the work is, in the lemmas on the dictionary
(`AssignProperties`, `DeleteProperties`, `MoveToEndProperties`, `DropOldestProperties`).
`SizeAccounting` is inductive with it. A total is the cardinality of a set of (key, byte)
pairs, so that it can be split and counted with the library's facts on finite sets and
needs no recursive sum. The eviction loop of `Keep` is characterised by where it stops, and
the entry just added is never the one that stops it from getting under `max_bytes`: what is
about to be stored is at most a quarter of that.

That answers are not too old is not inductive: a thread that holds an answer may have
it since before the bucket changed. `FreshIsRecent` is the strengthening: what a thread
holds was true when it began to hold it (`RecentlyRead`, at most `held` ticks ago),
what is cached and fresh was true at most `age + FetchBound` ticks ago (`Recent`), and the histories are up
to date (`HistoriesCurrent`). With it, each step of the cache either gives an allowed
answer (`GiveAnswers`), moves inside a call (`MoveStutters`), or is the abstract `Open`,
`Close`, `Change` or `Elapse` (`PromiseStep`).

`LargeOnlyByChange` needs `SmallSeen`: a thread that is about to pull an object for a ranged
read came there from a head of a small one, which the key held then and of which
`lag` still knows (`LagStays`).

`DataEvictedByUse` is about one step, in which what goes out is a part of the dictionary's order; the invariant it
needs is `UseInv`, that this order is the order of use. The last lemmas on the dictionary say of each operation
which key comes before which afterwards (`CutBefore`, `AppendBefore`, `MovedBefore`, `DroppedBefore`); a store moves its key behind all
others although the code never calls `move_to_end` there, because the old entry is deleted first (`KeepOrder`).

*Requests over the cache or over files.* What the cache answers is taken from its promise
alone: `PromiseStep` says what a step of a call may answer (`WorkAnswers`), and
no argument is about what is cached or how long. `ApiInv` says of each
thread that the call it waits for is its own (`InCall`), that the request's histories are
up to date (`Watched`), and that each thing it was told was so during the request, or
less than the window ago: the answer that a call holds (`CallHonest`), the metadata it decides on
(`Informed`) and the response (`Told`). A step of another thread, a change of the bucket and a tick each keep what was
honest (`StaysHonest`). What a Range header makes of metadata and of content is the
same if they are of one object, which is where `RangeExact` comes in.

*LIKE.* Two strings that differ have a first difference (`FirstDifference`), and the bound
differs from the prefix at the last byte that can be counted up (`UpperShape`). The least and
the greatest element of a finite set of numbers are obtained from the well-foundedness of
strict inclusion of finite sets, because the library's induction theorems take an
operator as a parameter, which the provers cannot instantiate.

*Listings.* That names come once is not inductive: what matters is where the page stands.
`OrderInv` says that what is on earlier pages is at most the pivot, which is the last of it
(`PivotInv`), that what is on this page is behind the pivot, and that `last`, the last of that, is the name of
a key before those still to be looked at (`LastInv`). So a name that is appended is behind all that
its list has (`AddedInOrder`, `AddedOnce`). A key that is not skipped has a name
behind all of them (`NotSkipped`), because keys and the names they are listed by have one order
(`NamesInOrder`), which is where the assumptions on prefixes come in. For `ReportsSteady`, `SteadyInv` follows each key
that is wanted and whose file stays (`KeptInSight`): it is in a directory not yet walked, among
those found, on a page, or behind a page that is full; and what a token makes the
next page skip is on a page (`Behind`, `SkippedIsNamed`, `CutIsNamed`).

*Requests.* What is handled was verified, and a signature that verifies is the record of the secret and the
text it was made from, so the texts are equal, whatever became of the proof; `QueryKept` and `TextIsMeaning` show that
equal texts mean the same, but for headers: sorting the decoded pairs keeps each as often as it was there. Of a
header that came in one line the first is the last (`OnceIsRead`, `HeadersAsSigned`), and the text holds a hash
that is the body's or none (`BodyAsSigned`; `RequestsAssumption` says that no digest is the text UNSIGNED-PAYLOAD).
`SignInv` carries this from the check to the handler. For `KeepsStep`, `BodyInv` says
who can have answered while a body is held back.

`HonestPasses` looks at the answer, which comes after the check. `HonestInv` keeps that an honest
request that was turned away was late then (time does not go back), that what arrived carries the signature that was sent (`Vouched`),
and that the proof's date is that of the clock it was made by, rounded down (`Dated`): a URL may expire up to a second
before its time, which `InTime` allows for (`DateRounds`, `InTimeNotExpired`).

*Shaping.* `ShapedInv` adds to the types what a coroutine's record says about where it is
(`Placed`): a response on its way to send is closed or has something left. `NoIdleLink` is not
inductive, because a chunk that is sent leaves those that wait but not the link's bookings.
`LinkInv` is about every moment t from now on: what is left then of the bookings is for
chunks that still wait then. A chunk waits at least as long as its booking goes, so
booking keeps it (`BookQuiet`); a chunk that is sent does not wait any longer at any
t (`OneQuiet`); a tick takes t + 1 to t (`TickQuiet`). Units are counted as (connection, unit)
pairs, as the cache's bytes are.


The rates are not inductive either: what was sent since the watch began says nothing of what is
due in the next tick. `RateInv` bounds, for every t, what was sent and what is booked and due within t ticks
(`Due`) by what the link sends until then, and `OwnInv` does the same for each response, where at most one
chunk is ahead (`Ahead`). Each step of a coroutine books a chunk, ends one, or does
neither (`ServeKinds`), and each kind is argued for once (`RateBooking`, `RateEnding`, `RateOther`).

*The test server.* The attributes `_socket`, `_server` and `_thread` of a Server need not be
of the same start: a start that fails to bind has replaced only the socket. `ServerInv`
says which start each may refer to (`RefInv`), that a socket with no thread is not
served (`SpareInv`), how far the thread can be at each line of `start` and `stop`
(`ThreadInv`), and that a start its Server has forgotten neither listens nor can
(`ForgottenInv`). `UpMeansServed` is `ThreadInv` of a Server that is idle, and `StopIsFinal` follows
from `ForgottenInv` and, for a socket that a Server still has without a thread, from `SpareInv`.

*S3 Select.* Three functions on conditions are defined by recursion: `Evaluated`, `PartsOf` and
`Conjuncts`. That each satisfies its equation is proved by one lemma, `RecursionDefines`: a
definition whose right side looks at less deeply nested conditions only (`Recursion`) is solved up to every
height, since the least height at which it is not would be a contradiction (`LeastNumber`). The library's
theorems on recursive functions take the definition as an operator, which the provers
cannot instantiate; here it is a function of functions. What holds of conditions is then
proved of a least nested condition for which it does not (`SimplestCondition`).

`KeepsTrueRows` has three parts. `LeafMask` and `LeafMeaning` agree on a leaf that is not refused (`LeafTruth`),
because a literal beside a column is read alike by both (`ScalarMeaning`, `RelatedTruth`) and two literals are compared
as Python does (`LiteralMeaning`), but for BETWEEN with a NULL literal, which can be UNKNOWN to one and FALSE to the other. That
shows as soon as it is denied. `Harmless` is that it is not, neither by its own NOT nor by one around
it: then the mask is TRUE of exactly the rows of which the condition is (`MaskKeepsTrueRows`). This is
the condition of the theorem because the code does not keep the promise without it: see
`select_null_bounds` below. A part that becomes predicates is TRUE of exactly the rows that pass
them, for each kind of part, denied or not (`PushedComparison`, `PushedNullTest`, `PushedList`, `PushedBetween`), so the condition is
TRUE of the rows that pass the predicates and of which the residual is TRUE (`PlanTruth`); this needs no
`Harmless`, but that what a literal is coerced to for the reader, by the column's kind or without one by its own, is what it
means beside the column (`TargetReads`, `PushedScalar`), or the reader refuses the predicate. And a name that `AsksForEnough` speaks of has the same value in the row that was read as in the
whole row, and the same kind (`ValueNarrowed`, `ScalarNarrowed`, `MaskNarrowed`), in which the reader's names are undone (`ReaderApplies`).

`SelectInv` carries this through a run: in `read` the rows are the morsel of what was pushed, and what was pushed and what is left are
either as planned or, when the reader refused, nothing and the whole condition (`Planned`). `FaultInv` says how far a
run comes with each fault, and `OverflowIsWide` that only an int over 64 bits in the condition overflows. `StreamTellsAll` is about the end of a run, where what was sent is no longer compared with
anything; `StreamInv` says while it streams that event k is the k-th slice of the rows, `PartsInOrder`
that the first m slices are the first m times `BatchRows` rows, and `SentOnce` counts what was sent by a bijection with the answer.

*Only model-checked*, and why:

* Liveness: `ChangesShowUp`, `ResponsesEnd`, `ListingEnds`, `CallsEnd` and `ThreadsStop`. They need
  fairness and ENABLED, which the prover cannot do.
* The SQL parser: `ParsesTheLanguage`. The descent and the grammar are written with RECURSIVE
  operators over texts, as the code is; that they agree on every text is an induction over
  texts with a dozen recursive operators, and the prover loses SMT in a module that declares any.

## What was found

* `HeadsEvictedByUse`: the class is documented as an "LRU cache of object bytes and
  metadata" (`storage/cache.py:14`), but a hit in `head_object` does not move the entry
  (`storage/cache.py:68`): metadata are evicted in the order in which they were first stored.
* `KeepsTrueRows` with NULL as a literal bound: `x NOT BETWEEN NULL AND 1` selects no
  row (`select/evaluate.py:369`), though the README promises SQL's NULL semantics
  (`README.md:267`), under which it is TRUE for every x over 1. With a column that is NULL as the
  bound it is evaluated as promised. The run `select` leaves these conditions out, and the theorems on
  `KeepsTrueRows` and `StreamTellsAll` have `Harmless` for a condition.

Met while modelling, without a run of its own because the models state them as they are:

* For a suffix range of an empty object `_parse_range` gives the part from 0 to -1
  (`api/objects.py:56`); the response is 206 with `Content-Range: bytes 0--1/0` where 416 is due.
  The proofs of `RangeExact` and `QuietCoherent` fail without the exception `EmptyTail` in
  `ServesWanted` and `Expected`, and `object_api` has an empty object to show it.
* A key that is merely missing can be a 500 over local files: `resolve()` and `is_file()` raise for a name that no
  file can have (`storage/local.py:33`). `HonestNotFound` and `ServesRecent` say nothing of an error.
* A presigned URL with an X-Amz-Expires that no date can hold raises OverflowError
  (`auth.py:96`), which is a 500: `HonestPasses` and `KeepsStep` count it as an answer of
  the framework.
* `execute` promises that errors in the request raise S3Error before anything is streamed
  (`select/__init__.py:118`). Four causes raise another exception, though before anything is streamed, and
  `FaultsAreTold` names them as the only exceptions: a number of more digits than Python reads, in the SQL
  text (ValueError of `int`, `select/sql.py`); an integer literal beyond the doubles beside a column of floats
  (OverflowError of `float`, `select/evaluate.py:137`; readers and kernels may do so for one over 64
  bits); a bzip2 object that is cut short (ValueError, `select/__init__.py:152`); and a CSV whose first line has a
  stray carriage return or too long a field (csv.Error, `select/__init__.py:217`, which is outside of the `try` of `_describe`).
* Of a header that comes in several lines the signature check sees the last and the handlers
  the first (`app.py:66`). A request whose client signed both, joined by a comma as the protocol says, is refused, which is why
  `HonestPasses` and `HonestPass` ask that no signed header is repeated; and `HandledWasSigned` can say only of a
  header in one line that the handler reads what was signed.
* A signature in other letters than ASCII raises TypeError (`auth.py:154`), a 500.
* A FieldDelimiter or QuoteCharacter of the CSV output that is not one character is
  not refused: it is an error inside the stream, behind a 200 (`Unwritable`).
* A `SELECT *` of a Parquet object as Parquet sends the object without looking at it, also when it is
  unreadable (`SendFile`).
* The 503 of `error_rate` and the framework's own answers leave a body unread, which
  `drain` is there to prevent (`shaping.py:101`, `app.py:40`): `KeepsStep` says that nothing else does.

## What is not modelled

* Conversions without state: XML layout, event-stream framing, serialisation of rows,
  headers, ETags and dates. SelectRun lets the writing of any batch fail instead.
* The readers and kernels of Parquet, JSON Lines and CSV (rugo, draken): `Applies` and
  `RejectedPredicates` say what `select/evaluate.py` expects of them. What they say of NaN
  is unknown here, so NaN is not among the values, though `NOT (x < 1)` is pushed as `x >= 1`
  (`select/evaluate.py:51`).
* A condition that is in error is refused only if the reader gives something to evaluate it
  on (`select/__init__.py:180`). The model does the same; no property says which conditions ought to be refused.
* A condition nested so deep that Python raises RecursionError. rugo and draken are taken to raise, besides
  OverflowError, only what the code around them expects.
* Which of several S3Errors a Select raises, and a projection that names one column twice.
* The tokenizer of the SQL parser, one regular expression: the model's texts are tokens.
* Symbolic links in the directory (`storage/local.py:80`), directories that `os.walk` passes over in silence because
  they cannot be read, names that leave the bucket, the list of
  the buckets, and tokens that no page gave.
* Commas in the text of a header line, and that a presigned URL is refused after its time: `HandledWasSigned` is
  about what was asked for, not about when.
* The GCS client: to the cache it is a backend that answers late or raises.
* Configuration and the command line: read once, by one thread.

## Plan

The order followed the risk: shared state under threads first, then shared state under
coroutines, then protocols with a client, then the two translations of S3 Select.

| | module | composes | abstract specification | state |
|---|---|---|---|---|
| 1 | ObjectCache | OrderedDict | BoundedStaleness | checked, proved |
| 2 | EvictionOrder | ObjectCache | order of use | checked, proved |
| 3 | ObjectApi | ObjectCache or LocalFiles, ByteRange | `Expected` | checked, proved |
| 4 | Shaper, LinkRate | | the rates, from any moment on | checked, proved |
| 5 | Listing | | `ListingOf` | checked, proved |
| 6 | SelectRequest, SelectFilter, SelectRun | Conditions | `Meaning`, `Answer` | checked, proved |
| 7 | SqlParser | Conditions | SqlGrammar | checked |
| 8 | LikePattern | | `Matches` | checked, proved |
| 9 | TestServer | | a server that is up between enter and exit | checked, proved |
| 10 | SigV4, Requests | Shaper's refusal | `Meaning` of a request | checked, proved |

Composition to do: SelectRun on the trees that SqlParser gives, so that one run goes from
text to rows.

Theorem to do: `ParsesTheLanguage`, from a parser written as functions on texts, of which
the equations can be solved as those on conditions are.
