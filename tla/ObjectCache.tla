----------------------------- MODULE ObjectCache -----------------------------
(***************************************************************************)
(* CachedBackend (storage/cache.py): the read-through cache between the    *)
(* request handlers and a slow backend.  The handlers run on a pool of     *)
(* threads.  A call of head_object or get_object holds the lock only for   *)
(* one look at a dictionary or one change of it, so a call is one action   *)
(* per critical section and per call of the backend, and the calls of      *)
(* several threads interleave between them.                                *)
(*                                                                         *)
(* An object is a whole content with its metadata; of its bytes only the   *)
(* number matters.  An entry keeps its age in ticks of the clock instead   *)
(* of the time it was stored at; ages past the ttl are not told apart.     *)
(***************************************************************************)
EXTENDS OrderedDict

CONSTANTS
  Keys,        \* (bucket, key) pairs
  Threads,     \* the worker threads that serve requests
  Objects,     \* the contents a key may have
  NoObject,    \* None: the key does not exist
  Error,       \* the backend raised an exception
  Ops,         \* the calls made: "get", "range" (get with a start), "head"
  Size,        \* len(content) of each object
  MaxSize,     \* bound on Size
  MaxBytes,    \* max_bytes
  Ttl,         \* ttl, in ticks; 0 keeps entries until they are evicted
  FetchBound,  \* ticks between an answer of the backend and its storing
  MaxHeads,    \* how many heads are kept (10_000 in the code)
  MaxWrites    \* bound on the changes of the bucket

Contents == Objects \cup {NoObject}
Answers  == Contents \cup {Error}

ASSUME CacheAssumption ==
  /\ NoObject \notin Objects /\ Error \notin Contents
  /\ Ops \subseteq {"get", "range", "head"}
  /\ MaxSize \in Nat /\ Size \in [Objects -> 0..MaxSize]
  /\ MaxBytes \in Nat /\ Ttl \in Nat /\ FetchBound \in Nat
  /\ MaxHeads \in Nat /\ MaxWrites \in Nat

MaxItem == MaxBytes \div 4

\* How long ago the object of a cached answer may have left the bucket.
Window == IF Ttl = 0 THEN 0 ELSE Ttl + FetchBound

VARIABLES
  store,   \* the bucket behind the cache
  data,    \* self._data: ordered dictionary of [age, obj]
  size,    \* self._size
  heads,   \* self._heads: ordered dictionary of [age, obj]
  call,    \* per thread, the call it is in
  lag,     \* for the properties: ticks since the key last held the object,
           \* -1 if it never did; past the window ticks are not counted
  writes   \* the number of changes of the bucket

vars == <<store, data, size, heads, call, lag, writes>>

NoCall == [pc |-> "idle"]

Init ==
  /\ store \in [Keys -> Contents]
  /\ data = EmptyDict /\ heads = EmptyDict
  /\ size = 0
  /\ call = [t \in Threads |-> NoCall]
  /\ lag = [k \in Keys |-> [v \in Objects |-> IF v = store[k] THEN 0 ELSE -1]]
  /\ writes = 0
-----------------------------------------------------------------------------
(* The steps of a call.  "seen" is what the bucket held since it began.    *)

Entry == [age : 0..Ttl, obj : Objects]
\* A bug for KeepsPromise, ChangesShowUp and ServesRecent: the ttl is not looked at.
NeverStale(e) == TRUE
Fresh(e) == Ttl = 0 \/ e.age < Ttl
New(v) == [age |-> 0, obj |-> v]

\* self._size without the entry of k, which is being taken out
\* A bug for SizeAccounting: the replaced entry stays counted.
StillCounted(k) == size
SizeWithout(k) == IF Has(data, k) THEN size - Size[data.at[k].obj] ELSE size

\* The data after a hit.  A bug for FreshIsRecent: a hit also renews
\* the entry.
Renewed(k) == Assign(MoveToEnd(data, k), k, New(data.at[k].obj))
\* A bug for DataEvictedByUse: a hit does not count as a use.
LeftInPlace(k) == data
Used(k) == MoveToEnd(data, k)

Goto(t, pc) == call' = [call EXCEPT ![t].pc = pc]
Give(t, v) ==
  call' = [call EXCEPT ![t] = [pc |-> "done", key |-> @.key, answer |-> v]]
\* The backend's answer is in hand and not yet stored.
Carry(t, pc, v) ==
  call' = [call EXCEPT ![t] = [pc |-> pc, op |-> @.op, key |-> @.key,
                               seen |-> @.seen, obj |-> v, held |-> 0]]
Drop(t, pc) ==
  call' = [call EXCEPT ![t] = [pc |-> pc, op |-> @.op, key |-> @.key,
                               seen |-> @.seen]]

Begin(t, k, op) ==
  /\ call[t].pc = "idle"
  /\ call' = [call EXCEPT ![t] =
                [pc |-> IF op = "head" THEN "head" ELSE "lookup",
                 op |-> op, key |-> k, seen |-> {store[k]}]]
  /\ UNCHANGED <<store, data, size, heads, lag, writes>>

\* _get_cached, and where get_object goes on after a miss
Lookup(t) ==
  LET k == call[t].key
      Miss == Goto(t, IF call[t].op = "range" THEN "head" ELSE "load")
  IN
  /\ call[t].pc = "lookup"
  /\ \/ /\ ~Has(data, k)
        /\ Miss
        /\ UNCHANGED <<data, size>>
     \/ /\ Has(data, k) /\ ~Fresh(data.at[k])
        /\ size' = SizeWithout(k)
        /\ data' = Delete(data, k)
        /\ Miss
     \/ /\ Has(data, k) /\ Fresh(data.at[k])
        /\ data' = Used(k)
        /\ Give(t, data.at[k].obj)
        /\ UNCHANGED size
  /\ UNCHANGED <<store, heads, lag, writes>>

\* The head is known: it is the answer, or it decides how a range is read.
\* A bug for LargeOnlyByChange: the limit is that of the whole cache.
PulledIfItFits(t, v) ==
  IF call[t].op = "head" THEN Give(t, v)
  ELSE IF Size[v] > MaxBytes THEN Drop(t, "loadrange")
  ELSE Drop(t, "load")
HeadKnown(t, v) ==
  IF call[t].op = "head" THEN Give(t, v)
  ELSE IF Size[v] > MaxItem THEN Drop(t, "loadrange")
  ELSE Drop(t, "load")

HeadLookup(t) ==
  LET k == call[t].key
      hit == Has(heads, k) /\ Fresh(heads.at[k])
  IN
  /\ call[t].pc = "head"
  /\ IF hit THEN HeadKnown(t, heads.at[k].obj) ELSE Goto(t, "headload")
  /\ UNCHANGED <<store, data, size, heads, lag, writes>>

\* A bug for TypeOK: None is kept as if it were the metadata of an object.
HeadLoadAny(t) ==
  /\ call[t].pc = "headload"
  /\ Carry(t, "headkeep", store[call[t].key])
  /\ UNCHANGED <<store, data, size, heads, lag, writes>>
HeadLoad(t) ==
  LET v == store[call[t].key] IN
  /\ call[t].pc = "headload"
  /\ IF v = NoObject THEN Give(t, NoObject) ELSE Carry(t, "headkeep", v)
  /\ UNCHANGED <<store, data, size, heads, lag, writes>>

HeadKeep(t) ==
  LET kept == Assign(heads, call[t].key, New(call[t].obj))
      over == Len(kept.order) - MaxHeads
  IN
  /\ call[t].pc = "headkeep"
  /\ heads' = IF over > 0 THEN DropOldest(kept, over) ELSE kept
  /\ HeadKnown(t, call[t].obj)
  /\ UNCHANGED <<store, data, size, lag, writes>>
-----------------------------------------------------------------------------
\* A ranged read past the cache
LoadRange(t) ==
  /\ call[t].pc = "loadrange"
  /\ Give(t, store[call[t].key])
  /\ UNCHANGED <<store, data, size, heads, lag, writes>>

Load(t) ==
  LET v == store[call[t].key] IN
  /\ call[t].pc = "load"
  /\ IF v # NoObject /\ Size[v] <= MaxItem
       THEN Carry(t, "keep", v)
       ELSE Give(t, v)
  /\ UNCHANGED <<store, data, size, heads, lag, writes>>

\* The bytes in a set of entries, as the pairs of a key and a byte of its object
Bytes(at) == {b \in (DOMAIN at) \X (1..MaxSize) : b[2] <= Size[at[b[1]].obj]}
Total(at) == Cardinality(Bytes(at))

\* n turns of the loop that evicts the oldest entry while there is too much
Evictions(d, sz, n) ==
  LET Stop(m) == m = Len(d.order) \/ sz - Total(Oldest(d, m)) <= MaxBytes
  IN  Stop(n) /\ \A m \in 0..n - 1 : ~Stop(m)

\* _store
Keep(t) ==
  LET k == call[t].key
      v == call[t].obj
      added == Assign(IF Has(data, k) THEN Delete(data, k) ELSE data, k, New(v))
      sz == SizeWithout(k) + Size[v]
  IN
  /\ call[t].pc = "keep"
  /\ \E n \in 0..Len(added.order) :
       /\ Evictions(added, sz, n)
       /\ data' = DropOldest(added, n)
       /\ size' = sz - Total(Oldest(added, n))
  /\ Give(t, v)
  /\ UNCHANGED <<store, heads, lag, writes>>

\* A call of the backend raises: the handler gets the exception.
Fail(t) ==
  /\ call[t].pc \in {"load", "headload", "loadrange"}
  /\ Give(t, Error)
  /\ UNCHANGED <<store, data, size, heads, lag, writes>>

Return(t) ==
  /\ call[t].pc = "done"
  /\ call' = [call EXCEPT ![t] = NoCall]
  /\ UNCHANGED <<store, data, size, heads, lag, writes>>
-----------------------------------------------------------------------------
(* The world around the cache.                                             *)

Write(k, v) ==
  /\ writes < MaxWrites
  /\ v # store[k]
  /\ writes' = writes + 1
  /\ store' = [store EXCEPT ![k] = v]
  /\ lag' = [lag EXCEPT ![k] = [w \in Objects |-> IF w = v THEN 0 ELSE @[w]]]
  /\ call' = [t \in Threads |->
                IF call[t].pc \notin {"idle", "done"} /\ call[t].key = k
                  THEN [call[t] EXCEPT !.seen = @ \cup {v}]
                  ELSE call[t]]
  /\ UNCHANGED <<data, size, heads>>

Holding(t) == call[t].pc \in {"keep", "headkeep"}

Older(at) == [k \in DOMAIN at |->
                [at[k] EXCEPT !.age = IF @ < Ttl THEN @ + 1 ELSE @]]

Tick ==
  /\ \A t \in Threads : Holding(t) => call[t].held < FetchBound
  /\ data' = [data EXCEPT !.at = Older(@)]
  /\ heads' = [heads EXCEPT !.at = Older(@)]
  /\ call' = [t \in Threads |->
                IF Holding(t) THEN [call[t] EXCEPT !.held = @ + 1] ELSE call[t]]
  /\ lag' = [k \in Keys |-> [v \in Objects |->
               IF lag[k][v] \in 0..Window - 1 /\ store[k] # v
                 THEN lag[k][v] + 1 ELSE lag[k][v]]]
  /\ UNCHANGED <<store, size, writes>>

Work(t) == \/ Lookup(t) \/ HeadLookup(t) \/ HeadLoad(t) \/ HeadKeep(t)
           \/ LoadRange(t) \/ Load(t) \/ Keep(t) \/ Fail(t)
Step(t) == Work(t) \/ Return(t)

Next ==
  \/ \E t \in Threads : \/ \E k \in Keys, op \in Ops : Begin(t, k, op)
                        \/ Step(t)
  \/ \E k \in Keys, v \in Contents : Write(k, v)
  \/ Tick

Spec == Init /\ [][Next]_vars

\* The threads run and time passes; nobody has to read or to change a bucket.
FairSpec == Spec /\ (\A t \in Threads : WF_vars(Step(t))) /\ WF_vars(Tick)
-----------------------------------------------------------------------------
(* Properties.                                                             *)

AllOps == {"get", "range", "head"}
DoneCalls == [pc : {"done"}, key : Keys, answer : Answers]
OpenCalls == [pc : {"lookup", "head", "headload", "load", "loadrange"},
              op : AllOps, key : Keys, seen : SUBSET Contents]
HoldingCalls == [pc : {"keep", "headkeep"}, op : AllOps, key : Keys,
                 seen : SUBSET Contents, obj : Objects, held : 0..FetchBound]
Calls == {NoCall} \cup DoneCalls \cup OpenCalls \cup HoldingCalls

\* Every variable has its type.
TypeOK ==
  /\ store \in [Keys -> Contents]
  /\ IsDict(data, Keys, Entry)
  /\ IsDict(heads, Keys, Entry)
  /\ size \in Int
  /\ call \in [Threads -> Calls]
  /\ lag \in [Keys -> [Objects -> -1..Window]]
  /\ writes \in 0..MaxWrites

\* The counter the eviction loop trusts is the bytes the cache holds, after any
\* interleaving of misses of one key, expiries and evictions; the cache never
\* holds more than max_bytes, and no entry, nor one about to be stored, more than
\* a quarter of it.
SizeAccounting ==
  /\ size = Total(data.at)
  /\ size <= MaxBytes
  /\ \A k \in DOMAIN data.at : Size[data.at[k].obj] <= MaxItem
  /\ \A t \in Threads : call[t].pc = "keep" => Size[call[t].obj] <= MaxItem

\* What a cached entry still counted as fresh says was true of the bucket less
\* than ttl and one fetch ago, and what a thread is about to store was true when
\* the backend answered it: a late store may replace a newer object by an older
\* one, but not by one older than that.
Recent(lags, at) == \A k \in DOMAIN at :
  /\ lags[k][at[k].obj] # -1
  /\ Ttl # 0 /\ Fresh(at[k]) => lags[k][at[k].obj] <= at[k].age + FetchBound

RecentlyRead(lags, c) ==
  /\ c.obj \in c.seen
  /\ lags[c.key][c.obj] # -1
  /\ Ttl # 0 => lags[c.key][c.obj] <= c.held

HistoriesCurrent ==
  /\ \A k \in Keys : store[k] # NoObject => lag[k][store[k]] = 0
  /\ \A t \in Threads :
       call[t].pc \notin {"idle", "done"} => store[call[t].key] \in call[t].seen

FreshIsRecent ==
  /\ HistoriesCurrent
  /\ Recent(lag, data.at)
  /\ Recent(lag, heads.at)
  /\ \A t \in Threads : Holding(t) => RecentlyRead(lag, call[t])

\* A ranged read pulls a whole object larger than a quarter of the cache only
\* if the key once held a smaller one, which a head reported.
LargeOnlyByChange ==
  [][\A t \in Threads :
       LET k == call[t].key IN
       call[t].pc = "load" /\ call[t].op = "range" /\ call'[t].pc = "done"
         /\ call'[t].answer \in Objects /\ Size[call'[t].answer] > MaxItem
       => \E v \in Objects : Size[v] <= MaxItem /\ lag[k][v] # -1]_vars

\* Once the bucket stops changing, every answer the cache can still give without
\* asking the backend becomes the bucket's: what was cached, or was on its way
\* into the cache, expires (cache.py: "changes in the underlying store show up
\* eventually").
CurrentOrExpired(at) == \A k \in DOMAIN at : Fresh(at[k]) => at[k].obj = store[k]
ChangesShowUp == <>[](CurrentOrExpired(data.at) /\ CurrentOrExpired(heads.at))
-----------------------------------------------------------------------------
(* The cache gives its readers what BoundedStaleness promises.             *)

View(c) == CASE c.pc = "idle" -> [stage |-> "idle"]
             [] c.pc = "done" -> [stage |-> "answered", key |-> c.key, answer |-> c.answer]
             [] OTHER -> [stage |-> "open", key |-> c.key, seen |-> c.seen]

Promise == INSTANCE BoundedStaleness WITH
             Bound <- Window, view <- [t \in Threads |-> View(call[t])]

\* Every read through the cache answers with an object the bucket held during the
\* read or less than ttl and one fetch ago, and with None only if the object was
\* missing during the read.
KeepsPromise == Promise!Spec
=============================================================================
