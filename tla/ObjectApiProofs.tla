-------------------------- MODULE ObjectApiProofs --------------------------
(***************************************************************************)
(* GetObject and HeadObject, for any objects, sizes, Range headers, cache, *)
(* threads and changes of the bucket: the bytes a Range header is served,  *)
(* and that a response is true of what the key held during the request.    *)
(* What the cache may answer is taken from its promise, which              *)
(* ObjectCacheProofs proves: no argument here is about what is cached.     *)
(***************************************************************************)
EXTENDS ObjectApi, ObjectCacheProofs

(* The Range header.                                                       *)

\* The last n bytes of an object, as the suffix form computes them.
LEMMA SuffixServed ==
  ASSUME NEW n \in Nat \ {0}, NEW bytes \in Nat
  PROVE  /\ Most(bytes - n, 0)..bytes - 1 = {p \in 0..bytes - 1 : p >= bytes - n}
         /\ bytes > 0 => bytes - 1 \in {p \in 0..bytes - 1 : p >= bytes - n}
  BY DEF Most

\* A range with a first byte inside the object, cut at the object's end.
LEMMA RangeServed ==
  ASSUME NEW first \in Nat, NEW last \in Nat \cup {Missing}, NEW bytes \in Nat,
         first < bytes, last = Missing \/ last >= first
  PROVE  LET end == IF last = Missing THEN bytes - 1 ELSE Least(last, bytes - 1)
             wanted == {p \in 0..bytes - 1 : p >= first /\ (last = Missing \/ p <= last)}
         IN  first..end = wanted /\ first \in wanted
  BY DEF Least, Missing

\* A range that is refused has no byte of the object.
LEMMA RangeRefused ==
  ASSUME NEW first \in Nat, NEW last \in Nat \cup {Missing}, NEW bytes \in Nat,
         first >= bytes \/ (last # Missing /\ last < first)
  PROVE  {p \in 0..bytes - 1 : p >= first /\ (last = Missing \/ p <= last)} = {}
  BY DEF Missing

\* _parse_range serves exactly the bytes a Range header asks for, whatever its
\* numbers and however large the object, and refuses only ranges without a byte.
THEOREM RangeExact ==
  ASSUME NEW h \in Headers, NEW bytes \in Nat
  PROVE  ServesWanted(h, bytes)
<1>1. /\ h.first \in Nat \cup {Missing} /\ h.last \in Nat \cup {Missing}
      /\ h = NoHeader <=> h.first = Missing /\ h.last = Missing
  BY DEF Headers, NoHeader, Header
<1>2. Missing \notin Nat
  BY DEF Missing
<1>3. CASE h = NoHeader
  <2>1. ParseRange(h, bytes) = Whole
    BY <1>1, <1>3 DEF ParseRange
  <2> QED  BY <1>3, <2>1 DEF ServesWanted, Whole
<1>4. CASE h # NoHeader /\ h.first = Missing
  <2>1. h.last \in Nat
    BY <1>1, <1>4
  <2>2. Wanted(h, bytes) = {p \in 0..bytes - 1 : p >= bytes - h.last}
    BY <1>4 DEF Wanted
  <2>3. CASE h.last = 0
    <3>1. ParseRange(h, bytes) = Invalid
      BY <1>1, <1>4, <2>3 DEF ParseRange
    <3>2. Wanted(h, bytes) = {}
      BY <2>2, <2>3
    <3> QED  BY <1>4, <2>3, <3>1, <3>2 DEF ServesWanted, Invalid, EmptyTail
  <2>4. CASE h.last # 0
    <3>1. ParseRange(h, bytes) = Part(Most(bytes - h.last, 0), bytes - 1)
      BY <1>1, <1>4, <2>4 DEF ParseRange
    <3>2. /\ Most(bytes - h.last, 0)..bytes - 1 = Wanted(h, bytes)
          /\ bytes > 0 => Wanted(h, bytes) # {}
      BY <2>1, <2>2, <2>4, SuffixServed
    <3>3. Wanted(h, bytes) = {} => EmptyTail(h, bytes)
      BY <1>2, <1>4, <2>1, <2>4, <3>2 DEF EmptyTail
    <3> QED  BY <1>4, <3>1, <3>2, <3>3 DEF ServesWanted, Part
  <2> QED  BY <2>3, <2>4
<1>5. CASE h.first # Missing
  <2>1. h.first \in Nat /\ h # NoHeader
    BY <1>1, <1>5
  <2>2. Wanted(h, bytes)
          = {p \in 0..bytes - 1 : p >= h.first /\ (h.last = Missing \/ p <= h.last)}
    BY <1>5 DEF Wanted
  <2>3. CASE h.first >= bytes \/ (h.last # Missing /\ h.last < h.first)
    <3>1. ParseRange(h, bytes) = Invalid
      BY <1>5, <2>3 DEF ParseRange
    <3>2. Wanted(h, bytes) = {}
      BY <1>1, <2>1, <2>2, <2>3, RangeRefused
    <3> QED  BY <1>5, <2>1, <3>1, <3>2 DEF ServesWanted, Invalid, EmptyTail
  <2>4. CASE ~(h.first >= bytes \/ (h.last # Missing /\ h.last < h.first))
    <3>1. ParseRange(h, bytes)
            = Part(h.first, IF h.last = Missing THEN bytes - 1 ELSE Least(h.last, bytes - 1))
      BY <1>5, <2>4 DEF ParseRange
    <3>2. h.first < bytes /\ (h.last = Missing \/ h.last >= h.first)
      BY <1>1, <2>1, <2>4
    <3>3. /\ h.first..(IF h.last = Missing THEN bytes - 1 ELSE Least(h.last, bytes - 1))
               = Wanted(h, bytes)
          /\ Wanted(h, bytes) # {}
      BY <1>1, <2>1, <2>2, <3>2, RangeServed
    <3> QED  BY <2>1, <3>1, <3>3 DEF ServesWanted, Part
  <2> QED  BY <2>3, <2>4
<1> QED  BY <1>3, <1>4, <1>5

\* The lengths that the responses give are those of the part that is wanted.
LEMMA PartLengths ==
  ASSUME NEW h \in Headers, NEW bytes \in Nat, ParseRange(h, bytes).kind = "part"
  PROVE  LET r == ParseRange(h, bytes) IN
         /\ r.start \in Nat /\ r.end \in Int
         /\ Slice(r, bytes) = Wanted(h, bytes)
         /\ Cardinality(Wanted(h, bytes)) = r.end - r.start + 1
<1> DEFINE r == ParseRange(h, bytes)
<1>1. /\ h.first \in Nat \cup {Missing} /\ h.last \in Nat \cup {Missing}
      /\ Missing \notin Nat
  BY DEF Headers, Missing
<1>2. r.start \in Nat /\ r.end \in Int /\ r.end < bytes /\ r.start <= r.end + 1
  <2>1. CASE h.first = Missing
    <3>1. h.last \in Nat \ {0} /\ r = Part(Most(bytes - h.last, 0), bytes - 1)
      BY <1>1, <2>1 DEF ParseRange, Whole, Invalid
    <3> HIDE DEF r
    <3> QED BY <3>1 DEF Part, Most
  <2>2. CASE h.first # Missing
    <3>1. /\ h.first \in Nat /\ h.first < bytes /\ (h.last # Missing => h.first <= h.last)
          /\ r = Part(h.first, IF h.last = Missing THEN bytes - 1 ELSE Least(h.last, bytes - 1))
      BY <1>1, <2>2 DEF ParseRange, Whole, Invalid
    <3> HIDE DEF r
    <3> QED BY <1>1, <3>1 DEF Part, Least
  <2> QED BY <2>1, <2>2
<1>3. r.start..r.end = Wanted(h, bytes)
  BY RangeExact DEF ServesWanted
<1> HIDE DEF r
<1>4. Slice(r, bytes) = r.start..r.end
  BY <1>2 DEF Slice
<1>5. Cardinality(r.start..r.end) = r.end - r.start + 1
  <2> DEFINE a == r.start
             b == r.end
  <2>1. a \in Int /\ b \in Int /\ a <= b + 1
    BY <1>2
  <2> HIDE DEF a, b
  <2>2. Cardinality(a..b) = IF a > b THEN 0 ELSE b - a + 1
    BY <2>1, FS_Interval
  <2>3. Cardinality(a..b) = b - a + 1
    BY <2>1, <2>2
  <2> QED BY <2>3 DEF a, b
<1> QED BY <1>2, <1>3, <1>4, <1>5 DEF r

-----------------------------------------------------------------------------
(* The requests over the cache or over local files.                        *)

FileCalls == {NoFileCall} \cup [pc : {"resolve", "open"}, key : Keys]
               \cup [pc : {"done"}, key : Keys, answer : Answers]

\* A request, as it is written down
IsRequest(r) ==
  /\ r = [stage |-> r.stage, method |-> r.method, key |-> r.key, header |-> r.header,
          info |-> r.info, response |-> r.response, saw |-> r.saw]
  /\ r.stage \in {"looking", "deciding", "reading", "answered"}
  /\ r.method \in {"GET", "HEAD"} /\ r.key \in Keys /\ r.header \in Ranges
  /\ r.saw \subseteq Contents

ApiTypes ==
  /\ cached \in BOOLEAN
  /\ file \in [Threads -> FileCalls]
  /\ req = [t \in Threads |-> req[t]]
  /\ \A t \in Threads : req[t] = NoRequest \/ IsRequest(req[t])

\* The backend is busy with a call for the request just when the request waits for it.
InCall(t) ==
  IF req[t].stage \notin {"looking", "reading"} THEN call[t].pc = "idle" /\ file[t].pc = "idle"
  ELSE IF cached THEN call[t].pc # "idle" /\ call[t].key = req[t].key /\ file[t].pc = "idle"
  ELSE file[t].pc # "idle" /\ file[t].key = req[t].key /\ call[t].pc = "idle"

\* What the key holds, and over a cache what it held within the window, was seen.
Watched(r) ==
  r.stage \in {"looking", "deciding", "reading"} =>
    /\ store[r.key] \in r.saw
    /\ cached => Within(r.key) \subseteq r.saw

\* An answer is an exception or something that was seen.
Honest(r, v) == v \in Answers /\ v \in r.saw \cup {Error}

CallHonest(t) ==
  /\ call[t].pc \notin {"idle", "done"} => call[t].seen \subseteq req[t].saw
  /\ call[t].pc = "done" => Honest(req[t], call[t].answer)
  /\ file[t].pc = "done" => Honest(req[t], file[t].answer)

\* The metadata that a GET goes by
Informed(r) ==
  r.stage \in {"deciding", "reading"} =>
    /\ r.method = "GET" /\ r.info \in r.saw \cap Objects
    /\ ParseRange(r.header, Size[r.info]).kind # "invalid"

\* The three properties, of one response
Speaks(saw, header, r) ==
  /\ {r.tag, r.body} \subseteq saw \cup {NoObject}
  /\ r.status = 416 => \E v \in saw \cap Objects : Wanted(header, Size[v]) = {}
Told(r) ==
  r.stage = "answered" =>
    /\ r.response.status = 404 => NoObject \in r.saw
    /\ Speaks(r.saw, r.header, r.response)
    /\ r.response.status # 500 =>
         \A v \in Contents : r.saw = {v} =>
           IF v = NoObject THEN r.response.status = 404
           ELSE Expected(r.method, r.header, v, r.response)

RequestInv(t) ==
  /\ InCall(t) /\ Watched(req[t]) /\ CallHonest(t) /\ Informed(req[t]) /\ Told(req[t])

\* The inductive invariant
ApiInv ==
  /\ TypeOK /\ FreshIsRecent
  /\ ApiTypes
  /\ \A t \in Threads : RequestInv(t)

\* What an answer of the cache may be
LEMMA WorkAnswers ==
  ASSUME TypeOK, FreshIsRecent, NEW t \in Threads, Work(t)
  PROVE  /\ store' = store /\ lag' = lag /\ \A u \in Threads \ {t} : call'[u] = call[u]
         /\ call[t].pc \notin {"idle", "done"} /\ call'[t].pc # "idle"
         /\ call'[t].key = call[t].key
         /\ call'[t].pc # "done" => call'[t].seen = call[t].seen
         /\ call'[t].pc = "done" =>
              /\ call'[t].answer \in Answers
              /\ Promise!Allowed(call[t].key, call[t].seen, call'[t].answer)
<1>1. store' = store /\ lag' = lag
  BY DEF Work, Lookup, HeadLookup, HeadLoad, HeadKeep, LoadRange, Load, Keep, Fail
<1>2. call[t] \in OpenCalls \cup HoldingCalls /\ call \in [Threads -> Calls]
  <2>1. call[t].pc \in {"lookup", "head", "headload", "load", "loadrange"} \/ Holding(t)
    BY DEF Work, Lookup, HeadLookup, HeadLoad, HeadKeep, LoadRange, Load, Keep, Fail, Holding
  <2> QED BY <2>1, CallForms DEF TypeOK
<1>3. call[t].pc \notin {"idle", "done"}
  BY <1>2 DEF OpenCalls, HoldingCalls
<1> DEFINE Moved == /\ call'[t].key = call[t].key /\ call'[t].seen = call[t].seen
                    /\ call'[t].pc \notin {"idle", "done"}
           Given == call'[t].key = call[t].key /\ call'[t].pc = "done"
           Rest == \A u \in Threads \ {t} : call'[u] = call[u]
<1>4. Rest /\ (Given \/ Moved)
  <2>1. ASSUME NEW v, Give(t, v) PROVE Rest /\ Given
    BY <1>2, <2>1 DEF Give
  <2>2. ASSUME NEW pc \in {"keep", "headkeep"}, NEW v, Carry(t, pc, v) PROVE Rest /\ Moved
    BY <1>2, <2>2 DEF Carry
  <2>3. ASSUME NEW pc \in {"load", "loadrange"}, Drop(t, pc) PROVE Rest /\ Moved
    BY <1>2, <2>3 DEF Drop
  <2>4. ASSUME NEW pc \in {"head", "headload", "load"}, Goto(t, pc),
               call[t].pc \in {"lookup", "head"}
        PROVE  Rest /\ Moved
    <3>1. call[t] \in OpenCalls
      BY <2>4, CallForms
    <3> QED BY <1>2, <2>4, <3>1 DEF Goto, OpenCalls
  <2> HIDE DEF Rest, Given, Moved
  <2>5. CASE Lookup(t)
    BY <2>5, <2>1, <2>4 DEF Lookup
  <2>6. CASE HeadLookup(t)
    BY <2>6, <2>1, <2>3, <2>4 DEF HeadLookup, HeadKnown
  <2>7. CASE HeadLoad(t)
    BY <2>7, <2>1, <2>2 DEF HeadLoad
  <2>8. CASE HeadKeep(t)
    BY <2>8, <2>1, <2>3 DEF HeadKeep, HeadKnown
  <2>9. CASE LoadRange(t) \/ Keep(t) \/ Fail(t)
    BY <2>9, <2>1 DEF LoadRange, Keep, Fail
  <2>10. CASE Load(t)
    BY <2>10, <2>1, <2>2 DEF Load
  <2> QED BY <2>5, <2>6, <2>7, <2>8, <2>9, <2>10 DEF Work
<1>5. ASSUME Given
      PROVE  /\ call'[t].answer \in Answers
             /\ Promise!Allowed(call[t].key, call[t].seen, call'[t].answer)
  <2> DEFINE view == [u \in Threads |-> View(call[u])]
  <2>1. view[t] = [stage |-> "open", key |-> call[t].key, seen |-> call[t].seen]
    BY <1>3 DEF View
  <2>2. view'[t] = [stage |-> "answered", key |-> call'[t].key, answer |-> call'[t].answer]
    BY <1>5 DEF View
  <2>3. Promise!Next \/ UNCHANGED Promise!sVars
    <3>1. Next
      BY DEF Next, Step
    <3> QED BY <3>1, PromiseStep
  <2>4. PICK u \in Threads, v \in Answers : Promise!Answer(u, v) /\ u = t
    <3>1. ~UNCHANGED Promise!sVars /\ ~Promise!Elapse
      BY <2>1, <2>2 DEF Promise!sVars, Promise!Elapse
    <3>2. ASSUME NEW k \in Keys, NEW v \in Contents, Promise!Change(k, v) PROVE FALSE
      <4>1. view'[t] = IF view[t].stage = "open" /\ view[t].key = k
                         THEN [view[t] EXCEPT !.seen = @ \cup {v}] ELSE view[t]
        BY <3>2 DEF Promise!Change
      <4> HIDE DEF view
      <4>2. view'[t].stage = "open"
        BY <2>1, <4>1
      <4> QED BY <2>2, <4>2
    <3>3. ASSUME NEW x \in Threads, NEW k \in Keys, Promise!Open(x, k) PROVE FALSE
      <4>1. view[x].stage = "idle"
            /\ view' = [view EXCEPT ![x] = [stage |-> "open", key |-> k, seen |-> {store[k]}]]
        BY <3>3 DEF Promise!Open
      <4>2. DOMAIN view = Threads
        OBVIOUS
      <4> HIDE DEF view
      <4> QED BY <2>1, <2>2, <4>1, <4>2
    <3>4. ASSUME NEW x \in Threads, Promise!Close(x) PROVE FALSE
      <4>1. view[x].stage = "answered" /\ view' = [view EXCEPT ![x] = Promise!Idle]
        BY <3>4 DEF Promise!Close
      <4>2. DOMAIN view = Threads
        OBVIOUS
      <4> HIDE DEF view
      <4> QED BY <2>1, <2>2, <4>1, <4>2
    <3>5. ASSUME NEW x \in Threads, NEW v \in Answers, Promise!Answer(x, v) PROVE x = t
      <4>1. view' = [view EXCEPT ![x] = [stage |-> "answered", key |-> @.key, answer |-> v]]
        BY <3>5 DEF Promise!Answer
      <4>2. DOMAIN view = Threads
        OBVIOUS
      <4> HIDE DEF view
      <4> QED BY <2>1, <2>2, <4>1, <4>2
    <3> QED BY <2>3, <3>1, <3>2, <3>3, <3>4, <3>5 DEF Promise!Next, Answers, Contents
  <2>5. /\ Promise!Allowed(view[t].key, view[t].seen, v)
        /\ view' = [view EXCEPT ![t] = [stage |-> "answered", key |-> @.key, answer |-> v]]
    BY <2>4 DEF Promise!Answer
  <2>6. call'[t].answer = v
    <3>1. DOMAIN view = Threads
      OBVIOUS
    <3> HIDE DEF view
    <3> QED BY <2>2, <2>5, <3>1
  <2> QED BY <2>1, <2>4, <2>5, <2>6
<1> QED BY <1>1, <1>3, <1>4, <1>5

-----------------------------------------------------------------------------
\* Every step of the API is one of the cache.
LEMMA CacheSteps == ApiTypes /\ [ApiNext]_apiVars => [Next]_vars
<1> SUFFICES ASSUME ApiTypes, [ApiNext]_apiVars PROVE Next \/ UNCHANGED vars
  OBVIOUS
<1>1. ASSUME NEW t \in Threads, NEW k \in Keys, NEW op \in AllOps, Ask(t, k, op)
      PROVE  Next \/ UNCHANGED vars
  BY <1>1, ApiAssumption DEF Ask, FileBegin, Next
<1>2. ASSUME NEW t \in Threads, Ended(t) PROVE Next \/ UNCHANGED vars
  BY <1>2 DEF Ended, FileReturn, Next, Step
<1>3. ASSUME NEW t \in Threads, Serve(t) PROVE Next \/ UNCHANGED vars
  <2>1. CASE Looked(t) \/ Got(t)
    BY <2>1, <1>2 DEF Looked, Got
  <2>2. CASE Read(t)
    <3>1. req[t] # NoRequest /\ req[t].stage = "deciding"
      BY <2>2 DEF Read, NoRequest
    <3>2. req[t].key \in Keys
      BY <3>1 DEF ApiTypes, IsRequest
    <3> QED BY <2>2, <3>2, <1>1 DEF Read, AllOps
  <2>3. CASE Sent(t)
    BY <2>3 DEF Sent
  <2>4. CASE Work(t)
    BY <2>4 DEF Next, Step
  <2>5. CASE FileWork(t)
    BY <2>5 DEF FileWork, Resolve, Open, Raise, FileGive, FileGoto
  <2> QED BY <1>3, <2>1, <2>2, <2>3, <2>4, <2>5 DEF Serve
<1>4. ASSUME NEW t \in Threads, NEW m \in {"GET", "HEAD"}, NEW k \in Keys, NEW h \in Ranges,
             Arrive(t, m, k, h)
      PROVE  Next \/ UNCHANGED vars
  BY <1>4, <1>1 DEF Arrive, AllOps
<1>5. CASE \E k \in Keys, v \in Contents : Changed(k, v)
  BY <1>5 DEF Changed, Next
<1>6. CASE Tick
  BY <1>6 DEF Next
<1>7. CASE UNCHANGED apiVars
  BY <1>7 DEF apiVars
<1> QED BY <1>3, <1>4, <1>5, <1>6, <1>7 DEF ApiNext

\* A thread with which nothing happens
LEMMA Untouched ==
  ASSUME NEW u \in Threads, RequestInv(u),
         req'[u] = req[u], call'[u] = call[u], file'[u] = file[u],
         UNCHANGED <<store, lag, cached>>
  PROVE  RequestInv(u)'
<1>1. InCall(u)'
  BY DEF RequestInv, InCall
<1>2. Watched(req[u])'
  BY DEF RequestInv, Watched, Within
<1>3. CallHonest(u)'
  BY DEF RequestInv, CallHonest, Honest
<1>4. Informed(req[u])'
  BY DEF RequestInv, Informed
<1>5. Told(req[u])'
  BY DEF RequestInv, Told
<1> QED BY <1>1, <1>2, <1>3, <1>4, <1>5 DEF RequestInv

\* The forms of a file call
LEMMA FileForms ==
  ASSUME ApiTypes, NEW t \in Threads
  PROVE  /\ file[t].pc \in {"resolve", "open"} =>
              file[t] \in [pc : {"resolve", "open"}, key : Keys]
         /\ file[t].pc = "done" => file[t] \in [pc : {"done"}, key : Keys, answer : Answers]
         /\ file[t].pc \in {"idle", "resolve", "open", "done"}
<1>1. file[t] \in FileCalls
  BY DEF ApiTypes
<1> QED BY <1>1 DEF FileCalls, NoFileCall

\* A call that begins for a request, which has not been told anything by it
LEMMA AskKeeps ==
  ASSUME TypeOK, ApiTypes, NEW t \in Threads, NEW k \in Keys, NEW op \in AllOps, Ask(t, k, op),
         InCall(t), req[t].stage \notin {"looking", "reading"},
         req'[t].stage \in {"looking", "reading"}, req'[t].key = k, store[k] \in req'[t].saw
  PROVE  /\ InCall(t)' /\ CallHonest(t)'
         /\ cached' = cached /\ store' = store /\ lag' = lag
         /\ file' \in [Threads -> FileCalls]
         /\ \A u \in Threads \ {t} : call'[u] = call[u] /\ file'[u] = file[u]
<1>1. /\ call \in [Threads -> Calls] /\ file \in [Threads -> FileCalls] /\ cached \in BOOLEAN
      /\ call[t].pc = "idle" /\ file[t].pc = "idle"
  BY DEF TypeOK, ApiTypes, InCall
<1>2. CASE cached
  <2>1. /\ call' = [call EXCEPT ![t] = [pc |-> IF op = "head" THEN "head" ELSE "lookup",
                                        op |-> op, key |-> k, seen |-> {store[k]}]]
        /\ file' = file /\ cached' = cached /\ store' = store /\ lag' = lag
    BY <1>2 DEF Ask, Begin
  <2>2. call'[t] = [pc |-> IF op = "head" THEN "head" ELSE "lookup",
                    op |-> op, key |-> k, seen |-> {store[k]}]
    BY <1>1, <2>1
  <2>3. call'[t].pc \notin {"idle", "done"} /\ call'[t].key = k /\ call'[t].seen = {store[k]}
    BY <2>2
  <2>4. InCall(t)' /\ CallHonest(t)'
    BY <1>1, <1>2, <2>1, <2>3 DEF InCall, CallHonest
  <2> QED BY <1>1, <2>1, <2>4
<1>3. CASE ~cached
  <2>1. /\ file' = [file EXCEPT ![t] = [pc |-> "resolve", key |-> k]]
        /\ call' = call /\ cached' = cached /\ store' = store /\ lag' = lag
    BY <1>3 DEF Ask, FileBegin, vars
  <2>2. file'[t] = [pc |-> "resolve", key |-> k] /\ file'[t].pc = "resolve" /\ file'[t].key = k
    BY <1>1, <2>1
  <2>3. InCall(t)' /\ CallHonest(t)'
    BY <1>1, <1>3, <2>1, <2>2 DEF InCall, CallHonest
  <2>4. [pc |-> "resolve", key |-> k] \in FileCalls
    BY DEF FileCalls
  <2> QED BY <1>1, <2>1, <2>3, <2>4
<1> QED BY <1>2, <1>3

\* A call that ends: nothing is asked any more, and the request has its answer.
LEMMA EndKeeps ==
  ASSUME TypeOK, ApiTypes, NEW t \in Threads, Ended(t), RequestInv(t),
         req[t].stage \in {"looking", "reading"}
  PROVE  /\ Honest(req[t], AnswerTo(t))
         /\ call'[t].pc = "idle" /\ file'[t].pc = "idle"
         /\ cached' = cached /\ store' = store /\ lag' = lag
         /\ file' \in [Threads -> FileCalls]
         /\ \A u \in Threads \ {t} : call'[u] = call[u] /\ file'[u] = file[u]
<1>1. /\ call \in [Threads -> Calls] /\ file \in [Threads -> FileCalls] /\ cached \in BOOLEAN
      /\ InCall(t) /\ CallHonest(t)
  BY DEF TypeOK, ApiTypes, RequestInv
<1>2. CASE cached
  <2>1. /\ call' = [call EXCEPT ![t] = NoCall] /\ call[t].pc = "done" /\ file' = file
        /\ cached' = cached /\ store' = store /\ lag' = lag
    BY <1>2 DEF Ended, Return
  <2> QED BY <1>1, <1>2, <2>1 DEF InCall, CallHonest, AnswerTo, NoCall
<1>3. CASE ~cached
  <2>1. /\ file' = [file EXCEPT ![t] = NoFileCall] /\ file[t].pc = "done" /\ call' = call
        /\ cached' = cached /\ store' = store /\ lag' = lag
    BY <1>3 DEF Ended, FileReturn, vars
  <2>2. NoFileCall \in FileCalls
    BY DEF FileCalls
  <2> QED BY <1>1, <1>3, <2>1, <2>2 DEF InCall, CallHonest, AnswerTo, NoFileCall
<1> QED BY <1>2, <1>3

-----------------------------------------------------------------------------
\* What the handlers answer about an object that all their calls gave is what a client
\* expects of it.
LEMMA ResponsesExpected ==
  ASSUME NEW v \in Objects, NEW h \in Headers
  PROVE  LET r == ParseRange(h, Size[v]) IN
         /\ r.kind = "invalid" => \A m : Expected(m, h, v, Failed(416))
         /\ r.kind # "invalid" => /\ Expected("HEAD", h, v, HeadResponse(v, r))
                                  /\ Expected("GET", h, v, GetResponse(v, v, r))
<1> DEFINE bytes == Size[v]
           r == ParseRange(h, bytes)
<1>1. bytes \in Nat /\ v # NoObject
  BY CacheAssumption DEF Contents
<1> HIDE DEF bytes
<1>2. ServesWanted(h, bytes)
  BY <1>1, RangeExact
<1>3. r.kind \in {"whole", "part", "invalid"}
  BY DEF ParseRange, Whole, Invalid, Part
<1>4. CASE r.kind = "invalid"
  <2>1. h # NoHeader /\ Wanted(h, bytes) = {} /\ ~EmptyTail(h, bytes)
    BY <1>2, <1>4 DEF ServesWanted
  <2> QED BY <1>4, <2>1 DEF Expected, Failed, Response, bytes
<1>5. CASE r.kind = "whole"
  <2>1. h = NoHeader
    BY <1>2, <1>5 DEF ServesWanted
  <2> HIDE DEF r
  <2>2. /\ HeadResponse(v, r) = Response(200, v, NoObject, << >>, bytes)
        /\ GetResponse(v, v, r) = Response(200, v, v, << >>, bytes)
    BY <1>5 DEF HeadResponse, GetResponse, bytes
  <2>3. /\ Expected("HEAD", h, v, Response(200, v, NoObject, << >>, bytes))
        /\ Expected("GET", h, v, Response(200, v, v, << >>, bytes))
    BY <2>1 DEF Expected, Response, bytes
  <2> QED BY <1>5, <2>2, <2>3 DEF r, bytes
<1>6. CASE r.kind = "part"
  <2>1. /\ h # NoHeader /\ r.start..r.end = Wanted(h, bytes)
        /\ Wanted(h, bytes) = {} => EmptyTail(h, bytes)
    BY <1>2, <1>6 DEF ServesWanted
  <2>2. /\ r.start \in Nat /\ r.end \in Int /\ Slice(r, bytes) = Wanted(h, bytes)
        /\ Cardinality(Wanted(h, bytes)) = r.end - r.start + 1
    BY <1>1, <1>6, PartLengths
  <2> HIDE DEF r
  <2> DEFINE n == Cardinality(Wanted(h, bytes))
             range == <<r.start, r.end, bytes>>
  <2>3. r.start + n - 1 = r.end
    BY <2>2
  <2>4. /\ HeadResponse(v, r) = Response(206, v, NoObject, range, n)
        /\ GetResponse(v, v, r) = Response(206, v, v, range, n)
    <3>1. HeadResponse(v, r) = Response(206, v, NoObject, range, n)
      BY <1>6, <2>2 DEF HeadResponse, bytes
    <3>2. GetResponse(v, v, r)
            = Response(206, v, v, <<r.start, r.start + n - 1, bytes>>, n)
      BY <1>6, <2>2 DEF GetResponse, bytes
    <3> QED BY <2>3, <3>1, <3>2
  <2>5. ASSUME NEW m \in {"HEAD", "GET"}, NEW body, body = IF m = "GET" THEN v ELSE NoObject
        PROVE  Expected(m, h, v, Response(206, v, body, range, n))
    <3> DEFINE x == Response(206, v, body, range, n)
    <3>1. x.status = 206 /\ x.tag = v /\ x.body = body /\ x.range = range /\ x.length = n
      BY DEF Response
    <3> HIDE DEF x
    <3>2. range[1] = r.start /\ range[2] = r.end /\ range[3] = bytes
      OBVIOUS
    <3> HIDE DEF range, n
    <3>3. Expected(m, h, v, x)
      BY <2>1, <2>5, <3>1, <3>2 DEF Expected, bytes, n
    <3> QED BY <3>3 DEF x
  <2>6. Expected("HEAD", h, v, HeadResponse(v, r)) /\ Expected("GET", h, v, GetResponse(v, v, r))
    BY <2>4, <2>5
  <2> QED BY <1>6, <2>6 DEF r, bytes
<1> QED BY <1>3, <1>4, <1>5, <1>6 DEF bytes

\* A step that serves one thread keeps the others as they are.
LEMMA OneServed ==
  ASSUME ApiTypes, \A u \in Threads : RequestInv(u),
         NEW t \in Threads, NEW r, r = NoRequest \/ IsRequest(r), req' = [req EXCEPT ![t] = r],
         file' \in [Threads -> FileCalls], UNCHANGED <<store, lag, cached>>,
         \A u \in Threads \ {t} : call'[u] = call[u] /\ file'[u] = file[u],
         RequestInv(t)'
  PROVE  ApiTypes' /\ \A u \in Threads : RequestInv(u)'
<1>1. req'[t] = r /\ \A u \in Threads \ {t} : req'[u] = req[u]
  BY DEF ApiTypes
<1>2. req' = [u \in Threads |-> req'[u]]
  BY DEF ApiTypes
<1>3. ApiTypes'
  BY <1>1, <1>2 DEF ApiTypes, IsRequest
<1>4. ASSUME NEW u \in Threads \ {t} PROVE RequestInv(u)'
  BY <1>1, <1>4, Untouched
<1> QED BY <1>3, <1>4

\* The record of a request when it is answered, and when its metadata are known
Answering(q, r) == [q EXCEPT !.stage = "answered", !.response = r]
LEMMA AnswerForm ==
  ASSUME NEW q, IsRequest(q), NEW r
  PROVE  Answering(q, r)
           = [stage |-> "answered", method |-> q.method, key |-> q.key, header |-> q.header,
              info |-> q.info, response |-> r, saw |-> q.saw]
<1> DEFINE x == Answering(q, r)
           names == {"stage", "method", "key", "header", "info", "response", "saw"}
<1>1. DOMAIN q = names /\ q = [n \in names |-> q[n]]
  BY DEF IsRequest
<1>2. DOMAIN x = names /\ x = [n \in names |-> x[n]]
  BY <1>1 DEF Answering
<1>3. x.stage = "answered" /\ x.response = r
  BY <1>1 DEF Answering
<1>4. /\ x.method = q.method /\ x.key = q.key /\ x.header = q.header /\ x.info = q.info
      /\ x.saw = q.saw
  BY <1>1 DEF Answering
<1> HIDE DEF x
<1> QED BY <1>2, <1>3, <1>4 DEF x

Deciding(q, v) == [q EXCEPT !.stage = "deciding", !.info = v]
LEMMA DecidingForm ==
  ASSUME NEW q, IsRequest(q), NEW v
  PROVE  Deciding(q, v)
           = [stage |-> "deciding", method |-> q.method, key |-> q.key, header |-> q.header,
              info |-> v, response |-> q.response, saw |-> q.saw]
<1> DEFINE x == Deciding(q, v)
           names == {"stage", "method", "key", "header", "info", "response", "saw"}
<1>1. DOMAIN q = names /\ q = [n \in names |-> q[n]]
  BY DEF IsRequest
<1>2. DOMAIN x = names /\ x = [n \in names |-> x[n]]
  BY <1>1 DEF Deciding
<1>3. x.stage = "deciding" /\ x.info = v
  BY <1>1 DEF Deciding
<1>4. /\ x.method = q.method /\ x.key = q.key /\ x.header = q.header
      /\ x.response = q.response /\ x.saw = q.saw
  BY <1>1 DEF Deciding
<1> HIDE DEF x
<1> QED BY <1>2, <1>3, <1>4 DEF x

\* A response that keeps the three properties
LEMMA RespondKeeps ==
  ASSUME TypeOK, ApiTypes, \A u \in Threads : RequestInv(u),
         NEW t \in Threads, req[t].stage \in {"looking", "reading"}, Ended(t),
         NEW r, Respond(t, r), Told(Answering(req[t], r))
  PROVE  ApiTypes' /\ \A u \in Threads : RequestInv(u)'
<1> DEFINE next == Answering(req[t], r)
<1>1. IsRequest(req[t])
  BY DEF ApiTypes, NoRequest
<1>2. req' = [req EXCEPT ![t] = next]
  BY DEF Respond, ApiTypes, Answering
<1>3. /\ next.stage = "answered" /\ next.response = r /\ next.method = req[t].method
      /\ next.key = req[t].key /\ next.header = req[t].header /\ next.info = req[t].info
      /\ next.saw = req[t].saw
      /\ next = [stage |-> next.stage, method |-> next.method, key |-> next.key,
                 header |-> next.header, info |-> next.info, response |-> next.response,
                 saw |-> next.saw]
  <2>1. next = [stage |-> "answered", method |-> req[t].method, key |-> req[t].key,
                header |-> req[t].header, info |-> req[t].info,
                response |-> r, saw |-> req[t].saw]
    BY <1>1, AnswerForm
  <2> HIDE DEF next
  <2> QED BY <2>1
<1>4. IsRequest(next)
  BY <1>1, <1>3 DEF IsRequest
<1>5. /\ call'[t].pc = "idle" /\ file'[t].pc = "idle"
      /\ cached' = cached /\ store' = store /\ lag' = lag
      /\ file' \in [Threads -> FileCalls]
      /\ \A u \in Threads \ {t} : call'[u] = call[u] /\ file'[u] = file[u]
  BY EndKeeps
<1>6. req'[t] = next
  BY <1>2 DEF ApiTypes
<1> HIDE DEF next
<1>7. RequestInv(t)'
  <2>1. InCall(t)' /\ CallHonest(t)'
    BY <1>3, <1>5, <1>6 DEF InCall, CallHonest
  <2>2. Watched(req[t])' /\ Informed(req[t])'
    BY <1>3, <1>6 DEF Watched, Informed
  <2>3. Told(next)
    BY DEF next
  <2>4. Told(req[t])'
    BY <1>5, <1>6, <2>3 DEF Told
  <2> QED BY <2>1, <2>2, <2>4 DEF RequestInv
<1> QED BY <1>2, <1>4, <1>5, <1>7, OneServed

-----------------------------------------------------------------------------
RequestsKept == ApiTypes' /\ \A u \in Threads : RequestInv(u)'

\* What Told comes to for a response
LEMMA AnswerTold ==
  ASSUME NEW q, IsRequest(q), NEW r,
         r.status = 404 => NoObject \in q.saw,
         Speaks(q.saw, q.header, r),
         \A v \in Contents : q.saw = {v} /\ r.status # 500 =>
           IF v = NoObject THEN r.status = 404 ELSE Expected(q.method, q.header, v, r)
  PROVE  Told(Answering(q, r))
<1> DEFINE x == Answering(q, r)
<1>1. x.saw = q.saw /\ x.response = r /\ x.method = q.method /\ x.header = q.header
  <2>1. x = [stage |-> "answered", method |-> q.method, key |-> q.key, header |-> q.header,
             info |-> q.info, response |-> r, saw |-> q.saw]
    BY AnswerForm
  <2> HIDE DEF x
  <2> QED BY <2>1
<1> HIDE DEF x
<1>2. Told(x)
  BY <1>1 DEF Told
<1> QED BY <1>2 DEF x

\* A response of a part, of a whole object, or a refusal
LEMMA ObjectTold ==
  ASSUME NEW q, IsRequest(q), NEW r, r.status \in {200, 206, 416},
         Speaks(q.saw, q.header, r),
         \A v \in Contents : q.saw = {v} =>
           v # NoObject /\ Expected(q.method, q.header, v, r)
  PROVE  Told(Answering(q, r))
<1>1. r.status # 404 /\ r.status # 500
  OBVIOUS
<1>2. \A v \in Contents : q.saw = {v} /\ r.status # 500 =>
        IF v = NoObject THEN r.status = 404 ELSE Expected(q.method, q.header, v, r)
  OBVIOUS
<1> QED BY <1>1, <1>2, AnswerTold

\* Nothing found, and an exception, in either of the two calls
LEMMA FailureTold ==
  ASSUME NEW q, IsRequest(q), NEW v \in {NoObject, Error}, Honest(q, v)
  PROVE  Told(Answering(q, IF v = NoObject THEN Failed(404) ELSE Failed(500)))
<1> DEFINE r == IF v = NoObject THEN Failed(404) ELSE Failed(500)
<1>1. r.status = IF v = NoObject THEN 404 ELSE 500
  BY DEF Failed, Response
<1>2. NoObject # Error
  BY CacheAssumption DEF Contents
<1>3. Speaks(q.saw, q.header, r)
  BY DEF Speaks, Failed, Response
<1> HIDE DEF r
<1>4. r.status = 404 => NoObject \in q.saw
  BY <1>1, <1>2 DEF Honest
<1>5. \A w \in Contents : q.saw = {w} /\ r.status # 500 =>
        IF w = NoObject THEN r.status = 404 ELSE Expected(q.method, q.header, w, r)
  BY <1>1, <1>4
<1>6. Told(Answering(q, r))
  BY <1>3, <1>4, <1>5, AnswerTold
<1> QED BY <1>6 DEF r

\* The answer to the lookup: the same failures, or an object, from which a HEAD is answered
\* and a GET goes on.
LEMMA LookedKeeps ==
  ASSUME TypeOK, ApiTypes, \A u \in Threads : RequestInv(u), NEW t \in Threads, Looked(t)
  PROVE  RequestsKept
<1> USE DEF RequestsKept
<1> DEFINE q == req[t]
           v == AnswerTo(t)
           r == ParseRange(q.header, Size[v])
<1>1. q.stage = "looking" /\ Ended(t) /\ RequestInv(t)
  BY DEF Looked
<1>2. IsRequest(q) /\ Honest(q, v)
  BY <1>1, EndKeeps DEF ApiTypes, NoRequest
<1>3. q.header \in Headers /\ q.method \in {"GET", "HEAD"}
  BY <1>2, ApiAssumption DEF IsRequest
<1>4. NoObject # Error /\ NoObject \notin Objects /\ Error \notin Objects
  BY CacheAssumption DEF Contents
<1>5. CASE v \in {NoObject, Error}
  <2> DEFINE x == IF v = NoObject THEN Failed(404) ELSE Failed(500)
  <2>1. Respond(t, x)
    BY <1>4, <1>5 DEF Looked
  <2>2. Told(Answering(q, x))
    BY <1>2, <1>5, FailureTold
  <2> HIDE DEF x
  <2> QED BY <1>1, <2>1, <2>2, RespondKeeps
<1>6. CASE v \in Objects
  <2>0. v \in q.saw
    BY <1>2, <1>4, <1>6 DEF Honest
  <2>1. ASSUME NEW w \in Contents, q.saw = {w} PROVE w = v
    BY <2>0, <2>1
  <2>2. CASE r.kind = "invalid"
    <3>1. Respond(t, Failed(416)) /\ Failed(416).status = 416
      BY <1>4, <1>6, <2>2 DEF Looked, Failed, Response
    <3>2. Expected(q.method, q.header, v, Failed(416))
      BY <1>3, <1>6, <2>2, ResponsesExpected
    <3>3. Told(Answering(q, Failed(416)))
      <4>1. \A w \in Contents : q.saw = {w} =>
              w # NoObject /\ Expected(q.method, q.header, w, Failed(416))
        BY <1>4, <1>6, <2>1, <3>2
      <4>2. Wanted(q.header, Size[v]) = {}
        BY <1>3, <1>6, <2>2, CacheAssumption, RangeExact DEF ServesWanted
      <4>3. Speaks(q.saw, q.header, Failed(416))
        BY <1>6, <2>0, <4>2 DEF Speaks, Failed, Response
      <4> HIDE DEF q
      <4> QED BY <1>2, <3>1, <4>1, <4>3, ObjectTold
    <3> QED BY <1>1, <3>1, <3>3, RespondKeeps
  <2>3. CASE r.kind # "invalid" /\ q.method = "HEAD"
    <3> DEFINE x == HeadResponse(v, r)
    <3>1. Respond(t, x)
      BY <1>4, <1>6, <2>3 DEF Looked
    <3>2. x.status \in {200, 206}
      BY DEF HeadResponse, Response
    <3>3. Expected(q.method, q.header, v, x)
      BY <1>3, <1>6, <2>3, ResponsesExpected
    <3> HIDE DEF x
    <3>4. Told(Answering(q, x))
      <4>1. \A w \in Contents : q.saw = {w} =>
              w # NoObject /\ Expected(q.method, q.header, w, x)
        BY <1>4, <1>6, <2>1, <3>3
      <4>2. Speaks(q.saw, q.header, x)
        BY <2>0, <3>2 DEF Speaks, HeadResponse, Response, x
      <4> HIDE DEF q
      <4> QED BY <1>2, <3>2, <4>1, <4>2, ObjectTold
    <3> QED BY <1>1, <3>1, <3>4, RespondKeeps
  <2>4. CASE r.kind # "invalid" /\ q.method # "HEAD"
    <3> DEFINE next == Deciding(q, v)
    <3>1. req' = [req EXCEPT ![t] = next]
      BY <1>4, <1>6, <2>4 DEF Looked, ApiTypes, Deciding
    <3>2. next = [stage |-> "deciding", method |-> q.method, key |-> q.key,
                  header |-> q.header, info |-> v, response |-> q.response,
                  saw |-> q.saw]
      BY <1>2, DecidingForm
    <3> HIDE DEF next
    <3>3. IsRequest(next)
      BY <1>2, <3>2 DEF IsRequest
    <3>4. /\ call'[t].pc = "idle" /\ file'[t].pc = "idle"
          /\ cached' = cached /\ store' = store /\ lag' = lag
          /\ file' \in [Threads -> FileCalls]
          /\ \A u \in Threads \ {t} : call'[u] = call[u] /\ file'[u] = file[u]
      BY <1>1, EndKeeps
    <3>5. req'[t] = next
      BY <3>1 DEF ApiTypes
    <3>6. InCall(t)' /\ CallHonest(t)'
      BY <3>2, <3>4, <3>5 DEF InCall, CallHonest
    <3>7. Watched(req[t])'
      <4>1. store[q.key] \in q.saw /\ (cached => Within(q.key) \subseteq q.saw)
        BY <1>1 DEF RequestInv, Watched
      <4> QED BY <3>2, <3>4, <3>5, <4>1 DEF Watched, Within
    <3>8. Informed(req[t])'
      <4>1. ParseRange(next.header, Size[next.info]).kind # "invalid"
        BY <2>4, <3>2
      <4>2. next.method = "GET" /\ next.info \in next.saw \cap Objects
        BY <1>3, <1>6, <2>0, <2>4, <3>2
      <4> QED BY <3>5, <4>1, <4>2 DEF Informed
    <3>9. Told(req[t])'
      BY <3>2, <3>5 DEF Told
    <3> QED BY <3>1, <3>3, <3>4, <3>6, <3>7, <3>8, <3>9, OneServed DEF RequestInv
  <2> QED BY <2>2, <2>3, <2>4
<1>7. v \in Answers
  BY <1>2 DEF Honest
<1> QED BY <1>5, <1>6, <1>7 DEF Answers, Contents

\* The answer to the read of a GET
LEMMA GotKeeps ==
  ASSUME TypeOK, ApiTypes, \A u \in Threads : RequestInv(u), NEW t \in Threads, Got(t)
  PROVE  RequestsKept
<1> USE DEF RequestsKept
<1> DEFINE q == req[t]
           v == AnswerTo(t)
           r == PartOf(t)
<1>1. q.stage = "reading" /\ Ended(t) /\ RequestInv(t)
  BY DEF Got
<1>2. IsRequest(q) /\ Honest(q, v)
  BY <1>1, EndKeeps DEF ApiTypes, NoRequest
<1>3. q.header \in Headers
  BY <1>2, ApiAssumption DEF IsRequest
<1>4. NoObject # Error /\ NoObject \notin Objects /\ Error \notin Objects
  BY CacheAssumption DEF Contents
<1>5. q.method = "GET" /\ q.info \in q.saw \cap Objects /\ r.kind # "invalid"
  BY <1>1 DEF RequestInv, Informed, PartOf
<1>6. CASE v \in {NoObject, Error}
  <2> DEFINE x == IF v = NoObject THEN Failed(404) ELSE Failed(500)
  <2>1. Respond(t, x)
    BY <1>4, <1>6 DEF Got
  <2>2. Told(Answering(q, x))
    BY <1>2, <1>6, FailureTold
  <2> HIDE DEF x
  <2> QED BY <1>1, <2>1, <2>2, RespondKeeps
<1>7. CASE v \in Objects
  <2> DEFINE x == GetResponse(q.info, v, r)
  <2>1. Respond(t, x)
    BY <1>4, <1>7 DEF Got
  <2>2. x.status \in {200, 206}
    BY DEF GetResponse, Response
  <2>3. ASSUME NEW w \in Contents, q.saw = {w}
        PROVE  w # NoObject /\ Expected(q.method, q.header, w, x)
    <3>1. w = v /\ w = q.info
      BY <1>2, <1>4, <1>5, <1>7, <2>3 DEF Honest
    <3>2. Expected("GET", q.header, v, GetResponse(v, v, ParseRange(q.header, Size[v])))
      BY <1>3, <1>5, <1>7, <3>1, ResponsesExpected DEF PartOf
    <3> QED BY <1>4, <1>5, <1>7, <3>1, <3>2 DEF PartOf
  <2>5. Speaks(q.saw, q.header, x)
    <3>1. v \in q.saw
      BY <1>2, <1>4, <1>7 DEF Honest
    <3>2. x.tag = q.info /\ x.body = v
      BY DEF GetResponse, Response
    <3> HIDE DEF x
    <3> QED BY <1>5, <2>2, <3>1, <3>2 DEF Speaks
  <2> HIDE DEF x
  <2>4. Told(Answering(q, x))
    <3>1. \A w \in Contents : q.saw = {w} =>
            w # NoObject /\ Expected(q.method, q.header, w, x)
      BY <2>3
    <3> HIDE DEF q
    <3> QED BY <1>2, <2>2, <2>5, <3>1, ObjectTold
  <2> QED BY <1>1, <2>1, <2>4, RespondKeeps
<1>8. v \in Answers
  BY <1>2 DEF Honest
<1> QED BY <1>6, <1>7, <1>8 DEF Answers, Contents

-----------------------------------------------------------------------------
\* A request that comes has been told nothing yet.
LEMMA ArriveKeeps ==
  ASSUME TypeOK, ApiTypes, \A u \in Threads : RequestInv(u), NEW t \in Threads,
         NEW m \in {"GET", "HEAD"}, NEW k \in Keys, NEW h \in Ranges, Arrive(t, m, k, h)
  PROVE  RequestsKept
<1> USE DEF RequestsKept
<1> DEFINE next == [stage |-> "looking", method |-> m, key |-> k, header |-> h,
                    info |-> NoObject, response |-> Failed(0),
                    saw |-> {store[k]} \cup (IF cached THEN Within(k) ELSE {})]
<1>1. req' = [req EXCEPT ![t] = next] /\ Ask(t, k, "head") /\ req[t].stage = "none" /\ InCall(t)
  BY DEF Arrive, RequestInv
<1>2. /\ next.stage = "looking" /\ next.method = m /\ next.key = k /\ next.header = h
      /\ store[k] \in next.saw /\ (cached => Within(k) \subseteq next.saw)
      /\ next.saw \subseteq {store[k]} \cup Within(k)
  OBVIOUS
<1>3. IsRequest(next)
  <2>1. store[k] \in Contents
    BY DEF TypeOK
  <2>2. next = [stage |-> next.stage, method |-> next.method, key |-> next.key,
                header |-> next.header, info |-> next.info, response |-> next.response,
                saw |-> next.saw]
    OBVIOUS
  <2>3. next.saw \subseteq Contents
    BY <1>2, <2>1 DEF Within, Contents
  <2> HIDE DEF next
  <2> QED BY <1>2, <2>2, <2>3 DEF IsRequest
<1> HIDE DEF next
<1>4. req'[t] = next
  BY <1>1 DEF ApiTypes
<1>5. /\ InCall(t)' /\ CallHonest(t)'
      /\ cached' = cached /\ store' = store /\ lag' = lag
      /\ file' \in [Threads -> FileCalls]
      /\ \A u \in Threads \ {t} : call'[u] = call[u] /\ file'[u] = file[u]
  <2>1. "head" \in AllOps /\ store[k] \in next.saw
    BY <1>2 DEF AllOps
  <2> QED BY <1>1, <1>2, <1>4, <2>1, AskKeeps
<1>6. Watched(req[t])'
  BY <1>2, <1>4, <1>5 DEF Watched, Within
<1>7. Informed(req[t])' /\ Told(req[t])'
  BY <1>2, <1>4 DEF Informed, Told
<1> QED BY <1>1, <1>3, <1>5, <1>6, <1>7, OneServed DEF RequestInv

\* A request that goes on to read, with the object it reads yet to be answered
LEMMA ReadingForm ==
  ASSUME NEW q, IsRequest(q)
  PROVE  [q EXCEPT !.stage = "reading"]
           = [stage |-> "reading", method |-> q.method, key |-> q.key, header |-> q.header,
              info |-> q.info, response |-> q.response, saw |-> q.saw]
<1> DEFINE x == [q EXCEPT !.stage = "reading"]
           names == {"stage", "method", "key", "header", "info", "response", "saw"}
<1>1. DOMAIN q = names /\ q = [n \in names |-> q[n]]
  BY DEF IsRequest
<1>2. DOMAIN x = names /\ x = [n \in names |-> x[n]]
  BY <1>1
<1>3. x.stage = "reading"
  BY <1>1
<1>4. /\ x.method = q.method /\ x.key = q.key /\ x.header = q.header /\ x.info = q.info
      /\ x.response = q.response /\ x.saw = q.saw
  BY <1>1
<1> HIDE DEF x
<1> QED BY <1>2, <1>3, <1>4 DEF x

\* A GET goes on to its second call.
LEMMA ReadKeeps ==
  ASSUME TypeOK, ApiTypes, \A u \in Threads : RequestInv(u), NEW t \in Threads, Read(t)
  PROVE  RequestsKept
<1> USE DEF RequestsKept
<1> DEFINE q == req[t]
           next == [q EXCEPT !.stage = "reading"]
<1>1. PICK op \in AllOps : Ask(t, q.key, op)
  BY DEF Read, AllOps
<1>2. q.stage = "deciding" /\ req' = [req EXCEPT ![t] = next] /\ RequestInv(t)
  BY DEF Read, ApiTypes
<1>3. IsRequest(q) /\ q.key \in Keys
  BY <1>2 DEF ApiTypes, NoRequest, IsRequest
<1>4. next = [stage |-> "reading", method |-> q.method, key |-> q.key, header |-> q.header,
              info |-> q.info, response |-> q.response, saw |-> q.saw]
  BY <1>3, ReadingForm
<1>5. req'[t] = next
  BY <1>2 DEF ApiTypes
<1> HIDE DEF next
<1>6. IsRequest(next)
  BY <1>3, <1>4 DEF IsRequest
<1>7. /\ store[q.key] \in q.saw
      /\ cached => Within(q.key) \subseteq q.saw
      /\ InCall(t)
  BY <1>2 DEF RequestInv, Watched
<1>8. /\ InCall(t)' /\ CallHonest(t)'
      /\ cached' = cached /\ store' = store /\ lag' = lag
      /\ file' \in [Threads -> FileCalls]
      /\ \A u \in Threads \ {t} : call'[u] = call[u] /\ file'[u] = file[u]
  <2>1. next.stage = "reading" /\ next.key = q.key /\ next.saw = q.saw
    BY <1>4
  <2> QED BY <1>1, <1>2, <1>3, <1>5, <1>7, <2>1, AskKeeps
<1>9. Watched(req[t])'
  BY <1>4, <1>5, <1>7, <1>8 DEF Watched, Within
<1>10. Informed(req[t])' /\ Told(req[t])'
  BY <1>2, <1>4, <1>5 DEF RequestInv, Informed, Told
<1> QED BY <1>2, <1>6, <1>8, <1>9, <1>10, OneServed DEF RequestInv

\* A response that is sent is forgotten.
LEMMA SentKeeps ==
  ASSUME TypeOK, ApiTypes, \A u \in Threads : RequestInv(u), NEW t \in Threads, Sent(t)
  PROVE  RequestsKept
<1> USE DEF RequestsKept
<1>1. /\ req' = [req EXCEPT ![t] = NoRequest] /\ req[t].stage = "answered" /\ RequestInv(t)
      /\ call' = call /\ file' = file /\ store' = store /\ lag' = lag /\ cached' = cached
  BY DEF Sent, vars
<1>2. req'[t] = NoRequest /\ file' \in [Threads -> FileCalls]
  BY <1>1 DEF ApiTypes
<1>3. RequestInv(t)'
  BY <1>1, <1>2 DEF RequestInv, NoRequest, InCall, Watched, CallHonest, Informed, Told
<1> QED BY <1>1, <1>2, <1>3, OneServed

\* What the cache answers is honest.
LEMMA AllowedHonest ==
  ASSUME TypeOK, NEW q, IsRequest(q), Watched(q), q.stage \in {"looking", "reading"}, cached,
         NEW seen, seen \subseteq q.saw, NEW v \in Answers, Promise!Allowed(q.key, seen, v)
  PROVE  Honest(q, v)
<1>1. \/ v = Error \/ v \in q.saw
      \/ v \in Objects /\ lag[q.key][v] # -1 /\ (Window = 0 \/ lag[q.key][v] < Window)
  BY DEF Promise!Allowed
<1>2. Window = 0 => Ttl = 0
  BY CacheAssumption DEF Window
<1>3. Within(q.key) \subseteq q.saw
  BY DEF Watched
<1> QED BY <1>1, <1>2, <1>3 DEF Honest, Within

\* A step of the cache
LEMMA WorkKeeps ==
  ASSUME TypeOK, FreshIsRecent, ApiTypes, \A u \in Threads : RequestInv(u),
         NEW t \in Threads, Work(t), UNCHANGED <<file, cached, req>>
  PROVE  RequestsKept
<1> USE DEF RequestsKept
<1> DEFINE q == req[t]
<1>1. /\ store' = store /\ lag' = lag /\ \A u \in Threads \ {t} : call'[u] = call[u]
      /\ call[t].pc \notin {"idle", "done"} /\ call'[t].pc # "idle"
      /\ call'[t].key = call[t].key
      /\ call'[t].pc # "done" => call'[t].seen = call[t].seen
      /\ call'[t].pc = "done" =>
           /\ call'[t].answer \in Answers
           /\ Promise!Allowed(call[t].key, call[t].seen, call'[t].answer)
  BY WorkAnswers
<1>2. /\ cached /\ q.stage \in {"looking", "reading"} /\ call[t].key = q.key
      /\ file[t].pc = "idle" /\ call[t].seen \subseteq q.saw /\ Watched(q)
      /\ RequestInv(t)
  BY <1>1 DEF RequestInv, InCall, CallHonest
<1>3. IsRequest(q)
  BY <1>2 DEF ApiTypes, NoRequest
<1>4. call'[t].pc = "done" => Honest(q, call'[t].answer)
  BY <1>1, <1>2, <1>3, AllowedHonest
<1>5. RequestInv(t)'
  <2>1. InCall(t)'
    BY <1>1, <1>2 DEF InCall
  <2>2. CallHonest(t)'
    BY <1>1, <1>2, <1>4 DEF CallHonest, Honest
  <2>3. Watched(req[t])' /\ Informed(req[t])' /\ Told(req[t])'
    BY <1>1, <1>2 DEF RequestInv, Watched, Within, Informed, Told
  <2> QED BY <2>1, <2>2, <2>3 DEF RequestInv
<1>6. ASSUME NEW u \in Threads \ {t} PROVE RequestInv(u)'
  BY <1>1, <1>6, Untouched
<1>7. ApiTypes'
  BY DEF ApiTypes, IsRequest
<1> QED BY <1>5, <1>6, <1>7

\* A step of a call of the file system: a file is found there, then opened as it is.
LEMMA FileWorkKeeps ==
  ASSUME TypeOK, ApiTypes, \A u \in Threads : RequestInv(u),
         NEW t \in Threads, FileWork(t), UNCHANGED <<cached, req>>
  PROVE  RequestsKept
<1> USE DEF RequestsKept
<1> DEFINE q == req[t]
           held == store[q.key]
<1>1. /\ file[t].pc \in {"resolve", "open"} /\ file \in [Threads -> FileCalls]
      /\ call' = call /\ store' = store /\ lag' = lag
  BY DEF FileWork, Resolve, Open, Raise, FileGive, FileGoto, ApiTypes, vars
<1>2. /\ ~cached /\ q.stage \in {"looking", "reading"} /\ file[t].key = q.key
      /\ call[t].pc = "idle" /\ held \in q.saw /\ RequestInv(t)
  BY <1>1 DEF RequestInv, InCall, Watched
<1>3. IsRequest(q) /\ file[t] \in [pc : {"resolve", "open"}, key : Keys]
  BY <1>1, <1>2, FileForms DEF ApiTypes, NoRequest
<1>4. NoObject # Error /\ Error \notin Contents /\ held \in Contents
  BY <1>3, CacheAssumption DEF Contents, IsRequest, TypeOK
<1>5. \/ file' = [file EXCEPT ![t] = [file[t] EXCEPT !.pc = "open"]]
      \/ \E v \in Answers :
           /\ file' = [file EXCEPT ![t] = [pc |-> "done", key |-> file[t].key, answer |-> v]]
           /\ Honest(q, v)
  <2>1. \A v \in {held, Error} : v \in Answers /\ Honest(q, v)
    BY <1>2, <1>4 DEF Honest, Answers
  <2>2. \/ FileGoto(t, "open")
        \/ \E v \in {held, Error} : FileGive(t, v)
    BY <1>2 DEF FileWork, Resolve, Open, Raise
  <2> HIDE DEF held
  <2>3. CASE FileGoto(t, "open")
    BY <1>1, <2>3 DEF FileGoto
  <2>4. ASSUME NEW v \in {held, Error}, FileGive(t, v) PROVE <1>5!:
    <3>1. file' = [file EXCEPT ![t] = [pc |-> "done", key |-> file[t].key, answer |-> v]]
      BY <1>1, <2>4 DEF FileGive
    <3> QED BY <2>1, <3>1
  <2> QED BY <2>2, <2>3, <2>4
<1>6. /\ file' \in [Threads -> FileCalls] /\ file'[t].key = file[t].key
      /\ \A u \in Threads \ {t} : file'[u] = file[u]
      /\ \/ file'[t].pc = "open"
         \/ file'[t].pc = "done" /\ Honest(q, file'[t].answer)
  <2>1. CASE file' = [file EXCEPT ![t] = [file[t] EXCEPT !.pc = "open"]]
    <3>1. [file[t] EXCEPT !.pc = "open"] = [pc |-> "open", key |-> file[t].key]
      BY <1>3
    <3>2. [pc |-> "open", key |-> file[t].key] \in FileCalls
      BY <1>3 DEF FileCalls
    <3> QED BY <1>1, <2>1, <3>1, <3>2
  <2>2. ASSUME NEW v \in Answers, Honest(q, v),
               file' = [file EXCEPT ![t] = [pc |-> "done", key |-> file[t].key, answer |-> v]]
        PROVE  <1>6!:
    <3>1. [pc |-> "done", key |-> file[t].key, answer |-> v] \in FileCalls
      BY <1>3 DEF FileCalls
    <3> QED BY <1>1, <2>2, <3>1
  <2> QED BY <1>5, <2>1, <2>2
<1>7. RequestInv(t)'
  <2>1. InCall(t)'
    BY <1>1, <1>2, <1>6 DEF InCall
  <2>2. CallHonest(t)'
    BY <1>1, <1>2, <1>6 DEF CallHonest, Honest
  <2>3. Watched(req[t])' /\ Informed(req[t])' /\ Told(req[t])'
    BY <1>1, <1>2 DEF RequestInv, Watched, Within, Informed, Told
  <2> QED BY <2>1, <2>2, <2>3 DEF RequestInv
<1>8. ASSUME NEW u \in Threads \ {t} PROVE RequestInv(u)'
  BY <1>1, <1>6, <1>8, Untouched
<1>9. ApiTypes'
  BY <1>6 DEF ApiTypes, IsRequest
<1> QED BY <1>7, <1>8, <1>9

-----------------------------------------------------------------------------
\* The request when the key changes
SeenToo(q, v) == [q EXCEPT !.saw = @ \cup {v}]
LEMMA SeenForm ==
  ASSUME NEW q, IsRequest(q), NEW v
  PROVE  SeenToo(q, v)
           = [stage |-> q.stage, method |-> q.method, key |-> q.key, header |-> q.header,
              info |-> q.info, response |-> q.response, saw |-> q.saw \cup {v}]
<1> DEFINE x == SeenToo(q, v)
           names == {"stage", "method", "key", "header", "info", "response", "saw"}
<1>1. DOMAIN q = names /\ q = [n \in names |-> q[n]]
  BY DEF IsRequest
<1>2. DOMAIN x = names /\ x = [n \in names |-> x[n]]
  BY <1>1 DEF SeenToo
<1>3. x.saw = q.saw \cup {v}
  BY <1>1 DEF SeenToo
<1>4. /\ x.stage = q.stage /\ x.method = q.method /\ x.key = q.key /\ x.header = q.header
      /\ x.info = q.info /\ x.response = q.response
  BY <1>1 DEF SeenToo
<1> HIDE DEF x
<1> QED BY <1>2, <1>3, <1>4 DEF x

\* An honest answer stays one when the key changes.
LEMMA StaysHonest ==
  ASSUME NEW q, NEW x, NEW a, NEW v, Honest(q, a), x.saw = q.saw \cup {v}
  PROVE  Honest(x, a)
BY DEF Honest

\* A change of the bucket: what was honest stays so, and a key is no longer unchanged.
LEMMA ChangedKeeps ==
  ASSUME TypeOK, ApiTypes, \A u \in Threads : RequestInv(u),
         NEW k \in Keys, NEW v \in Contents, Changed(k, v)
  PROVE  RequestsKept
<1> USE DEF RequestsKept
<1> DEFINE Runs(u) == req[u].stage \notin {"none", "answered"}
           Hit(u) == Runs(u) /\ req[u].key = k
<1>1. /\ v # store[k] /\ store' = [store EXCEPT ![k] = v]
      /\ lag' = [lag EXCEPT ![k] = [w \in Objects |-> IF w = v THEN 0 ELSE @[w]]]
      /\ call' = [u \in Threads |->
                    IF call[u].pc \notin {"idle", "done"} /\ call[u].key = k
                      THEN [call[u] EXCEPT !.seen = @ \cup {v}] ELSE call[u]]
      /\ req' = [u \in Threads |-> IF Hit(u) THEN SeenToo(req[u], v) ELSE req[u]]
      /\ file' = file /\ cached' = cached
  BY DEF Changed, Write, SeenToo
<1>2. ASSUME NEW u \in Threads
      PROVE  /\ req'[u] = IF Hit(u) THEN SeenToo(req[u], v) ELSE req[u]
             /\ req[u] = NoRequest \/ IsRequest(req[u])
             /\ NoRequest.stage = "none"
             /\ RequestInv(u)
  BY <1>1, <1>2 DEF ApiTypes, NoRequest
<1>3. ASSUME NEW u \in Threads
      PROVE  /\ call'[u].pc = call[u].pc
             /\ call[u].pc # "idle" => call'[u].key = call[u].key
             /\ call[u].pc = "done" => call'[u].answer = call[u].answer
             /\ call[u].pc \notin {"idle", "done"} =>
                  call'[u].seen = IF call[u].key = k THEN call[u].seen \cup {v} ELSE call[u].seen
  <2>1. CASE call[u].pc \in {"idle", "done"}
    <3>1. call'[u] = call[u]
      BY <1>1, <2>1
    <3> QED BY <2>1, <3>1
  <2>2. CASE call[u].pc \notin {"idle", "done"}
    <3>1. call[u] \in OpenCalls \cup HoldingCalls
      BY <2>2 DEF TypeOK, Calls, NoCall, DoneCalls
    <3>2. call'[u] = IF call[u].key = k THEN [call[u] EXCEPT !.seen = @ \cup {v}] ELSE call[u]
      BY <1>1, <2>2
    <3> QED BY <2>2, <3>1, <3>2 DEF OpenCalls, HoldingCalls
  <2> QED BY <2>1, <2>2
<1>4. \A x \in Keys : store'[x] = IF x = k THEN v ELSE store[x]
  BY <1>1 DEF TypeOK
<1>5. ASSUME NEW u \in Threads, Hit(u) PROVE RequestInv(u)' /\ IsRequest(req'[u])
  <2> DEFINE q == req[u]
             x == SeenToo(q, v)
  <2>1. IsRequest(q) /\ req'[u] = x /\ q.stage \in {"looking", "deciding", "reading"}
        /\ RequestInv(u)
    BY <1>2, <1>5 DEF IsRequest
  <2>2. x = [stage |-> q.stage, method |-> q.method, key |-> q.key, header |-> q.header,
             info |-> q.info, response |-> q.response, saw |-> q.saw \cup {v}]
    BY <2>1, SeenForm
  <2>3. store[k] \in q.saw /\ q.key = k /\ q.saw # {}
    BY <1>5, <2>1 DEF RequestInv, Watched
  <2> HIDE DEF x
  <2>4. /\ x.stage = q.stage /\ x.method = q.method /\ x.key = k /\ x.header = q.header
        /\ x.info = q.info /\ x.response = q.response /\ x.saw = q.saw \cup {v}
    BY <2>2, <2>3
  <2>5. IsRequest(x)
    BY <2>1, <2>2 DEF IsRequest
  <2>6. InCall(u)'
    BY <1>1, <1>3, <2>1, <2>3, <2>4 DEF RequestInv, InCall
  <2>8. Watched(req[u])'
    <3>1. store'[k] = v /\ v \in x.saw
      BY <1>4, <2>4
    <3>2. Within(k)' \subseteq Within(k) \cup {v}
      <4>1. lag'[k] = [w \in Objects |-> IF w = v THEN 0 ELSE lag[k][w]]
        BY <1>1 DEF TypeOK
      <4> QED BY <4>1 DEF Within
    <3>3. cached => Within(k) \subseteq q.saw
      BY <2>1, <2>3 DEF RequestInv, Watched
    <3> QED BY <1>1, <2>1, <2>4, <3>1, <3>2, <3>3 DEF Watched
  <2>9. CallHonest(u)'
    <3>1. /\ call[u].pc \notin {"idle", "done"} =>
               call[u].key = q.key /\ call[u].seen \subseteq q.saw
          /\ call[u].pc = "done" => Honest(q, call[u].answer)
          /\ file[u].pc = "done" => Honest(q, file[u].answer)
      BY <2>1 DEF RequestInv, CallHonest, InCall
    <3>2. call[u].pc \notin {"idle", "done"} => call'[u].seen \subseteq x.saw
      BY <1>3, <2>3, <2>4, <3>1
    <3>3. /\ call[u].pc = "done" => Honest(x, call[u].answer)
          /\ file[u].pc = "done" => Honest(x, file[u].answer)
      BY <2>3, <2>4, <3>1, StaysHonest
    <3>5. /\ call[u].pc = "done" => Honest(req[u], call[u].answer)'
          /\ file[u].pc = "done" => Honest(req[u], file[u].answer)'
      BY <1>1, <1>3, <2>1, <3>3 DEF Honest
    <3> QED BY <1>1, <1>3, <2>1, <3>2, <3>5 DEF CallHonest
  <2>10. Informed(req[u])'
    BY <2>1, <2>4 DEF RequestInv, Informed
  <2>11. Told(req[u])'
    BY <2>1, <2>4 DEF Told
  <2> QED BY <2>1, <2>5, <2>6, <2>8, <2>9, <2>10, <2>11 DEF RequestInv
<1>6. ASSUME NEW u \in Threads, ~Hit(u) PROVE RequestInv(u)' /\ req'[u] = req[u]
  <2>1. req'[u] = req[u] /\ RequestInv(u)
    BY <1>2, <1>6
  <2>2. InCall(u)'
    BY <1>1, <1>3, <2>1 DEF RequestInv, InCall
  <2>3. Watched(req[u])'
    <3>1. CASE Runs(u)
      <4>1. req[u].key \in Keys \ {k}
        BY <1>2, <1>6, <3>1 DEF IsRequest
      <4>2. store'[req[u].key] = store[req[u].key] /\ lag'[req[u].key] = lag[req[u].key]
        BY <1>1, <1>4, <4>1 DEF TypeOK
      <4>3. Within(req[u].key)' = Within(req[u].key)
        BY <2>1, <4>2 DEF Within
      <4>4. cached' = cached
        BY <1>1
      <4> QED BY <2>1, <4>2, <4>3, <4>4 DEF RequestInv, Watched
    <3>2. CASE ~Runs(u)
      BY <2>1, <3>2 DEF Watched
    <3> QED BY <3>1, <3>2
  <2>4. CallHonest(u)'
    <3>1. /\ call[u].pc \notin {"idle", "done"} => call'[u].seen = call[u].seen
      BY <1>3, <1>6, <2>1 DEF RequestInv, InCall
    <3> QED BY <1>1, <1>3, <2>1, <3>1 DEF RequestInv, CallHonest, Honest
  <2>5. Informed(req[u])' /\ Told(req[u])'
    BY <1>1, <2>1 DEF RequestInv, Informed, Told
  <2> QED BY <2>1, <2>2, <2>3, <2>4, <2>5 DEF RequestInv
<1>7. ApiTypes'
  <2>1. req' = [u \in Threads |-> req'[u]]
    BY <1>1
  <2>2. \A u \in Threads : req'[u] = NoRequest \/ IsRequest(req'[u])
    BY <1>2, <1>5, <1>6
  <2> QED BY <1>1, <2>1, <2>2 DEF ApiTypes, IsRequest
<1> QED BY <1>5, <1>6, <1>7

\* Time passes, and nothing comes into the window by it.
LEMMA TickKeeps ==
  ASSUME TypeOK, ApiTypes, \A u \in Threads : RequestInv(u),
         Tick, UNCHANGED <<file, cached, req>>
  PROVE  RequestsKept
<1> USE DEF RequestsKept
<1>1. store' = store
  BY DEF Tick
<1>2. ASSUME NEW u \in Threads
      PROVE  /\ call'[u].pc = call[u].pc
             /\ call[u].pc # "idle" => call'[u].key = call[u].key
             /\ call[u].pc = "done" => call'[u].answer = call[u].answer
             /\ call[u].pc \notin {"idle", "done"} => call'[u].seen = call[u].seen
  <2>1. CASE Holding(u)
    <3>1. call[u] \in HoldingCalls /\ call'[u] = [call[u] EXCEPT !.held = @ + 1]
      BY <2>1, CallForms DEF Tick
    <3> QED BY <3>1 DEF HoldingCalls
  <2>2. CASE ~Holding(u)
    BY <2>2 DEF Tick
  <2> QED BY <2>1, <2>2
<1>3. ASSUME NEW k \in Keys PROVE Within(k)' \subseteq Within(k)
  <2>1. ASSUME NEW v \in Objects, v \notin Within(k) PROVE v \notin Within(k)'
    <3>1. lag[k][v] = -1 \/ (Ttl # 0 /\ ~(lag[k][v] < Window))
      BY <2>1 DEF Within
    <3>2. Window \in Nat /\ lag[k][v] \notin 0..Window - 1
      BY <3>1, CacheAssumption DEF Window
    <3>3. lag'[k][v] = lag[k][v]
      BY <3>2 DEF Tick
    <3> QED BY <3>1, <3>3 DEF Within
  <2> QED BY <2>1 DEF Within
<1>4. ASSUME NEW u \in Threads PROVE RequestInv(u)'
  <2>1. RequestInv(u) /\ (req[u] = NoRequest \/ IsRequest(req[u])) /\ NoRequest.stage = "none"
    BY DEF ApiTypes, NoRequest
  <2>2. InCall(u)'
    BY <1>2, <2>1 DEF RequestInv, InCall
  <2>3. Watched(req[u])'
    <3>1. CASE req[u].stage \in {"looking", "deciding", "reading"}
      <4>1. req[u].key \in Keys
        BY <2>1, <3>1 DEF IsRequest
      <4>2. Within(req[u].key)' \subseteq Within(req[u].key)
        BY <1>3, <4>1
      <4> QED BY <1>1, <2>1, <4>2 DEF RequestInv, Watched
    <3>2. CASE req[u].stage \notin {"looking", "deciding", "reading"}
      BY <3>2 DEF Watched
    <3> QED BY <3>1, <3>2
  <2>4. CallHonest(u)'
    BY <1>2, <2>1 DEF RequestInv, CallHonest, Honest
  <2>5. Informed(req[u])' /\ Told(req[u])'
    BY <2>1 DEF RequestInv, Informed, Told
  <2> QED BY <2>2, <2>3, <2>4, <2>5 DEF RequestInv
<1>5. ApiTypes'
  BY DEF ApiTypes, IsRequest
<1> QED BY <1>4, <1>5

\* The invariant holds at the start,
LEMMA ApiStart == ApiInit => ApiInv
<1> SUFFICES ASSUME ApiInit PROVE ApiInv
  OBVIOUS
<1>1. TypeOK /\ FreshIsRecent
  BY TypeInit, RecentInit DEF ApiInit
<1>2. req = [t \in Threads |-> NoRequest] /\ NoRequest.stage = "none"
  BY DEF ApiInit, NoRequest
<1>3. /\ call = [t \in Threads |-> NoCall] /\ NoCall.pc = "idle"
      /\ file = [t \in Threads |-> NoFileCall] /\ NoFileCall.pc = "idle"
  BY DEF ApiInit, Init, FileInit, NoCall, NoFileCall
<1>4. ApiTypes
  BY <1>2, <1>3 DEF ApiInit, ApiTypes, FileCalls
<1>5. ASSUME NEW t \in Threads PROVE RequestInv(t)
  BY <1>2, <1>3 DEF RequestInv, InCall, Watched, CallHonest, Informed, Told
<1> QED BY <1>1, <1>4, <1>5 DEF ApiInv

\* and every step keeps it.
LEMMA ApiStep == ApiInv /\ [ApiNext]_apiVars => ApiInv'
<1> SUFFICES ASSUME ApiInv, [ApiNext]_apiVars PROVE ApiInv'
  OBVIOUS
<1>0. TypeOK /\ FreshIsRecent /\ ApiTypes /\ \A t \in Threads : RequestInv(t)
  BY DEF ApiInv
<1>1. TypeOK' /\ FreshIsRecent'
  BY <1>0, CacheSteps, TypeStep, RecentStep
<1> SUFFICES RequestsKept
  BY <1>1 DEF ApiInv, RequestsKept
<1>2. ASSUME NEW t \in Threads, NEW m \in {"GET", "HEAD"}, NEW k \in Keys, NEW h \in Ranges,
             Arrive(t, m, k, h)
      PROVE  RequestsKept
  BY <1>0, <1>2, ArriveKeeps
<1>3. ASSUME NEW t \in Threads, Serve(t) PROVE RequestsKept
  <2>1. CASE Looked(t)
    BY <1>0, <2>1, LookedKeeps
  <2>2. CASE Read(t)
    BY <1>0, <2>2, ReadKeeps
  <2>3. CASE Got(t)
    BY <1>0, <2>3, GotKeeps
  <2>4. CASE Sent(t)
    BY <1>0, <2>4, SentKeeps
  <2>5. CASE Work(t) /\ UNCHANGED <<file, cached, req>>
    BY <1>0, <2>5, WorkKeeps
  <2>6. CASE FileWork(t) /\ UNCHANGED <<cached, req>>
    BY <1>0, <2>6, FileWorkKeeps
  <2> QED BY <1>3, <2>1, <2>2, <2>3, <2>4, <2>5, <2>6 DEF Serve
<1>4. ASSUME NEW k \in Keys, NEW v \in Contents, Changed(k, v) PROVE RequestsKept
  BY <1>0, <1>4, ChangedKeeps
<1>5. CASE Tick /\ UNCHANGED <<file, cached, req>>
  BY <1>0, <1>5, TickKeeps
<1>6. CASE UNCHANGED apiVars
  <2>1. /\ req' = req /\ file' = file /\ cached' = cached
        /\ call' = call /\ store' = store /\ lag' = lag
    BY <1>6 DEF apiVars, vars
  <2>2. \A u \in Threads : RequestInv(u)'
    BY <1>0, <2>1, Untouched
  <2>3. ApiTypes'
    BY <1>0, <2>1 DEF ApiTypes, IsRequest
  <2> QED BY <2>2, <2>3 DEF RequestsKept
<1> QED BY <1>2, <1>3, <1>4, <1>5, <1>6 DEF ApiNext

\* So it always holds.
LEMMA ApiKept == ApiSpec => []ApiInv
  BY ApiStart, ApiStep, PTL DEF ApiSpec

\* A 404 is honest: whichever of the two calls finds nothing, over local files or over a
\* cache of any age, the object was missing at some time during the request.
THEOREM NotFoundHonest == ApiSpec => []HonestNotFound
<1>1. ApiInv => HonestNotFound
  BY DEF ApiInv, RequestInv, Told, HonestNotFound, Answered
<1> QED BY <1>1, ApiKept, PTL

\* Whatever a response tells of an object was so while the request ran or within one window
\* of the cache before, though two calls and two dictionaries have a delay each.
THEOREM ServedIsRecent == ApiSpec => []ServesRecent
<1>1. ApiInv => ServesRecent
  BY DEF ApiInv, RequestInv, Told, Speaks, ServesRecent, Answered
<1> QED BY <1>1, ApiKept, PTL

\* The response to a request for a key that has not changed for the window, nor during
\* the request, is what the bucket holds in every part: from two reads at different
\* times, over entries of different age, of any sizes and any Range header.
THEOREM QuietCoherent == ApiSpec => []QuietIsCoherent
<1>1. ApiInv => QuietIsCoherent
  BY DEF ApiInv, RequestInv, Told, QuietIsCoherent, Answered
<1> QED BY <1>1, ApiKept, PTL
=============================================================================
