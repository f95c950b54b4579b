------------------------------ MODULE ObjectApi ------------------------------
(***************************************************************************)
(* GetObject and HeadObject (api/objects.py) over the cache or, as it is   *)
(* configured, over local files.  A request runs on a worker thread: it    *)
(* looks the object's metadata up, decides from it what to send, and for a *)
(* GET reads the object in a second call.  The two calls are answered      *)
(* separately, by the cache, by the bucket or by the file system, and the  *)
(* object may change between and during them.                              *)
(***************************************************************************)
EXTENDS LocalFiles, ByteRange

CONSTANT Ranges   \* the Range headers that requests carry

ASSUME ApiAssumption == Ranges \subseteq Headers /\ AllOps \subseteq Ops

VARIABLES
  cached,   \* whether there is a cache over the backend
  req       \* per thread, the request it serves

apiVars == <<vars, file, cached, req>>

NoRequest == [stage |-> "none"]

\* A response: its status, the object its ETag and Last-Modified describe, the
\* object its body comes from, the Content-Range's first and last byte and total,
\* and Content-Length.  NoObject and << >> stand for what a response lacks.
Response(status, tag, body, range, length) ==
  [status |-> status, tag |-> tag, body |-> body, range |-> range, length |-> length]
Failed(status) == Response(status, NoObject, NoObject, << >>, 0)

\* create_backend: a cache of no bytes is none.
ApiInit ==
  /\ Init /\ FileInit
  /\ cached \in BOOLEAN
  /\ req = [t \in Threads |-> NoRequest]
-----------------------------------------------------------------------------
\* What the bucket held under a key within the cache's window
Within(k) == {v \in Objects : lag[k][v] # -1 /\ (Ttl = 0 \/ lag[k][v] < Window)}

\* A call of the backend that create_backend made, its end and its answer
Ask(t, k, op) ==
  /\ IF cached THEN Begin(t, k, op) /\ UNCHANGED file ELSE FileBegin(t, k)
  /\ UNCHANGED cached
Ended(t) ==
  /\ IF cached THEN Return(t) /\ UNCHANGED file ELSE FileReturn(t)
  /\ UNCHANGED cached
AnswerTo(t) == IF cached THEN call[t].answer ELSE file[t].answer

\* saw is for the properties: what the key held during the request or, over a cache,
\* within the window before it.
Arrive(t, m, k, h) ==
  /\ req[t].stage = "none"
  /\ Ask(t, k, "head")
  /\ req' = [req EXCEPT ![t] =
               [stage |-> "looking", method |-> m, key |-> k, header |-> h,
                info |-> NoObject, response |-> Failed(0),
                saw |-> {store[k]} \cup (IF cached THEN Within(k) ELSE {})]]

Respond(t, r) ==
  req' = [req EXCEPT ![t].stage = "answered", ![t].response = r]

\* head_object's response, from the metadata alone
HeadResponse(v, r) ==
  IF r.kind = "whole" THEN Response(200, v, NoObject, << >>, Size[v])
  ELSE Response(206, v, NoObject, <<r.start, r.end, Size[v]>>, r.end - r.start + 1)

\* The answer to the metadata lookup: an error, the response to a HEAD, or the
\* part of the object that a GET goes on to read.
Looked(t) ==
  LET v == AnswerTo(t)
      r == ParseRange(req[t].header, Size[v])
  IN
  /\ req[t].stage = "looking"
  /\ Ended(t)
  /\ CASE v = NoObject -> Respond(t, Failed(404))
       [] v = Error -> Respond(t, Failed(500))
       [] v \in Objects /\ r.kind = "invalid" -> Respond(t, Failed(416))
       [] v \in Objects /\ r.kind # "invalid" /\ req[t].method = "HEAD" ->
            Respond(t, HeadResponse(v, r))
       [] OTHER -> req' = [req EXCEPT ![t].stage = "deciding", ![t].info = v]

PartOf(t) == ParseRange(req[t].header, Size[req[t].info])

Read(t) ==
  /\ req[t].stage = "deciding"
  /\ Ask(t, req[t].key, IF PartOf(t).kind = "whole" THEN "get" ELSE "range")
  /\ req' = [req EXCEPT ![t].stage = "reading"]

\* A bug for HonestNotFound: an object whose size changed counts as removed.
GetOrGone(info, v, r) ==
  IF Size[v] # Size[info] THEN Failed(404)
  ELSE Response(200, info, v, << >>, Size[v])

\* get_object's response: headers from the metadata, the body as it was read; the
\* Content-Range has the bytes that were read, of the size the metadata gave.
GetResponse(info, v, r) ==
  IF r.kind = "whole" THEN Response(200, info, v, << >>, Size[v])
  ELSE LET length == Cardinality(Slice(r, Size[v])) IN
       Response(206, info, v, <<r.start, r.start + length - 1, Size[info]>>, length)

Got(t) ==
  LET v == AnswerTo(t) IN
  /\ req[t].stage = "reading"
  /\ Ended(t)
  /\ CASE v = NoObject -> Respond(t, Failed(404))
       [] v = Error -> Respond(t, Failed(500))
       [] OTHER -> Respond(t, GetResponse(req[t].info, v, PartOf(t)))

Sent(t) ==
  /\ req[t].stage = "answered"
  /\ req' = [req EXCEPT ![t] = NoRequest]
  /\ UNCHANGED <<vars, file, cached>>

Serve(t) == \/ Looked(t) \/ Read(t) \/ Got(t) \/ Sent(t)
            \/ Work(t) /\ UNCHANGED <<file, cached, req>>
            \/ FileWork(t) /\ UNCHANGED <<cached, req>>

\* The bucket changes under a request.
Changed(k, v) ==
  /\ Write(k, v)
  /\ req' = [t \in Threads |->
               IF req[t].stage \notin {"none", "answered"} /\ req[t].key = k
                 THEN [req[t] EXCEPT !.saw = @ \cup {v}] ELSE req[t]]
  /\ UNCHANGED <<file, cached>>

ApiNext ==
  \/ \E t \in Threads :
       \/ \E m \in {"GET", "HEAD"}, k \in Keys, h \in Ranges : Arrive(t, m, k, h)
       \/ Serve(t)
  \/ \E k \in Keys, v \in Contents : Changed(k, v)
  \/ Tick /\ UNCHANGED <<file, cached, req>>

ApiSpec == ApiInit /\ [][ApiNext]_apiVars
-----------------------------------------------------------------------------
Answered(t) == req[t].stage = "answered"

\* A 404 is honest: the object was missing at some time during the request, in
\* whichever of the two calls the handler found out, and whatever was cached.  (Within
\* has objects only, so that what was missing is never within the window.)
HonestNotFound ==
  \A t \in Threads :
    Answered(t) /\ req[t].response.status = 404 => NoObject \in req[t].saw

\* Whatever a response tells of an object, it tells of one that the bucket held while the
\* request ran or, over a cache, less than the window before: the object of its ETag, of
\* its total and of its body, and the one whose size made a range fail.  The two calls
\* of a request and the two dictionaries behind them do not add their delays up.
ServesRecent ==
  \A t \in Threads : Answered(t) =>
    LET r == req[t].response IN
    /\ {r.tag, r.body} \subseteq req[t].saw \cup {NoObject}
    /\ r.status = 416 =>
         \E v \in req[t].saw \cap Objects : Wanted(req[t].header, Size[v]) = {}

\* The response a client expects of an object v that does not change.  The suffix of an
\* empty object is the exception: it is sent as a part of no bytes, where 416 is due.
Expected(m, h, v, r) ==
  LET wanted == Wanted(h, Size[v])
  IN
  /\ r.status = IF h = NoHeader THEN 200
                ELSE IF wanted = {} /\ ~EmptyTail(h, Size[v]) THEN 416 ELSE 206
  /\ r.status # 416 =>
       /\ r.tag = v
       /\ r.body = IF m = "GET" THEN v ELSE NoObject
       /\ r.length = IF r.status = 200 THEN Size[v] ELSE Cardinality(wanted)
  /\ r.status = 206 =>
       r.range[1]..r.range[2] = wanted /\ r.range[3] = Size[v]

\* When a key has not changed during a request nor, over a cache, for the window before,
\* the response is what the bucket holds, in every part: its ETag, its body,
\* its range and its length are those of one object, the current one, though the
\* cache keeps metadata and bytes apart and fills them at different times.
QuietIsCoherent ==
  \A t \in Threads :
    Answered(t) /\ req[t].response.status # 500 =>
      \A v \in Contents : req[t].saw = {v} =>
        IF v = NoObject THEN req[t].response.status = 404
        ELSE Expected(req[t].method, req[t].header, v, req[t].response)
=============================================================================
