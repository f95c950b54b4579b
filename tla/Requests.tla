------------------------------ MODULE Requests ------------------------------
(***************************************************************************)
(* The requests of one connection on their way through the application     *)
(* (create_app in app.py): the Shaper, which may answer in its place, the  *)
(* signature check, the route, and the body, which somebody has to read.   *)
(* A client that announces its body (Expect: 100-continue) holds it back   *)
(* until it is read, and after a while no longer.  The web server, the     *)
(* framework and the way to the server are external.                       *)
(***************************************************************************)
EXTENDS SigV4

CONSTANTS
  Calls,         \* what clients ask for
  Ways,          \* a call -> the calls that may arrive in its place
  Proofs,        \* the auths they give, but for the date
  Forged,        \* auths that may arrive in their place
  OtherSecret,   \* a secret that is not the server's
  MaxTime        \* bound on the clock, in ticks

ASSUME RequestsAssumption ==
  /\ \A c \in Calls : c.method \in {"GET", "HEAD", "POST", "PUT", "DELETE", "PATCH"}
  /\ \A c \in Calls : Sha256(c.body) \notin {Empty, Unsigned, Streaming}
  /\ \A c \in Calls : \A n \in DOMAIN c.headers :
        DOMAIN c.headers[n] = 1..Len(c.headers[n]) /\ Len(c.headers[n]) \in Nat \ {0}
  /\ Ways \in [Calls -> SUBSET Calls]
  /\ \A p \in Proofs : {"kind", "date"} \subseteq DOMAIN p /\ p.kind \in {"none", "header", "url"}
  /\ OtherSecret # SecretKey
  /\ MaxTime \in Nat

VARIABLES
  app,      \* how it is configured: [auth, faults]
  now,      \* the server's clock
  call,     \* the request as it was sent and as it came, the secret it was signed with
            \* and when
  conn,     \* how far it is, where its body is and who answered it
  inStep    \* what comes next on the connection is read as a request of its own

requestVars == <<app, now, call, conn, inStep>>

Free == [stage |-> "none", body |-> "none", by |-> "nobody"]

Init ==
  /\ app \in [auth : BOOLEAN, faults : BOOLEAN]
  /\ now = 0
  /\ call = << >> /\ conn = Free
  /\ inStep = TRUE
-----------------------------------------------------------------------------
\* A client signs a request, with the date of its clock, and sends it, a presigned URL
\* perhaps later.  What arrives may be another call, with the same signature and the same
\* or another auth.  Only methods that take a body are asked whether to send it.
SendAs(c, d, p, secret, expect, at) ==
  LET sent == Signed(c, [p EXCEPT !.date = at \div TicksPerSecond], secret) IN
  /\ p.kind # "url" => at = now
  /\ expect => d.body # Empty /\ d.method \notin {"GET", "HEAD"}
  /\ \E auth \in {sent.auth} \cup Forged :
        call' = [sent |-> sent, got |-> With(d, auth, sent.signature),
                 secret |-> secret, at |-> at]
  /\ conn' = [stage |-> "arrived", by |-> "nobody",
              body |-> IF d.body = Empty THEN "none" ELSE IF expect THEN "held" ELSE "sent"]
  /\ UNCHANGED <<app, now, inStep>>

Send ==
  /\ conn.stage = "none" /\ inStep
  /\ \E c \in Calls : \E d \in Ways[c], p \in Proofs, secret \in {SecretKey, OtherSecret},
        expect \in BOOLEAN, at \in 0..now : SendAs(c, d, p, secret, expect, at)

Request == call.got
WithoutChecks == Request.path = "/health"

Step(next) == conn' = next /\ UNCHANGED <<app, now, call, inStep>>
Answer(by) == Step([conn EXCEPT !.stage = "answered", !.by = by])

\* _slow_down: the body is not read.
SlowDown ==
  /\ conn.stage = "arrived" /\ app.faults /\ ~WithoutChecks
  /\ Answer("shaper")

\* Whoever reads the body makes the client send it.
Reading(body) == IF body = "none" THEN "none" ELSE "read"

\* _signature_check reads the body, for its hash.
Admitted ==
  /\ conn.stage = "arrived"
  /\ Step(IF app.auth /\ ~WithoutChecks
             THEN [conn EXCEPT !.stage = "checking", !.body = Reading(@)]
             ELSE [conn EXCEPT !.stage = "routing"])

Check ==
  /\ conn.stage = "checking"
  /\ CASE Verify(Request, now) = "ok" ->
            Step([conn EXCEPT !.stage = "routing"])
       [] Verify(Request, now) \in {"OverflowError", "TypeError"} -> Answer("framework")
       [] OTHER -> Answer("check")
-----------------------------------------------------------------------------
WriteMethods == {"PUT", "DELETE", "PATCH"}
Has(r, name) == \E i \in DOMAIN r.query : r.query[i].name = name
\* One of the sub-resources that are recognised and not implemented
Unsupported(r) == Has(r, "acl")

\* get_bucket, head_bucket and post_bucket: what a request for a bucket comes to
BucketOperation(r) ==
  CASE r.method = "HEAD" -> "head_bucket"
    [] r.method = "POST" -> "not_allowed"
    [] r.method = "GET" -> IF Unsupported(r) THEN "not_implemented"
                           ELSE IF Has(r, "location") THEN "get_bucket_location"
                           ELSE "list_objects"

\* get_object, head_object and post_object
ObjectOperation(r) ==
  CASE r.method = "POST" -> IF Has(r, "select") THEN "select" ELSE "not_allowed"
    [] r.method \in {"GET", "HEAD"} -> IF Unsupported(r) THEN "not_implemented" ELSE "get_object"

\* The routes, in the order in which they are registered.  What none of them takes the
\* framework answers itself.
Operation(r) ==
  CASE r.method = "GET" /\ r.path = "/health" -> "health"
    [] r.method \in WriteMethods -> "not_allowed"
    [] r.method \notin WriteMethods /\ r.path = "/" ->
         IF r.method = "GET" THEN "list_buckets" ELSE "none"
    [] r.method = "GET" /\ r.path = "/bucket" -> BucketOperation(r)
    [] r.method \in {"HEAD", "POST"} /\ r.path \in {"/health", "/bucket"} -> BucketOperation(r)
    [] OTHER -> ObjectOperation(r)

\* read_only, post_bucket and post_object read the body, to use it or to drain it.
\* A bug for KeepsStep: a POST to a bucket is refused at once.
ReadByObjects(r) == r.method \in WriteMethods \/ (r.method = "POST" /\ r.path = "/bucket/key")
Reads(r) == r.method \in WriteMethods \/ (r.method = "POST" /\ r.path # "/")

\* What a handler sees of a header, as the Range of get_object: the first of its lines
Read(r, n) == IF n \in DOMAIN r.headers THEN <<Head(r.headers[n]).text>> ELSE <<Empty>>

Handle ==
  LET op == Operation(Request) IN
  /\ conn.stage = "routing"
  /\ Step([stage |-> "answered", by |-> IF op = "none" THEN "framework" ELSE op,
           body |-> IF Reads(Request) THEN Reading(conn.body) ELSE conn.body])
-----------------------------------------------------------------------------
\* A body still held when the answer comes is sent behind it.
Finish ==
  /\ conn.stage = "answered"
  /\ inStep' = (conn.body # "held")
  /\ conn' = IF conn.body # "held" THEN Free ELSE [conn EXCEPT !.stage = "none"]
  /\ call' = << >>
  /\ UNCHANGED <<app, now>>

\* The client does not wait any longer for being asked for its body.
Impatient ==
  /\ conn.body = "held" /\ conn.stage # "none"
  /\ Step([conn EXCEPT !.body = "sent"])

Tick ==
  /\ now < MaxTime
  /\ now' = now + 1
  /\ UNCHANGED <<app, call, conn, inStep>>

Next == \/ Send \/ SlowDown \/ Admitted \/ Check \/ Handle
        \/ Finish \/ Impatient \/ Tick
Spec == Init /\ [][Next]_requestVars
-----------------------------------------------------------------------------
\* No answer leaves a body unread that the client then sends into the next request,
\* whatever refuses the request, but the 503 of error_rate and the framework's own.
KeepsStep == ~inStep => conn.by \in {"shaper", "framework"}

Handled == conn.stage = "answered" /\ conn.by \notin {"shaper", "check", "framework"}

\* With keys configured, what a handler acts upon is what somebody who has the secret
\* asked for, in every part that the signature covers, whatever happened on the way to the
\* request and to its proof: but of a signed header that came in several lines the
\* signature covers the last and the handler reads the first.
HandledWasSigned ==
  Handled /\ app.auth /\ ~WithoutChecks =>
    /\ call.secret = SecretKey
    /\ [Meaning(Request) EXCEPT !.headers = << >>] = [Meaning(call.sent) EXCEPT !.headers = << >>]
    /\ \A i \in DOMAIN call.sent.auth.names :
         LET n == call.sent.auth.names[i] IN
         Once(Request, n) => Texts(call.sent, n) = Read(Request, n)
    /\ BodySigned(call.sent) => Meaning(call.sent).payload = Sha256(Request.body)

\* A presigned URL is good for the time it was made for, less the ticks that its date
\* may have left out.
InTime(t) ==
  \/ ~IsUrl(call.sent)
  \/ call.sent.auth.expires \in Nat
       /\ t - call.at <= call.sent.auth.expires * TicksPerSecond - (TicksPerSecond - 1)

\* A request that was signed as the protocol says, is still what was signed and is in time
Honest ==
  /\ call.secret = SecretKey /\ call.sent.auth.key = AccessKey
  /\ call.sent.auth.kind # "none" /\ call.sent.auth.flaw = "none"
  /\ Request.auth = call.sent.auth /\ Meaning(Request) = Meaning(call.sent)
  /\ call.sent.auth.payload \in {Empty, Unsigned, Streaming, Sha256(Request.body)}
  /\ InTime(now)

\* An honest request none of whose signed headers is repeated is not turned away by the
\* check: what the way to the server did to the order of its query, to the spelling of
\* names and values, to the spacing of headers and to what is not signed does not count.
HonestPasses ==
  conn.stage = "answered" /\ conn.by = "check" => ~(Honest /\ SignedOnce(Request))
=============================================================================
