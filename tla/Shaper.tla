------------------------------- MODULE Shaper -------------------------------
(***************************************************************************)
(* Shaper (shaping.py): the middleware that makes a local hadro answer     *)
(* like a remote store.  It delays each request, refuses some, and paces   *)
(* the body of every response to a rate of its own and to the rate of one  *)
(* link that all responses share.  The requests are coroutines on one      *)
(* event loop: a coroutine runs from one await to the next, so an action   *)
(* is what it does between two awaits.                                     *)
(*                                                                         *)
(* A time is kept as how far it is ahead of the clock, in ticks: the code  *)
(* only compares its times with the clock's.                               *)
(***************************************************************************)
EXTENDS Integers, FiniteSets

CONSTANTS
  Conns,        \* connections, each with one request at a time
  Delays,       \* the delays a request may draw: latency and jitter
  Faults,       \* the numbers of the requests drawn to be refused
  StreamCost,   \* ticks per unit of a body at a response's rate; 0: no limit
  TotalCost,    \* ticks per unit at the link's rate; 0: no limit
  Chunk,        \* CHUNK_SIZE
  Lengths,      \* lengths of the body in a message of the application
  MaxMessages,  \* bound on the messages of one response
  MaxRequests   \* bound on the number of shaped requests

ASSUME ShaperAssumption ==
  /\ IsFiniteSet(Conns)
  /\ Delays \subseteq Nat /\ Faults \subseteq Nat
  /\ StreamCost \in Nat /\ TotalCost \in Nat
  /\ Chunk \in Nat \ {0}
  /\ Lengths \subseteq Nat
  /\ MaxMessages \in Nat /\ MaxRequests \in Nat

VARIABLES
  link,      \* self._link_free_at
  requests,  \* self._requests
  conn,      \* per connection, the coroutine of its request
  wasted     \* for the properties: units booked on the link, from when it was
             \* last free, by responses that were then cancelled

shaperVars == <<link, requests, conn, wasted>>

\* shaped: not /health; wait: what is left of a sleep; stream: stream_free_at;
\* chunk, left: the units of the message being sent and those to follow it;
\* more: the application has more messages; closed: the final message was sent;
\* gone: the client went away.
NoRequest ==
  [stage |-> "idle", shaped |-> FALSE, number |-> 0, wait |-> 0, stream |-> 0,
   chunk |-> 0, left |-> 0, more |-> TRUE, messages |-> 0,
   closed |-> FALSE, gone |-> FALSE]

Init == /\ link = 0 /\ requests = 0 /\ wasted = 0
        /\ conn = [c \in Conns |-> NoRequest]
-----------------------------------------------------------------------------
Most(a, b) == IF a > b THEN a ELSE b
Least(a, b) == IF a < b THEN a ELSE b

Accept(c, shaped, d) ==
  /\ conn[c].stage \in {"idle", "over"}
  /\ shaped => requests < MaxRequests
  /\ requests' = IF shaped THEN requests + 1 ELSE requests
  /\ conn' = [conn EXCEPT ![c] =
                [NoRequest EXCEPT !.stage = IF shaped THEN "delaying" ELSE "app",
                                  !.shaped = shaped,
                                  !.number = IF shaped THEN requests' ELSE 0,
                                  !.wait = IF shaped THEN d ELSE 0]]
  /\ UNCHANGED <<link, wasted>>

\* await send(...): n units of body, the last message of the response or not
Hand(r, n, more) ==
  [r EXCEPT !.stage = "sending", !.chunk = n, !.closed = ~more]

\* SlowDown: the whole response is sent past the pacing.
Refusal(r) == Hand([r EXCEPT !.more = FALSE], 0, FALSE)

\* The delay is over: the request is refused, or handed to the application.
Admit(c) ==
  /\ conn[c].stage = "delaying" /\ conn[c].wait = 0
  /\ conn' = [conn EXCEPT ![c] = IF @.number \in Faults THEN Refusal(@)
                                   ELSE [@ EXCEPT !.stage = "app"]]
  /\ UNCHANGED <<link, requests, wasted>>

\* One turn of paced_send's loop, up to the sleep: the next chunk of what is left in
\* r is booked on both rates.
\* A bug for NoIdleLink: every chunk is booked as if it were a full one.
BookFull(c, r) ==
  LET n == Least(r.left, Chunk)
      stream == r.stream + StreamCost * Chunk
  IN
  /\ link' = link + TotalCost * Chunk
  /\ conn' = [conn EXCEPT ![c] =
                [r EXCEPT !.stage = "pacing", !.chunk = n, !.left = @ - n,
                          !.stream = stream, !.wait = Most(stream, link')]]
\* A bug for TypeOK: a message is sent in one piece.
BookWhole(c, r) ==
  /\ link' = link + TotalCost * r.left
  /\ conn' = [conn EXCEPT ![c] =
                [r EXCEPT !.stage = "pacing", !.chunk = r.left, !.left = 0,
                          !.stream = @ + StreamCost * r.left,
                          !.wait = Most(r.stream + StreamCost * r.left, link')]]
\* A bug for StreamKept: a chunk only waits for the shared link.
BookLink(c, r) ==
  LET n == Least(r.left, Chunk) IN
  /\ link' = link + TotalCost * n
  /\ conn' = [conn EXCEPT ![c] =
                [r EXCEPT !.stage = "pacing", !.chunk = n, !.left = @ - n,
                          !.stream = @ + StreamCost * n, !.wait = link']]
Book(c, r) ==
  LET n == Least(r.left, Chunk)
      stream == r.stream + StreamCost * n
  IN
  /\ link' = link + TotalCost * n
  /\ conn' = [conn EXCEPT ![c] =
                [r EXCEPT !.stage = "pacing", !.chunk = n, !.left = @ - n,
                          !.stream = stream, !.wait = Most(stream, link')]]

Paced(c) == conn[c].shaped /\ StreamCost + TotalCost > 0

\* The application sends its next message.  The first, http.response.start, has no
\* body and is treated as any message without one.
\* A bug for ResponsesEnd: a message without a body is dropped.
ProduceBody(c, n, more) ==
  LET r == [conn[c] EXCEPT !.more = more, !.messages = @ + 1] IN
  /\ conn[c].stage = "app"
  /\ more => conn[c].messages < MaxMessages
  /\ IF n > 0 THEN Book(c, [r EXCEPT !.left = n])
     ELSE conn' = [conn EXCEPT ![c] =
                     [r EXCEPT !.stage = IF more THEN "app" ELSE "over"]] /\ UNCHANGED link
  /\ UNCHANGED <<requests, wasted>>
Produce(c, n, more) ==
  LET r == [conn[c] EXCEPT !.more = more, !.messages = @ + 1] IN
  /\ conn[c].stage = "app"
  /\ more => conn[c].messages < MaxMessages
  /\ IF Paced(c) /\ n > 0
       THEN Book(c, [r EXCEPT !.left = n])
       ELSE conn' = [conn EXCEPT ![c] = Hand(r, n, more)] /\ UNCHANGED link
  /\ UNCHANGED <<requests, wasted>>

\* The chunk's time has come.
\* A bug for CompleteWhenClosed: the last chunk of any message closes the response.
WakeAndClose(c) ==
  /\ conn[c].stage = "pacing" /\ conn[c].wait = 0
  /\ conn' = [conn EXCEPT ![c] = Hand(@, @.chunk, @.left > 0)]
  /\ UNCHANGED <<link, requests, wasted>>
Wake(c) ==
  /\ conn[c].stage = "pacing" /\ conn[c].wait = 0
  /\ conn' = [conn EXCEPT ![c] = Hand(@, @.chunk, @.more \/ @.left > 0)]
  /\ UNCHANGED <<link, requests, wasted>>

\* send returns: on to the next chunk, the next message or the end.
Sent(c) ==
  /\ conn[c].stage = "sending"
  /\ IF conn[c].left > 0 THEN Book(c, conn[c])
     ELSE /\ conn' = [conn EXCEPT ![c].stage = IF conn[c].more THEN "app" ELSE "over"]
          /\ UNCHANGED link
  /\ UNCHANGED <<requests, wasted>>

\* The client goes away: what is sent to it from now on is thrown away.
Disconnect(c) ==
  /\ conn[c].stage \notin {"idle", "over"} /\ ~conn[c].gone
  /\ conn' = [conn EXCEPT ![c].gone = TRUE]
  /\ UNCHANGED <<link, requests, wasted>>

\* A streaming response is cancelled then, at whatever await it is; a plain one goes
\* on to its end.  What it booked stays booked.
Cancel(c) ==
  /\ conn[c].stage \in {"app", "pacing", "sending"} /\ conn[c].gone
  /\ conn' = [conn EXCEPT ![c].stage = "over"]
  /\ wasted' = IF conn[c].stage = "pacing" /\ link > 0
                 THEN wasted + conn[c].chunk ELSE wasted
  /\ UNCHANGED <<link, requests>>

\* The link, a tick later.  A time that has passed counts as now: max(now, ...).
\* A bug for LinkKept: time in which the link is free is saved up.
LinkSaved == link - 1
LinkLater == Most(link - 1, 0)

Tick ==
  /\ link > 0 \/ \E c \in Conns : conn[c].wait > 0 \/ conn[c].stream > 0
  /\ link' = LinkLater
  /\ conn' = [c \in Conns |-> [conn[c] EXCEPT !.wait = Most(@ - 1, 0),
                                              !.stream = Most(@ - 1, 0)]]
  /\ wasted' = IF link' = 0 THEN 0 ELSE wasted
  /\ UNCHANGED requests

Run(c) == \/ Admit(c)
          \/ \E n \in Lengths, more \in BOOLEAN : Produce(c, n, more)
          \/ Wake(c) \/ Sent(c)

Serve(c) == \/ \E shaped \in BOOLEAN, d \in Delays : Accept(c, shaped, d)
            \/ Run(c) \/ Disconnect(c) \/ Cancel(c)

Next == (\E c \in Conns : Serve(c)) \/ Tick

Spec == Init /\ [][Next]_shaperVars

\* The event loop runs every coroutine that can go on, the applications end their
\* responses, clients read what they are sent or go away, and time passes.
FairSpec == Spec /\ (\A c \in Conns : WF_shaperVars(Run(c))) /\ WF_shaperVars(Tick)
-----------------------------------------------------------------------------
Stages == {"idle", "delaying", "app", "pacing", "sending", "over"}

\* Every variable has its type, and the bodies are cut into chunks of one unit up
\* to CHUNK_SIZE.
TypeOK ==
  /\ link \in Nat /\ wasted \in Nat
  /\ requests \in 0..MaxRequests
  /\ conn \in [Conns -> [stage : Stages, shaped : BOOLEAN, number : 0..MaxRequests,
                         wait : Nat, stream : Nat, chunk : Nat, left : Nat,
                         more : BOOLEAN, messages : Nat, closed : BOOLEAN,
                         gone : BOOLEAN]]
  /\ \A c \in Conns : conn[c].stage = "pacing" => conn[c].chunk \in 1..Chunk

\* A response is closed by one message, the one with its last unit, however the
\* application cuts it into messages and Shaper into chunks: nothing follows it,
\* and a response whose client stays does not end without it.
CompleteWhenClosed ==
  \A c \in Conns : LET r == conn[c] IN
    /\ r.closed => r.stage \in {"sending", "over"} /\ r.left = 0 /\ ~r.more
    /\ r.stage = "over" => r.closed \/ r.gone

\* The units of the chunks that wait for their time
UnitsWaiting == {u \in Conns \X (1..Chunk) : conn[u[1]].stage = "pacing" /\ u[2] <= conn[u[1]].chunk}

\* The link is not booked further ahead than the chunks that wait for it need, so
\* no response waits for time on the link that no chunk is sent in, except that of
\* the chunks whose responses were cancelled, at most one each.
NoIdleLink == link <= TotalCost * (wasted + Cardinality(UnitsWaiting))

\* Every response ends with its final message, unless it is cancelled because the
\* client went away: no coroutine waits for ever for its turn on the link.
ResponsesEnd ==
  \A c \in Conns :
    conn[c].stage # "idle" ~> conn[c].stage = "over" /\ (conn[c].closed \/ conn[c].gone)
=============================================================================
