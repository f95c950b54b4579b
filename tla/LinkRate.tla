------------------------------ MODULE LinkRate ------------------------------
(***************************************************************************)
(* How fast the bodies go out.  Shaper, watched from some moment on: the   *)
(* ticks since then and the units sent since then that were also booked    *)
(* since then, on the link and by each response.  Ticks in which nothing   *)
(* happens in Shaper are not counted, which only makes the bounds tighter. *)
(***************************************************************************)
EXTENDS Shaper

VARIABLES
  watching,  \* the watch has begun
  elapsed,   \* ticks since it began
  passed,    \* units sent on the link since
  own,       \* units sent since by the response of each connection
  booked     \* the connections whose waiting chunk was booked since

watchVars == <<watching, elapsed, passed, own, booked>>

WatchInit ==
  /\ Init
  /\ watching = FALSE /\ elapsed = 0 /\ passed = 0
  /\ own = [c \in Conns |-> 0] /\ booked = {}

Watch ==
  /\ ~watching
  /\ watching' = TRUE
  /\ UNCHANGED <<shaperVars, elapsed, passed, own, booked>>

Waiting(c) == conn[c].stage = "pacing"
Books(c) == Waiting(c)' /\ ~Waiting(c)
Sends(c) == Waiting(c) /\ conn'[c].stage = "sending" /\ c \in booked
Begins(c) == conn[c].stage \in {"idle", "over"} /\ conn'[c].stage \notin {"idle", "over"}

UnitsSent ==
  {u \in Conns \X (1..Chunk) : Sends(u[1]) /\ u[2] <= conn[u[1]].chunk}

Observe ==
  /\ booked' = IF ~watching THEN {}
               ELSE {c \in Conns : Books(c) \/ (c \in booked /\ Waiting(c)')}
  /\ passed' = passed + Cardinality(UnitsSent)
  /\ own' = [c \in Conns |-> IF Begins(c) THEN 0
                             ELSE IF Sends(c) THEN own[c] + conn[c].chunk
                             ELSE own[c]]
  /\ UNCHANGED watching

WatchedNext ==
  \/ Watch
  \/ (\E c \in Conns : Serve(c)) /\ Observe /\ UNCHANGED elapsed
  \/ Tick /\ Observe /\ elapsed' = IF watching THEN elapsed + 1 ELSE 0
WatchedSpec == WatchInit /\ [][WatchedNext]_<<shaperVars, watchVars>>
-----------------------------------------------------------------------------
\* Between any two moments all responses together send no more than the link's rate
\* allows of what is booked between them: no credit is saved up while the link is
\* free, and responses that run at the same time do not add up.
LinkKept == TotalCost * passed <= elapsed

\* The same of each response and its own rate.
StreamKept == \A c \in Conns : StreamCost * own[c] <= elapsed
=============================================================================
