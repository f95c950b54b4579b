----------------------------- MODULE TestServer -----------------------------
(***************************************************************************)
(* Server (server.py): hadro in a background thread of a test suite.       *)
(* start binds a socket, builds the application, starts uvicorn's thread   *)
(* and polls until it serves, it died or a deadline passed; stop asks it   *)
(* to exit and waits for it only so long.  Each Server has a Config of its *)
(* own and is called by one thread at a time; different Servers are called *)
(* by different threads.  uvicorn is external.                             *)
(***************************************************************************)
EXTENDS Integers

CONSTANTS
  Servers,    \* Server objects
  Ports,      \* the ports of the host
  AnyPort,    \* port 0: the system picks one
  FirstPort,  \* Server -> the port it is made with
  MaxStarts   \* bound on the calls of start

Starts == 1..MaxStarts
None == 0

ASSUME ServerAssumption ==
  /\ None \notin Servers
  /\ AnyPort \notin Ports
  /\ FirstPort \in [Servers -> Ports \cup {AnyPort}]
  /\ MaxStarts \in Nat

VARIABLES
  self,   \* per Server: the line its caller is at and its attributes
  run,    \* per call of start: the socket and the thread it made
  made    \* the number of calls of start

serverVars == <<self, run, made>>

Init ==
  /\ self = [s \in Servers |-> [pc |-> "idle", port |-> FirstPort[s], socket |-> None,
                                server |-> None, thread |-> None]]
  /\ run = [n \in Starts |-> [by |-> None, port |-> AnyPort, socket |-> "closed",
                              thread |-> "none", started |-> FALSE, exit |-> FALSE]]
  /\ made = 0
-----------------------------------------------------------------------------
Listening(p) == \E n \in Starts : run[n].socket = "listening" /\ run[n].port = p
Open(p) == \E n \in Starts : run[n].socket # "closed" /\ run[n].port = p
Ended(n) == run[n].thread \in {"none", "dead"}

At(s, pc) == self[s].pc = pc
Goto(s, pc) == self' = [self EXCEPT ![s].pc = pc]
Raise(s) == Goto(s, "idle") /\ UNCHANGED <<run, made>>

\* start, up to the bind.  The socket that self._socket was is closed when nothing
\* else refers to it.
Start(s) ==
  LET n == made + 1
      old == self[s].socket
  IN
  /\ At(s, "idle") /\ made < MaxStarts
  /\ made' = n
  /\ self' = [self EXCEPT ![s].pc = "binding", ![s].socket = n]
  /\ run' = [m \in Starts |->
               IF m = n THEN [run[m] EXCEPT !.by = s, !.socket = "new"]
               ELSE IF m = old /\ Ended(m) THEN [run[m] EXCEPT !.socket = "closed"]
               ELSE run[m]]

\* self.config.port once the socket is bound to p.
\* A bug for UpMeansServed: the port that was picked is not written to the Config.
Unchanged(s, p) == self[s].port
PortOf(s, p) == p

\* With SO_REUSEADDR a port can be bound as long as nobody listens on it.  bind raises
\* when somebody does, here or in another process.
Bind(s) ==
  LET n == self[s].socket IN
  /\ At(s, "binding")
  /\ \/ \E p \in Ports :
          /\ IF self[s].port = AnyPort THEN ~Open(p) ELSE p = self[s].port /\ ~Listening(p)
          /\ run' = [run EXCEPT ![n].port = p, ![n].socket = "bound"]
          /\ self' = [self EXCEPT ![s].pc = "launching", ![s].port = PortOf(s, p)]
          /\ UNCHANGED made
     \/ Raise(s)

\* create_app, which may raise, and the thread
Launch(s) ==
  LET n == self[s].socket IN
  /\ At(s, "launching")
  /\ \/ /\ self' = [self EXCEPT ![s].pc = "polling", ![s].server = n, ![s].thread = n]
        /\ run' = [run EXCEPT ![n].thread = "starting"]
        /\ UNCHANGED made
     \/ Raise(s)

\* The loop looks at started first, then at the thread and the clock: the deadline may
\* have passed at any turn.
\* A bug for CallsEnd: only a thread that died ends the waiting.
NoDeadline(s, late) == Ended(self[s].thread)
Hopeless(s, late) == Ended(self[s].thread) \/ late

Poll(s) ==
  /\ At(s, "polling")
  /\ IF run[self[s].server].started THEN Goto(s, "idle")
     ELSE \E late \in BOOLEAN : Hopeless(s, late) /\ Goto(s, "stopping")
  /\ UNCHANGED <<run, made>>
-----------------------------------------------------------------------------
\* stop, called by a test or by start
Stop(s) == At(s, "idle") /\ Goto(s, "stopping") /\ UNCHANGED <<run, made>>

\* A bug for ThreadsStop: uvicorn is not told to exit.
Untold(s) == run
Told(s) == IF self[s].server = None THEN run
           ELSE [run EXCEPT ![self[s].server].exit = TRUE]

AskToExit(s) == At(s, "stopping") /\ Goto(s, "joining") /\ run' = Told(s) /\ UNCHANGED made

\* The thread ended, or five seconds passed, in which a thread that serves takes
\* notice that it should exit.
Join(s) ==
  /\ At(s, "joining")
  /\ self[s].thread # None => run[self[s].thread].thread # "up" \/ ~run[self[s].thread].exit
  /\ Goto(s, "closing")
  /\ UNCHANGED <<run, made>>

\* A bug for StopIsFinal: the socket is left to uvicorn.
LeftOpen(s) == run
Closed(s) == IF self[s].socket = None THEN run
             ELSE [run EXCEPT ![self[s].socket].socket = "closed"]

Close(s) ==
  /\ At(s, "closing")
  /\ self' = [self EXCEPT ![s].pc = "idle", ![s].socket = None, ![s].server = None,
                          ![s].thread = None]
  /\ run' = Closed(s)
  /\ UNCHANGED made
-----------------------------------------------------------------------------
(* The thread of uvicorn.                                                  *)

Becomes(n, thread, socket) ==
  /\ run' = [run EXCEPT ![n].thread = thread, ![n].socket = socket]
  /\ UNCHANGED <<self, made>>

\* It listens on the socket it was given; the start-up may also fail.
Listen(n) ==
  /\ run[n].thread = "starting"
  /\ \/ run[n].socket = "bound" /\ ~Listening(run[n].port) /\ Becomes(n, "listening", "listening")
     \/ Becomes(n, "dead", run[n].socket)

\* started is set.  Told to exit by then, it returns without a shutdown.
Serving(n) ==
  /\ run[n].thread = "listening"
  /\ run' = [run EXCEPT ![n].started = TRUE, ![n].thread = IF run[n].exit THEN "dead" ELSE "up"]
  /\ UNCHANGED <<self, made>>

\* A shutdown closes the socket, then waits for the requests in flight.
Shutdown(n) == run[n].thread = "up" /\ run[n].exit /\ Becomes(n, "draining", "closed")
Drained(n) == run[n].thread = "draining" /\ Becomes(n, "dead", run[n].socket)

Thread(n) == Listen(n) \/ Serving(n) \/ Shutdown(n) \/ Drained(n)

InCall(s) == \/ Bind(s) \/ Launch(s) \/ Poll(s)
             \/ AskToExit(s) \/ Join(s) \/ Close(s)

Next == \/ \E s \in Servers : Start(s) \/ Stop(s) \/ InCall(s)
        \/ \E n \in Starts : Thread(n)

Spec == Init /\ [][Next]_serverVars

\* Callers run and deadlines pass.  A thread of uvicorn may hang while it starts and while
\* it waits for requests, but not in between.
FairSpec ==
  /\ Spec
  /\ \A s \in Servers : WF_serverVars(InCall(s))
  /\ \A n \in Starts : WF_serverVars(Serving(n)) /\ WF_serverVars(Shutdown(n))
-----------------------------------------------------------------------------
\* Between a start that returned and the next stop the Server serves on the port that
\* its endpoint names, also when start was called again and raised.
UpMeansServed ==
  \A s \in Servers : At(s, "idle") /\ self[s].thread # None =>
    LET r == run[self[s].thread] IN
    r.thread = "up" /\ r.socket = "listening" /\ r.port = self[s].port

\* The start n is over and its Server was stopped since, or it raised.
Over(n) == \E s \in Servers : run[n].by = s /\ At(s, "idle") /\ self[s].thread = None

\* After a stop, and after a start that raised, nothing of the Server listens, and
\* no thread that is still on its way will: neither when the deadline passed just as
\* uvicorn came up nor when stop gave up waiting for it.
StopIsFinal ==
  \A n \in Starts : Over(n) =>
    run[n].socket # "listening" /\ ~(run[n].thread = "starting" /\ run[n].socket = "bound")

\* Every start and every stop returns or raises, though uvicorn may hang.
CallsEnd == \A s \in Servers : ~At(s, "idle") ~> At(s, "idle")

\* A thread whose Server was stopped does not serve for ever.
ThreadsStop == \A n \in Starts : Over(n) ~> run[n].thread \notin {"listening", "up"}
=============================================================================
