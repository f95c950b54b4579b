-------------------------- MODULE TestServerProofs --------------------------
(***************************************************************************)
(* Proofs about TestServer, for any number of Servers, ports and starts:   *)
(* a Server that is up serves on the port it names, and nothing of one     *)
(* that was stopped listens or will.  What matters is which start the      *)
(* attributes _socket, _server and _thread of a Server refer to, for they  *)
(* are not always of the same one.                                         *)
(***************************************************************************)
EXTENDS TestServer, TLAPS

Lines == {"idle", "binding", "launching", "polling", "stopping", "joining", "closing"}
SelfType ==
  [pc : Lines, port : Ports \cup {AnyPort}, socket : Starts \cup {None},
   server : Starts \cup {None}, thread : Starts \cup {None}]
RunType ==
  [by : Servers \cup {None}, port : Ports \cup {AnyPort},
   socket : {"new", "bound", "listening", "closed"},
   thread : {"none", "starting", "listening", "up", "draining", "dead"},
   started : BOOLEAN, exit : BOOLEAN]

TypeInv ==
  /\ self \in [Servers -> SelfType]
  /\ run \in [Starts -> RunType]
  /\ made \in 0..MaxStarts

\* What is behind the last start is untouched, and what is not was made by a Server.
Untouched(n) ==
  run[n].by = None /\ run[n].thread = "none" /\ ~run[n].started /\ ~run[n].exit
MadeInv == \A n \in Starts : n > made => Untouched(n)

\* The attributes refer to starts of their own Server; the server's and the thread's
\* is the same, and the socket may be of a later one.
RefersTo(s, n) == n # None => n <= made /\ run[n].by = s
RefInv(s) ==
  /\ RefersTo(s, self[s].socket) /\ RefersTo(s, self[s].thread)
  /\ self[s].server = self[s].thread
  /\ self[s].pc = "binding" => self[s].socket # None /\ self[s].socket # self[s].thread
  /\ self[s].pc = "launching" => self[s].socket # None /\ self[s].thread = None
  /\ self[s].pc = "polling" => self[s].socket = self[s].thread /\ self[s].thread # None

\* A socket that the Server still has and gave to no thread; it is bound to the port
\* that the Server names when the thread is launched.
Spare(n) == /\ run[n].thread = "none" /\ run[n].socket \in {"new", "bound"}
            /\ ~run[n].started /\ ~run[n].exit
SpareInv(s) ==
  LET n == self[s].socket IN
  /\ n # None /\ n # self[s].thread => Spare(n)
  /\ self[s].pc = "launching" => run[n].port = self[s].port /\ self[s].port \in Ports

\* The thread serves and nobody told it to exit.
Serves(s, n) ==
  /\ run[n].thread = "up" /\ run[n].socket = "listening" /\ ~run[n].exit
  /\ run[n].port = self[s].port /\ run[n].port \in Ports

\* It is on its way there.
Coming(s, n) ==
  /\ ~run[n].exit /\ run[n].port = self[s].port /\ run[n].port \in Ports
  /\ run[n].thread \in {"listening", "up"} => run[n].socket = "listening"
  /\ run[n].thread # "draining"
  /\ run[n].started <=> run[n].thread = "up"

\* It was told to exit and is past the shutdown, which closed the socket.
Left(n) == run[n].thread \in {"draining", "dead"} /\ run[n].socket = "closed"

\* What is known of the thread at each line, when it is of the start that the socket is
\* of, and when it is of an earlier one
ThreadInv(s) ==
  LET n == self[s].thread IN
  n # None =>
    /\ self[s].pc \in {"idle", "binding"} => Serves(s, n)
    /\ self[s].pc = "polling" => Coming(s, n)
    /\ self[s].pc = "stopping" /\ n # self[s].socket => Serves(s, n)
    /\ self[s].pc = "joining" => run[n].exit
    /\ self[s].pc = "joining" /\ n # self[s].socket =>
         Left(n) \/ (run[n].thread = "up" /\ run[n].socket = "listening")
    /\ self[s].pc = "closing" => run[n].exit /\ run[n].thread # "up"
    /\ self[s].pc = "closing" /\ n # self[s].socket => Left(n)

\* A start that its Server has forgotten, or that never got a thread, does not listen.
Final(n) ==
  /\ run[n].socket # "listening"
  /\ ~(run[n].thread = "starting" /\ run[n].socket = "bound")
ForgottenInv(s) ==
  \A n \in Starts : run[n].by = s /\ n # self[s].socket /\ n # self[s].thread => Final(n)

ServerInv ==
  /\ TypeInv /\ MadeInv
  /\ \A s \in Servers : RefInv(s) /\ SpareInv(s) /\ ThreadInv(s) /\ ForgottenInv(s)
-----------------------------------------------------------------------------
(* What each step does to the attributes and to the starts, field by field. *)

LEMMA SelfMoves ==
  ASSUME self \in [Servers -> SelfType], NEW s \in Servers, NEW r \in SelfType,
         self' = [self EXCEPT ![s] = r]
  PROVE  /\ self' \in [Servers -> SelfType] /\ self'[s] = r
         /\ \A q \in Servers : q # s => self'[q] = self[q]
<1> QED OBVIOUS

LEMMA RunMoves ==
  ASSUME run \in [Starts -> RunType], NEW n \in Starts, NEW r \in RunType,
         run' = [run EXCEPT ![n] = r]
  PROVE  /\ run' \in [Starts -> RunType] /\ run'[n] = r
         /\ \A m \in Starts : m # n => run'[m] = run[m]
<1> QED OBVIOUS

LEMMA GotoMoves ==
  ASSUME TypeInv, NEW s \in Servers, NEW line \in Lines, Goto(s, line)
  PROVE  /\ self' \in [Servers -> SelfType]
         /\ self'[s] = [self[s] EXCEPT !.pc = line]
         /\ \A q \in Servers : q # s => self'[q] = self[q]
<1> DEFINE r == [self[s] EXCEPT !.pc = line]
<1>1. r \in SelfType
  BY DEF TypeInv, SelfType
<1>2. self' = [self EXCEPT ![s] = r]
  BY DEF Goto, TypeInv
<1> HIDE DEF r
<1> QED BY <1>1, <1>2, SelfMoves DEF TypeInv, r

LEMMA StartMoves ==
  ASSUME TypeInv, NEW s \in Servers, Start(s)
  PROVE  LET n == made + 1 IN
         /\ n \in Starts /\ made' = n
         /\ self' \in [Servers -> SelfType]
         /\ self'[s] = [self[s] EXCEPT !.pc = "binding", !.socket = n]
         /\ \A q \in Servers : q # s => self'[q] = self[q]
         /\ run' \in [Starts -> RunType]
         /\ run'[n] = [run[n] EXCEPT !.by = s, !.socket = "new"]
         /\ \A m \in Starts : m # n =>
              \/ run'[m] = run[m]
              \/ /\ m = self[s].socket /\ Ended(m)
                 /\ run'[m] = [run[m] EXCEPT !.socket = "closed"]
<1> DEFINE n == made + 1
<1> DEFINE r == [self[s] EXCEPT !.pc = "binding", !.socket = n]
<1>1. n \in Starts /\ made' = n
  <2>1. made < MaxStarts /\ made' = made + 1
    BY DEF Start
  <2> QED BY <2>1, ServerAssumption DEF Starts, TypeInv
<1>2. r \in SelfType
  <2>1. "binding" \in Lines
    BY DEF Lines
  <2> HIDE DEF n
  <2> QED BY <1>1, <2>1 DEF TypeInv, SelfType
<1>3. self' = [self EXCEPT ![s] = r]
  BY DEF Start, TypeInv
<1>4. /\ self' \in [Servers -> SelfType] /\ self'[s] = r
      /\ \A q \in Servers : q # s => self'[q] = self[q]
  <2> HIDE DEF r
  <2> QED BY <1>2, <1>3, SelfMoves DEF TypeInv
<1>5. ASSUME NEW m \in Starts
      PROVE  /\ [run[m] EXCEPT !.by = s, !.socket = "new"] \in RunType
             /\ [run[m] EXCEPT !.socket = "closed"] \in RunType
             /\ run[m] \in RunType
  BY DEF TypeInv, RunType
<1>6. run' = [m \in Starts |->
                IF m = n THEN [run[m] EXCEPT !.by = s, !.socket = "new"]
                ELSE IF m = self[s].socket /\ Ended(m)
                     THEN [run[m] EXCEPT !.socket = "closed"]
                ELSE run[m]]
  BY DEF Start
<1> HIDE DEF n, r
<1>7. run' \in [Starts -> RunType]
  BY <1>5, <1>6
<1> QED BY <1>1, <1>4, <1>6, <1>7 DEF n, r

LEMMA BindMoves ==
  ASSUME TypeInv, NEW s \in Servers, Bind(s), self[s].socket # None
  PROVE  LET n == self[s].socket IN
         /\ At(s, "binding") /\ made' = made /\ n \in Starts
         /\ self' \in [Servers -> SelfType] /\ run' \in [Starts -> RunType]
         /\ \A q \in Servers : q # s => self'[q] = self[q]
         /\ \/ Raise(s)
            \/ \E p \in Ports :
                 /\ IF self[s].port = AnyPort THEN ~Open(p)
                    ELSE p = self[s].port /\ ~Listening(p)
                 /\ self'[s] = [self[s] EXCEPT !.pc = "launching", !.port = p]
                 /\ run'[n] = [run[n] EXCEPT !.port = p, !.socket = "bound"]
                 /\ \A m \in Starts : m # n => run'[m] = run[m]
<1> DEFINE n == self[s].socket
<1>1. At(s, "binding") /\ n \in Starts
  BY DEF Bind, TypeInv, SelfType
<1>2. CASE Raise(s)
  <2>1. "idle" \in Lines
    BY DEF Lines
  <2> QED BY <1>1, <1>2, <2>1, GotoMoves DEF Raise, TypeInv
<1>3. ASSUME NEW p \in Ports,
             IF self[s].port = AnyPort THEN ~Open(p) ELSE p = self[s].port /\ ~Listening(p),
             run' = [run EXCEPT ![n].port = p, ![n].socket = "bound"],
             self' = [self EXCEPT ![s].pc = "launching", ![s].port = p],
             made' = made
      PROVE  /\ self' \in [Servers -> SelfType] /\ run' \in [Starts -> RunType]
             /\ \A q \in Servers : q # s => self'[q] = self[q]
             /\ self'[s] = [self[s] EXCEPT !.pc = "launching", !.port = p]
             /\ run'[n] = [run[n] EXCEPT !.port = p, !.socket = "bound"]
             /\ \A m \in Starts : m # n => run'[m] = run[m]
  <2> DEFINE r == [self[s] EXCEPT !.pc = "launching", !.port = p]
  <2> DEFINE u == [run[n] EXCEPT !.port = p, !.socket = "bound"]
  <2>1. r \in SelfType
    <3>1. "launching" \in Lines
      BY DEF Lines
    <3> QED BY <3>1 DEF TypeInv, SelfType
  <2>2. u \in RunType
    <3>1. run[n] \in RunType
      BY <1>1 DEF TypeInv
    <3> QED BY <3>1 DEF RunType
  <2>3. self' = [self EXCEPT ![s] = r]
    BY <1>3 DEF TypeInv
  <2>4. run' = [run EXCEPT ![n] = u]
    BY <1>1, <1>3 DEF TypeInv
  <2> HIDE DEF r, u, n
  <2>5. /\ self' \in [Servers -> SelfType] /\ self'[s] = r
        /\ \A q \in Servers : q # s => self'[q] = self[q]
    BY <2>1, <2>3, SelfMoves DEF TypeInv
  <2>6. /\ run' \in [Starts -> RunType] /\ run'[n] = u
        /\ \A m \in Starts : m # n => run'[m] = run[m]
    BY <1>1, <2>2, <2>4, RunMoves DEF TypeInv
  <2> QED BY <2>5, <2>6 DEF r, u
<1>4. \/ Raise(s)
      \/ \E p \in Ports :
           /\ IF self[s].port = AnyPort THEN ~Open(p) ELSE p = self[s].port /\ ~Listening(p)
           /\ run' = [run EXCEPT ![n].port = p, ![n].socket = "bound"]
           /\ self' = [self EXCEPT ![s].pc = "launching", ![s].port = p]
           /\ made' = made
  BY DEF Bind, PortOf
<1>5. CASE \E p \in Ports :
           /\ IF self[s].port = AnyPort THEN ~Open(p) ELSE p = self[s].port /\ ~Listening(p)
           /\ run' = [run EXCEPT ![n].port = p, ![n].socket = "bound"]
           /\ self' = [self EXCEPT ![s].pc = "launching", ![s].port = p]
           /\ made' = made
  <2>1. PICK p \in Ports :
           /\ IF self[s].port = AnyPort THEN ~Open(p) ELSE p = self[s].port /\ ~Listening(p)
           /\ run' = [run EXCEPT ![n].port = p, ![n].socket = "bound"]
           /\ self' = [self EXCEPT ![s].pc = "launching", ![s].port = p]
           /\ made' = made
    BY <1>5
  <2> HIDE DEF n
  <2>2. /\ self' \in [Servers -> SelfType] /\ run' \in [Starts -> RunType]
        /\ \A q \in Servers : q # s => self'[q] = self[q]
        /\ self'[s] = [self[s] EXCEPT !.pc = "launching", !.port = p]
        /\ run'[n] = [run[n] EXCEPT !.port = p, !.socket = "bound"]
        /\ \A m \in Starts : m # n => run'[m] = run[m]
    BY <1>3, <2>1
  <2> QED BY <1>1, <2>1, <2>2 DEF n
<1> QED BY <1>2, <1>4, <1>5
LEMMA LaunchMoves ==
  ASSUME TypeInv, NEW s \in Servers, Launch(s), self[s].socket # None
  PROVE  LET n == self[s].socket IN
         /\ At(s, "launching") /\ made' = made /\ n \in Starts
         /\ self' \in [Servers -> SelfType] /\ run' \in [Starts -> RunType]
         /\ \A q \in Servers : q # s => self'[q] = self[q]
         /\ \/ Raise(s)
            \/ /\ self'[s] = [self[s] EXCEPT !.pc = "polling", !.server = n, !.thread = n]
               /\ run'[n] = [run[n] EXCEPT !.thread = "starting"]
               /\ \A m \in Starts : m # n => run'[m] = run[m]
<1> DEFINE n == self[s].socket
<1>1. At(s, "launching") /\ n \in Starts
  BY DEF Launch, TypeInv, SelfType
<1>2. CASE Raise(s)
  <2>1. "idle" \in Lines
    BY DEF Lines
  <2> QED BY <1>1, <1>2, <2>1, GotoMoves DEF Raise, TypeInv
<1>3. CASE /\ self' = [self EXCEPT ![s].pc = "polling", ![s].server = n, ![s].thread = n]
           /\ run' = [run EXCEPT ![n].thread = "starting"]
           /\ made' = made
  <2> DEFINE r == [self[s] EXCEPT !.pc = "polling", !.server = n, !.thread = n]
  <2> DEFINE u == [run[n] EXCEPT !.thread = "starting"]
  <2>1. r \in SelfType
    <3>1. "polling" \in Lines
      BY DEF Lines
    <3> QED BY <1>1, <3>1 DEF TypeInv, SelfType
  <2>2. u \in RunType
    <3>1. run[n] \in RunType
      BY <1>1 DEF TypeInv
    <3> QED BY <3>1 DEF RunType
  <2>3. self' = [self EXCEPT ![s] = r]
    BY <1>3 DEF TypeInv
  <2>4. run' = [run EXCEPT ![n] = u]
    BY <1>1, <1>3 DEF TypeInv
  <2> HIDE DEF r, u, n
  <2>5. /\ self' \in [Servers -> SelfType] /\ self'[s] = r
        /\ \A q \in Servers : q # s => self'[q] = self[q]
    BY <2>1, <2>3, SelfMoves DEF TypeInv
  <2>6. /\ run' \in [Starts -> RunType] /\ run'[n] = u
        /\ \A m \in Starts : m # n => run'[m] = run[m]
    BY <1>1, <2>2, <2>4, RunMoves DEF TypeInv
  <2> QED BY <1>1, <1>3, <2>5, <2>6 DEF r, u, n
<1> QED BY <1>2, <1>3 DEF Launch

LEMMA AskMoves ==
  ASSUME TypeInv, NEW s \in Servers, AskToExit(s)
  PROVE  LET n == self[s].server IN
         /\ At(s, "stopping") /\ made' = made
         /\ self' \in [Servers -> SelfType] /\ run' \in [Starts -> RunType]
         /\ self'[s] = [self[s] EXCEPT !.pc = "joining"]
         /\ \A q \in Servers : q # s => self'[q] = self[q]
         /\ \A m \in Starts :
              run'[m] = IF m = n THEN [run[m] EXCEPT !.exit = TRUE] ELSE run[m]
<1> DEFINE n == self[s].server
<1>1. /\ self' \in [Servers -> SelfType]
      /\ self'[s] = [self[s] EXCEPT !.pc = "joining"]
      /\ \A q \in Servers : q # s => self'[q] = self[q]
  <2>1. "joining" \in Lines
    BY DEF Lines
  <2> QED BY <2>1, GotoMoves DEF AskToExit
<1>2. n \in Starts \cup {None} /\ None \notin Starts
  BY DEF TypeInv, SelfType, Starts, None
<1>3. CASE n = None
  BY <1>1, <1>2, <1>3 DEF AskToExit, Told, TypeInv
<1>4. CASE n # None
  <2> DEFINE u == [run[n] EXCEPT !.exit = TRUE]
  <2>1. u \in RunType
    <3>1. run[n] \in RunType
      BY <1>2, <1>4 DEF TypeInv
    <3> QED BY <3>1 DEF RunType
  <2>2. run' = [run EXCEPT ![n] = u]
    BY <1>2, <1>4 DEF AskToExit, Told, TypeInv
  <2> HIDE DEF u, n
  <2>3. /\ run' \in [Starts -> RunType] /\ run'[n] = u
        /\ \A m \in Starts : m # n => run'[m] = run[m]
    BY <1>2, <1>4, <2>1, <2>2, RunMoves DEF TypeInv
  <2> QED BY <1>1, <2>3 DEF AskToExit, u, n
<1> QED BY <1>3, <1>4

LEMMA CloseMoves ==
  ASSUME TypeInv, NEW s \in Servers, Close(s)
  PROVE  LET n == self[s].socket IN
         /\ At(s, "closing") /\ made' = made
         /\ self' \in [Servers -> SelfType] /\ run' \in [Starts -> RunType]
         /\ self'[s] = [self[s] EXCEPT !.pc = "idle", !.socket = None, !.server = None,
                                       !.thread = None]
         /\ \A q \in Servers : q # s => self'[q] = self[q]
         /\ \A m \in Starts :
              run'[m] = IF m = n THEN [run[m] EXCEPT !.socket = "closed"] ELSE run[m]
<1> DEFINE n == self[s].socket
<1> DEFINE r == [self[s] EXCEPT !.pc = "idle", !.socket = None, !.server = None,
                                !.thread = None]
<1>1. /\ self' \in [Servers -> SelfType] /\ self'[s] = r
      /\ \A q \in Servers : q # s => self'[q] = self[q]
  <2>1. r \in SelfType
    <3>1. "idle" \in Lines
      BY DEF Lines
    <3> QED BY <3>1 DEF TypeInv, SelfType
  <2>2. self' = [self EXCEPT ![s] = r]
    BY DEF Close, TypeInv
  <2> HIDE DEF r
  <2> QED BY <2>1, <2>2, SelfMoves DEF TypeInv
<1>2. n \in Starts \cup {None} /\ None \notin Starts
  BY DEF TypeInv, SelfType, Starts, None
<1>3. CASE n = None
  BY <1>1, <1>2, <1>3 DEF Close, Closed, TypeInv
<1>4. CASE n # None
  <2> DEFINE u == [run[n] EXCEPT !.socket = "closed"]
  <2>1. u \in RunType
    <3>1. run[n] \in RunType
      BY <1>2, <1>4 DEF TypeInv
    <3> QED BY <3>1 DEF RunType
  <2>2. run' = [run EXCEPT ![n] = u]
    BY <1>2, <1>4 DEF Close, Closed, TypeInv
  <2>3. At(s, "closing") /\ made' = made
    BY DEF Close
  <2> HIDE DEF u, n
  <2>4. /\ run' \in [Starts -> RunType] /\ run'[n] = u
        /\ \A m \in Starts : m # n => run'[m] = run[m]
    BY <1>2, <1>4, <2>1, <2>2, RunMoves DEF TypeInv
  <2> QED BY <1>1, <2>3, <2>4 DEF u, n, r
<1> QED BY <1>3, <1>4

LEMMA ThreadMoves ==
  ASSUME TypeInv, NEW n \in Starts, Thread(n)
  PROVE  /\ self' = self /\ made' = made
         /\ run' \in [Starts -> RunType]
         /\ \A m \in Starts : m # n => run'[m] = run[m]
         /\ run'[n].by = run[n].by /\ run'[n].port = run[n].port
         /\ run'[n].exit = run[n].exit
         /\ \/ /\ run[n].thread = "starting" /\ run[n].socket = "bound"
               /\ ~Listening(run[n].port)
               /\ run'[n].thread = "listening" /\ run'[n].socket = "listening"
               /\ run'[n].started = run[n].started
            \/ /\ run[n].thread = "starting"
               /\ run'[n].thread = "dead" /\ run'[n].socket = run[n].socket
               /\ run'[n].started = run[n].started
            \/ /\ run[n].thread = "listening"
               /\ run'[n].thread = (IF run[n].exit THEN "dead" ELSE "up")
               /\ run'[n].socket = run[n].socket /\ run'[n].started = TRUE
            \/ /\ run[n].thread = "up" /\ run[n].exit
               /\ run'[n].thread = "draining" /\ run'[n].socket = "closed"
               /\ run'[n].started = run[n].started
            \/ /\ run[n].thread = "draining"
               /\ run'[n].thread = "dead" /\ run'[n].socket = run[n].socket
               /\ run'[n].started = run[n].started
<1> USE DEF TypeInv
<1>1. ASSUME NEW t \in {"listening", "dead", "draining"},
             NEW k \in {"new", "bound", "listening", "closed"}, Becomes(n, t, k)
      PROVE  /\ self' = self /\ made' = made
             /\ run' \in [Starts -> RunType]
             /\ \A m \in Starts : m # n => run'[m] = run[m]
             /\ run'[n].thread = t /\ run'[n].socket = k
             /\ run'[n].by = run[n].by /\ run'[n].port = run[n].port
             /\ run'[n].exit = run[n].exit /\ run'[n].started = run[n].started
  <2> DEFINE u == [run[n] EXCEPT !.thread = t, !.socket = k]
  <2>1. run[n] \in RunType
    OBVIOUS
  <2>2. u \in RunType
    BY <2>1 DEF RunType
  <2>3. run' = [run EXCEPT ![n] = u] /\ self' = self /\ made' = made
    BY <1>1 DEF Becomes
  <2>4. /\ u.thread = t /\ u.socket = k /\ u.by = run[n].by /\ u.port = run[n].port
        /\ u.exit = run[n].exit /\ u.started = run[n].started
    BY <2>1 DEF RunType
  <2> HIDE DEF u
  <2>5. /\ run' \in [Starts -> RunType] /\ run'[n] = u
        /\ \A m \in Starts : m # n => run'[m] = run[m]
    BY <2>2, <2>3, RunMoves
  <2> QED BY <2>3, <2>4, <2>5
<1>2. run[n].socket \in {"new", "bound", "listening", "closed"} /\ run[n] \in RunType
  BY DEF RunType
<1>3. CASE Listen(n)
  <2>1. run[n].thread = "starting"
    BY <1>3 DEF Listen
  <2>2. CASE /\ run[n].socket = "bound" /\ ~Listening(run[n].port)
             /\ Becomes(n, "listening", "listening")
    BY <1>1, <2>1, <2>2
  <2>3. CASE Becomes(n, "dead", run[n].socket)
    BY <1>1, <1>2, <2>1, <2>3
  <2> QED BY <1>3, <2>2, <2>3 DEF Listen
<1>4. CASE Serving(n)
  <2> DEFINE u == [run[n] EXCEPT !.started = TRUE,
                                 !.thread = IF run[n].exit THEN "dead" ELSE "up"]
  <2>1. u \in RunType
    BY DEF RunType
  <2>2. /\ run' = [run EXCEPT ![n] = u] /\ self' = self /\ made' = made
        /\ run[n].thread = "listening"
    BY <1>4 DEF Serving
  <2> HIDE DEF u
  <2>3. /\ run' \in [Starts -> RunType] /\ run'[n] = u
        /\ \A m \in Starts : m # n => run'[m] = run[m]
    BY <2>1, <2>2, RunMoves
  <2> QED BY <1>2, <2>2, <2>3 DEF u, RunType
<1>5. CASE Shutdown(n)
  <2>1. run[n].thread = "up" /\ run[n].exit /\ Becomes(n, "draining", "closed")
    BY <1>5 DEF Shutdown
  <2> QED BY <1>1, <2>1
<1>6. CASE Drained(n)
  <2>1. run[n].thread = "draining" /\ Becomes(n, "dead", run[n].socket)
    BY <1>6 DEF Drained
  <2> QED BY <1>1, <1>2, <2>1
<1> QED BY <1>3, <1>4, <1>5, <1>6 DEF Thread
-----------------------------------------------------------------------------
(* The invariant step, one Server at a time: what one does is nothing to another.   *)

Known(s) == RefInv(s) /\ SpareInv(s) /\ ThreadInv(s) /\ ForgottenInv(s)

\* A step that leaves alone the attributes and the starts of q keeps what is known of it.
LEMMA KeepServer ==
  ASSUME TypeInv, NEW q \in Servers, Known(q), made' \in Nat, made' >= made,
         self'[q] = self[q],
         \A n \in Starts : run[n].by = q => run'[n] = run[n],
         \A n \in Starts : run'[n].by = q => run[n].by = q
  PROVE  Known(q)'
<1>1. /\ self[q].socket \in Starts \cup {None} /\ self[q].thread \in Starts \cup {None}
      /\ \A n \in Starts : n \in Int
      /\ made \in Int
  BY DEF TypeInv, SelfType, Starts
<1>2. RefInv(q)'
  BY <1>1 DEF Known, RefInv, RefersTo
<1>3. SpareInv(q)'
  BY <1>1 DEF Known, RefInv, RefersTo, SpareInv, Spare
<1>4. ThreadInv(q)'
  BY <1>1 DEF Known, RefInv, RefersTo, ThreadInv, Serves, Coming, Left
<1>5. ForgottenInv(q)'
  BY <1>1 DEF Known, ForgottenInv, Final
<1> QED BY <1>2, <1>3, <1>4, <1>5 DEF Known

LEMMA TypeFacts ==
  ASSUME TypeInv
  PROVE  /\ \A q \in Servers : q # None
         /\ \A q \in Servers : /\ self[q] \in SelfType
                               /\ self[q].thread \in Starts \cup {None}
                               /\ self[q].server \in Starts \cup {None}
                               /\ self[q].socket \in Starts \cup {None}
         /\ \A m \in Starts : m # None /\ m \in Int /\ run[m] \in RunType
         /\ made \in Nat /\ made \in 0..MaxStarts /\ MaxStarts \in Nat
<1>1. \A q \in Servers : q # None
  BY ServerAssumption
<1>2. \A q \in Servers : self[q] \in SelfType
  BY DEF TypeInv
<1>3. \A m \in Starts : m # None /\ m \in Int /\ run[m] \in RunType
  BY DEF TypeInv, Starts, None
<1>4. made \in Nat /\ made \in 0..MaxStarts /\ MaxStarts \in Nat
  BY ServerAssumption DEF TypeInv
<1> QED BY <1>1, <1>2, <1>3, <1>4 DEF SelfType

LEMMA StartStep ==
  ASSUME ServerInv, NEW s \in Servers, Start(s)
  PROVE  ServerInv'
<1> DEFINE n == made + 1
<1> DEFINE t == self[s].thread
<1>1. /\ n \in Starts /\ made' = n
      /\ self' \in [Servers -> SelfType]
      /\ self'[s] = [self[s] EXCEPT !.pc = "binding", !.socket = n]
      /\ \A q \in Servers : q # s => self'[q] = self[q]
      /\ run' \in [Starts -> RunType]
      /\ run'[n] = [run[n] EXCEPT !.by = s, !.socket = "new"]
      /\ \A m \in Starts : m # n =>
           \/ run'[m] = run[m]
           \/ /\ m = self[s].socket /\ Ended(m)
              /\ run'[m] = [run[m] EXCEPT !.socket = "closed"]
  BY StartMoves DEF ServerInv
<1>2. /\ TypeInv /\ At(s, "idle")
      /\ \A q \in Servers : Known(q)
      /\ \A q \in Servers : q # None
      /\ t \in Starts \cup {None} /\ self[s].socket \in Starts \cup {None}
      /\ \A m \in Starts : m # None /\ m \in Int /\ run[m] \in RunType
      /\ self[s] \in SelfType /\ made \in Nat /\ made \in 0..MaxStarts /\ MaxStarts \in Nat
  BY TypeFacts DEF Start, ServerInv, Known
<1>3. Untouched(n)
  BY <1>1, <1>2 DEF ServerInv, MadeInv
<1>4. self'[s].pc = "binding" /\ self'[s].socket = n /\ self'[s].thread = t
      /\ self'[s].server = self[s].server /\ self'[s].port = self[s].port
  BY <1>1, <1>2 DEF SelfType
<1>5. /\ run'[n].by = s /\ run'[n].thread = "none" /\ run'[n].socket = "new"
      /\ ~run'[n].started /\ ~run'[n].exit
      /\ \A m \in Starts : m # n =>
           /\ run'[m].by = run[m].by /\ run'[m].thread = run[m].thread
           /\ (run'[m].started <=> run[m].started) /\ (run'[m].exit <=> run[m].exit)
  BY <1>1, <1>2, <1>3 DEF RunType, Untouched
<1> HIDE DEF n, t
<1>6. TypeInv'
  <2>1. made' \in 0..MaxStarts
    BY <1>1 DEF Starts
  <2> QED BY <1>1, <2>1 DEF TypeInv
<1>7. MadeInv'
  BY <1>1, <1>2, <1>5 DEF ServerInv, MadeInv, Untouched, n
<1>8. ASSUME NEW q \in Servers, q # s PROVE Known(q)'
  <2>1. ASSUME NEW m \in Starts, run[m].by = q PROVE run'[m] = run[m]
    <3>1. m # n
      BY <1>2, <1>3, <2>1 DEF Untouched
    <3>2. m # self[s].socket
      BY <1>2, <1>8, <2>1 DEF Known, RefInv, RefersTo
    <3> QED BY <1>1, <3>1, <3>2
  <2>2. \A m \in Starts : run'[m].by = q => run[m].by = q
    BY <1>5, <1>8
  <2> QED BY <1>1, <1>2, <1>8, <2>1, <2>2, KeepServer DEF n
<1>9. Known(s)'
  <2>1. t # None => t <= made /\ run[t].by = s /\ Serves(s, t) /\ t # n
    BY <1>2 DEF Known, RefInv, RefersTo, ThreadInv, At, t, n
  <2>2. RefInv(s)'
    <3>1. n # None /\ n <= made' /\ run'[n].by = s
      BY <1>1, <1>2, <1>5
    <3>2. t # None => t <= made' /\ run'[t].by = s
      BY <1>1, <1>2, <1>5, <2>1 DEF n
    <3>3. self[s].server = t
      BY <1>2 DEF Known, RefInv, t
    <3> QED BY <1>4, <2>1, <3>1, <3>2, <3>3 DEF RefInv, RefersTo
  <2>3. SpareInv(s)'
    BY <1>4, <1>5 DEF SpareInv, Spare
  <2>4. ThreadInv(s)'
    <3>1. t # None => run'[t] = run[t]
      BY <1>1, <1>2, <2>1 DEF Serves, Ended
    <3> QED BY <1>2, <1>4, <2>1, <3>1 DEF ThreadInv, Serves
  <2>5. ForgottenInv(s)'
    <3> SUFFICES ASSUME NEW m \in Starts, run'[m].by = s, m # n, m # t PROVE Final(m)'
      BY <1>4 DEF ForgottenInv
    <3>1. CASE m = self[s].socket
      <4>1. Spare(m)
        BY <1>2, <3>1 DEF Known, SpareInv, t
      <4>2. run'[m] = [run[m] EXCEPT !.socket = "closed"] \/ run'[m] = run[m]
        BY <1>1
      <4> QED BY <1>2, <4>1, <4>2 DEF Spare, Final, RunType
    <3>2. CASE m # self[s].socket
      BY <1>1, <1>2, <1>5, <3>2 DEF Known, ForgottenInv, Final, t
    <3> QED BY <3>1, <3>2
  <2> QED BY <2>2, <2>3, <2>4, <2>5 DEF Known
<1> QED BY <1>6, <1>7, <1>8, <1>9 DEF ServerInv, Known

\* A step that only moves the line of one Server
LEMMA LineStep ==
  ASSUME ServerInv, NEW s \in Servers, NEW line \in Lines, Goto(s, line),
         run' = run, made' = made, line # "launching",
         line \in {"binding", "polling"} => self[s].pc = line,
         ThreadInv(s)'
  PROVE  ServerInv'
<1>1. /\ self' \in [Servers -> SelfType]
      /\ self'[s] = [self[s] EXCEPT !.pc = line]
      /\ \A q \in Servers : q # s => self'[q] = self[q]
  BY GotoMoves DEF ServerInv
<1>2. TypeInv' /\ MadeInv'
  BY <1>1 DEF ServerInv, TypeInv, MadeInv, Untouched
<1>3. ASSUME NEW q \in Servers, q # s PROVE Known(q)'
  <2>1. made' \in Nat /\ made' >= made
    BY TypeFacts DEF ServerInv
  <2> QED BY <1>1, <1>3, <2>1, KeepServer DEF ServerInv, Known
<1>4. /\ self'[s].pc = line /\ self'[s].socket = self[s].socket
      /\ self'[s].server = self[s].server /\ self'[s].thread = self[s].thread
      /\ self'[s].port = self[s].port
  BY <1>1, TypeFacts DEF ServerInv, SelfType
<1>5. RefInv(s) /\ SpareInv(s) /\ ForgottenInv(s)
  BY DEF ServerInv
<1>6. RefInv(s)'
  BY <1>4, <1>5 DEF RefInv, RefersTo
<1>7. SpareInv(s)'
  BY <1>4, <1>5 DEF SpareInv, Spare
<1>8. ForgottenInv(s)'
  BY <1>4, <1>5 DEF ForgottenInv, Final
<1> QED BY <1>2, <1>3, <1>6, <1>7, <1>8 DEF ServerInv, Known

LEMMA RaiseStep ==
  ASSUME ServerInv, NEW s \in Servers, self[s].pc \in {"binding", "launching"}, Raise(s)
  PROVE  ServerInv'
<1>1. Goto(s, "idle") /\ run' = run /\ made' = made /\ "idle" \in Lines
  BY DEF Raise, Lines
<1>2. self'[s] = [self[s] EXCEPT !.pc = "idle"]
  BY <1>1, GotoMoves DEF ServerInv
<1>3. self'[s].pc = "idle" /\ self'[s].thread = self[s].thread
      /\ self'[s].port = self[s].port
  BY <1>2, TypeFacts DEF ServerInv, SelfType
<1>4. RefInv(s) /\ ThreadInv(s)
  BY DEF ServerInv
<1>5. ThreadInv(s)'
  BY <1>1, <1>3, <1>4 DEF RefInv, ThreadInv, Serves
<1> QED BY <1>1, <1>5, LineStep

LEMMA StopStep ==
  ASSUME ServerInv, NEW s \in Servers, Stop(s)
  PROVE  ServerInv'
<1>1. /\ At(s, "idle") /\ Goto(s, "stopping") /\ run' = run /\ made' = made
      /\ "stopping" \in Lines
  BY DEF Stop, Lines
<1>2. self'[s] = [self[s] EXCEPT !.pc = "stopping"]
  BY <1>1, GotoMoves DEF ServerInv
<1>3. self'[s].pc = "stopping" /\ self'[s].thread = self[s].thread
      /\ self'[s].port = self[s].port
  BY <1>2, TypeFacts DEF ServerInv, SelfType
<1>4. ThreadInv(s)
  BY DEF ServerInv
<1>5. ThreadInv(s)'
  BY <1>1, <1>3, <1>4 DEF ThreadInv, Serves, At
<1> QED BY <1>1, <1>5, LineStep

\* A start that saw its thread started returns with it serving.
LEMMA PollStep ==
  ASSUME ServerInv, NEW s \in Servers, Poll(s)
  PROVE  ServerInv'
<1> DEFINE n == self[s].thread
<1>1. At(s, "polling") /\ run' = run /\ made' = made
  BY DEF Poll
<1>2. RefInv(s) /\ ThreadInv(s)
  BY DEF ServerInv
<1>3. n # None /\ self[s].server = n /\ self[s].socket = n /\ Coming(s, n)
  BY <1>1, <1>2 DEF RefInv, ThreadInv, At
<1>4. CASE run[n].started
  <2>1. Goto(s, "idle") /\ "idle" \in Lines
    BY <1>3, <1>4 DEF Poll, Lines
  <2>2. self'[s] = [self[s] EXCEPT !.pc = "idle"]
    BY <2>1, GotoMoves DEF ServerInv
  <2>3. self'[s].pc = "idle" /\ self'[s].thread = n /\ self'[s].port = self[s].port
    BY <2>2, TypeFacts DEF ServerInv, SelfType
  <2>4. ThreadInv(s)'
    BY <1>1, <1>3, <1>4, <2>3 DEF ThreadInv, Serves, Coming
  <2> QED BY <1>1, <2>1, <2>4, LineStep
<1>5. CASE ~run[n].started
  <2>1. Goto(s, "stopping") /\ "stopping" \in Lines
    BY <1>3, <1>5 DEF Poll, Lines
  <2>2. self'[s] = [self[s] EXCEPT !.pc = "stopping"]
    BY <2>1, GotoMoves DEF ServerInv
  <2>3. self'[s].pc = "stopping" /\ self'[s].thread = n /\ self'[s].socket = n
    BY <1>3, <2>2, TypeFacts DEF ServerInv, SelfType
  <2>4. ThreadInv(s)'
    BY <2>3 DEF ThreadInv
  <2> QED BY <1>1, <2>1, <2>4, LineStep
<1> QED BY <1>4, <1>5

\* Told to exit, a thread is not up once the join returned: it did not ignore it.
LEMMA JoinStep ==
  ASSUME ServerInv, NEW s \in Servers, Join(s)
  PROVE  ServerInv'
<1> DEFINE n == self[s].thread
<1>1. /\ At(s, "joining") /\ Goto(s, "closing") /\ run' = run /\ made' = made
      /\ n # None => run[n].thread # "up" \/ ~run[n].exit
      /\ "closing" \in Lines
  BY DEF Join, Lines
<1>2. self'[s] = [self[s] EXCEPT !.pc = "closing"]
  BY <1>1, GotoMoves DEF ServerInv
<1>3. self'[s].pc = "closing" /\ self'[s].thread = n /\ self'[s].socket = self[s].socket
  BY <1>2, TypeFacts DEF ServerInv, SelfType
<1>4. ThreadInv(s)
  BY DEF ServerInv
<1>5. ThreadInv(s)'
  BY <1>1, <1>3, <1>4 DEF ThreadInv, Left, At
<1> QED BY <1>1, <1>5, LineStep

\* A port that is bound is not the one on which an earlier thread of the Server serves.
LEMMA BindStep ==
  ASSUME ServerInv, NEW s \in Servers, Bind(s)
  PROVE  ServerInv'
<1> DEFINE n == self[s].socket
<1> DEFINE t == self[s].thread
<1>1. /\ TypeInv /\ At(s, "binding") /\ Known(s) /\ n # None /\ n # t
  BY DEF ServerInv, Known, RefInv, Bind, At
<1>2. ASSUME NEW p \in Ports,
             IF self[s].port = AnyPort THEN ~Open(p) ELSE p = self[s].port /\ ~Listening(p),
             self'[s] = [self[s] EXCEPT !.pc = "launching", !.port = p],
             run'[n] = [run[n] EXCEPT !.port = p, !.socket = "bound"],
             \A m \in Starts : m # n => run'[m] = run[m],
             self' \in [Servers -> SelfType], run' \in [Starts -> RunType],
             \A q \in Servers : q # s => self'[q] = self[q],
             made' = made, n \in Starts
      PROVE  ServerInv'
  <2>1. /\ \A q \in Servers : q # None
        /\ self[s] \in SelfType /\ t \in Starts \cup {None}
        /\ \A m \in Starts : m # None /\ m \in Int /\ run[m] \in RunType
        /\ made \in Nat
    BY <1>1, TypeFacts
  <2>2. run[n].by = s /\ n <= made
    BY <1>1 DEF Known, RefInv, RefersTo
  <2>3. t = None
    <3>1. t # None => Serves(s, t)
      BY <1>1 DEF Known, ThreadInv, At
    <3>2. t # None => self[s].port \in Ports /\ Listening(self[s].port)
      BY <2>1, <3>1 DEF Serves, Listening
    <3> QED BY <1>2, <3>2, ServerAssumption
  <2>4. /\ self'[s].pc = "launching" /\ self'[s].socket = n /\ self'[s].thread = None
        /\ self'[s].server = self[s].server /\ self'[s].port = p
    BY <1>2, <2>1, <2>3 DEF SelfType
  <2>5. /\ run'[n].by = s /\ run'[n].thread = "none" /\ run'[n].socket = "bound"
        /\ ~run'[n].started /\ ~run'[n].exit /\ run'[n].port = p
    <3>1. Spare(n)
      BY <1>1 DEF Known, SpareInv
    <3> QED BY <1>2, <2>1, <2>2, <3>1 DEF Spare, RunType
  <2> HIDE DEF n, t
  <2>6. TypeInv'
    BY <1>1, <1>2 DEF TypeInv
  <2>7. MadeInv'
    BY <1>1, <1>2, <2>1, <2>2 DEF ServerInv, MadeInv, Untouched
  <2>8. ASSUME NEW q \in Servers, q # s PROVE Known(q)'
    <3>1. Known(q) /\ made' \in Nat /\ made' >= made
      BY <1>2, <2>1 DEF ServerInv, Known
    <3>2. /\ \A m \in Starts : run[m].by = q => run'[m] = run[m]
          /\ \A m \in Starts : run'[m].by = q => run[m].by = q
      BY <1>2, <2>2, <2>5, <2>8
    <3> QED BY <1>1, <1>2, <2>8, <3>1, <3>2, KeepServer
  <2>9. Known(s)'
    <3>1. RefInv(s)'
      <4>1. self'[s].server = None
        BY <1>1, <2>3, <2>4 DEF Known, RefInv, t
      <4>2. n # None /\ n <= made' /\ run'[n].by = s
        BY <1>1, <1>2, <2>2, <2>5
      <4> QED BY <2>4, <4>1, <4>2 DEF RefInv, RefersTo
    <3>2. SpareInv(s)'
      BY <2>4, <2>5 DEF SpareInv, Spare
    <3>3. ThreadInv(s)'
      BY <2>4 DEF ThreadInv
    <3>4. ForgottenInv(s)'
      BY <1>1, <1>2, <2>3, <2>4, <2>5 DEF ForgottenInv, Known, Final, n, t
    <3> QED BY <3>1, <3>2, <3>3, <3>4 DEF Known
  <2> QED BY <2>6, <2>7, <2>8, <2>9 DEF ServerInv, Known
<1>3. CASE Raise(s)
  BY <1>1, <1>3, RaiseStep DEF At
<1>4. CASE ~Raise(s)
  <2>1. /\ made' = made /\ n \in Starts
        /\ self' \in [Servers -> SelfType] /\ run' \in [Starts -> RunType]
        /\ \A q \in Servers : q # s => self'[q] = self[q]
        /\ \E p \in Ports :
             /\ IF self[s].port = AnyPort THEN ~Open(p) ELSE p = self[s].port /\ ~Listening(p)
             /\ self'[s] = [self[s] EXCEPT !.pc = "launching", !.port = p]
             /\ run'[n] = [run[n] EXCEPT !.port = p, !.socket = "bound"]
             /\ \A m \in Starts : m # n => run'[m] = run[m]
    BY <1>1, <1>4, BindMoves
  <2> HIDE DEF n
  <2> QED BY <1>2, <2>1
<1> QED BY <1>3, <1>4

LEMMA LaunchStep ==
  ASSUME ServerInv, NEW s \in Servers, Launch(s)
  PROVE  ServerInv'
<1> DEFINE n == self[s].socket
<1>1. /\ TypeInv /\ At(s, "launching") /\ Known(s) /\ n # None /\ self[s].thread = None
  BY DEF ServerInv, Known, RefInv, Launch, At
<1>2. CASE Raise(s)
  BY <1>1, <1>2, RaiseStep DEF At
<1>3. CASE ~Raise(s)
  <2>1. /\ made' = made /\ n \in Starts
        /\ self' \in [Servers -> SelfType] /\ run' \in [Starts -> RunType]
        /\ \A q \in Servers : q # s => self'[q] = self[q]
    BY <1>1, LaunchMoves
  <2>2. /\ self'[s] = [self[s] EXCEPT !.pc = "polling", !.server = n, !.thread = n]
        /\ run'[n] = [run[n] EXCEPT !.thread = "starting"]
        /\ \A m \in Starts : m # n => run'[m] = run[m]
    BY <1>1, <1>3, LaunchMoves
  <2>3. /\ \A q \in Servers : q # None
        /\ self[s] \in SelfType
        /\ \A m \in Starts : m # None /\ m \in Int /\ run[m] \in RunType
        /\ made \in Nat
    BY <1>1, TypeFacts
  <2>4. /\ run[n].by = s /\ n <= made /\ Spare(n)
        /\ run[n].port = self[s].port /\ self[s].port \in Ports
    BY <1>1 DEF Known, RefInv, RefersTo, SpareInv, At
  <2>5. /\ self'[s].pc = "polling" /\ self'[s].socket = n /\ self'[s].thread = n
        /\ self'[s].server = n /\ self'[s].port = self[s].port
    BY <2>2, <2>3 DEF SelfType
  <2>6. /\ run'[n].by = s /\ run'[n].thread = "starting"
        /\ ~run'[n].started /\ ~run'[n].exit /\ run'[n].port = self[s].port
    BY <2>1, <2>2, <2>3, <2>4 DEF Spare, RunType
  <2> HIDE DEF n
  <2>7. TypeInv'
    BY <1>1, <2>1 DEF TypeInv
  <2>8. MadeInv'
    BY <1>1, <2>1, <2>2, <2>3, <2>4 DEF ServerInv, MadeInv, Untouched
  <2>9. ASSUME NEW q \in Servers, q # s PROVE Known(q)'
    <3>1. Known(q) /\ made' \in Nat /\ made' >= made
      BY <2>1, <2>3 DEF ServerInv, Known
    <3>2. /\ \A m \in Starts : run[m].by = q => run'[m] = run[m]
          /\ \A m \in Starts : run'[m].by = q => run[m].by = q
      BY <2>2, <2>4, <2>6, <2>9
    <3> QED BY <1>1, <2>1, <2>9, <3>1, <3>2, KeepServer
  <2>10. Known(s)'
    <3>1. RefInv(s)'
      <4>1. n # None /\ n <= made' /\ run'[n].by = s
        BY <1>1, <2>1, <2>4, <2>6
      <4> QED BY <2>5, <4>1 DEF RefInv, RefersTo
    <3>2. SpareInv(s)'
      BY <2>5 DEF SpareInv
    <3>3. ThreadInv(s)'
      BY <2>4, <2>5, <2>6 DEF ThreadInv, Coming
    <3>4. ForgottenInv(s)'
      BY <1>1, <2>2, <2>3, <2>5 DEF ForgottenInv, Known, Final, n
    <3> QED BY <3>1, <3>2, <3>3, <3>4 DEF Known
  <2> QED BY <2>7, <2>8, <2>9, <2>10 DEF ServerInv, Known
<1> QED BY <1>2, <1>3

LEMMA AskStep ==
  ASSUME ServerInv, NEW s \in Servers, AskToExit(s)
  PROVE  ServerInv'
<1> DEFINE t == self[s].thread
<1>1. TypeInv /\ Known(s) /\ self[s].server = t /\ (t # None => t <= made /\ run[t].by = s)
  BY DEF ServerInv, Known, RefInv, RefersTo
<1>2. /\ At(s, "stopping") /\ made' = made
      /\ self' \in [Servers -> SelfType] /\ run' \in [Starts -> RunType]
      /\ self'[s] = [self[s] EXCEPT !.pc = "joining"]
      /\ \A q \in Servers : q # s => self'[q] = self[q]
      /\ \A m \in Starts :
           run'[m] = IF m = t THEN [run[m] EXCEPT !.exit = TRUE] ELSE run[m]
  BY <1>1, AskMoves
<1>3. /\ self[s] \in SelfType /\ t \in Starts \cup {None}
      /\ self[s].socket \in Starts \cup {None}
      /\ \A m \in Starts : m # None /\ m \in Int /\ run[m] \in RunType
      /\ made \in Nat
  BY <1>1, TypeFacts
<1>4. /\ self'[s].pc = "joining" /\ self'[s].socket = self[s].socket /\ self'[s].thread = t
      /\ self'[s].server = t /\ self'[s].port = self[s].port
  BY <1>1, <1>2, <1>3 DEF SelfType
<1>5. \A m \in Starts :
        /\ run'[m].by = run[m].by /\ run'[m].port = run[m].port
        /\ run'[m].socket = run[m].socket /\ run'[m].thread = run[m].thread
        /\ run'[m].started <=> run[m].started
        /\ m = t => run'[m].exit
        /\ m # t => run'[m] = run[m]
  BY <1>2, <1>3 DEF RunType
<1> HIDE DEF t
<1>6. TypeInv'
  BY <1>1, <1>2 DEF TypeInv
<1>7. MadeInv'
  BY <1>1, <1>2, <1>3, <1>5 DEF ServerInv, MadeInv, Untouched
<1>8. ASSUME NEW q \in Servers, q # s PROVE Known(q)'
  <2>1. Known(q) /\ made' \in Nat /\ made' >= made
    BY <1>2, <1>3 DEF ServerInv, Known
  <2>2. /\ \A m \in Starts : run[m].by = q => run'[m] = run[m]
        /\ \A m \in Starts : run'[m].by = q => run[m].by = q
    BY <1>1, <1>3, <1>5, <1>8
  <2> QED BY <1>1, <1>2, <1>8, <2>1, <2>2, KeepServer
<1>9. Known(s)'
  <2>1. RefInv(s)'
    <3>1. t # None => t <= made' /\ run'[t].by = s
      BY <1>1, <1>2, <1>3, <1>5
    <3>2. self[s].socket # None => self[s].socket <= made' /\ run'[self[s].socket].by = s
      BY <1>1, <1>2, <1>3, <1>5 DEF Known, RefInv, RefersTo
    <3> QED BY <1>4, <3>1, <3>2 DEF RefInv, RefersTo
  <2>2. SpareInv(s)'
    BY <1>1, <1>3, <1>4, <1>5 DEF Known, SpareInv, Spare, t
  <2>3. ThreadInv(s)'
    BY <1>1, <1>2, <1>3, <1>4, <1>5 DEF Known, ThreadInv, Serves, Left, At, t
  <2>4. ForgottenInv(s)'
    BY <1>1, <1>4, <1>5 DEF Known, ForgottenInv, Final, t
  <2> QED BY <2>1, <2>2, <2>3, <2>4 DEF Known
<1> QED BY <1>6, <1>7, <1>8, <1>9 DEF ServerInv, Known

\* What a stop leaves behind is final: its own socket is closed, and that of the
\* thread too.
LEMMA CloseStep ==
  ASSUME ServerInv, NEW s \in Servers, Close(s)
  PROVE  ServerInv'
<1> DEFINE n == self[s].socket
<1> DEFINE t == self[s].thread
<1>1. TypeInv /\ Known(s) /\ (n # None => n <= made /\ run[n].by = s)
  BY DEF ServerInv, Known, RefInv, RefersTo
<1>2. /\ At(s, "closing") /\ made' = made
      /\ self' \in [Servers -> SelfType] /\ run' \in [Starts -> RunType]
      /\ self'[s] = [self[s] EXCEPT !.pc = "idle", !.socket = None, !.server = None,
                                    !.thread = None]
      /\ \A q \in Servers : q # s => self'[q] = self[q]
      /\ \A m \in Starts :
           run'[m] = IF m = n THEN [run[m] EXCEPT !.socket = "closed"] ELSE run[m]
  BY <1>1, CloseMoves
<1>3. /\ self[s] \in SelfType
      /\ t \in Starts \cup {None} /\ n \in Starts \cup {None}
      /\ \A m \in Starts : m # None /\ m \in Int /\ run[m] \in RunType
      /\ made \in Nat
  BY <1>1, TypeFacts
<1>4. /\ self'[s].pc = "idle" /\ self'[s].socket = None /\ self'[s].thread = None
      /\ self'[s].server = None
  BY <1>2, <1>3 DEF SelfType
<1>5. \A m \in Starts :
        /\ run'[m].by = run[m].by /\ run'[m].thread = run[m].thread
        /\ run'[m].started <=> run[m].started
        /\ run'[m].exit <=> run[m].exit
        /\ m = n => run'[m].socket = "closed"
        /\ m # n => run'[m] = run[m]
  BY <1>2, <1>3 DEF RunType
<1> HIDE DEF n, t
<1>6. TypeInv'
  BY <1>1, <1>2 DEF TypeInv
<1>7. MadeInv'
  BY <1>1, <1>2, <1>3, <1>5 DEF ServerInv, MadeInv, Untouched
<1>8. ASSUME NEW q \in Servers, q # s PROVE Known(q)'
  <2>1. Known(q) /\ made' \in Nat /\ made' >= made
    BY <1>2, <1>3 DEF ServerInv, Known
  <2>2. /\ \A m \in Starts : run[m].by = q => run'[m] = run[m]
        /\ \A m \in Starts : run'[m].by = q => run[m].by = q
    BY <1>1, <1>3, <1>5, <1>8
  <2> QED BY <1>1, <1>2, <1>8, <2>1, <2>2, KeepServer
<1>9. Known(s)'
  <2>1. RefInv(s)' /\ SpareInv(s)' /\ ThreadInv(s)'
    BY <1>4 DEF RefInv, RefersTo, SpareInv, ThreadInv
  <2>2. ForgottenInv(s)'
    <3> SUFFICES ASSUME NEW m \in Starts, run'[m].by = s PROVE Final(m)'
      BY DEF ForgottenInv
    <3>1. CASE m = n
      BY <1>5, <3>1 DEF Final
    <3>2. CASE m # n /\ m = t
      <4>1. Left(m)
        BY <1>1, <1>2, <1>3, <3>2 DEF Known, ThreadInv, At, n, t
      <4> QED BY <1>5, <3>2, <4>1 DEF Left, Final
    <3>3. CASE m # n /\ m # t
      BY <1>1, <1>5, <3>3 DEF Known, ForgottenInv, Final, n, t
    <3> QED BY <3>1, <3>2, <3>3
  <2> QED BY <2>1, <2>2 DEF Known
<1> QED BY <1>6, <1>7, <1>8, <1>9 DEF ServerInv, Known

\* The thread of a start matters to the Server that made the start only.
LEMMA ThreadStep ==
  ASSUME ServerInv, NEW n \in Starts, Thread(n)
  PROVE  ServerInv'
<1>1. /\ TypeInv /\ MadeInv /\ \A q \in Servers : Known(q)
  BY DEF ServerInv, Known
<1>2. /\ self' = self /\ made' = made
      /\ run' \in [Starts -> RunType]
      /\ \A m \in Starts : m # n => run'[m] = run[m]
      /\ run'[n].by = run[n].by /\ run'[n].port = run[n].port
      /\ run'[n].exit = run[n].exit
  BY <1>1, ThreadMoves
<1>3. \/ /\ run[n].thread = "starting" /\ run[n].socket = "bound"
         /\ run'[n].thread = "listening" /\ run'[n].socket = "listening"
         /\ run'[n].started = run[n].started
      \/ /\ run[n].thread = "starting"
         /\ run'[n].thread = "dead" /\ run'[n].socket = run[n].socket
         /\ run'[n].started = run[n].started
      \/ /\ run[n].thread = "listening"
         /\ run'[n].thread = (IF run[n].exit THEN "dead" ELSE "up")
         /\ run'[n].socket = run[n].socket /\ run'[n].started = TRUE
      \/ /\ run[n].thread = "up" /\ run[n].exit
         /\ run'[n].thread = "draining" /\ run'[n].socket = "closed"
         /\ run'[n].started = run[n].started
      \/ /\ run[n].thread = "draining"
         /\ run'[n].thread = "dead" /\ run'[n].socket = run[n].socket
         /\ run'[n].started = run[n].started
  BY <1>1, ThreadMoves
<1>4. /\ \A q \in Servers : /\ self[q].socket \in Starts \cup {None}
                            /\ self[q].thread \in Starts \cup {None}
      /\ \A m \in Starts : m # None /\ m \in Int
      /\ made \in Nat
  BY <1>1, TypeFacts
<1>5. TypeInv'
  BY <1>1, <1>2 DEF TypeInv
<1>6. MadeInv'
  <2>1. ~(n > made)
    BY <1>1, <1>3 DEF MadeInv, Untouched
  <2> QED BY <1>1, <1>2, <2>1 DEF MadeInv, Untouched
<1>7. ASSUME NEW q \in Servers, run[n].by # q PROVE Known(q)'
  <2>1. Known(q) /\ made' \in Nat /\ made' >= made /\ self'[q] = self[q]
    BY <1>1, <1>2, <1>4
  <2>2. /\ \A m \in Starts : run[m].by = q => run'[m] = run[m]
        /\ \A m \in Starts : run'[m].by = q => run[m].by = q
    BY <1>2, <1>7
  <2> QED BY <1>1, <2>1, <2>2, KeepServer
<1>8. ASSUME NEW q \in Servers, run[n].by = q PROVE Known(q)'
  <2>1. Known(q)
    BY <1>1
  <2>2. RefInv(q)'
    <3>1. \A m \in Starts : run'[m].by = run[m].by
      BY <1>2
    <3> QED BY <1>2, <1>4, <2>1, <3>1 DEF Known, RefInv, RefersTo
  <2>3. SpareInv(q)'
    <3>1. n = self[q].socket => n = self[q].thread
      BY <1>3, <1>4, <2>1 DEF Known, SpareInv, Spare
    <3>2. self[q].pc = "launching" => self[q].socket # None /\ self[q].socket # n
      BY <1>4, <2>1, <3>1 DEF Known, RefInv
    <3>3. self[q].socket # None /\ self[q].socket # n =>
            run'[self[q].socket] = run[self[q].socket]
      BY <1>2, <1>4
    <3> QED BY <1>2, <3>3, <1>4, <2>1, <3>1, <3>2 DEF Known, SpareInv, Spare
  <2>4. ThreadInv(q)'
    <3>1. CASE self[q].thread # n
      BY <1>2, <1>4, <2>1, <3>1 DEF Known, RefInv, ThreadInv, Serves, Coming, Left
    <3>2. CASE self[q].thread = n
      <4>1. self[q].pc \in {"idle", "binding"} => Serves(q, n)'
        BY <1>2, <1>3, <1>4, <2>1, <3>2 DEF Known, ThreadInv, Serves
      <4>2. self[q].pc = "polling" => Coming(q, n)'
        BY <1>2, <1>3, <1>4, <2>1, <3>2 DEF Known, ThreadInv, Coming
      <4>3. self[q].pc = "stopping" /\ n # self[q].socket => Serves(q, n)'
        BY <1>2, <1>3, <1>4, <2>1, <3>2 DEF Known, ThreadInv, Serves
      <4>4. self[q].pc \in {"joining", "closing"} => run'[n].exit
        BY <1>2, <1>4, <2>1, <3>2 DEF Known, ThreadInv
      <4>5. self[q].pc = "joining" /\ n # self[q].socket =>
              Left(n)' \/ (run'[n].thread = "up" /\ run'[n].socket = "listening")
        BY <1>2, <1>3, <1>4, <2>1, <3>2 DEF Known, ThreadInv, Left
      <4>6. self[q].pc = "closing" => run'[n].thread # "up"
        BY <1>2, <1>3, <1>4, <2>1, <3>2 DEF Known, ThreadInv
      <4>7. self[q].pc = "closing" /\ n # self[q].socket => Left(n)'
        BY <1>2, <1>3, <1>4, <2>1, <3>2 DEF Known, ThreadInv, Left
      <4> QED BY <1>2, <3>2, <4>1, <4>2, <4>3, <4>4, <4>5, <4>6, <4>7 DEF ThreadInv
    <3> QED BY <3>1, <3>2
  <2>5. ForgottenInv(q)'
    <3> SUFFICES ASSUME NEW m \in Starts, run[m].by = q, m # self[q].socket, m # self[q].thread
                 PROVE  Final(m)'
      BY <1>2 DEF ForgottenInv
    <3>1. Final(m)
      BY <2>1 DEF Known, ForgottenInv
    <3> QED BY <1>2, <1>3, <3>1 DEF Final
  <2> QED BY <2>2, <2>3, <2>4, <2>5 DEF Known
<1> QED BY <1>5, <1>6, <1>7, <1>8 DEF ServerInv, Known
-----------------------------------------------------------------------------
LEMMA ServerStart == Init => ServerInv
<1> SUFFICES ASSUME Init PROVE ServerInv
  OBVIOUS
<1>1. \A n \in Starts : n # None /\ n \in Nat
  BY DEF Starts, None
<1>2. TypeInv
  <2>1. ASSUME NEW s \in Servers PROVE FirstPort[s] \in Ports \cup {AnyPort}
    BY ServerAssumption
  <2>2. self \in [Servers -> SelfType]
    BY <2>1 DEF Init, SelfType, Lines
  <2>3. run \in [Starts -> RunType]
    BY DEF Init, RunType
  <2>4. made \in 0..MaxStarts
    BY ServerAssumption DEF Init
  <2> QED BY <2>2, <2>3, <2>4 DEF TypeInv
<1>3. MadeInv
  BY DEF Init, MadeInv, Untouched
<1>4. ASSUME NEW s \in Servers
      PROVE  RefInv(s) /\ SpareInv(s) /\ ThreadInv(s) /\ ForgottenInv(s)
  BY ServerAssumption DEF Init, RefInv, RefersTo, SpareInv, ThreadInv, ForgottenInv, Final
<1> QED BY <1>2, <1>3, <1>4 DEF ServerInv

LEMMA ServerStep == ServerInv /\ [Next]_serverVars => ServerInv'
<1> SUFFICES ASSUME ServerInv, [Next]_serverVars PROVE ServerInv'
  OBVIOUS
<1>1. ASSUME NEW s \in Servers, Start(s) \/ Stop(s) \/ InCall(s) PROVE ServerInv'
  BY <1>1, StartStep, StopStep, BindStep, LaunchStep, PollStep, AskStep, JoinStep, CloseStep
     DEF InCall
<1>2. ASSUME NEW n \in Starts, Thread(n) PROVE ServerInv'
  BY <1>2, ThreadStep
<1>3. CASE UNCHANGED serverVars
  BY <1>3 DEF serverVars, ServerInv, TypeInv, MadeInv, Untouched, RefInv, RefersTo, SpareInv,
              Spare, ThreadInv, Serves, Coming, Left, ForgottenInv, Final
<1> QED BY <1>1, <1>2, <1>3 DEF Next

\* A Server that is up serves on the port that its endpoint names: start returned only
\* when its own thread served, and a start that raises after it, because its socket
\* cannot be bound, leaves that thread alone.
THEOREM ServedWhileUp == Spec => []UpMeansServed
<1>1. ServerInv => UpMeansServed
  BY DEF ServerInv, ThreadInv, Serves, UpMeansServed, At
<1> QED BY <1>1, ServerStart, ServerStep, PTL DEF Spec

\* After a stop, and after a start that raised, nothing of the Server listens, and no
\* thread that is still on its way will.
THEOREM StoppedForGood == Spec => []StopIsFinal
<1>1. ServerInv => StopIsFinal
  <2> SUFFICES ASSUME ServerInv, NEW n \in Starts, NEW s \in Servers,
                      run[n].by = s, At(s, "idle"), self[s].thread = None
               PROVE  Final(n)
    BY DEF StopIsFinal, Over, Final
  <2>1. n # None /\ TypeInv /\ run[n] \in RunType
    BY TypeFacts DEF ServerInv
  <2>2. CASE n = self[s].socket
    BY <2>1, <2>2 DEF ServerInv, SpareInv, Spare, Final
  <2>3. CASE n # self[s].socket
    BY <2>1, <2>3 DEF ServerInv, ForgottenInv
  <2> QED BY <2>2, <2>3
<1> QED BY <1>1, ServerStart, ServerStep, PTL DEF Spec
=============================================================================
