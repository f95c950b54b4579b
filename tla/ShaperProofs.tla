---------------------------- MODULE ShaperProofs ----------------------------
(***************************************************************************)
(* Proofs about Shaper and LinkRate: types, with the cutting of bodies     *)
(* into chunks, that each response is closed once, by its last unit, and   *)
(* that neither the link's rate nor a response's is exceeded, for any      *)
(* connections, rates, chunk sizes and messages.                           *)
(***************************************************************************)
EXTENDS LinkRate, FiniteSetTheorems, TLAPS

\* The type of a coroutine
RequestType ==
  [stage : Stages, shaped : BOOLEAN, number : 0..MaxRequests, wait : Nat, stream : Nat,
   chunk : Nat, left : Nat, more : BOOLEAN, messages : Nat, closed : BOOLEAN, gone : BOOLEAN]

\* What a coroutine's record says about where it is: until its last message it has
\* more to send, and what is left is for the message it is at.
Placed(r) ==
  /\ r.stage = "pacing" => r.chunk \in 1..Chunk
  /\ r.stage \in {"delaying", "app"} => r.left = 0
  /\ r.stage = "sending" /\ ~r.closed => r.more \/ r.left > 0
  /\ r.closed => r.stage \in {"sending", "over"} /\ r.left = 0 /\ ~r.more
  /\ r.stage = "over" => r.closed \/ r.gone

\* The inductive invariant
ShapedInv ==
  /\ link \in Nat /\ wasted \in Nat
  /\ requests \in 0..MaxRequests
  /\ conn \in [Conns -> RequestType]
  /\ \A c \in Conns : Placed(conn[c])

\* A step of one coroutine keeps the invariant if what it makes of its record does.
LEMMA OneMoves ==
  ASSUME ShapedInv, NEW c \in Conns, NEW r \in RequestType, Placed(r),
         conn' = [conn EXCEPT ![c] = r],
         link' \in Nat, wasted' \in Nat, requests' \in 0..MaxRequests
  PROVE  ShapedInv'
BY DEF ShapedInv

\* Booking a chunk of a message of which something is left
LEMMA BookKeeps ==
  ASSUME ShapedInv, NEW c \in Conns, NEW r \in RequestType,
         r.left > 0, ~r.closed, Book(c, r), UNCHANGED <<requests, wasted>>
  PROVE  ShapedInv'
<1> DEFINE n == Least(r.left, Chunk)
           s == r.stream + StreamCost * n
           next == [r EXCEPT !.stage = "pacing", !.chunk = n, !.left = @ - n,
                             !.stream = s, !.wait = Most(s, link')]
<1>1. n \in 1..Chunk /\ r.left - n \in Nat
  BY ShaperAssumption DEF Least, RequestType
<1>2. link' \in Nat /\ s \in Nat
  <2>1. TotalCost * n \in Nat /\ StreamCost * n \in Nat
    BY <1>1, ShaperAssumption
  <2> QED BY <2>1 DEF Book, ShapedInv, RequestType
<1>3. conn' = [conn EXCEPT ![c] = next]
  BY DEF Book
<1>4. Most(s, link') \in Nat
  BY <1>2 DEF Most
<1>5. next \in RequestType
  <2>1. "pacing" \in Stages /\ n \in Nat /\ r.left - n \in Nat
    BY <1>1 DEF Stages
  <2> HIDE DEF n, s
  <2> QED BY <2>1, <1>2, <1>4 DEF RequestType
<1>6. Placed(next)
  BY <1>1 DEF RequestType, Placed
<1> HIDE DEF next
<1> QED BY <1>2, <1>3, <1>5, <1>6, OneMoves DEF ShapedInv

\* A message is handed to send.
LEMMA HandType ==
  ASSUME NEW r \in RequestType, NEW n \in Nat, NEW more \in BOOLEAN
  PROVE  Hand(r, n, more) \in RequestType
BY DEF Hand, RequestType, Stages

LEMMA ShapedStep == ShapedInv /\ [Next]_shaperVars => ShapedInv'
<1> SUFFICES ASSUME ShapedInv, [Next]_shaperVars PROVE ShapedInv'
  OBVIOUS
<1>0. ASSUME NEW c \in Conns
      PROVE  conn[c] \in RequestType /\ Placed(conn[c])
  BY DEF ShapedInv
<1>1. ASSUME NEW c \in Conns, NEW shaped \in BOOLEAN, NEW d \in Delays, Accept(c, shaped, d)
      PROVE  ShapedInv'
  <2> DEFINE r == [NoRequest EXCEPT !.stage = IF shaped THEN "delaying" ELSE "app",
                                    !.shaped = shaped,
                                    !.number = IF shaped THEN requests' ELSE 0,
                                    !.wait = IF shaped THEN d ELSE 0]
  <2>1. requests' \in 0..MaxRequests
    BY <1>1, ShaperAssumption DEF Accept, ShapedInv
  <2>2. conn' = [conn EXCEPT ![c] = r] /\ link' \in Nat /\ wasted' \in Nat
    BY <1>1 DEF Accept, ShapedInv
  <2>3. r \in RequestType
    <3>1. NoRequest \in RequestType
      BY ShaperAssumption DEF NoRequest, RequestType, Stages
    <3>2. /\ (IF shaped THEN "delaying" ELSE "app") \in Stages
          /\ (IF shaped THEN requests' ELSE 0) \in 0..MaxRequests
          /\ (IF shaped THEN d ELSE 0) \in Nat
      BY <2>1, ShaperAssumption DEF Stages
    <3> QED BY <3>1, <3>2 DEF RequestType
  <2>4. Placed(r)
    BY DEF NoRequest, Placed
  <2> HIDE DEF r
  <2> QED BY <2>1, <2>2, <2>3, <2>4, OneMoves
<1>2. ASSUME NEW c \in Conns, Admit(c) PROVE ShapedInv'
  <2> DEFINE r == IF conn[c].number \in Faults THEN Refusal(conn[c])
                  ELSE [conn[c] EXCEPT !.stage = "app"]
  <2>1. conn' = [conn EXCEPT ![c] = r]
    BY <1>2 DEF Admit, ShapedInv
  <2>2. conn[c].stage = "delaying" /\ conn[c].left = 0 /\ ~conn[c].closed
    BY <1>0, <1>2 DEF Admit, Placed
  <2>3. ASSUME conn[c].number \in Faults
        PROVE  r \in RequestType /\ Placed(r)
    <3> DEFINE done == [conn[c] EXCEPT !.more = FALSE]
    <3>1. done \in RequestType
      BY <1>0 DEF RequestType
    <3>2. r = Hand(done, 0, FALSE)
      BY <2>3 DEF Refusal
    <3>3. Placed(Hand(done, 0, FALSE))
      BY <1>0, <2>2 DEF Hand, RequestType, Placed
    <3> HIDE DEF r, done
    <3>4. Hand(done, 0, FALSE) \in RequestType
      BY <3>1, HandType
    <3> QED BY <3>2, <3>3, <3>4
  <2>4. ASSUME conn[c].number \notin Faults
        PROVE  r \in RequestType /\ Placed(r)
    <3> DEFINE admitted == [conn[c] EXCEPT !.stage = "app"]
    <3>1. r = admitted /\ "app" \in Stages
      BY <2>4 DEF Stages
    <3> HIDE DEF r
    <3>2. admitted \in RequestType
      BY <1>0, <3>1 DEF RequestType
    <3>3. Placed(admitted)
      BY <1>0, <2>2 DEF RequestType, Placed
    <3> QED BY <3>1, <3>2, <3>3
  <2> HIDE DEF r
  <2> QED BY <2>1, <2>3, <2>4, <1>2, OneMoves DEF Admit, ShapedInv
<1>3. ASSUME NEW c \in Conns, NEW n \in Lengths, NEW more \in BOOLEAN, Produce(c, n, more)
      PROVE  ShapedInv'
  <2> DEFINE r == [conn[c] EXCEPT !.more = more, !.messages = @ + 1]
             filled == [r EXCEPT !.left = n]
             handed == Hand(r, n, more)
  <2>1. n \in Nat /\ conn[c].stage = "app" /\ ~conn[c].closed /\ conn[c].left = 0
    BY <1>0, <1>3, ShaperAssumption DEF Produce, Placed
  <2>2. filled \in RequestType
    <3>1. conn[c] \in RequestType /\ conn[c].messages + 1 \in Nat
      BY <1>0 DEF RequestType
    <3> QED BY <3>1, <2>1 DEF RequestType
  <2>5. ~filled.closed /\ filled.left = n
    BY <2>1, <1>0 DEF RequestType
  <2>3. CASE Paced(c) /\ n > 0
    <3>1. Book(c, filled) /\ UNCHANGED <<requests, wasted>>
      BY <1>3, <2>3 DEF Produce
    <3> HIDE DEF filled
    <3> QED BY <3>1, <2>2, <2>3, <2>5, BookKeeps
  <2>4. CASE ~(Paced(c) /\ n > 0)
    <3>1. conn' = [conn EXCEPT ![c] = handed] /\ UNCHANGED <<link, requests, wasted>>
      BY <1>3, <2>4 DEF Produce
    <3>2. handed \in RequestType
      <4>1. conn[c].messages + 1 \in Nat
        BY <1>0 DEF RequestType
      <4>2. r \in RequestType
        BY <1>0, <4>1 DEF RequestType
      <4> QED BY <2>1, <4>2, HandType
    <3>3. Placed(handed)
      BY <2>1, <1>0 DEF Hand, RequestType, Placed
    <3> HIDE DEF handed
    <3> QED BY <3>1, <3>2, <3>3, OneMoves DEF ShapedInv
  <2> QED BY <2>3, <2>4
<1>4. ASSUME NEW c \in Conns, Wake(c) PROVE ShapedInv'
  <2> DEFINE r == Hand(conn[c], conn[c].chunk, conn[c].more \/ conn[c].left > 0)
  <2>1. conn' = [conn EXCEPT ![c] = r]
    BY <1>4 DEF Wake, ShapedInv
  <2>2. r \in RequestType
    <3>1. conn[c].chunk \in Nat /\ (conn[c].more \/ conn[c].left > 0) \in BOOLEAN
      BY <1>0 DEF RequestType
    <3> QED BY <1>0, <3>1, HandType
  <2>3. conn[c].stage = "pacing" /\ ~conn[c].closed
    BY <1>0, <1>4 DEF Wake, Placed
  <2>4. Placed(r)
    <3>1. conn[c].left \in Nat /\ conn[c].more \in BOOLEAN
      BY <1>0 DEF RequestType
    <3>2. /\ r.stage = "sending" /\ r.left = conn[c].left /\ r.more = conn[c].more
          /\ r.closed <=> ~(conn[c].more \/ conn[c].left > 0)
      BY <1>0 DEF Hand, RequestType
    <3>3. /\ ~r.closed => r.more \/ r.left > 0
          /\ r.closed => ~r.more /\ ~(r.left > 0)
      BY <3>2
    <3>4. r.left \in Nat
      BY <3>1, <3>2
    <3>5. r.stage = "sending"
      BY <3>2
    <3> HIDE DEF r
    <3> QED BY <3>3, <3>4, <3>5 DEF Placed
  <2> HIDE DEF r
  <2> QED BY <2>1, <2>2, <2>4, <1>4, OneMoves DEF Wake, ShapedInv
<1>5. ASSUME NEW c \in Conns, Sent(c) PROVE ShapedInv'
  <2>1. CASE conn[c].left > 0
    <3>1. ~conn[c].closed /\ Book(c, conn[c]) /\ UNCHANGED <<requests, wasted>>
      BY <1>0, <1>5, <2>1 DEF Sent, Placed
    <3> QED BY <3>1, <2>1, <1>0, BookKeeps
  <2>2. CASE ~(conn[c].left > 0)
    <3> DEFINE r == [conn[c] EXCEPT !.stage = IF conn[c].more THEN "app" ELSE "over"]
    <3>1. conn' = [conn EXCEPT ![c] = r] /\ UNCHANGED <<link, requests, wasted>>
      BY <1>5, <2>2 DEF Sent, ShapedInv
    <3>2. r \in RequestType /\ Placed(r)
      BY <1>0, <1>5, <2>2 DEF Sent, RequestType, Placed, Stages
    <3> HIDE DEF r
    <3> QED BY <3>1, <3>2, OneMoves DEF ShapedInv
  <2> QED BY <2>1, <2>2
<1>6. ASSUME NEW c \in Conns, Disconnect(c) PROVE ShapedInv'
  <2> DEFINE r == [conn[c] EXCEPT !.gone = TRUE]
  <2>1. conn' = [conn EXCEPT ![c] = r]
    BY <1>6 DEF Disconnect, ShapedInv
  <2>2. r \in RequestType /\ Placed(r)
    BY <1>0 DEF RequestType, Placed
  <2> HIDE DEF r
  <2> QED BY <2>1, <2>2, <1>6, OneMoves DEF Disconnect, ShapedInv
<1>7. ASSUME NEW c \in Conns, Cancel(c) PROVE ShapedInv'
  <2> DEFINE r == [conn[c] EXCEPT !.stage = "over"]
  <2>1. conn' = [conn EXCEPT ![c] = r] /\ UNCHANGED <<link, requests>>
    BY <1>7 DEF Cancel, ShapedInv
  <2>2. r \in RequestType /\ Placed(r)
    BY <1>0, <1>7 DEF Cancel, RequestType, Placed, Stages
  <2>3. wasted' \in Nat
    BY <1>0, <1>7 DEF Cancel, ShapedInv, RequestType
  <2> HIDE DEF r
  <2> QED BY <2>1, <2>2, <2>3, OneMoves DEF ShapedInv
<1>8. CASE Tick
  <2> DEFINE later(r) == [r EXCEPT !.wait = Most(@ - 1, 0), !.stream = Most(@ - 1, 0)]
  <2>1. conn' = [c \in Conns |-> later(conn[c])]
    BY <1>8 DEF Tick
  <2>2. ASSUME NEW c \in Conns PROVE later(conn[c]) \in RequestType /\ Placed(later(conn[c]))
    <3>1. Most(conn[c].wait - 1, 0) \in Nat /\ Most(conn[c].stream - 1, 0) \in Nat
      BY <1>0 DEF RequestType, Most
    <3>2. later(conn[c]) \in RequestType
      BY <1>0, <3>1 DEF RequestType
    <3>3. Placed(later(conn[c]))
      BY <1>0, <3>1 DEF RequestType, Placed
    <3> QED BY <3>2, <3>3
  <2>3. link' \in Nat /\ wasted' \in Nat /\ requests' \in 0..MaxRequests
    <3>1. link' = LinkLater /\ requests' = requests /\ wasted' \in {0, wasted}
      BY <1>8 DEF Tick
    <3>2. link \in Nat /\ wasted \in Nat /\ requests \in 0..MaxRequests
      BY DEF ShapedInv
    <3> QED BY <3>1, <3>2 DEF LinkLater, Most
  <2> HIDE DEF later
  <2> QED BY <2>1, <2>2, <2>3 DEF ShapedInv
<1>9. CASE UNCHANGED shaperVars
  BY <1>9 DEF shaperVars, ShapedInv
<1> QED BY <1>1, <1>2, <1>3, <1>4, <1>5, <1>6, <1>7, <1>8, <1>9 DEF Next, Serve, Run

LEMMA ShapedInit == Init => ShapedInv
BY ShaperAssumption DEF Init, NoRequest, ShapedInv, RequestType, Placed, Stages

\* Every variable keeps its type, and whatever is booked on the link is a chunk of one
\* unit up to CHUNK_SIZE.
THEOREM ShapedTypes == Spec => []TypeOK
<1>1. ShapedInv => TypeOK
  BY DEF ShapedInv, TypeOK, RequestType, Placed
<1> QED BY <1>1, ShapedInit, ShapedStep, PTL DEF Spec

\* A response is closed once, by the message with its last unit, and does not end without
\* that while its client stays, however the application cuts it into messages and Shaper
\* into chunks.
THEOREM ClosedByTheLast == Spec => []CompleteWhenClosed
<1>1. ShapedInv => CompleteWhenClosed
  BY DEF ShapedInv, CompleteWhenClosed, Placed
<1> QED BY <1>1, ShapedInit, ShapedStep, PTL DEF Spec
-----------------------------------------------------------------------------
\* The units of the chunks that still wait t ticks from now
Units(t) ==
  {u \in Conns \X (1..Chunk) :
     /\ conn[u[1]].stage = "pacing" /\ conn[u[1]].wait > t
     /\ u[2] <= conn[u[1]].chunk}

\* The inductive invariant behind NoIdleLink: t ticks from now, what is left of the
\* link's bookings is for the chunks that still wait then.
LinkInv ==
  \A t \in Nat : link <= t + TotalCost * (wasted + Cardinality(Units(t)))

LEMMA AllFinite == IsFiniteSet(Conns \X (1..Chunk))
<1>1. IsFiniteSet(1..Chunk)
  BY ShaperAssumption, FS_Interval
<1>2. IsFiniteSet(Conns)
  BY ShaperAssumption
<1> QED BY <1>1, <1>2, FS_Product

LEMMA UnitsFinite ==
  ASSUME NEW t \in Nat
  PROVE  IsFiniteSet(Units(t)) /\ Cardinality(Units(t)) \in Nat
<1>1. IsFiniteSet(Conns \X (1..Chunk))
  BY AllFinite
<1>2. Units(t) \in SUBSET (Conns \X (1..Chunk))
  BY DEF Units
<1> QED BY <1>1, <1>2, FS_Subset, FS_CardinalityType

LEMMA ChunkUnits ==
  ASSUME NEW c, NEW n \in Nat
  PROVE  IsFiniteSet({c} \X (1..n)) /\ Cardinality({c} \X (1..n)) = n
<1>1. IsFiniteSet(1..n) /\ Cardinality(1..n) = n
  BY FS_Interval
<1>2. IsFiniteSet({c}) /\ Cardinality({c}) = 1
  BY FS_Singleton
<1> QED BY <1>1, <1>2, FS_Product

LEMMA Disjoint ==
  ASSUME NEW S, IsFiniteSet(S), NEW T, IsFiniteSet(T), S \cap T = {}
  PROVE  /\ IsFiniteSet(S \cup T)
         /\ Cardinality(S \cup T) = Cardinality(S) + Cardinality(T)
<1>1. Cardinality(S \cap T) = 0
  BY FS_EmptySet
<1>2. Cardinality(S) \in Nat /\ Cardinality(T) \in Nat
  BY FS_CardinalityType
<1>3. /\ IsFiniteSet(S \cup T)
      /\ Cardinality(S \cup T) = Cardinality(S) + Cardinality(T) - Cardinality(S \cap T)
  BY FS_Union, Zenon
<1> QED BY <1>1, <1>2, <1>3

\* More units need no less time.
LEMMA MoreUnits ==
  ASSUME NEW a \in Nat, NEW b \in Nat, a <= b
  PROVE  TotalCost * a <= TotalCost * b
<1>1. PICK d \in Nat : b = a + d
  <2>1. b - a \in Nat /\ b = a + (b - a)
    OBVIOUS
  <2> QED BY <2>1
<1>2. TotalCost * d \in Nat /\ TotalCost * a \in Nat
  BY ShaperAssumption
<1>3. TotalCost * b = TotalCost * a + TotalCost * d
  BY <1>1, ShaperAssumption
<1> QED BY <1>2, <1>3

\* The link and the units wait as before if one coroutine moves and has no chunk that
\* waits, or the same as before.
LEMMA OneQuiet ==
  ASSUME ShapedInv, LinkInv, NEW c \in Conns, NEW r \in RequestType,
         conn' = [conn EXCEPT ![c] = r], UNCHANGED <<link, wasted>>,
         \/ r.stage = conn[c].stage /\ r.wait = conn[c].wait /\ r.chunk = conn[c].chunk
         \/ r.stage # "pacing" /\ (conn[c].stage # "pacing" \/ conn[c].wait = 0)
  PROVE  LinkInv'
<1>1. conn \in [Conns -> RequestType]
  BY DEF ShapedInv
<1>2. ASSUME NEW t \in Nat PROVE Units(t)' = Units(t)
  BY <1>1 DEF Units
<1> QED BY <1>2 DEF LinkInv

\* A chunk is booked: the link is booked for its units, and it waits that long.
LEMMA BookQuiet ==
  ASSUME ShapedInv, LinkInv, NEW c \in Conns, NEW r \in RequestType,
         r.left > 0, conn[c].stage # "pacing", Book(c, r), UNCHANGED wasted
  PROVE  LinkInv'
<1> DEFINE n == Least(r.left, Chunk)
           s == r.stream + StreamCost * n
           next == [r EXCEPT !.stage = "pacing", !.chunk = n, !.left = @ - n,
                             !.stream = s, !.wait = Most(s, link')]
<1>1. n \in 1..Chunk /\ n \in Nat
  BY ShaperAssumption DEF Least, RequestType
<1>2. TotalCost * n \in Nat /\ StreamCost * n \in Nat
  BY <1>1, ShaperAssumption
<1>3. link' = link + TotalCost * n /\ link \in Nat /\ wasted \in Nat
  BY DEF Book, ShapedInv
<1>4. s \in Nat /\ Most(s, link') \in Nat /\ Most(s, link') >= link'
  BY <1>2, <1>3 DEF RequestType, Most
<1>5. conn' = [conn EXCEPT ![c] = next] /\ conn \in [Conns -> RequestType]
  BY DEF Book, ShapedInv
<1>6. next.stage = "pacing" /\ next.chunk = n /\ next.wait = Most(s, link')
  BY DEF RequestType
<1> HIDE DEF next, s, n
<1>7. ASSUME NEW t \in Nat, t < next.wait
      PROVE  link' <= t + TotalCost * (wasted + Cardinality(Units(t)'))
  <2>1. Units(t)' = Units(t) \cup ({c} \X (1..n)) /\ Units(t) \cap ({c} \X (1..n)) = {}
    <3>1. conn'[c] = next /\ \A d \in Conns \ {c} : conn'[d] = conn[d]
      BY <1>5
    <3>2. \A u \in Conns \X (1..Chunk) :
            u \in Units(t)' <=> IF u[1] = c THEN u[2] \in 1..n ELSE u \in Units(t)
      BY <1>1, <1>6, <1>7, <3>1 DEF Units
    <3>3. \A u \in Units(t) : u[1] # c
      BY DEF Units
    <3>4. Units(t)' \subseteq Conns \X (1..Chunk) /\ Units(t) \subseteq Conns \X (1..Chunk)
      BY DEF Units
    <3>5. {c} \X (1..n) \subseteq Conns \X (1..Chunk)
      BY <1>1, ShaperAssumption
    <3>6. \A u \in Conns \X (1..Chunk) : u \in {c} \X (1..n) <=> u[1] = c /\ u[2] \in 1..n
      OBVIOUS
    <3> QED BY <3>2, <3>3, <3>4, <3>5, <3>6
  <2>2. Cardinality(Units(t)') = Cardinality(Units(t)) + n
    <3>1. IsFiniteSet(Units(t)) /\ Cardinality(Units(t)) \in Nat
      BY UnitsFinite
    <3>2. IsFiniteSet({c} \X (1..n)) /\ Cardinality({c} \X (1..n)) = n
      BY <1>1, ChunkUnits
    <3> QED BY <2>1, <3>1, <3>2, <1>1, Disjoint
  <2> DEFINE k == Cardinality(Units(t))
  <2>3. k \in Nat
    BY UnitsFinite
  <2> HIDE DEF k
  <2>4. TotalCost * (wasted + (k + n)) = TotalCost * (wasted + k) + TotalCost * n
    BY <2>3, <1>1, <1>3, ShaperAssumption
  <2>5. TotalCost * (wasted + k) \in Nat
    BY <2>3, <1>3, ShaperAssumption
  <2>6. link <= t + TotalCost * (wasted + k)
    BY DEF LinkInv, k
  <2> QED BY <1>2, <1>3, <2>2, <2>4, <2>5, <2>6 DEF k
<1>8. ASSUME NEW t \in Nat, ~(t < next.wait)
      PROVE  link' <= t + TotalCost * (wasted + Cardinality(Units(t)'))
  <2>1. Units(t)' = Units(t)
    BY <1>5, <1>6, <1>8 DEF Units
  <2>2. Cardinality(Units(t)') \in Nat
    BY <2>1, UnitsFinite
  <2>3. TotalCost * (wasted + Cardinality(Units(t)')) \in Nat
    BY <2>2, <1>3, ShaperAssumption
  <2> QED BY <2>3, <1>2, <1>3, <1>4, <1>6, <1>8
<1> QED BY <1>7, <1>8 DEF LinkInv

\* A response is cancelled: the units of its chunk are counted as wasted.
LEMMA CancelQuiet ==
  ASSUME ShapedInv, LinkInv, NEW c \in Conns, Cancel(c)
  PROVE  LinkInv'
<1>1. conn' = [conn EXCEPT ![c].stage = "over"] /\ link' = link
  BY DEF Cancel
<1>2. conn \in [Conns -> RequestType] /\ link \in Nat /\ wasted \in Nat
  BY DEF ShapedInv
<1>3. conn' = [conn EXCEPT ![c] = [conn[c] EXCEPT !.stage = "over"]]
  BY <1>1, <1>2
<1>4. [conn[c] EXCEPT !.stage = "over"] \in RequestType
  BY <1>2 DEF RequestType, Stages
<1>5. CASE conn[c].stage # "pacing"
  BY <1>1, <1>3, <1>4, <1>5, OneQuiet DEF Cancel, RequestType
<1>6. CASE conn[c].stage = "pacing"
  <2> SUFFICES ASSUME NEW t \in Nat
               PROVE  link <= t + TotalCost * (wasted' + Cardinality(Units(t)'))
    BY <1>1 DEF LinkInv
  <2> DEFINE n == conn[c].chunk
             k == Cardinality(Units(t))
             l == Cardinality(Units(t)')
  <2>1. n \in Nat
    BY <1>2 DEF RequestType
  <2>2. Units(t)' = Units(t) \ ({c} \X (1..n))
    BY <1>2, <1>3, <1>4, <2>1, <1>6 DEF Units, RequestType
  <2>3. IsFiniteSet(Units(t)') /\ l \in Nat /\ k \in Nat
    <3>1. IsFiniteSet(Units(t)) /\ k \in Nat
      BY UnitsFinite
    <3>2. IsFiniteSet(Units(t)')
      <4>1. Units(t)' \subseteq Units(t)
        BY <2>2
      <4> QED BY <3>1, <4>1, FS_Subset
    <3> QED BY <3>1, <3>2, FS_CardinalityType
  <2>4. k <= l + n
    <3>1. Units(t) \subseteq Units(t)' \cup ({c} \X (1..n))
      BY <2>2
    <3> DEFINE both == Units(t)' \cap ({c} \X (1..n))
    <3>2. both = {}
      BY <2>2
    <3>3. /\ IsFiniteSet(Units(t)' \cup ({c} \X (1..n)))
          /\ Cardinality(Units(t)' \cup ({c} \X (1..n))) = l + n
      <4>1. IsFiniteSet({c} \X (1..n)) /\ Cardinality({c} \X (1..n)) = n
        BY <2>1, ChunkUnits
      <4> QED BY <2>3, <3>2, <4>1, Disjoint
    <3> QED BY <3>1, <3>3, FS_Subset
  <2> HIDE DEF k, l
  <2>5. link <= t + TotalCost * (wasted + k)
    BY DEF LinkInv, k
  <2>6. CASE link > 0
    <3>1. wasted' = wasted + n
      BY <1>6, <2>6 DEF Cancel
    <3>2. TotalCost * (wasted + k) <= TotalCost * (wasted' + l)
      BY <3>1, <2>1, <2>3, <2>4, <1>2, MoreUnits
    <3>3. TotalCost * (wasted + k) \in Nat /\ TotalCost * (wasted' + l) \in Nat
      BY <3>1, <2>1, <2>3, <1>2, ShaperAssumption
    <3> QED BY <3>2, <3>3, <2>5, <1>2 DEF l
  <2>7. CASE ~(link > 0)
    <3>1. wasted' = wasted
      BY <2>7 DEF Cancel
    <3>2. TotalCost * (wasted' + l) \in Nat
      BY <3>1, <2>3, <1>2, ShaperAssumption
    <3> QED BY <3>2, <2>7, <1>2 DEF l
  <2> QED BY <2>6, <2>7
<1> QED BY <1>5, <1>6

\* A tick later each chunk waits a tick less, and so does the link.
LEMMA TickQuiet ==
  ASSUME ShapedInv, LinkInv, Tick
  PROVE  LinkInv'
<1>1. conn \in [Conns -> RequestType] /\ link \in Nat /\ wasted \in Nat
  BY DEF ShapedInv
<1> SUFFICES ASSUME NEW t \in Nat
             PROVE  link' <= t + TotalCost * (wasted' + Cardinality(Units(t)'))
  BY DEF LinkInv
<1> DEFINE k == Cardinality(Units(t + 1))
<1>2. Units(t)' = Units(t + 1)
  <2>1. ASSUME NEW c \in Conns
        PROVE  /\ conn'[c].stage = conn[c].stage /\ conn'[c].chunk = conn[c].chunk
               /\ conn'[c].wait > t <=> conn[c].wait > t + 1
    <3>1. conn'[c] = [conn[c] EXCEPT !.wait = Most(@ - 1, 0), !.stream = Most(@ - 1, 0)]
      BY DEF Tick
    <3>2. conn[c] \in RequestType /\ conn[c].wait \in Nat
      BY <1>1 DEF RequestType
    <3>3. conn'[c].wait = Most(conn[c].wait - 1, 0)
      BY <3>1, <3>2 DEF RequestType
    <3>4. conn'[c].wait > t <=> conn[c].wait > t + 1
      BY <3>2, <3>3 DEF Most
    <3>5. conn'[c].stage = conn[c].stage /\ conn'[c].chunk = conn[c].chunk
      BY <3>1, <3>2 DEF RequestType
    <3> QED BY <3>4, <3>5
  <2> QED BY <2>1 DEF Units
<1>3. k \in Nat
  BY UnitsFinite
<1>4. link <= (t + 1) + TotalCost * (wasted + k)
  BY DEF LinkInv
<1> HIDE DEF k
<1>5. TotalCost * (wasted + k) \in Nat
  BY <1>1, <1>3, ShaperAssumption
<1>6. link' = LinkLater /\ wasted' = IF link' = 0 THEN 0 ELSE wasted
  BY DEF Tick
<1>7. CASE link' = 0
  <2>1. TotalCost * (0 + k) \in Nat
    BY <1>3, ShaperAssumption
  <2> QED BY <2>1, <1>2, <1>6, <1>7 DEF k
<1>8. CASE link' # 0
  <2>1. link' = link - 1 /\ wasted' = wasted
    BY <1>1, <1>6, <1>8 DEF LinkLater, Most
  <2> QED BY <2>1, <1>1, <1>2, <1>4, <1>5 DEF k
<1> QED BY <1>7, <1>8

LEMMA LinkStep == ShapedInv /\ ShapedInv' /\ LinkInv /\ [Next]_shaperVars => LinkInv'
<1> SUFFICES ASSUME ShapedInv, ShapedInv', LinkInv, [Next]_shaperVars PROVE LinkInv'
  OBVIOUS
<1>0. /\ conn \in [Conns -> RequestType] /\ conn' \in [Conns -> RequestType]
      /\ \A c \in Conns : conn'[c] \in RequestType
  BY DEF ShapedInv
<1>1. ASSUME NEW c \in Conns, UNCHANGED <<link, wasted>>,
             conn' = [conn EXCEPT ![c] = conn'[c]],
             \/ /\ conn'[c].stage = conn[c].stage /\ conn'[c].wait = conn[c].wait
                /\ conn'[c].chunk = conn[c].chunk
             \/ conn'[c].stage # "pacing" /\ (conn[c].stage # "pacing" \/ conn[c].wait = 0)
      PROVE  LinkInv'
  BY <1>0, <1>1, OneQuiet
<1>2. ASSUME NEW c \in Conns, NEW shaped \in BOOLEAN, NEW d \in Delays, Accept(c, shaped, d)
      PROVE  LinkInv'
  BY <1>0, <1>1, <1>2 DEF Accept, NoRequest, RequestType
<1>3. ASSUME NEW c \in Conns, Admit(c) PROVE LinkInv'
  <2> DEFINE r == IF conn[c].number \in Faults THEN Refusal(conn[c])
                  ELSE [conn[c] EXCEPT !.stage = "app"]
  <2>1. conn[c].stage = "delaying" /\ UNCHANGED <<link, wasted>> /\ conn' = [conn EXCEPT ![c] = r]
    BY <1>0, <1>3 DEF Admit
  <2>2. r.stage # "pacing"
    BY <1>0 DEF Refusal, Hand, RequestType
  <2> HIDE DEF r
  <2> QED BY <1>0, <1>1, <2>1, <2>2
<1>4. ASSUME NEW c \in Conns, NEW n \in Lengths, NEW more \in BOOLEAN, Produce(c, n, more)
      PROVE  LinkInv'
  <2> DEFINE r == [conn[c] EXCEPT !.more = more, !.messages = @ + 1]
             filled == [r EXCEPT !.left = n]
  <2>1. CASE Paced(c) /\ n > 0
    <3>1. conn[c].messages + 1 \in Nat /\ n \in Nat
      BY <1>0, ShaperAssumption DEF RequestType
    <3>2. filled \in RequestType /\ filled.left = n
      BY <3>1, <1>0 DEF RequestType
    <3>3. Book(c, filled) /\ conn[c].stage = "app" /\ UNCHANGED wasted
      BY <1>4, <2>1 DEF Produce
    <3> HIDE DEF filled
    <3> QED BY <3>2, <3>3, <2>1, BookQuiet
  <2>2. CASE ~(Paced(c) /\ n > 0)
    <3>1. /\ conn[c].stage = "app" /\ UNCHANGED <<link, wasted>>
          /\ conn' = [conn EXCEPT ![c] = Hand(r, n, more)]
      BY <1>4, <2>2 DEF Produce
    <3>2. conn'[c] = Hand(r, n, more)
      BY <1>0, <3>1
    <3>3. conn'[c].stage = "sending"
      BY <1>0, <3>2 DEF Hand, RequestType
    <3> HIDE DEF r
    <3> QED BY <1>1, <3>1, <3>2, <3>3
  <2> QED BY <2>1, <2>2
<1>5. ASSUME NEW c \in Conns, Wake(c) PROVE LinkInv'
  <2> DEFINE r == Hand(conn[c], conn[c].chunk, conn[c].more \/ conn[c].left > 0)
  <2>1. conn[c].wait = 0 /\ UNCHANGED <<link, wasted>> /\ conn' = [conn EXCEPT ![c] = r]
    BY <1>0, <1>5 DEF Wake
  <2>2. r.stage # "pacing"
    BY <1>0 DEF Hand, RequestType
  <2> HIDE DEF r
  <2> QED BY <1>0, <1>1, <2>1, <2>2
<1>6. ASSUME NEW c \in Conns, Sent(c) PROVE LinkInv'
  <2>1. CASE conn[c].left > 0
    BY <1>0, <1>6, <2>1, BookQuiet DEF Sent
  <2>2. CASE ~(conn[c].left > 0)
    BY <1>0, <1>1, <1>6, <2>2 DEF Sent, RequestType
  <2> QED BY <2>1, <2>2
<1>7. ASSUME NEW c \in Conns, Disconnect(c) PROVE LinkInv'
  <2> DEFINE r == [conn[c] EXCEPT !.gone = TRUE]
  <2>1. UNCHANGED <<link, wasted>> /\ conn' = [conn EXCEPT ![c] = r]
    BY <1>0, <1>7 DEF Disconnect
  <2>2. r.stage = conn[c].stage /\ r.wait = conn[c].wait /\ r.chunk = conn[c].chunk
    BY <1>0 DEF RequestType
  <2> HIDE DEF r
  <2> QED BY <1>0, <1>1, <2>1, <2>2
<1>8. ASSUME NEW c \in Conns, Cancel(c) PROVE LinkInv'
  BY <1>8, CancelQuiet
<1>9. CASE Tick
  BY <1>9, TickQuiet
<1>10. CASE UNCHANGED shaperVars
  BY <1>10 DEF shaperVars, LinkInv, Units
<1> QED BY <1>2, <1>3, <1>4, <1>5, <1>6, <1>7, <1>8, <1>9, <1>10 DEF Next, Serve, Run

\* No time on the link is booked that no chunk is sent in, but for that of the chunks
\* whose responses were cancelled while they waited, for any number of responses, rates,
\* chunk sizes and orders in which chunks are booked and sent.
THEOREM NoTimeLost == Spec => []NoIdleLink
<1>1. Init => LinkInv
  <2> SUFFICES ASSUME Init, NEW t \in Nat
               PROVE  link <= t + TotalCost * (wasted + Cardinality(Units(t)))
    BY DEF LinkInv
  <2>1. TotalCost * (0 + Cardinality(Units(t))) \in Nat
    BY UnitsFinite, ShaperAssumption
  <2> QED BY <2>1 DEF Init
<1>2. ShapedInv /\ LinkInv => NoIdleLink
  <2> SUFFICES ASSUME ShapedInv, LinkInv PROVE NoIdleLink
    OBVIOUS
  <2>1. Units(0) \subseteq UnitsWaiting /\ UnitsWaiting \subseteq Conns \X (1..Chunk)
    BY DEF Units, UnitsWaiting
  <2>2. IsFiniteSet(UnitsWaiting)
    BY <2>1, AllFinite, FS_Subset
  <2> DEFINE k == Cardinality(Units(0))
             l == Cardinality(UnitsWaiting)
  <2>3. k \in Nat /\ l \in Nat /\ k <= l
    BY <2>1, <2>2, UnitsFinite, FS_Subset, FS_CardinalityType
  <2>4. link <= 0 + TotalCost * (wasted + k)
    BY DEF LinkInv
  <2> HIDE DEF k, l
  <2>5. link \in Nat /\ wasted \in Nat
    BY DEF ShapedInv
  <2>6. TotalCost * (wasted + k) <= TotalCost * (wasted + l)
    BY <2>3, <2>5, MoreUnits
  <2>7. TotalCost * (wasted + k) \in Nat /\ TotalCost * (wasted + l) \in Nat
    BY <2>3, <2>5, ShaperAssumption
  <2> QED BY <2>4, <2>5, <2>6, <2>7 DEF NoIdleLink, l
<1> QED BY <1>1, <1>2, ShapedInit, ShapedStep, LinkStep, PTL DEF Spec

-----------------------------------------------------------------------------
(* The rates of LinkRate.                                                  *)

\* The units of the chunks booked since the watch began, and those of them whose time
\* comes within t ticks
AllDue == {u \in Conns \X (1..Chunk) : u[1] \in booked /\ u[2] <= conn[u[1]].chunk}
Due(t) == {u \in AllDue : conn[u[1]].wait <= t}

WatchInv ==
  /\ watching \in BOOLEAN /\ elapsed \in Nat /\ passed \in Nat
  /\ own \in [Conns -> Nat]
  /\ booked \subseteq {c \in Conns : Waiting(c)}
  /\ ~watching => /\ elapsed = 0 /\ passed = 0 /\ booked = {}
                  /\ \A c \in Conns : own[c] = 0

\* What is sent within t ticks from now had the link for itself in the time since the
\* watch began, and so did all that is booked in the time up to where the link is free.
RateInv ==
  /\ \A t \in Nat : TotalCost * (passed + Cardinality(Due(t))) <= elapsed + t
  /\ TotalCost * (passed + Cardinality(AllDue)) <= elapsed + link

\* The same of one response, with and without the chunk it waits to send
Ahead(c) == IF c \in booked THEN conn[c].chunk ELSE 0
Kept(c) ==
  /\ StreamCost * own[c] <= elapsed
  /\ StreamCost * (own[c] + Ahead(c)) <= elapsed + conn[c].stream
  /\ c \in booked => StreamCost * (own[c] + Ahead(c)) <= elapsed + conn[c].wait
OwnInv == \A c \in Conns : Kept(c)


(* What a step of one coroutine is to the watch                            *)

\* A chunk of n units is booked.
Booking(c, n) ==
  /\ conn[c].stage \notin {"idle", "pacing", "over"}
  /\ conn'[c].stage = "pacing" /\ conn'[c].chunk = n
  /\ conn'[c].stream = conn[c].stream + StreamCost * n
  /\ link' = link + TotalCost * n
  /\ conn'[c].wait >= conn'[c].stream /\ conn'[c].wait >= link'

\* The chunk that waited is sent, or it never will be.
Ending(c) ==
  /\ conn[c].stage = "pacing"
  /\ \/ conn'[c].stage = "sending" /\ conn[c].wait = 0
     \/ conn'[c].stage = "over"
  /\ conn'[c].stream = conn[c].stream /\ link' = link

\* No chunk waits.
Resting(c) ==
  /\ conn[c].stage # "pacing" /\ conn'[c].stage # "pacing" /\ link' = link
  /\ conn'[c].stream = conn[c].stream \/ (Begins(c) /\ conn'[c].stream = 0)

\* The chunk goes on waiting.
Staying(c) ==
  /\ conn[c].stage = "pacing" /\ conn'[c].stage = "pacing" /\ link' = link
  /\ conn'[c].stream = conn[c].stream /\ conn'[c].wait = conn[c].wait
  /\ conn'[c].chunk = conn[c].chunk

Kind(c) == (\E n \in 1..Chunk : Booking(c, n)) \/ Ending(c) \/ Resting(c) \/ Staying(c)

LEMMA BookKind ==
  ASSUME ShapedInv, NEW c \in Conns, NEW r \in RequestType, r.left > 0, Book(c, r),
         conn[c].stage \notin {"idle", "pacing", "over"}, r.stream = conn[c].stream
  PROVE  \E n \in 1..Chunk : Booking(c, n)
<1> DEFINE n == Least(r.left, Chunk)
           s == r.stream + StreamCost * n
           next == [r EXCEPT !.stage = "pacing", !.chunk = n, !.left = @ - n,
                             !.stream = s, !.wait = Most(s, link')]
<1>1. n \in 1..Chunk
  BY ShaperAssumption DEF Least, RequestType
<1>2. link' = link + TotalCost * n /\ link' \in Nat /\ s \in Nat
  <2>1. TotalCost * n \in Nat /\ StreamCost * n \in Nat
    BY <1>1, ShaperAssumption
  <2> QED BY <2>1 DEF Book, ShapedInv, RequestType
<1>3. conn'[c] = next
  BY DEF Book, ShapedInv
<1>4. Most(s, link') >= s /\ Most(s, link') >= link'
  BY <1>2 DEF Most
<1>5. next.stage = "pacing" /\ next.chunk = n /\ next.stream = s /\ next.wait = Most(s, link')
  BY DEF RequestType
<1> HIDE DEF next, n
<1> QED BY <1>1, <1>2, <1>3, <1>4, <1>5 DEF Booking

LEMMA ServeKinds ==
  ASSUME ShapedInv, NEW c \in Conns, Serve(c)
  PROVE  Kind(c) /\ \A d \in Conns \ {c} : conn'[d] = conn[d]
<1>0. conn \in [Conns -> RequestType] /\ conn[c] \in RequestType
  BY DEF ShapedInv
<1>1. ASSUME NEW r \in RequestType, conn' = [conn EXCEPT ![c] = r]
      PROVE  conn'[c] = r /\ \A d \in Conns \ {c} : conn'[d] = conn[d]
  BY <1>0, <1>1
<1>2. ASSUME NEW shaped \in BOOLEAN, NEW d \in Delays, Accept(c, shaped, d)
      PROVE  Kind(c) /\ \A e \in Conns \ {c} : conn'[e] = conn[e]
  <2>1. /\ conn[c].stage \in {"idle", "over"} /\ link' = link
        /\ conn'[c].stage \in {"delaying", "app"} /\ conn'[c].stream = 0
    BY <1>0, <1>2 DEF Accept, NoRequest
  <2> QED BY <1>0, <1>2, <2>1 DEF Kind, Resting, Begins, Accept
<1>3. CASE Admit(c)
  <2> DEFINE r == IF conn[c].number \in Faults THEN Refusal(conn[c])
                  ELSE [conn[c] EXCEPT !.stage = "app"]
  <2>1. conn[c].stage = "delaying" /\ link' = link /\ conn' = [conn EXCEPT ![c] = r]
    BY <1>0, <1>3 DEF Admit
  <2>2. r.stage \in {"sending", "app"} /\ r.stream = conn[c].stream
    BY <1>0 DEF Refusal, Hand, RequestType
  <2> HIDE DEF r
  <2> QED BY <1>0, <2>1, <2>2 DEF Kind, Resting
<1>4. ASSUME NEW n \in Lengths, NEW more \in BOOLEAN, Produce(c, n, more)
      PROVE  Kind(c) /\ \A e \in Conns \ {c} : conn'[e] = conn[e]
  <2> DEFINE r == [conn[c] EXCEPT !.more = more, !.messages = @ + 1]
             booking == [r EXCEPT !.left = n]
  <2>1. n \in Nat /\ conn[c].stage = "app"
    BY <1>4, ShaperAssumption DEF Produce
  <2>2. CASE Paced(c) /\ n > 0
    <3>1. Book(c, booking)
      BY <1>4, <2>2 DEF Produce
    <3>2. booking \in RequestType /\ booking.left = n /\ booking.stream = conn[c].stream
      <4>1. conn[c].messages + 1 \in Nat
        BY <1>0 DEF RequestType
      <4> QED BY <1>0, <2>1, <4>1 DEF RequestType
    <3>3. \A e \in Conns \ {c} : conn'[e] = conn[e]
      BY <1>0, <3>1 DEF Book
    <3> HIDE DEF booking
    <3> QED BY <2>1, <2>2, <3>1, <3>2, <3>3, BookKind DEF Kind
  <2>3. CASE ~(Paced(c) /\ n > 0)
    <3>1. link' = link /\ conn' = [conn EXCEPT ![c] = Hand(r, n, more)]
      BY <1>4, <2>3 DEF Produce
    <3>2. Hand(r, n, more).stage = "sending" /\ Hand(r, n, more).stream = conn[c].stream
      BY <1>0 DEF Hand, RequestType
    <3> HIDE DEF r
    <3> QED BY <1>0, <2>1, <3>1, <3>2 DEF Kind, Resting
  <2> QED BY <2>2, <2>3
<1>5. CASE Wake(c)
  <2> DEFINE r == Hand(conn[c], conn[c].chunk, conn[c].more \/ conn[c].left > 0)
  <2>1. /\ conn[c].stage = "pacing" /\ conn[c].wait = 0 /\ link' = link
        /\ conn' = [conn EXCEPT ![c] = r]
    BY <1>0, <1>5 DEF Wake
  <2>2. r.stage = "sending" /\ r.stream = conn[c].stream
    BY <1>0 DEF Hand, RequestType
  <2> HIDE DEF r
  <2> QED BY <1>0, <2>1, <2>2 DEF Kind, Ending
<1>6. CASE Sent(c)
  <2>1. CASE conn[c].left > 0
    <3>1. Book(c, conn[c]) /\ conn[c].stage = "sending"
      BY <1>6, <2>1 DEF Sent
    <3>2. \A e \in Conns \ {c} : conn'[e] = conn[e]
      BY <1>0, <3>1 DEF Book
    <3> QED BY <1>0, <2>1, <3>1, <3>2, BookKind DEF Kind
  <2>2. CASE ~(conn[c].left > 0)
    <3> DEFINE r == [conn[c] EXCEPT !.stage = IF conn[c].more THEN "app" ELSE "over"]
    <3>1. conn[c].stage = "sending" /\ link' = link /\ conn' = [conn EXCEPT ![c] = r]
      BY <1>0, <1>6, <2>2 DEF Sent
    <3>2. r.stage # "pacing" /\ r.stream = conn[c].stream
      BY <1>0 DEF RequestType
    <3> HIDE DEF r
    <3> QED BY <1>0, <3>1, <3>2 DEF Kind, Resting
  <2> QED BY <2>1, <2>2
<1>7. CASE Disconnect(c)
  <2> DEFINE r == [conn[c] EXCEPT !.gone = TRUE]
  <2>1. link' = link /\ conn' = [conn EXCEPT ![c] = r]
    BY <1>0, <1>7 DEF Disconnect
  <2>2. /\ r.stage = conn[c].stage /\ r.wait = conn[c].wait /\ r.chunk = conn[c].chunk
        /\ r.stream = conn[c].stream
    BY <1>0 DEF RequestType
  <2> HIDE DEF r
  <2> QED BY <1>0, <2>1, <2>2 DEF Kind, Resting, Staying
<1>8. CASE Cancel(c)
  <2> DEFINE r == [conn[c] EXCEPT !.stage = "over"]
  <2>1. link' = link /\ conn' = [conn EXCEPT ![c] = r]
    BY <1>0, <1>8 DEF Cancel
  <2>2. r.stage = "over" /\ r.stream = conn[c].stream
    BY <1>0 DEF RequestType
  <2> HIDE DEF r
  <2> QED BY <1>0, <2>1, <2>2 DEF Kind, Resting, Ending
<1> QED BY <1>2, <1>3, <1>4, <1>5, <1>6, <1>7, <1>8 DEF Serve, Run


\* What the watch makes of it
LEMMA NothingSent ==
  ASSUME WatchInv, \A d \in Conns : ~Sends(d), Observe
  PROVE  passed' = passed
<1>1. UnitsSent = {}
  BY DEF UnitsSent
<1>2. Cardinality(UnitsSent) = 0
  BY <1>1, FS_EmptySet
<1> QED BY <1>2 DEF Observe, WatchInv

LEMMA SeenBooking ==
  ASSUME WatchInv, NEW c \in Conns, NEW n \in 1..Chunk, Booking(c, n), Observe,
         \A d \in Conns \ {c} : conn'[d] = conn[d]
  PROVE  /\ booked' = IF watching THEN booked \cup {c} ELSE {}
         /\ c \notin booked /\ passed' = passed /\ own' = own
<1>1. c \notin booked /\ booked \subseteq Conns
  BY DEF WatchInv, Booking, Waiting
<1>2. \A d \in Conns : ~Sends(d) /\ ~Begins(d)
  BY DEF Sends, Begins, Booking, Waiting
<1>3. own' = own
  BY <1>2 DEF Observe, WatchInv
<1>4. \A d \in Conns : (Books(d) \/ (d \in booked /\ Waiting(d)')) <=> d \in booked \cup {c}
  BY <1>1 DEF Books, Waiting, Booking, WatchInv
<1>5. booked' = IF watching THEN booked \cup {c} ELSE {}
  BY <1>1, <1>4 DEF Observe, WatchInv
<1> QED BY <1>1, <1>2, <1>3, <1>5, NothingSent

LEMMA SeenEnding ==
  ASSUME ShapedInv, WatchInv, NEW c \in Conns, Ending(c), Observe,
         \A d \in Conns \ {c} : conn'[d] = conn[d]
  PROVE  LET sent == IF c \in booked /\ conn'[c].stage = "sending" THEN conn[c].chunk ELSE 0 IN
         /\ booked' = booked \ {c}
         /\ passed' = passed + sent
         /\ own' = [own EXCEPT ![c] = own[c] + sent]
<1> DEFINE sent == IF c \in booked /\ conn'[c].stage = "sending" THEN conn[c].chunk ELSE 0
<1>1. \A d \in Conns : ~Begins(d) /\ (Sends(d) <=> d = c /\ c \in booked /\ conn'[c].stage = "sending")
  BY DEF Sends, Begins, Ending, Waiting
<1>2. conn[c].chunk \in 1..Chunk
  BY DEF ShapedInv, Placed, Ending
<1>3. \A d \in Conns : own[d] \in Nat
  BY DEF WatchInv
<1>4. own' = [own EXCEPT ![c] = own[c] + sent]
  <2>1. own' = [d \in Conns |-> IF Sends(d) THEN own[d] + conn[d].chunk ELSE own[d]]
    BY <1>1 DEF Observe
  <2>2. \A d \in Conns : own'[d] = IF d = c THEN own[c] + sent ELSE own[d]
    BY <1>1, <1>3, <2>1
  <2>3. own \in [Conns -> Nat]
    BY DEF WatchInv
  <2> HIDE DEF sent
  <2> QED BY <2>1, <2>2, <2>3
<1>5. \A d \in Conns : (Books(d) \/ (d \in booked /\ Waiting(d)')) <=> d \in booked \ {c}
  BY DEF Books, Waiting, Ending, WatchInv
<1>6. booked' = booked \ {c}
  BY <1>5 DEF Observe, WatchInv
<1>7. Cardinality(UnitsSent) = sent
  <2>1. CASE c \in booked /\ conn'[c].stage = "sending"
    <3>1. UnitsSent = {c} \X (1..conn[c].chunk)
      BY <1>1, <1>2, <2>1, ShaperAssumption DEF UnitsSent
    <3>2. conn[c].chunk \in Nat
      BY <1>2, ShaperAssumption
    <3>3. Cardinality({c} \X (1..conn[c].chunk)) = conn[c].chunk
      BY <3>2, ChunkUnits
    <3> QED BY <2>1, <3>1, <3>3
  <2>2. CASE ~(c \in booked /\ conn'[c].stage = "sending")
    <3>1. UnitsSent = {}
      BY <1>1, <2>2 DEF UnitsSent
    <3>2. Cardinality(UnitsSent) = 0
      BY <3>1, FS_EmptySet
    <3>3. sent = 0
      BY <2>2
    <3> QED BY <3>2, <3>3
  <2> QED BY <2>1, <2>2
<1> HIDE DEF sent
<1>8. passed' = passed + sent
  BY <1>7 DEF Observe
<1> QED BY <1>4, <1>6, <1>8 DEF sent

LEMMA SeenOther ==
  ASSUME WatchInv, NEW c \in Conns, Resting(c) \/ Staying(c), Observe,
         \A d \in Conns \ {c} : conn'[d] = conn[d]
  PROVE  /\ booked' = booked /\ passed' = passed
         /\ own' = [own EXCEPT ![c] = IF Begins(c) THEN 0 ELSE own[c]]
<1>1. \A d \in Conns : ~Sends(d) /\ (Begins(d) => d = c)
  BY DEF Sends, Begins, Resting, Staying, Waiting
<1>2. own' = [own EXCEPT ![c] = IF Begins(c) THEN 0 ELSE own[c]]
  BY <1>1 DEF Observe, WatchInv
<1>3. \A d \in Conns : (Books(d) \/ (d \in booked /\ Waiting(d)')) <=> d \in booked
  BY DEF Books, Waiting, Resting, Staying, WatchInv
<1>4. booked' = booked
  BY <1>3 DEF Observe, WatchInv
<1> QED BY <1>1, <1>2, <1>4, NothingSent

\* A tick later every chunk waits on.
LEMMA SeenTick ==
  ASSUME ShapedInv, WatchInv, Tick, Observe
  PROVE  /\ booked' = booked /\ passed' = passed /\ own' = own
         /\ \A d \in Conns :
              /\ conn'[d].stage = conn[d].stage /\ conn'[d].chunk = conn[d].chunk
              /\ conn'[d].wait = Most(conn[d].wait - 1, 0)
              /\ conn'[d].stream = Most(conn[d].stream - 1, 0)
<1>1. ASSUME NEW d \in Conns
      PROVE  /\ conn'[d].stage = conn[d].stage /\ conn'[d].chunk = conn[d].chunk
             /\ conn'[d].wait = Most(conn[d].wait - 1, 0)
             /\ conn'[d].stream = Most(conn[d].stream - 1, 0)
  BY DEF Tick, ShapedInv, RequestType
<1>2. \A d \in Conns : ~Sends(d) /\ ~Begins(d) /\ ~Books(d) /\ (Waiting(d)' <=> Waiting(d))
  BY <1>1 DEF Sends, Begins, Books, Waiting
<1>3. own' = own
  BY <1>2 DEF Observe, WatchInv
<1>4. booked' = booked
  BY <1>2 DEF Observe, WatchInv
<1> QED BY <1>1, <1>2, <1>3, <1>4, NothingSent


LEMMA DueFinite ==
  /\ IsFiniteSet(AllDue) /\ Cardinality(AllDue) \in Nat
  /\ \A t \in Nat : /\ IsFiniteSet(Due(t)) /\ Cardinality(Due(t)) \in Nat
                    /\ Cardinality(Due(t)) <= Cardinality(AllDue)
<1>1. IsFiniteSet(Conns \X (1..Chunk))
  BY AllFinite
<1>2. AllDue \subseteq Conns \X (1..Chunk)
  BY DEF AllDue
<1>3. IsFiniteSet(AllDue) /\ Cardinality(AllDue) \in Nat
  BY <1>1, <1>2, FS_Subset, FS_CardinalityType
<1>4. ASSUME NEW t \in Nat
      PROVE  /\ IsFiniteSet(Due(t)) /\ Cardinality(Due(t)) \in Nat
             /\ Cardinality(Due(t)) <= Cardinality(AllDue)
  <2>1. Due(t) \subseteq AllDue
    BY DEF Due
  <2> QED BY <1>3, <2>1, FS_Subset, FS_CardinalityType
<1> QED BY <1>3, <1>4

\* Fewer units, sent sooner, are within the bound.
LEMMA FewerUnits ==
  ASSUME NEW a \in Nat, NEW b \in Nat, a <= b, NEW e \in Nat, TotalCost * b <= e
  PROVE  TotalCost * a <= e
<1>1. TotalCost * a <= TotalCost * b
  BY MoreUnits
<1>2. TotalCost * a \in Nat /\ TotalCost * b \in Nat
  BY ShaperAssumption
<1> QED BY <1>1, <1>2

LEMMA RateBooking ==
  ASSUME ShapedInv, WatchInv, RateInv, NEW c \in Conns, NEW n \in 1..Chunk, Booking(c, n),
         Observe, \A d \in Conns \ {c} : conn'[d] = conn[d], elapsed' = elapsed,
         ShapedInv', WatchInv'
  PROVE  RateInv'
<1>0. /\ elapsed \in Nat /\ passed \in Nat /\ link \in Nat /\ link' \in Nat
      /\ n \in Nat /\ TotalCost * n \in Nat /\ link' = link + TotalCost * n
      /\ conn'[c].wait \in Nat /\ conn'[c].wait >= link'
  BY ShaperAssumption DEF WatchInv, ShapedInv, RequestType, Booking
<1>1. passed' = passed /\ booked' = (IF watching THEN booked \cup {c} ELSE {}) /\ c \notin booked
  BY SeenBooking
<1>2. CASE ~watching
  <2>1. booked' = {} /\ passed' = 0
    BY <1>1, <1>2 DEF WatchInv
  <2>2. AllDue' = {} /\ \A t \in Nat : Due(t)' = {}
    BY <2>1 DEF AllDue, Due
  <2>3. Cardinality(AllDue') = 0 /\ \A t \in Nat : Cardinality(Due(t)') = 0
    BY <2>2, FS_EmptySet
  <2>4. TotalCost * (0 + 0) = 0
    BY ShaperAssumption
  <2> QED BY <1>0, <2>1, <2>3, <2>4 DEF RateInv
<1>3. CASE watching
  <2> DEFINE k == Cardinality(AllDue)
  <2>1. AllDue' = AllDue \cup ({c} \X (1..n)) /\ AllDue \cap ({c} \X (1..n)) = {}
    <3>1. \A u \in Conns \X (1..Chunk) :
            u \in AllDue' <=> IF u[1] = c THEN u[2] \in 1..n ELSE u \in AllDue
      BY <1>1, <1>3 DEF AllDue, Booking
    <3>2. \A u \in AllDue : u[1] # c
      BY <1>1 DEF AllDue
    <3>3. /\ AllDue' \subseteq Conns \X (1..Chunk) /\ AllDue \subseteq Conns \X (1..Chunk)
          /\ {c} \X (1..n) \subseteq Conns \X (1..Chunk)
      BY ShaperAssumption DEF AllDue
    <3>4. \A u \in Conns \X (1..Chunk) : u \in {c} \X (1..n) <=> u[1] = c /\ u[2] \in 1..n
      OBVIOUS
    <3> QED BY <3>1, <3>2, <3>3, <3>4
  <2>2. Cardinality(AllDue') = k + n /\ k \in Nat
    <3>1. IsFiniteSet({c} \X (1..n)) /\ Cardinality({c} \X (1..n)) = n
      BY <1>0, ChunkUnits
    <3>2. IsFiniteSet(AllDue) /\ k \in Nat
      BY DueFinite
    <3> QED BY <2>1, <3>1, <3>2, Disjoint
  <2>3. TotalCost * (passed + k) <= elapsed + link
    BY DEF RateInv
  <2> HIDE DEF k
  <2>4. /\ TotalCost * (passed + (k + n)) = TotalCost * (passed + k) + TotalCost * n
        /\ TotalCost * (passed + k) \in Nat
    BY <1>0, <2>2, ShaperAssumption
  <2>5. TotalCost * (passed + (k + n)) <= elapsed + link'
    BY <1>0, <2>3, <2>4
  <2>6. ASSUME NEW t \in Nat, t < conn'[c].wait
        PROVE  TotalCost * (passed + Cardinality(Due(t)')) <= elapsed + t
    <3>1. \A u \in AllDue' : u \in Due(t)' <=> u[1] # c /\ u \in Due(t)
      BY <1>0, <2>1, <2>6 DEF AllDue, Due
    <3>2. \A u \in Due(t) : u[1] # c /\ u \in AllDue'
      BY <1>1, <2>1 DEF Due, AllDue
    <3>3. Due(t)' = Due(t)
      BY <3>1, <3>2 DEF Due
    <3> QED BY <3>3 DEF RateInv
  <2>7. ASSUME NEW t \in Nat, ~(t < conn'[c].wait)
        PROVE  TotalCost * (passed + Cardinality(Due(t)')) <= elapsed + t
    <3> DEFINE l == Cardinality(Due(t)')
    <3>1. l \in Nat /\ l <= k + n
      <4>1. Due(t)' \subseteq AllDue'
        BY DEF Due
      <4>2. IsFiniteSet(AllDue')
        <5>1. AllDue' \subseteq Conns \X (1..Chunk)
          BY DEF AllDue
        <5> QED BY <5>1, AllFinite, FS_Subset
      <4> QED BY <2>2, <4>1, <4>2, FS_Subset, FS_CardinalityType
    <3> HIDE DEF l
    <3>2. TotalCost * (passed + (k + n)) <= elapsed + t
      <4>1. TotalCost * (passed + (k + n)) \in Nat
        BY <1>0, <2>2, ShaperAssumption
      <4> QED BY <4>1, <1>0, <2>5, <2>7
    <3>3. TotalCost * (passed + l) <= elapsed + t
      BY <3>1, <3>2, <1>0, <2>2, FewerUnits
    <3> QED BY <3>3 DEF l
  <2> QED BY <1>0, <1>1, <2>2, <2>5, <2>6, <2>7 DEF RateInv
<1> QED BY <1>2, <1>3

\* The units of a chunk that is sent go over from those that wait to those that passed.
LEMMA RateEnding ==
  ASSUME ShapedInv, WatchInv, RateInv, NEW c \in Conns, Ending(c), Observe,
         \A d \in Conns \ {c} : conn'[d] = conn[d], elapsed' = elapsed
  PROVE  RateInv'
<1> DEFINE n == conn[c].chunk
           sent == IF c \in booked /\ conn'[c].stage = "sending" THEN n ELSE 0
<1>0. /\ elapsed \in Nat /\ passed \in Nat /\ link \in Nat /\ link' = link
      /\ n \in 1..Chunk /\ n \in Nat
  BY ShaperAssumption DEF WatchInv, ShapedInv, Placed, Ending
<1>1. booked' = booked \ {c} /\ passed' = passed + sent
  BY SeenEnding
<1>2. AllDue' = {u \in AllDue : u[1] # c}
  BY <1>1 DEF AllDue
<1>3. \A t \in Nat : Due(t)' = {u \in Due(t) : u[1] # c}
  BY <1>1 DEF AllDue, Due
<1>4. ASSUME NEW S \in SUBSET (Conns \X (1..Chunk)), NEW R,
             R = {u \in S : u[1] # c},
             sent # 0 => {c} \X (1..n) \subseteq S
      PROVE  /\ Cardinality(R) \in Nat /\ Cardinality(S) \in Nat
             /\ Cardinality(R) + sent <= Cardinality(S)
  <2>1. IsFiniteSet(S) /\ IsFiniteSet(R)
    BY <1>4, AllFinite, FS_Subset
  <2>2. CASE sent = 0
    BY <1>4, <2>1, <2>2, FS_Subset, FS_CardinalityType
  <2>3. CASE sent # 0
    <3>1. IsFiniteSet({c} \X (1..n)) /\ Cardinality({c} \X (1..n)) = n
      BY <1>0, ChunkUnits
    <3>2. R \cap ({c} \X (1..n)) = {} /\ R \cup ({c} \X (1..n)) \subseteq S
      BY <1>4, <2>3
    <3>3. Cardinality(R \cup ({c} \X (1..n))) = Cardinality(R) + n
      BY <2>1, <3>1, <3>2, Disjoint
    <3>4. Cardinality(R \cup ({c} \X (1..n))) <= Cardinality(S)
      BY <2>1, <3>2, FS_Subset
    <3> QED BY <2>1, <2>3, <3>3, <3>4, FS_CardinalityType
  <2> QED BY <2>2, <2>3
<1>5. sent # 0 => {c} \X (1..n) \subseteq AllDue
  <2>1. sent # 0 => c \in booked
    OBVIOUS
  <2> QED BY <1>0, <2>1, ShaperAssumption DEF AllDue
<1>6. ASSUME NEW t \in Nat PROVE sent # 0 => {c} \X (1..n) \subseteq Due(t)
  <2>1. sent # 0 => conn[c].wait <= t
    BY DEF Ending
  <2> QED BY <1>5, <2>1 DEF Due
<1> HIDE DEF sent, n
<1>7. sent \in Nat
  BY <1>0 DEF sent
<1>8. TotalCost * (passed' + Cardinality(AllDue')) <= elapsed + link
  <2> DEFINE k == Cardinality(AllDue)
             l == Cardinality(AllDue')
  <2>1. AllDue \in SUBSET (Conns \X (1..Chunk))
    BY DEF AllDue
  <2>2. l \in Nat /\ k \in Nat /\ l + sent <= k
    BY <1>2, <1>4, <1>5, <2>1
  <2>3. TotalCost * (passed + k) <= elapsed + link
    BY DEF RateInv
  <2> HIDE DEF k, l
  <2>4. passed' + l \in Nat /\ passed' + l <= passed + k
    BY <1>0, <1>1, <1>7, <2>2
  <2>5. TotalCost * (passed' + l) <= elapsed + link
    BY <1>0, <2>2, <2>3, <2>4, FewerUnits
  <2> QED BY <2>5 DEF l
<1>9. ASSUME NEW t \in Nat
      PROVE  TotalCost * (passed' + Cardinality(Due(t)')) <= elapsed + t
  <2> DEFINE k == Cardinality(Due(t))
             l == Cardinality(Due(t)')
  <2>1. Due(t) \in SUBSET (Conns \X (1..Chunk)) /\ Due(t)' = {u \in Due(t) : u[1] # c}
    BY <1>3 DEF AllDue, Due
  <2>2. l \in Nat /\ k \in Nat /\ l + sent <= k
    BY <1>4, <1>6, <2>1
  <2>3. TotalCost * (passed + k) <= elapsed + t
    BY DEF RateInv
  <2> HIDE DEF k, l
  <2>4. passed' + l \in Nat /\ passed' + l <= passed + k
    BY <1>0, <1>1, <1>7, <2>2
  <2>5. TotalCost * (passed' + l) <= elapsed + t
    BY <1>0, <2>2, <2>3, <2>4, FewerUnits
  <2> QED BY <2>5 DEF l
<1> QED BY <1>0, <1>8, <1>9 DEF RateInv

LEMMA RateOther ==
  ASSUME WatchInv, RateInv, NEW c \in Conns, Resting(c) \/ Staying(c), Observe,
         \A d \in Conns \ {c} : conn'[d] = conn[d], elapsed' = elapsed
  PROVE  RateInv'
<1>1. booked' = booked /\ passed' = passed /\ link' = link
  BY SeenOther DEF Resting, Staying
<1>2. \A d \in booked : conn'[d].wait = conn[d].wait /\ conn'[d].chunk = conn[d].chunk
  BY DEF WatchInv, Waiting, Resting, Staying
<1>3. AllDue' = AllDue
  BY <1>1, <1>2 DEF AllDue
<1>4. \A t \in Nat : Due(t)' = Due(t)
  <2>1. \A u \in AllDue : u[1] \in booked
    BY DEF AllDue
  <2> QED BY <1>2, <1>3, <2>1 DEF Due
<1> QED BY <1>1, <1>3, <1>4 DEF RateInv

\* A tick later what was due within a tick more is due.
LEMMA RateTick ==
  ASSUME ShapedInv, WatchInv, RateInv, Tick, Observe,
         elapsed' = IF watching THEN elapsed + 1 ELSE 0
  PROVE  RateInv'
<1>0. /\ elapsed \in Nat /\ passed \in Nat /\ link \in Nat
      /\ link' = Most(link - 1, 0)
  BY DEF WatchInv, ShapedInv, Tick, LinkLater
<1>1. /\ booked' = booked /\ passed' = passed
      /\ \A d \in Conns : /\ conn'[d].chunk = conn[d].chunk
                          /\ conn'[d].wait = Most(conn[d].wait - 1, 0)
  BY SeenTick
<1>2. AllDue' = AllDue
  BY <1>1 DEF AllDue
<1>3. ASSUME NEW t \in Nat PROVE Due(t)' = Due(t + 1)
  <2>1. \A d \in Conns : conn[d].wait \in Nat
    BY DEF ShapedInv, RequestType
  <2>2. \A d \in Conns : conn'[d].wait <= t <=> conn[d].wait <= t + 1
    BY <1>1, <2>1 DEF Most
  <2>3. \A u \in AllDue : u[1] \in Conns
    BY DEF AllDue
  <2> QED BY <1>2, <2>2, <2>3 DEF Due
<1>4. CASE watching
  <2>1. elapsed' = elapsed + 1
    BY <1>4
  <2>2. ASSUME NEW t \in Nat
        PROVE  TotalCost * (passed' + Cardinality(Due(t)')) <= elapsed' + t
    <3>1. TotalCost * (passed + Cardinality(Due(t + 1))) <= elapsed + (t + 1)
      BY DEF RateInv
    <3> QED BY <1>0, <1>1, <1>3, <2>1, <3>1
  <2>3. TotalCost * (passed' + Cardinality(AllDue')) <= elapsed' + link'
    <3>1. elapsed + link <= elapsed' + link'
      BY <1>0, <2>1 DEF Most
    <3>2. TotalCost * (passed + Cardinality(AllDue)) \in Nat
      BY <1>0, DueFinite, ShaperAssumption
    <3>3. TotalCost * (passed + Cardinality(AllDue)) <= elapsed + link
      BY DEF RateInv
    <3>4. elapsed' + link' \in Nat
      BY <1>0, <2>1 DEF Most
    <3> QED BY <1>0, <1>1, <1>2, <3>1, <3>2, <3>3, <3>4
  <2> QED BY <2>2, <2>3 DEF RateInv
<1>5. CASE ~watching
  <2>1. booked = {} /\ passed' = 0 /\ elapsed' = 0
    BY <1>1, <1>5 DEF WatchInv
  <2>2. AllDue' = {} /\ \A t \in Nat : Due(t)' = {}
    BY <1>1, <2>1 DEF AllDue, Due
  <2>3. Cardinality(AllDue') = 0 /\ \A t \in Nat : Cardinality(Due(t)') = 0
    BY <2>2, FS_EmptySet
  <2>4. TotalCost * (0 + 0) = 0 /\ link' \in Nat
    BY <1>0, ShaperAssumption DEF Most
  <2> QED BY <2>1, <2>3, <2>4 DEF RateInv
<1> QED BY <1>4, <1>5


LEMMA MoreOwn ==
  ASSUME NEW a \in Nat, NEW b \in Nat
  PROVE  /\ StreamCost * a \in Nat /\ StreamCost * (a + b) \in Nat
         /\ StreamCost * (a + b) = StreamCost * a + StreamCost * b
         /\ StreamCost * a <= StreamCost * (a + b)
<1>1. StreamCost * a \in Nat /\ StreamCost * b \in Nat
  BY ShaperAssumption
<1>2. StreamCost * (a + b) = StreamCost * a + StreamCost * b
  BY ShaperAssumption
<1> QED BY <1>1, <1>2

LEMMA OwnOthers ==
  ASSUME NEW d \in Conns, Kept(d), own'[d] = own[d], conn'[d] = conn[d], elapsed' = elapsed,
         d \in booked' <=> d \in booked
  PROVE  Kept(d)'
BY DEF Kept, Ahead

LEMMA OwnStep ==
  ASSUME ShapedInv, WatchInv, OwnInv, NEW c \in Conns, Kind(c), Observe,
         \A d \in Conns \ {c} : conn'[d] = conn[d], elapsed' = elapsed, ShapedInv'
  PROVE  OwnInv'
<1> SUFFICES \A d \in Conns : Kept(d)'
  BY DEF OwnInv
<1>0. /\ elapsed \in Nat /\ own \in [Conns -> Nat] /\ own[c] \in Nat
      /\ conn[c].stream \in Nat /\ conn[c].wait \in Nat /\ conn[c].chunk \in Nat
      /\ conn'[c].stream \in Nat /\ conn'[c].wait \in Nat
      /\ booked \subseteq Conns
  BY DEF WatchInv, ShapedInv, RequestType
<1>1. \A d \in Conns : Kept(d)
  BY DEF OwnInv
<1>2. /\ StreamCost * own[c] \in Nat /\ StreamCost * 0 = 0
  BY <1>0, ShaperAssumption
<1>3. ASSUME NEW n \in 1..Chunk, Booking(c, n) PROVE \A d \in Conns : Kept(d)'
  <2>1. /\ booked' = (IF watching THEN booked \cup {c} ELSE {})
        /\ c \notin booked /\ own' = own
    BY <1>3, SeenBooking
  <2>2. n \in Nat /\ StreamCost * (own[c] + n) = StreamCost * own[c] + StreamCost * n
        /\ StreamCost * n \in Nat
    BY <1>0, MoreOwn, ShaperAssumption
  <2>3. StreamCost * own[c] <= elapsed /\ StreamCost * (own[c] + 0) <= elapsed + conn[c].stream
    BY <1>1, <2>1 DEF Kept, Ahead
  <2>4. StreamCost * (own[c] + 0) = StreamCost * own[c]
    BY <1>0
  <2>5. Ahead(c)' = IF watching THEN n ELSE 0
    BY <1>3, <2>1 DEF Ahead, Booking
  <2>6. StreamCost * (own[c] + n) <= elapsed + conn'[c].stream
    BY <1>0, <1>2, <1>3, <2>2, <2>3, <2>4 DEF Booking
  <2>7. StreamCost * (own[c] + n) <= elapsed + conn'[c].wait
    <3>1. conn'[c].wait >= conn'[c].stream
      BY <1>3 DEF Booking
    <3>2. StreamCost * (own[c] + n) \in Nat
      BY <1>0, <2>2, MoreOwn
    <3> QED BY <1>0, <2>6, <3>1, <3>2
  <2>8. StreamCost * (own[c] + 0) <= elapsed + conn'[c].stream
    BY <1>0, <1>2, <2>3, <2>4
  <2>9. Kept(c)'
    BY <2>1, <2>3, <2>5, <2>6, <2>7, <2>8 DEF Kept
  <2>10. ASSUME NEW d \in Conns, d # c PROVE Kept(d)'
    <3>1. CASE watching
      BY <1>1, <2>1, <2>10, <3>1, OwnOthers
    <3>2. CASE ~watching
      BY <1>1, <2>1, <2>10, <3>2, OwnOthers DEF WatchInv
    <3> QED BY <3>1, <3>2
  <2> QED BY <2>9, <2>10
<1>4. CASE Ending(c)
  <2> DEFINE sent == IF c \in booked /\ conn'[c].stage = "sending" THEN conn[c].chunk ELSE 0
  <2>1. booked' = booked \ {c} /\ own' = [own EXCEPT ![c] = own[c] + sent]
    BY <1>4, SeenEnding
  <2>2. own'[c] = own[c] + sent /\ \A d \in Conns \ {c} : own'[d] = own[d]
    BY <1>0, <2>1
  <2>3. Ahead(c)' = 0
    BY <2>1 DEF Ahead
  <2>4. sent = 0 \/ (c \in booked /\ sent = Ahead(c) /\ conn[c].wait = 0)
    BY <1>4 DEF Ahead, Ending
  <2>5. sent \in Nat
    BY <1>0
  <2> HIDE DEF sent
  <2>6. StreamCost * (own[c] + sent) <= elapsed
    <3>1. CASE sent = 0
      BY <1>0, <1>1, <3>1 DEF Kept
    <3>2. CASE sent # 0
      BY <1>0, <1>1, <2>4, <3>2 DEF Kept
    <3> QED BY <3>1, <3>2
  <2>7. (own[c] + sent) + 0 = own[c] + sent /\ StreamCost * (own[c] + sent) \in Nat
    <3>1. StreamCost * (own[c] + sent) \in Nat
      BY <1>0, <2>5, MoreOwn
    <3> QED BY <1>0, <2>5, <3>1
  <2>8. Kept(c)'
    <3>1. StreamCost * (own[c] + sent) <= elapsed + conn'[c].stream
      BY <1>0, <2>6, <2>7
    <3>2. own'[c] + Ahead(c)' = own[c] + sent /\ own'[c] = own[c] + sent /\ c \notin booked'
      BY <2>1, <2>2, <2>3, <2>7
    <3> QED BY <2>6, <3>1, <3>2 DEF Kept
  <2>9. ASSUME NEW d \in Conns, d # c PROVE Kept(d)'
    BY <1>1, <2>1, <2>2, <2>9, OwnOthers
  <2> QED BY <2>8, <2>9
<1>5. CASE Resting(c) \/ Staying(c)
  <2>1. booked' = booked /\ own' = [own EXCEPT ![c] = IF Begins(c) THEN 0 ELSE own[c]]
    BY <1>5, SeenOther
  <2>2. /\ own'[c] = IF Begins(c) THEN 0 ELSE own[c]
        /\ \A d \in Conns \ {c} : own'[d] = own[d]
    BY <1>0, <2>1
  <2>3. CASE Begins(c)
    <3>1. c \notin booked' /\ Ahead(c)' = 0 /\ own'[c] = 0
      BY <2>1, <2>2, <2>3 DEF Begins, Ahead, WatchInv, Waiting
    <3>2. 0 <= elapsed /\ 0 <= elapsed + conn'[c].stream /\ 0 + 0 = 0
      BY <1>0
    <3>3. Kept(c)'
      BY <1>2, <3>1, <3>2 DEF Kept
    <3> QED BY <1>1, <2>1, <2>2, <3>3, OwnOthers
  <2>4. CASE ~Begins(c)
    <3>1. own'[c] = own[c] /\ conn'[c].stream = conn[c].stream
      BY <1>5, <2>2, <2>4 DEF Resting, Staying
    <3>2. c \in booked => conn'[c].wait = conn[c].wait /\ conn'[c].chunk = conn[c].chunk
      BY <1>5 DEF Resting, Staying, WatchInv, Waiting
    <3>3. Kept(c)'
      BY <1>1, <2>1, <3>1, <3>2 DEF Kept, Ahead
    <3> QED BY <1>1, <2>1, <2>2, <3>3, OwnOthers
  <2> QED BY <2>3, <2>4
<1> QED BY <1>3, <1>4, <1>5 DEF Kind

LEMMA OwnTick ==
  ASSUME ShapedInv, WatchInv, OwnInv, Tick, Observe,
         elapsed' = IF watching THEN elapsed + 1 ELSE 0
  PROVE  OwnInv'
<1>1. /\ booked' = booked /\ own' = own
      /\ \A d \in Conns : /\ conn'[d].chunk = conn[d].chunk
                          /\ conn'[d].wait = Most(conn[d].wait - 1, 0)
                          /\ conn'[d].stream = Most(conn[d].stream - 1, 0)
  BY SeenTick
<1> SUFFICES ASSUME NEW c \in Conns PROVE Kept(c)'
  BY DEF OwnInv
<1>2. /\ elapsed \in Nat /\ own[c] \in Nat /\ Ahead(c) \in Nat
      /\ conn[c].wait \in Nat /\ conn[c].stream \in Nat
  BY DEF WatchInv, ShapedInv, RequestType, Ahead
<1>3. Ahead(c)' = Ahead(c) /\ own'[c] = own[c] /\ (c \in booked' <=> c \in booked)
  BY <1>1 DEF Ahead
<1>4. CASE watching
  <2>1. /\ elapsed <= elapsed'
        /\ elapsed + conn[c].stream <= elapsed' + conn'[c].stream
        /\ elapsed + conn[c].wait <= elapsed' + conn'[c].wait
        /\ elapsed' \in Nat /\ conn'[c].stream \in Nat /\ conn'[c].wait \in Nat
    BY <1>1, <1>2, <1>4 DEF Most
  <2>2. StreamCost * own[c] \in Nat /\ StreamCost * (own[c] + Ahead(c)) \in Nat
    BY <1>2, MoreOwn
  <2>3. Kept(c)
    BY DEF OwnInv
  <2>4. StreamCost * own[c] <= elapsed'
    BY <1>2, <2>1, <2>2, <2>3 DEF Kept
  <2>5. StreamCost * (own[c] + Ahead(c)) <= elapsed' + conn'[c].stream
    BY <1>2, <2>1, <2>2, <2>3 DEF Kept
  <2>6. c \in booked => StreamCost * (own[c] + Ahead(c)) <= elapsed' + conn'[c].wait
    BY <1>2, <2>1, <2>2, <2>3 DEF Kept
  <2> QED BY <1>3, <2>4, <2>5, <2>6 DEF Kept
<1>5. CASE ~watching
  <2>1. own[c] = 0 /\ c \notin booked /\ Ahead(c) = 0 /\ elapsed' = 0
    BY <1>5 DEF WatchInv, Ahead
  <2>2. StreamCost * 0 = 0 /\ StreamCost * (0 + 0) = 0 /\ conn'[c].stream \in Nat
    BY <1>1, <1>2, ShaperAssumption DEF Most
  <2> QED BY <1>3, <2>1, <2>2 DEF Kept
<1> QED BY <1>4, <1>5


LEMMA WatchedInit == WatchInit => ShapedInv /\ WatchInv /\ RateInv /\ OwnInv
<1> SUFFICES ASSUME WatchInit PROVE ShapedInv /\ WatchInv /\ RateInv /\ OwnInv
  OBVIOUS
<1>1. ShapedInv
  BY ShapedInit DEF WatchInit
<1>2. WatchInv
  BY DEF WatchInit, WatchInv
<1>3. RateInv
  <2>1. AllDue = {} /\ \A t \in Nat : Due(t) = {}
    BY DEF WatchInit, AllDue, Due
  <2>2. Cardinality(AllDue) = 0 /\ \A t \in Nat : Cardinality(Due(t)) = 0
    BY <2>1, FS_EmptySet
  <2>3. TotalCost * (0 + 0) = 0
    BY ShaperAssumption
  <2> QED BY <2>2, <2>3, <1>1 DEF WatchInit, RateInv, ShapedInv
<1>4. OwnInv
  <2>1. StreamCost * 0 = 0 /\ StreamCost * (0 + 0) = 0
    BY ShaperAssumption
  <2>2. \A c \in Conns : own[c] = 0 /\ Ahead(c) = 0 /\ c \notin booked /\ conn[c].stream \in Nat
    BY <1>1 DEF WatchInit, Ahead, ShapedInv, RequestType
  <2> QED BY <2>1, <2>2 DEF WatchInit, OwnInv, Kept
<1> QED BY <1>1, <1>2, <1>3, <1>4

LEMMA WatchedStep ==
  ShapedInv /\ WatchInv /\ RateInv /\ OwnInv /\ [WatchedNext]_<<shaperVars, watchVars>>
    => (ShapedInv /\ WatchInv /\ RateInv /\ OwnInv)'
<1> SUFFICES ASSUME ShapedInv, WatchInv, RateInv, OwnInv,
                    [WatchedNext]_<<shaperVars, watchVars>>
             PROVE  (ShapedInv /\ WatchInv /\ RateInv /\ OwnInv)'
  OBVIOUS
<1>1. ShapedInv'
  <2>1. [Next]_shaperVars
    BY DEF WatchedNext, Watch, Next, shaperVars
  <2> QED BY <2>1, ShapedStep
<1>2. CASE Watch \/ UNCHANGED <<shaperVars, watchVars>>
  <2>1. /\ conn' = conn /\ link' = link /\ elapsed' = elapsed /\ passed' = passed
        /\ own' = own /\ booked' = booked /\ watching' \in {TRUE, watching}
    BY <1>2 DEF Watch, shaperVars, watchVars
  <2>2. WatchInv'
    BY <1>2, <2>1 DEF WatchInv, Watch, Waiting, watchVars
  <2>3. RateInv'
    BY <2>1 DEF RateInv, AllDue, Due
  <2>4. OwnInv'
    BY <2>1 DEF OwnInv, Kept, Ahead
  <2> QED BY <1>1, <2>2, <2>3, <2>4
<1>3. ASSUME NEW c \in Conns, Serve(c), Observe, elapsed' = elapsed
      PROVE  WatchInv' /\ RateInv' /\ OwnInv'
  <2>1. Kind(c) /\ \A d \in Conns \ {c} : conn'[d] = conn[d]
    BY <1>3, ServeKinds
  <2>2. /\ elapsed \in Nat /\ passed \in Nat /\ own \in [Conns -> Nat]
        /\ conn[c].chunk \in Nat /\ watching \in BOOLEAN /\ watching' = watching
        /\ booked \subseteq {d \in Conns : conn[d].stage = "pacing"}
        /\ ~watching => /\ elapsed = 0 /\ passed = 0 /\ booked = {}
                        /\ \A d \in Conns : own[d] = 0
    BY <1>3 DEF Observe, WatchInv, ShapedInv, RequestType, Waiting
  <2>3. ASSUME NEW n \in 1..Chunk, Booking(c, n) PROVE WatchInv' /\ RateInv'
    <3>1. /\ booked' = (IF watching THEN booked \cup {c} ELSE {})
          /\ passed' = passed /\ own' = own
      BY <1>3, <2>1, <2>3, SeenBooking
    <3>2. WatchInv'
      BY <1>3, <2>1, <2>2, <2>3, <3>1 DEF WatchInv, Waiting, Booking
    <3> QED BY <1>1, <1>3, <2>1, <2>3, <3>2, RateBooking
  <2>4. ASSUME Ending(c) PROVE WatchInv' /\ RateInv'
    <3> DEFINE sent == IF c \in booked /\ conn'[c].stage = "sending" THEN conn[c].chunk ELSE 0
    <3>1. /\ booked' = booked \ {c} /\ passed' = passed + sent
          /\ own' = [own EXCEPT ![c] = own[c] + sent]
      BY <1>3, <2>1, <2>4, SeenEnding
    <3>2. sent \in Nat /\ (~watching => sent = 0)
      BY <2>2
    <3> HIDE DEF sent
    <3>3. /\ passed' \in Nat /\ own' \in [Conns -> Nat]
          /\ ~watching => passed' = 0 /\ \A d \in Conns : own'[d] = 0
      BY <2>2, <3>1, <3>2
    <3>4. booked' \subseteq {d \in Conns : Waiting(d)'}
      BY <2>1, <2>2, <3>1 DEF Waiting
    <3>5. WatchInv'
      BY <1>3, <2>2, <3>1, <3>3, <3>4 DEF WatchInv
    <3> QED BY <1>3, <2>1, <2>4, <3>5, RateEnding
  <2>5. ASSUME Resting(c) \/ Staying(c) PROVE WatchInv' /\ RateInv'
    <3>1. /\ booked' = booked /\ passed' = passed
          /\ own' = [own EXCEPT ![c] = IF Begins(c) THEN 0 ELSE own[c]]
      BY <1>3, <2>1, <2>5, SeenOther
    <3>2. /\ own' \in [Conns -> Nat]
          /\ ~watching => \A d \in Conns : own'[d] = 0
      BY <2>2, <3>1
    <3>3. booked' \subseteq {d \in Conns : Waiting(d)'}
      BY <2>1, <2>2, <2>5, <3>1 DEF Waiting, Resting, Staying
    <3>4. WatchInv'
      BY <1>3, <2>2, <3>1, <3>2, <3>3 DEF WatchInv
    <3> QED BY <1>3, <2>1, <2>5, <3>4, RateOther
  <2> QED BY <1>1, <1>3, <2>1, <2>3, <2>4, <2>5, OwnStep DEF Kind
<1>4. ASSUME Tick, Observe, elapsed' = IF watching THEN elapsed + 1 ELSE 0
      PROVE  WatchInv' /\ RateInv' /\ OwnInv'
  <2>1. /\ booked' = booked /\ passed' = passed /\ own' = own
        /\ \A d \in Conns : conn'[d].stage = conn[d].stage
    BY <1>4, SeenTick
  <2>2. watching' = watching
    BY <1>4 DEF Observe
  <2>3. WatchInv'
    BY <1>4, <2>1, <2>2 DEF WatchInv, Waiting
  <2> QED BY <1>4, <2>3, RateTick, OwnTick
<1> QED BY <1>1, <1>2, <1>3, <1>4 DEF WatchedNext

\* Between any two moments the responses together send no more of what is booked
\* between them than the link's rate allows, for any number of responses, any rates
\* and messages: each chunk waits for its own share of the link and of no other's.
THEOREM LinkRateKept == WatchedSpec => []LinkKept
<1>1. WatchInv /\ RateInv => LinkKept
  <2> SUFFICES ASSUME WatchInv, RateInv PROVE LinkKept
    OBVIOUS
  <2> DEFINE k == Cardinality(Due(0))
  <2>1. k \in Nat /\ passed \in Nat /\ elapsed \in Nat
    BY DueFinite DEF WatchInv
  <2>2. TotalCost * (passed + k) <= elapsed + 0
    BY DEF RateInv
  <2> HIDE DEF k
  <2>3. passed + k \in Nat /\ passed <= passed + k
    BY <2>1
  <2>4. TotalCost * passed <= elapsed
    BY <2>1, <2>2, <2>3, FewerUnits
  <2> QED BY <2>4 DEF LinkKept
<1> QED BY <1>1, WatchedInit, WatchedStep, PTL DEF WatchedSpec

\* The same of each response and its own rate, which no other response uses up.
THEOREM StreamRateKept == WatchedSpec => []StreamKept
<1>1. OwnInv => StreamKept
  BY DEF OwnInv, Kept, StreamKept
<1> QED BY <1>1, WatchedInit, WatchedStep, PTL DEF WatchedSpec
=============================================================================
