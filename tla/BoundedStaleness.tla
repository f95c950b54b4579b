-------------------------- MODULE BoundedStaleness --------------------------
(***************************************************************************)
(* What a reader is promised by a bucket behind a cache with a ttl, with   *)
(* no word of how the cache is built: a read answers with an object the    *)
(* bucket held during the read, or with one it held less than Bound ticks  *)
(* ago.  The absence of an object is only reported if the object really    *)
(* was absent during the read: a cache never remembers that.               *)
(***************************************************************************)
EXTENDS Integers

CONSTANTS Keys,      \* object keys, each with its bucket
          Threads,   \* the readers
          Objects,   \* the contents a key may have
          NoObject,  \* the key does not exist
          Error,     \* the read raised an exception
          Bound      \* how old an answer may be; 0 is for ever

VARIABLES store,     \* what the bucket holds
          lag,       \* ticks since the key last held the object; -1: it never did
          view       \* one read per reader: its stage, key, answer and what
                     \* the key held since it began

sVars == <<store, lag, view>>

Idle == [stage |-> "idle"]

Init == /\ store \in [Keys -> Objects \cup {NoObject}]
        /\ lag = [k \in Keys |-> [v \in Objects |-> IF v = store[k] THEN 0 ELSE -1]]
        /\ view = [t \in Threads |-> Idle]

Allowed(k, seen, v) ==
  \/ v = Error
  \/ v \in seen
  \/ /\ v \in Objects
     /\ lag[k][v] # -1
     /\ Bound = 0 \/ lag[k][v] < Bound

Change(k, v) ==
  /\ store' = [store EXCEPT ![k] = v]
  /\ lag' = [lag EXCEPT ![k] = [w \in Objects |-> IF w = v THEN 0 ELSE @[w]]]
  /\ view' = [t \in Threads |->
                IF view[t].stage = "open" /\ view[t].key = k
                  THEN [view[t] EXCEPT !.seen = @ \cup {v}]
                  ELSE view[t]]

Elapse ==
  /\ lag' = [k \in Keys |-> [v \in Objects |->
               IF lag[k][v] \in 0..Bound - 1 /\ store[k] # v
                 THEN lag[k][v] + 1 ELSE lag[k][v]]]
  /\ UNCHANGED <<store, view>>

Open(t, k) ==
  /\ view[t].stage = "idle"
  /\ view' = [view EXCEPT ![t] = [stage |-> "open", key |-> k, seen |-> {store[k]}]]
  /\ UNCHANGED <<store, lag>>

Answer(t, v) ==
  /\ view[t].stage = "open"
  /\ Allowed(view[t].key, view[t].seen, v)
  /\ view' = [view EXCEPT ![t] = [stage |-> "answered", key |-> @.key, answer |-> v]]
  /\ UNCHANGED <<store, lag>>

Close(t) ==
  /\ view[t].stage = "answered"
  /\ view' = [view EXCEPT ![t] = Idle]
  /\ UNCHANGED <<store, lag>>

Next ==
  \/ \E k \in Keys, v \in Objects \cup {NoObject} : Change(k, v)
  \/ Elapse
  \/ \E t \in Threads :
       \/ \E k \in Keys : Open(t, k)
       \/ \E v \in Objects \cup {NoObject, Error} : Answer(t, v)
       \/ Close(t)

Spec == Init /\ [][Next]_sVars
=============================================================================
