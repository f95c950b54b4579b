---------------------------- MODULE EvictionOrder ----------------------------
(***************************************************************************)
(* Which entries the cache gives up when it is full.  The cache of         *)
(* ObjectCache, watched: two histories say of the cached keys which was    *)
(* used before which, and the properties compare what is evicted with      *)
(* them.  The cache itself never reads the histories.                      *)
(***************************************************************************)
EXTENDS ObjectCache

VARIABLES dataUse,   \* the pairs of keys of data of which the first was last used before the second
          headUse    \* the same of heads

watched == <<vars, dataUse, headUse>>

\* The threads (one, or none) whose step answers from the data or the heads or stores there
UsingData == {t \in Threads : call[t].pc \in {"lookup", "keep"} /\ call'[t].pc = "done"}
UsingHeads == {t \in Threads : call[t].pc \in {"head", "headkeep"}
                                 /\ call'[t].pc \in {"done", "load", "loadrange"}}
KeysOf(T) == {call[t].key : t \in T}

\* The order of use of the keys that are in d after a step in which the keys in now
\* were used: those come behind all others.
AfterUse(use, now, d) ==
  {p \in (DOMAIN d.at) \X (DOMAIN d.at) : p[1] \notin now /\ (p[2] \in now \/ p \in use)}

WatchedInit == Init /\ dataUse = {} /\ headUse = {}
WatchedNext == /\ Next
               /\ dataUse' = AfterUse(dataUse, KeysOf(UsingData), data')
               /\ headUse' = AfterUse(headUse, KeysOf(UsingHeads), heads')
WatchedSpec == WatchedInit /\ [][WatchedNext]_watched
-----------------------------------------------------------------------------
\* The entries a store pushes out of dictionary d were used less recently than
\* every entry that stays; those used in this step are the most recent.
LeastRecent(use, d, now) ==
  \A out \in DOMAIN d.at \ DOMAIN d'.at, stays \in DOMAIN d'.at \ now : <<out, stays>> \in use

\* When objects are evicted for room, the ones least recently read or stored go
\* first: the order the dictionary is kept in is the order of use, whatever the
\* interleaving of hits, stores and expiries.
DataEvictedByUse ==
  [][(\E t \in Threads : call[t].pc = "keep" /\ call'[t].pc = "done")
       => LeastRecent(dataUse, data, KeysOf(UsingData))]_watched

\* The same of the metadata, which cache.py's first line promises: "LRU cache of
\* object bytes and metadata".
HeadsEvictedByUse ==
  [][(\E t \in Threads : call[t].pc = "headkeep" /\ call'[t].pc # "headkeep")
       => LeastRecent(headUse, heads, KeysOf(UsingHeads))]_watched
=============================================================================
