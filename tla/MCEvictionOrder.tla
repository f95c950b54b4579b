--------------------------- MODULE MCEvictionOrder ---------------------------
(* Caches with more keys than room, for TLC.                               *)
EXTENDS EvictionOrder, TLC

CONSTANTS small, small2, none, error, k1, k2, k3, k4, k5, k6, t1, t2

OneObject == {small}
OneSize == small :> 1
\* Objects of one and two bytes, so that one store may evict two entries
TwoObjects == {small, small2}
TwoSizes == small :> 1 @@ small2 :> 2
ThreeKeys == {k1, k2, k3}
SixKeys == {k1, k2, k3, k4, k5, k6}
OneThread == {t1}
TwoThreads == {t1, t2}
GetOnly == {"get"}
HeadOnly == {"head"}

\* Two objects of one byte and the others of two
SizedInit == WatchedInit /\ store = [k \in Keys |-> IF k \in {k1, k2} THEN small ELSE small2]
SizedSpec == SizedInit /\ [][WatchedNext]_watched

\* Keys of objects of one size are alike, and so are threads.
SizedAlike == Permutations({k1, k2}) \cup Permutations(Keys \ {k1, k2})
                \cup Permutations(Threads)
Alike == Permutations(Keys) \cup Permutations(Threads)
=============================================================================
