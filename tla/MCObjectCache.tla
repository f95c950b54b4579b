---------------------------- MODULE MCObjectCache ----------------------------
(* One key that several threads read while it changes, for TLC.            *)
EXTENDS ObjectCache, TLC

CONSTANTS small, small2, large, none, error, k1, t1, t2

\* Two objects that are cached and one larger than a quarter of the cache
ThreeObjects == {small, small2, large}
ThreeSizes == small :> 1 @@ small2 :> 1 @@ large :> 2

OneKey == {k1}
TwoThreads == {t1, t2}
=============================================================================
