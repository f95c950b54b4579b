----------------------------- MODULE MCObjectApi -----------------------------
(* Requests for one key that changes between an empty, a small and a large *)
(* object.                                                                 *)
EXTENDS ObjectApi, TLC

CONSTANTS empty, small, large, none, error, k1, t1, t2

ThreeObjects == {empty, small, large}
ThreeSizes == empty :> 0 @@ small :> 1 @@ large :> 2

\* No header, a first byte, what follows it up to beyond the end, and a suffix
SomeRanges == {NoHeader, Header(0, 0), Header(1, 4), Header(Missing, 1)}

OneKey == {k1}
OneThread == {t1}
TwoThreads == {t1, t2}
HeadAndReads == {"get", "range", "head"}
Alike == Permutations(Threads)
=============================================================================
