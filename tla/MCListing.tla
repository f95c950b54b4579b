------------------------------ MODULE MCListing ------------------------------
(* a, b/x, b/y, c and d/z, listed with the delimiter "/", for TLC.         *)
EXTENDS Listing

\* 1 a, 2 b/, 3 b/x, 4 b/y, 5 c, 6 d/, 7 d/z
SevenNames == 1..7
FiveKeys == {1, 3, 4, 5, 7}
Grouped == [k \in FiveKeys |-> CASE k \in {3, 4} -> 2 [] k = 7 -> 6 [] OTHER -> 0]
Directory == [k \in FiveKeys |-> CASE k \in {3, 4} -> "b" [] k = 7 -> "d" [] OTHER -> "."]
\* None, one between the names of a prefix
NoneOrWithin == {0, 3}
\* Refused, nothing, one name, and more than there may be
SomeLimits == {-1, 0, 1, 3}
=============================================================================
