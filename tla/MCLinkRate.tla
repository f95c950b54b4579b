------------------------------ MODULE MCLinkRate ------------------------------
(* Two connections over one shaped link that is watched, for TLC.          *)
EXTENDS LinkRate, TLC

CONSTANTS c1, c2

TwoConns == {c1, c2}

\* Bodies of a short chunk, alone and after one and two full ones
SomeLengths == {1, 3, 5}
NoFaults == {}
AtOnce == {0}
Alike == Permutations(Conns)
=============================================================================
