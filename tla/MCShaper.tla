------------------------------ MODULE MCShaper ------------------------------
(* Two connections over one shaped link, for TLC.                          *)
EXTENDS Shaper, TLC

CONSTANTS c1, c2

TwoConns == {c1, c2}

\* An empty message, one of a single chunk, and one of a full chunk and a short one
SomeLengths == {0, 1, 3}
\* Of the requests, the second is refused.
SecondFails == {2}
AtOnceOrLater == {0, 1}
=============================================================================
