---------------------------- MODULE MCTestServer ----------------------------
(* Two Servers, one on a port of its choice, and three starts, for TLC.    *)
EXTENDS TestServer, TLC

CONSTANTS s1, s2, p1, p2, any

TwoServers == {s1, s2}
TwoPorts == {p1, p2}
OneFixed == s1 :> p1 @@ s2 :> any
=============================================================================
