--------------------------- MODULE MCXhttpSession ---------------------------
(* Instances of XhttpSession for TLC. *)
EXTENDS XhttpSession

CONSTANTS k1, g1, g2, p1, p2

\* Every request uses one path: a client that reconnects to its session.
SharedPath == [r \in Gets \cup Posts |-> k1]
=============================================================================
