----------------------------- MODULE MCListener -----------------------------
(* Listener for TLC: three clients of inbound a and one of b, which has    *)
(* XHTTP.                                                                  *)
EXTENDS Listener

CONSTANTS a, b

MCClients == 1..4
MCInboundOf == [c \in MCClients |-> IF c = 4 THEN b ELSE a]
=============================================================================
