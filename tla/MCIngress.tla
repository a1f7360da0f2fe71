----------------------------- MODULE MCIngress -----------------------------
(* Clients for Ingress: with and without a header (three bytes, two of     *)
(* them the signature, or malformed), a ClientHello of three bytes (two of *)
(* them the record header) that authenticates or does not, one that is     *)
(* announced longer than it is sent, other data, and data that follows.    *)
EXTENDS Ingress

Client == [pp : BOOLEAN, reality : BOOLEAN, hdr : {0, 3}, sig : {0, 2}, good : BOOLEAN,
           tls : BOOLEAN, rec : {3, 5}, auth : BOOLEAN, len : {3, 6, 7}]

MCPlans == {p \in Client : /\ (p.hdr = 0) <=> (p.sig = 0)
                           /\ p.hdr = 0 => p.good /\ p.len < 7
                           /\ p.hdr > 0 => p.len > 3
                           /\ ~p.tls => ~p.auth /\ p.rec = 3
                           /\ ~p.reality => ~p.tls}
=============================================================================
