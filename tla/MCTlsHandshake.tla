---------------------------- MODULE MCTlsHandshake ----------------------------
(***************************************************************************)
(* The configurations that meet.  Each plan is one to three connections;   *)
(* what changes between them is what makes a ticket stale, early data      *)
(* rejected, a retry necessary.                                            *)
(***************************************************************************)
EXTENDS TlsHandshake

C0 == [vers |-> {"13", "12"}, suites |-> <<"A128", "A256", "E128", "R256">>, groups |-> <<"x", "p">>,
       alpn |-> <<>>, sigs |-> {"ec", "ed", "rsa"}, sni |-> Some("host"), early |-> FALSE,
       res12 |-> "IdOrTicket", cert |-> FALSE, trust |-> TRUE]
S0 == [vers |-> {"13", "12"}, suites |-> <<"A256", "A128", "E128", "R256">>, pref |-> "client",
       groups |-> <<"x", "p">>, alpn |-> <<>>, key |-> "ec", auth |-> "none", trust |-> TRUE,
       ticketer |-> FALSE, storage |-> TRUE, tickets |-> 1, max |-> 0, halfRtt |-> FALSE,
       ocsp |-> FALSE, reality |-> FALSE, rekeys |-> FALSE]
Conn(c, s) == [c |-> c, s |-> s, age |-> "fresh"]
Aged(age, x) == [x EXCEPT !.age = age]

\* Single connections: authentication, keys, Reality, retries, refusals.
CAuth == [C0 EXCEPT !.cert = TRUE]
S12 == [S0 EXCEPT !.vers = {"12"}]
Singles ==
    { Conn(C0, [S0 EXCEPT !.auth = a]) : a \in {"optional", "mandatory"} } \cup
    { Conn(CAuth, [s EXCEPT !.auth = "mandatory", !.trust = t]) : s \in {S0, S12}, t \in BOOLEAN } \cup
    { Conn(C0, [S12 EXCEPT !.auth = "optional", !.ocsp = TRUE]),
      Conn(C0, [S0 EXCEPT !.key = "ed", !.reality = TRUE]),
      Conn([C0 EXCEPT !.sigs = {"ec"}], [S0 EXCEPT !.key = "ed", !.reality = TRUE]),
      Conn([C0 EXCEPT !.sigs = {"ec"}], [S0 EXCEPT !.key = "rsa"]),
      Conn([C0 EXCEPT !.sigs = {"ec"}], [S12 EXCEPT !.key = "rsa"]),
      Conn([C0 EXCEPT !.sigs = {"rsa"}], [S12 EXCEPT !.reality = TRUE]),
      Conn([C0 EXCEPT !.sigs = {"ec"}], [S12 EXCEPT !.suites = <<"R256">>]),
      Conn(C0, [S12 EXCEPT !.key = "rsa", !.pref = "server"]),
      Conn([C0 EXCEPT !.trust = FALSE], S0), Conn([C0 EXCEPT !.trust = FALSE], S12),
      Conn(C0, [S0 EXCEPT !.groups = <<"p">>, !.halfRtt = TRUE]),
      Conn(C0, [S0 EXCEPT !.groups = <<"q">>]), Conn(C0, [S12 EXCEPT !.groups = <<"q">>]),
      Conn([C0 EXCEPT !.vers = {"13"}], S12), Conn([C0 EXCEPT !.suites = <<"CC20">>], S0),
      Conn([C0 EXCEPT !.alpn = <<"h2">>], [S0 EXCEPT !.alpn = <<"http">>]),
      Conn([C0 EXCEPT !.alpn = <<"h2">>], [S12 EXCEPT !.alpn = <<"http">>]),
      Conn([C0 EXCEPT !.alpn = <<"h2", "http">>], [S0 EXCEPT !.alpn = <<"http", "h2">>, !.rekeys = TRUE]) }

\* A TLS 1.3 session with early data, then a connection that uses its ticket.
CE == [C0 EXCEPT !.early = TRUE]
SE == [S0 EXCEPT !.max = 4]
Second ==
    { Conn(CE, SE), Aged("stale", Conn(CE, SE)), Aged("expired", Conn(CE, SE)),
      Conn(CE, [SE EXCEPT !.groups = <<"p">>]), Conn(CE, [SE EXCEPT !.groups = <<"p">>, !.max = 0]),
      Conn(CE, [SE EXCEPT !.max = 1]), Conn(CE, [SE EXCEPT !.max = 0]),
      Conn(CE, [SE EXCEPT !.ticketer = TRUE]), Conn(CE, [SE EXCEPT !.pref = "server"]),
      Conn(CE, [SE EXCEPT !.pref = "server", !.groups = <<"p">>]),
      Conn([CE EXCEPT !.alpn = <<"h2">>], [SE EXCEPT !.alpn = <<"h2">>]),
      Conn([CE EXCEPT !.sni = None], SE), Conn(CE, [SE EXCEPT !.vers = {"12"}]),
      Conn([CE EXCEPT !.vers = {"12"}], SE), Conn(CE, [SE EXCEPT !.halfRtt = TRUE]) }
Resumed13 == { <<Conn(CE, SE), x>> : x \in Second }
Tickets13 ==
    LET st == [S0 EXCEPT !.ticketer = TRUE, !.tickets = 2]
    IN { <<Conn(C0, st), Conn(C0, s)>> : s \in {st, SE} }

\* TLS 1.2 sessions, by id and by ticket.
T12 == [S12 EXCEPT !.ticketer = TRUE]
N12 == [T12 EXCEPT !.storage = FALSE]
Resumed12 ==
    { <<Conn(C0, s), x>> : s \in {S12, T12}, x \in { Conn(C0, S12), Conn(C0, T12), Conn([C0 EXCEPT !.res12 = "Id"], T12),
                                                    Conn(C0, S0) } } \cup
    { <<Conn(C0, N12), Conn(C0, N12)>>, <<Conn(C0, N12), Aged("expired", Conn(C0, N12))>>,
      <<Conn(C0, S12), Conn([C0 EXCEPT !.suites = <<"R256">>], [S12 EXCEPT !.key = "rsa"])>> }

\* Three in a row: a resumed session issues the ticket of the next, and the
\* group the server liked is remembered.
Chains ==
    LET middle == { Conn(CE, SE), Conn(CE, [SE EXCEPT !.groups = <<"p">>]), Conn(CE, [SE EXCEPT !.ticketer = TRUE]),
                    Conn([CE EXCEPT !.vers = {"12"}], SE) }
        last == { Conn(CE, SE), Conn(CE, [SE EXCEPT !.groups = <<"p">>]), Conn(CE, S12) }
    IN { <<Conn(CE, SE), x, y>> : x \in middle, y \in last }

MCPlans == { <<x>> : x \in Singles } \cup Resumed13 \cup Tickets13 \cup Resumed12 \cup Chains
=============================================================================
