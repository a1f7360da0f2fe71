--------------------------- MODULE MCVlessSession ---------------------------
(* Instances of VlessSession for TLC. *)
EXTENDS VlessSession

\* A request of three bytes, then four bytes of data, the first two or three
\* of which may be a TLS hello.
TcpPlans == [kind : {"vless"}, cmd : {"tcp"}, hdr : {3}, len : {7}, sniff : BOOLEAN, sni : {0, 2, 3},
             plen : {[i \in 1..7 |-> 0]}, packets : {<<>>}]

\* A request of three bytes, then packets given as the values of their length
\* fields; the last packet may be cut short, any may be empty or larger than
\* MaxPacket.
UdpPlan(plen, packets, len) ==
    [kind |-> "vless", cmd |-> "udp", hdr |-> 3, len |-> len, sniff |-> FALSE, sni |-> 0,
     plen |-> [i \in 1..len |-> IF i \in DOMAIN plen THEN plen[i] ELSE 1], packets |-> packets]

UdpPlans == {UdpPlan([i \in {4, 7} |-> IF i = 4 THEN 1 ELSE 2], <<<<6, 6>>, <<9, 10>>>>, 10),
             UdpPlan([i \in {4, 8} |-> 2], <<<<6, 7>>>>, 10),
             UdpPlan([i \in {4, 7} |-> IF i = 4 THEN 1 ELSE 0], <<<<6, 6>>, <<9, 8>>>>, 8),
             UdpPlan([i \in {4, 6} |-> IF i = 4 THEN 0 ELSE 1], <<<<6, 5>>, <<8, 8>>>>, 8),
             UdpPlan([i \in {4} |-> 3], <<<<6, 8>>>>, 8)}

OtherPlans == [kind : {"http", "other"}, cmd : {"tcp"}, hdr : {1}, len : {3}, sniff : {FALSE}, sni : {0},
               plen : {[i \in 1..3 |-> 0]}, packets : {<<>>}]
              \cup [kind : {"vless"}, cmd : {"mux"}, hdr : {3}, len : {4}, sniff : {FALSE}, sni : {0},
                    plen : {[i \in 1..4 |-> 0]}, packets : {<<>>}]

MCPlans == TcpPlans \cup UdpPlans \cup OtherPlans
=============================================================================
