---------------------------- MODULE MCStandalone ----------------------------
(* Standalone for TLC, with two-byte headers and messages of at most two   *)
(* bytes: a framed body of three messages, one of them empty, followed by  *)
(* half a header; framed bodies with a message that is too long, as the    *)
(* first and as a later one; and raw bodies that are recognised by content *)
(* type, first byte and length.                                            *)
EXTENDS Standalone

InMessages == [grpc |-> TRUE, n |-> 10, flag |-> TRUE, framed |-> TRUE, payload |-> <<3, 4, 9>>,
               msgs |-> <<[end |-> 4, upto |-> 2], [end |-> 6, upto |-> 2], [end |-> 9, upto |-> 3]>>,
               len |-> [i \in 1..10 |-> CASE i = 1 -> 2 [] i = 5 -> 0 [] i = 7 -> 1 [] OTHER -> 7]]
TooLong(n, msgs, payload, len) == [grpc |-> TRUE, n |-> n, flag |-> TRUE, framed |-> TRUE, msgs |-> msgs,
                                   payload |-> payload, len |-> [i \in 1..n |-> len[i]]]
TooLongFirst == TooLong(6, <<>>, <<3, 4, 5>>, <<3, 7, 7, 7, 7, 0>>)
TooLongLater == TooLong(9, <<[end |-> 4, upto |-> 2]>>, <<3, 4, 7, 8, 9>>, <<2, 7, 7, 7, 3, 7, 7, 7, 7>>)
Raw(grpc, flag, len) == [grpc |-> grpc, n |-> 4, flag |-> flag, framed |-> FALSE, msgs |-> <<>>,
                         payload |-> <<1, 2, 3, 4>>, len |-> [i \in 1..4 |-> len]]
MCPlans == {InMessages, TooLongFirst, TooLongLater,
            Raw(FALSE, TRUE, 1), Raw(TRUE, FALSE, 1), Raw(TRUE, FALSE, 3), Raw(TRUE, TRUE, 3)}
=============================================================================
