---------------------------- MODULE MCTlsRecords ----------------------------
EXTENDS TlsRecords

App(n) == [op |-> "app", n |-> n]
Hs(n, kind) == [op |-> "hs", n |-> n, kind |-> kind]
Close == [op |-> "close"]
Flight(msgs, cuts) == [op |-> "flight", msgs |-> msgs, cuts |-> cuts]
Msg(n, kind) == [n |-> n, kind |-> kind]

MCScripts ==
    { \* data around a split message, closed in order
      <<App(1), Hs(3, "plain"), Close>>,
      \* a write larger than the buffer, cut off by the writer's end
      <<App(5)>>,
      \* a key update between data
      <<Hs(2, "key"), App(2), Close>>,
      \* messages packed together and cut inside a header
      <<Flight(<<Msg(3, "plain"), Msg(2, "plain")>>, <<1, 4, 5>>), App(1)>>,
      <<Flight(<<Msg(2, "plain"), Msg(3, "plain")>>, <<3, 5>>), App(1)>>,
      \* a peer that interleaves, misaligns a key change, or sends after closing
      <<Flight(<<Msg(3, "plain")>>, <<2>>), App(1)>>,
      <<Flight(<<Msg(2, "key"), Msg(3, "plain")>>, <<3, 5>>)>>,
      <<Close, App(1)>>,
      \* a refused renegotiation
      <<Hs(2, "hello"), App(1)>>,
      \* messages at and over the limits
      <<Hs(6, "plain")>>, <<Hs(12, "plain")>>,
      \* as many records as there are sequence numbers
      <<App(4), App(4), Close>> }
=============================================================================
