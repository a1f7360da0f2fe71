------------------------------ MODULE MCCodecs ------------------------------
EXTENDS Codecs

Fill(n, x) == [i \in 1..n |-> x]
Msg(kind, v) == [kind |-> kind, v |-> v]
Host == <<97, 46, 98>>
UserA == Fill(16, 170)

Sni == <<0, <<<<0, Host>>>>>>
Share == <<51, <<<<23, <<4, 5>>>>, <<29, Fill(32, 9)>>>>>>
Versions == <<43, <<772, 771>>>>
Psk(n) == <<41, <<[i \in 1..n |-> <<<<7, i>>, <<0, 0, 1, i>>>>], [i \in 1..n |-> Fill(2 + i, 0)]>>>>

ClientHello(sid, comps, exts) ==
    <<1, <<771, Fill(32, 5), sid, <<4865, 49195>>, comps, exts>>>>
Hellos ==
    { ClientHello(Fill(4, 3), <<0>>, <<Sni, Share, Versions>>),
      ClientHello(<<>>, <<1, 0>>, <<Versions, Share, <<45, <<1>>>>, Sni, Psk(1)>>),
      ClientHello(<<8>>, <<0>>, <<<<0, <<<<0, Host>>, <<1, <<0, 1, 120>>>>>>>>, <<42, <<>>>>,
                                 <<35, <<1, 2>>>>, Psk(2)>>),
      ClientHello(Fill(32, 3), <<0>>, <<<<10, <<29, 23>>>>, <<11, <<0>>>>, <<13, <<1027>>>>,
          <<16, <<<<104, 50>>, <<104>>>>>>, <<23, <<>>>>, <<5, <<1, <<<<>>, <<>>>>>>>>,
          <<44, <<6>>>>, <<57, <<1>>>>, <<9999, <<1, 2>>>>>>) }

Chain(n) == [i \in 1..n |-> <<48, i>>]          \* 5 bytes of list each
Session(sni, chain, alpn) ==
    <<sni, 772, 4865, Fill(32, 1), <<>>, chain, alpn, <<>>, Fill(8, 2), Fill(4, 3)>>

Tls12Messages ==
    { <<0, <<>>>>, <<2, <<771, Fill(32, 5), Fill(32, 6), 49195, 0, <<>>>>>>,
      <<2, <<771, Fill(32, 5), <<>>, 49195, 0,
             <<<<65281, <<>>>>, <<23, <<>>>>, <<11, <<0>>>>, <<35, <<>>>>, <<16, <<<<104>>>>>>,
               <<0, <<>>>>, <<5, <<>>>>>>>>>>,
      <<4, <<<<0, 0, 14, 16>>, Fill(5, 8)>>>>, <<11, <<>>>>, <<11, Chain(4)>>,
      <<12, <<3, 0, 29, 1, 9, 4, 3, 0, 0>>>>, <<13, <<<<64, 1>>, <<1027>>, <<<<48>>>>>>>>,
      <<14, <<>>>>, <<16, <<1, 9>>>>, <<20, Fill(12, 4)>>, <<22, <<<<>>, <<9, 9>>>>>>,
      <<99, <<1, 2>>>> }
Tls13Messages ==
    { <<2, <<771, Fill(32, 5), Fill(32, 6), 4865, 0,
             <<<<51, <<29, Fill(32, 9)>>>>, <<43, 772>>, <<41, 0>>>>>>>>,
      <<6, <<771, <<>>, Fill(32, 6), 4865, <<>>,
             <<<<51, 23>>, <<44, <<1, 2>>>>, <<43, 772>>, <<77, <<1>>>>>>>>>>,
      <<4, <<Fill(4, 1), Fill(4, 2), <<0, 1>>, Fill(6, 8), <<<<42, Fill(4, 255)>>>>>>>>,
      <<8, <<>>>>, <<8, <<<<16, <<<<104, 50>>>>>>, <<42, <<>>>>, <<57, <<>>>>>>>>,
      <<11, <<<<>>, <<<<Fill(3, 7), <<>>>>, <<Fill(2, 7), <<<<5, <<<<>>, <<1>>>>>>>>>>>>>>>>,
      <<13, <<<<1>>, <<<<13, <<1027>>>>, <<47, <<<<48, 0>>>>>>>>>>>>, <<15, <<2052, Fill(4, 6)>>>>,
      <<5, <<>>>>, <<24, 0>>, <<20, Fill(32, 4)>> }

Addr(kind, host) == [kind |-> kind, host |-> host, port |-> 443]
Request(a) == [uuid |-> UserA, command |-> 1, address |-> a]
Requests == { Request(Addr("ipv4", Fill(4, 1))), Request(Addr("ipv6", Fill(16, 1))),
              Request(Addr("domain", Host)), Request(Addr("domain", Fill(255, 97))) }

V2(famprot, addrs) == V2Signature \o <<33, famprot>> \o Prefixed(2, addrs)
V1(words) == <<WordProxy, 32>> \o words \o <<13, 10>>
Proxy(bytes, header) == Msg("proxy", [bytes |-> bytes, header |-> header])
ProxySamples ==
    { Proxy(V2(17, Fill(8, 1) \o <<0, 80, 1, 187>>),
            <<<<Fill(4, 1), 80>>, <<Fill(4, 1), 443>>>>),
      Proxy(V2(33, Fill(32, 1) \o <<0, 80, 1, 187>> \o <<4, 0, 1, 0>>),
            <<<<Fill(16, 1), 80>>, <<Fill(16, 1), 443>>>>),
      Proxy(V2(0, <<>>), Unspecified),
      Proxy(V1(<<WordTcp4, 32, 1100, 32, 1101, 32, 1300, 32, 1301>>),
            <<<<1100, 1300>>, <<1101, 1301>>>>),
      Proxy(V1(<<WordUdp6, 32, 1200, 32, 1201, 32, 1300, 32, 1301>>),
            <<<<1200, 1300>>, <<1201, 1301>>>>),
      Proxy(V1(<<WordUnknown, 32, 1100, 32, 1101, 32, 1300, 32, 1301>>), Unspecified) }

MCSamples ==
    {Msg("hello", m) : m \in Hellos}
    \union {Msg("tls12", m) : m \in Tls12Messages} \union {Msg("tls13", m) : m \in Tls13Messages}
    \union { Msg("kx", <<<<<<<<>>, 29>>, <<1, 2>>>>, <<1027, <<3>>>>>>), Msg("ckx", <<1, 2>>), Msg("alert", <<2, 40>>),
             Msg("ccs", <<>>), Msg("padded", [data |-> <<1, 0>>, typ |-> 22, zeros |-> 3]),
             Msg("padded", [data |-> <<>>, typ |-> 23, zeros |-> 0]),
             Msg("session", Session(<<Host>>, <<Chain(4)>>, <<<<104, 50>>>>)),
             Msg("session", Session(<<>>, <<>>, <<>>)),
             Msg("ech", <<65037, <<<<<<1, 32, <<9, 9>>, <<<<1, 1>>>>>>, 3, Host, <<>>>>, <<>>>>>>),
             Msg("grpc", [compressed |-> FALSE, data |-> Fill(3, 1)]),
             Msg("grpc", [compressed |-> TRUE, data |-> <<>>]) }
    \union {Msg(kind, r) : kind \in {"vless", "mux", "addon"}, r \in Requests}
    \union ProxySamples

MCTrailer == <<9, 1>>
MCUsers == {UserA, Fill(16, 187)}
=============================================================================
