------------------------------- MODULE Parsers -------------------------------
(***************************************************************************)
(* The parsers and encoders of xray-lite itself: the ClientHello pre-check *)
(* (transport/reality/hello_parser.rs), the SNI sniffer                    *)
(* (protocol/sniffer.rs), the VLESS request and address codec              *)
(* (protocol/vless/), the PROXY protocol (protocol/proxy_protocol.rs) and  *)
(* the gRPC message (transport/xhttp/grpc.rs).  Reads return what module   *)
(* Wire's return.                                                          *)
(***************************************************************************)
EXTENDS Wire, FiniteSets

(* from_utf8, for the bytes considered: ASCII, or a byte that starts nothing. *)
Utf8(b) == \A i \in 1..Len(b) : b[i] < 128

(* ParseClientHello: not a hello or not complete, an error, or its fields. *)
NotHello == [kind |-> "none"]
BadHello == [kind |-> "err"]
Info(sid, random, key, sni) ==
    [kind |-> "info", session_id |-> sid, random |-> random, key |-> key, sni |-> sni]

RECURSIVE FirstName(_), FirstShare(_), WalkExtensions(_, _, _)
(* The loop over the names: <<>> or the first host name that is text. *)
FirstName(list) ==
    IF Len(list) < 3 THEN <<>>
    ELSE LET name == ReadOpaque(2, SubSeq(list, 2, Len(list)))
         IN IF ~name.ok THEN <<>>
            ELSE IF list[1] = 0 THEN IF Utf8(name.v) THEN <<name.v>> ELSE <<>>
            ELSE FirstName(name.rest)

(* The loop over the shares: <<>> or the first X25519 key of 32 bytes. *)
FirstShare(shares) ==
    IF Len(shares) < 4 THEN <<>>
    ELSE LET key == ReadOpaque(2, SubSeq(shares, 3, Len(shares)))
         IN IF ~key.ok THEN <<>>
            ELSE IF SubSeq(shares, 1, 2) = <<0, 29>> /\ Len(key.v) = 32 THEN <<key.v>>
            ELSE FirstShare(key.rest)

(* A list inside an extension, empty when its length is short of bytes. *)
Inner(data) == LET list == ReadOpaque(2, data) IN IF list.ok THEN list.v ELSE <<>>

(* A found value replaces the earlier one, nothing found leaves it. *)
Or(new, old) == IF new = <<>> THEN old ELSE new

(* The loop over the extensions: ends when both are found, or at an        *)
(* extension that is cut.                                                  *)
WalkExtensions(exts, key, sni) ==
    LET data == ReadOpaque(2, SubSeq(exts, 3, Len(exts)))
        typ == SubSeq(exts, 1, 2)
        sni2 == IF typ = <<0, 0>> THEN Or(FirstName(Inner(data.v)), sni) ELSE sni
        key2 == IF typ = <<0, 51>> THEN Or(FirstShare(Inner(data.v)), key) ELSE key
    IN IF Len(exts) < 4 THEN <<key, sni>>
       ELSE IF ~data.ok \/ (key2 # <<>> /\ sni2 # <<>>) THEN <<key2, sni2>>
       ELSE WalkExtensions(data.rest, key2, sni2)

(* Type(1) Len(3) Version(2) Random(32), session id, suites, compressions. *)
HelloFields == Struct(<<Raw(1), Raw(3), Raw(2), Raw(32), PayloadU8, PayloadU16, PayloadU8>>)

ParseClientHello(buf) ==
    IF Len(buf) < 5 \/ buf[1] # 22 THEN NotHello
    ELSE IF Len(buf) < 5 + Number(SubSeq(buf, 4, 5)) THEN NotHello
    ELSE IF Len(buf) < 9 THEN BadHello
    ELSE IF buf[6] # 1 THEN NotHello
    ELSE LET hello == Read(HelloFields, SubSeq(buf, 6, Len(buf)))
             exts == ReadOpaque(2, hello.rest)
             found == WalkExtensions(exts.v, <<>>, <<>>)
         IN IF ~hello.ok THEN BadHello
            ELSE IF Len(hello.rest) < 2 THEN Info(hello.v[5], hello.v[4], <<>>, <<>>)
            ELSE IF ~exts.ok THEN BadHello
            ELSE Info(hello.v[5], hello.v[4], found[1], found[2])

------------------------------------------------------------------------------
RECURSIVE SniffNames(_), SniffExtensions(_)
(* The inner loop of sniff_tls_sni: [hit] tells a host name, text or not,  *)
(* from a list without one.                                                *)
SniffNames(list) ==
    IF Len(list) < 3 THEN [hit |-> FALSE, sni |-> <<>>]
    ELSE LET name == ReadOpaque(2, SubSeq(list, 2, Len(list)))
         IN IF ~name.ok THEN [hit |-> FALSE, sni |-> <<>>]
            ELSE IF list[1] = 0
                 THEN [hit |-> TRUE, sni |-> IF Utf8(name.v) THEN <<name.v>> ELSE <<>>]
            ELSE SniffNames(name.rest)

(* The loop over the extensions: a name extension that is too short, or    *)
(* whose list does not fit, ends the search.                               *)
SniffExtensions(exts) ==
    LET data == ReadOpaque(2, SubSeq(exts, 3, Len(exts)))
        list == ReadOpaque(2, data.v)
        names == SniffNames(list.v)
    IN IF Len(exts) < 4 \/ ~data.ok THEN <<>>
       ELSE IF SubSeq(exts, 1, 2) # <<0, 0>> THEN SniffExtensions(data.rest)
       ELSE IF ~list.ok THEN <<>>
       ELSE IF names.hit THEN names.sni ELSE SniffExtensions(data.rest)

(* A sniffer that takes the compression methods to be one. *)
SniffTlsSni_OneCompression(data) ==
    LET fields == Read(Struct(<<Raw(43), PayloadU8, PayloadU16, Raw(2), PayloadU16>>), data)
    IN IF Len(data) < 43 THEN <<>>
       ELSE IF data[1] # 22 \/ data[6] # 1 \/ ~fields.ok THEN <<>>
       ELSE SniffExtensions(fields.v[5])

(* sniff_tls_sni: the record length is not looked at. *)
SniffTlsSni(data) ==
    LET fields == Read(Struct(<<Raw(43), PayloadU8, PayloadU16, PayloadU8, PayloadU16>>), data)
    IN IF Len(data) < 43 THEN <<>>
       ELSE IF data[1] # 22 \/ data[6] # 1 \/ ~fields.ok THEN <<>>
       ELSE SniffExtensions(fields.v[5])

------------------------------------------------------------------------------
(* VLESS: an address is [kind, host, port], a request [uuid, command, address]. *)
Address(kind, host, port) == [kind |-> kind, host |-> host, port |-> port]
Sent(a, code, host) == BigEndian(2, a.port) \o <<code>> \o host

EncodeAddress(a) ==
    CASE a.kind = "ipv4" -> Sent(a, 1, a.host)
      [] a.kind = "domain" -> Sent(a, 2, Prefixed(1, a.host))
      [] a.kind = "ipv6" -> Sent(a, 3, a.host)

RECURSIVE DecodeAddress(_)
(* Type 0 announces a session byte and the real address, port included. *)
DecodeAddress(b) ==
    IF Len(b) < 3 THEN Fail
    ELSE LET port == Number(SubSeq(b, 1, 2))
             body == SubSeq(b, 4, Len(b))
         IN CASE b[3] = 1 -> Then(Take(body, 4),
                                  LAMBDA host, rest : Got(Address("ipv4", host, port), rest))
              [] b[3] = 2 -> Then(Checked(ReadOpaque(1, body), Utf8),
                                  LAMBDA host, rest : Got(Address("domain", host, port), rest))
              [] b[3] = 3 -> Then(Take(body, 16),
                                  LAMBDA host, rest : Got(Address("ipv6", host, port), rest))
              [] b[3] = 0 -> Then(Take(body, 1), LAMBDA sid, rest : DecodeAddress(rest))
              [] OTHER -> Fail

EncodeRequest(r) == <<0>> \o r.uuid \o <<0>> \o <<r.command>> \o EncodeAddress(r.address)

(* The head of a request: version, client, add-on, command. *)
RequestHead == Struct(<<Exactly(<<0>>), Raw(16), PayloadU8, Num(1)>>)

DecodeRequest(b, allowed) ==
    LET head == Read(RequestHead, b)
    IN IF Len(b) < 22 \/ ~head.ok THEN Fail
       ELSE IF head.v[2] \notin allowed \/ head.v[4] \notin 1..3 THEN Fail
       ELSE Then(DecodeAddress(head.rest), LAMBDA a, rest :
                Got([uuid |-> head.v[2], command |-> head.v[4], address |-> a], rest))

------------------------------------------------------------------------------
(* gRPC: [compressed, data]. *)
EncodeGrpc(m) == <<IF m.compressed THEN 1 ELSE 0>> \o Prefixed(4, m.data)
DecodeGrpc(b) ==
    Then(Take(b, 1), LAMBDA flag, rest :
        Then(ReadOpaque(4, rest), LAMBDA data, after :
            Got([compressed |-> flag # <<0>>, data |-> data], after)))

------------------------------------------------------------------------------
(* PROXY protocol.  A header is <<source, destination>>, each <<address,   *)
(* port>>.  Version 2 is binary; in version 1 a word between spaces is one *)
(* symbol above 255, which stands for its text.                            *)
Unspecified == <<<<<<0, 0, 0, 0>>, 0>>, <<<<0, 0, 0, 0>>, 0>>>>
V2Signature == <<13, 10, 13, 10, 0, 13, 10, 81, 85, 73, 84, 10>>

Endpoints(n) == Struct(<<Raw(n), Raw(n), Num(2), Num(2)>>)
Pair(v) == <<<<v[1], v[3]>>, <<v[2], v[4]>>>>

ParseV2(b) ==
    IF Len(b) < 16 THEN Fail
    ELSE LET family == b[14] \div 16
             addr == ReadOpaque(2, SubSeq(b, 15, Len(b)))
             ends == Read(Endpoints(IF family = 1 THEN 4 ELSE 16), addr.v)
         IN IF ~addr.ok THEN Fail
            ELSE IF family \notin {1, 2} THEN Got(Unspecified, addr.rest)
            ELSE IF ~ends.ok THEN Fail ELSE Got(Pair(ends.v), addr.rest)

(* Symbols of version 1: words and the families of address words. *)
WordProxy == 1000
WordTcp4 == 1001
WordTcp6 == 1002
WordUnknown == 1003
WordUdp4 == 1004
WordUdp6 == 1005
V4Words == 1100..1199
V6Words == 1200..1299
PortWords == 1300..1399          \* a decimal that parses as u16

(* split(' ') of a line: every other symbol is a space. *)
Parts(line) == SelectSeq(line, LAMBDA x : x # 32)

ParseV1(b) ==
    LET cr == {i \in 1..Len(b) : b[i] = 13}
        end == Min(cr)
        parts == Parts(SubSeq(b, 1, end - 1))
        ips == {parts[3], parts[4]}
        pair == <<<<parts[3], parts[5]>>, <<parts[4], parts[6]>>>>
        known == \/ parts[2] \in {WordTcp4, WordUdp4} /\ ips \subseteq V4Words
                 \/ parts[2] \in {WordTcp6, WordUdp6} /\ ips \subseteq V6Words
    IN IF cr = {} THEN Fail
       ELSE IF Len(b) < end + 1 THEN Fail
       ELSE IF b[end + 1] # 10 \/ Len(parts) < 6 THEN Fail
       ELSE IF {parts[5], parts[6]} \subseteq PortWords
            THEN LET rest == SubSeq(b, end + 2, Len(b))
                 IN IF parts[2] = WordUnknown THEN Got(Unspecified, rest)
                    ELSE IF known THEN Got(pair, rest) ELSE Fail
       ELSE Fail

IsProxyProtocol(b) == IsPrefix(<<WordProxy, 32>>, b) \/ IsPrefix(V2Signature, b)
ParseProxyProtocol(b) ==
    IF IsPrefix(<<WordProxy, 32>>, b) THEN ParseV1(b)
    ELSE IF IsPrefix(V2Signature, b) THEN ParseV2(b) ELSE Fail
=============================================================================
