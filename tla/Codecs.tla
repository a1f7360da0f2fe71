------------------------------- MODULE Codecs -------------------------------
(***************************************************************************)
(* A reader in front of a stream: the bytes of one message arrive one by   *)
(* one, as its sender encoded it or with one byte chosen otherwise by      *)
(* another implementation, and the readers of TlsMessages and Parsers are  *)
(* tried on what has arrived.                                              *)
(***************************************************************************)
EXTENDS TlsMessages, Parsers

CONSTANTS Samples,        \* what is sent: [kind, v]
          OtherBytes,     \* the bytes another implementation may put in place
          Trailer,        \* what follows a message on the stream
          Users           \* the configured VLESS identifiers

VARIABLES msg,            \* the sample on its way
          wire,           \* its bytes
          got,            \* how many have arrived
          altered         \* whether a byte differs from msg's encoding

vars == <<msg, wire, got, altered>>

(* The encoder of a kind; the PROXY headers come from a load balancer. *)
EncodeAs(kind, v) ==
    CASE kind = "tls12" -> EncodeHandshake(v, FALSE)
      [] kind = "tls13" -> EncodeHandshake(v, TRUE)
      [] kind = "hello" -> EncodeHandshake(v, TRUE)
      [] kind = "kx" -> Encode(EcdheServerKeyExchange, v)
      [] kind = "ckx" -> Encode(ClientEcdhParams, v)
      [] kind = "alert" -> Encode(AlertMessagePayload, v)
      [] kind = "ccs" -> Encode(ChangeCipherSpecPayload, v)
      [] kind = "padded" -> v.data \o <<v.typ>> \o [i \in 1..v.zeros |-> 0]
      [] kind = "session" -> Encode(ServerSessionValue, v)
      [] kind = "ech" -> Encode(EchConfig, v)
      [] kind = "vless" -> EncodeRequest(v)
      [] kind = "mux" -> SubSeq(EncodeRequest(v), 1, 19) \o <<0, 7, 0, 9>>
                         \o EncodeAddress(v.address)
      [] kind = "addon" -> SubSeq(EncodeRequest(v), 1, 17) \o <<2, 1, 2>>
                           \o SubSeq(EncodeRequest(v), 19, Len(EncodeRequest(v)))
      [] kind = "grpc" -> EncodeGrpc(v)
      [] kind = "proxy" -> v.bytes

(* The reader of a kind. *)
ReadAs(kind, b) ==
    CASE kind = "tls12" -> ReadMessage(22, FALSE, b)
      [] kind \in {"tls13", "hello"} -> ReadMessage(22, TRUE, b)
      [] kind = "kx" -> UnwrapGivenKxa(b)
      [] kind = "ckx" -> Read(ClientEcdhParams, b)
      [] kind = "alert" -> ReadMessage(21, TRUE, b)
      [] kind = "ccs" -> ReadMessage(20, TRUE, b)
      [] kind = "padded" -> Unpad(b)
      [] kind = "session" -> Read(ServerSessionValue, b)
      [] kind = "ech" -> Read(EchConfig, b)
      [] kind \in {"vless", "mux", "addon"} -> DecodeRequest(b, Users)
      [] kind = "grpc" -> DecodeGrpc(b)
      [] kind = "proxy" -> ParseProxyProtocol(b)

(* Kinds whose reader takes everything it is given for the message. *)
Unframed == {"kx", "alert", "ccs", "padded"}

Value(m) ==
    CASE m.kind = "padded" -> m.v.typ
      [] m.kind = "proxy" -> m.v.header
      [] OTHER -> m.v

Init ==
    /\ msg \in Samples
    /\ wire = EncodeAs(msg.kind, msg.v)
    /\ got = 0
    /\ altered = FALSE

(* The next byte arrives. *)
Arrive ==
    /\ got < Len(wire)
    /\ got' = IF altered THEN Len(wire) ELSE got + 1
    /\ UNCHANGED <<msg, wire, altered>>

(* Another implementation's message: one byte of a hello differs. *)
Alter ==
    /\ msg.kind = "hello" /\ got = 0 /\ ~altered
    /\ \E i \in 1..Len(wire), x \in OtherBytes :
          /\ wire[i] # x
          /\ wire' = [wire EXCEPT ![i] = x]
    /\ altered' = TRUE
    /\ UNCHANGED <<msg, got>>

Next == Arrive \/ Alter

Spec == Init /\ [][Next]_vars

------------------------------------------------------------------------------
Arrived == got = Len(wire)

(* What a sender encodes its reader gets back, and of a message that       *)
(* travels in a stream the reader consumes not a byte more.  Before the    *)
(* last byte is there, no reader takes what has arrived for a message: the *)
(* ones called on what a read returned answer with an error.               *)
RoundTrip ==
    ~altered =>
        IF Arrived
        THEN LET tail == IF msg.kind \in Unframed THEN <<>> ELSE Trailer
                 r == ReadAs(msg.kind, wire \o tail)
             IN /\ r.ok
                /\ r.v = Value(msg)
                /\ r.rest = IF msg.kind = "padded" THEN msg.v.data ELSE tail
        ELSE msg.kind # "padded" => ~ReadAs(msg.kind, SubSeq(wire, 1, got)).ok

(* The hello rustls accepts: read_version, then the checks of              *)
(* server/hs.rs and server/tls13.rs on duplicates and on the last          *)
(* extension.                                                              *)
AcceptedHello(m) ==
    /\ m[1] = HandshakeType.ClientHello
    /\ ~HasDuplicateExtension(m[2])
    /\ ~HasKeyshareDuplicates(m[2])
    /\ LET names == FindExtension(m[2], ExtensionType.ServerName)
       IN names # <<>> => ~HasDuplicateNamesForType(names[1])
    /\ FindExtension(m[2], ExtensionType.PreSharedKey) # <<>> => CheckPskExtIsLast(m[2])

(* The hello that has arrived, when rustls accepts it. *)
HelloArrived ==
    IF msg.kind = "hello" /\ Arrived
    THEN {r.v : r \in {x \in {ReadMessage(22, TRUE, wire)} : x.ok /\ AcceptedHello(x.v)}}
    ELSE {}

(* The bytes the server hashes to check a binder, which it rebuilds from   *)
(* the parsed hello, are the received bytes up to the binder list, whatever *)
(* the peer sent; and they do not depend on the binder that the client     *)
(* fills in after hashing them.                                            *)
BinderCovers ==
    \A m \in HelloArrived :
        LET offer == FindExtension(m[2], ExtensionType.PreSharedKey)
            signed == EncodingForBinderSigning(m)
            binders == IF offer = <<>> THEN <<>>
                       ELSE Encode(ListU16(PresharedKeyBinder), offer[1][2])
        IN /\ signed \o binders = wire
           /\ offer # <<>> => LET filled == [i \in 1..Len(offer[1][2][1]) |-> 238]
                              IN EncodingForBinderSigning(SetPskBinder(m, filled)) = signed

(* What the pre-check and the sniffer made of a hello against what rustls  *)
(* reads in it.                                                            *)
SameHello(ch, info, sniffed) ==
    LET names == FindExtension(ch, ExtensionType.ServerName)
        host == IF names = <<>> THEN <<>> ELSE GetSingleHostname(names[1])
        shares == FindExtension(ch, ExtensionType.KeyShare)
        x25519 == IF shares = <<>> THEN <<>>
                  ELSE SelectSeq(shares[1], LAMBDA s : s[1] = 29 /\ Len(s[2]) = 32)
    IN /\ info.kind = "info"
       /\ info.random = ch[2] /\ info.session_id = ch[3]
       /\ info.key = IF x25519 = <<>> THEN <<>> ELSE <<x25519[1][2]>>
       /\ (names = <<>> \/ host # <<>>) => info.sni = host /\ sniffed = host

(* The three parsers that look at one ClientHello agree on it: whenever    *)
(* rustls accepts the hello, the Reality pre-check reads the same random,  *)
(* session id, X25519 share and host name, and the sniffer the same host   *)
(* name.  (A list that starts with a name of an unknown type is no host    *)
(* name to rustls, and is left out.)                                       *)
ParsersAgree ==
    \A m \in HelloArrived :
        LET record == <<22, 3, 1>> \o Prefixed(2, wire)
        IN SameHello(m[2], ParseClientHello(record), SniffTlsSni(record))
=============================================================================
