----------------------------- MODULE TlsMessages -----------------------------
(***************************************************************************)
(* The TLS messages of the vendored rustls as shapes of module Wire        *)
(* (msgs/handshake.rs, msgs/alert.rs, msgs/ccs.rs, msgs/persist.rs,        *)
(* verify.rs), the accessors the handshake uses on a ClientHello, and the  *)
(* bytes a binder signs.  A handshake message is <<type, payload>>, an     *)
(* extension <<type, body>>.                                               *)
(***************************************************************************)
EXTENDS Wire, FiniteSets, TLC

CONSTANT CertListMax          \* limit of a certificate list: 0x1_0000 in the code

ASSUME CertListMaxAssumption == CertListMax \in 1..16777215

ProtocolVersion == U16Enum
CipherSuite == U16Enum
SignatureScheme == U16Enum
NamedGroup == U16Enum
ECPointFormat == U8Enum
Compression == U8Enum
PSKKeyExchangeMode == U8Enum
ClientCertificateType == U8Enum
KeyUpdateRequest == U8Enum
AlertLevel == U8Enum
AlertDescription == U8Enum

ExtensionType ==
    [ServerName |-> 0, StatusRequest |-> 5, EllipticCurves |-> 10, ECPointFormats |-> 11,
     SignatureAlgorithms |-> 13, ALProtocolNegotiation |-> 16, ExtendedMasterSecret |-> 23,
     SessionTicket |-> 35, PreSharedKey |-> 41, EarlyData |-> 42, SupportedVersions |-> 43,
     Cookie |-> 44, PSKKeyExchangeModes |-> 45, CertificateAuthorities |-> 47, KeyShare |-> 51,
     TransportParameters |-> 57, RenegotiationInfo |-> 65281, TransportParametersDraft |-> 65445]

HandshakeType ==
    [HelloRequest |-> 0, ClientHello |-> 1, ServerHello |-> 2, NewSessionTicket |-> 4,
     EndOfEarlyData |-> 5, HelloRetryRequest |-> 6, EncryptedExtensions |-> 8, Certificate |-> 11,
     ServerKeyExchange |-> 12, CertificateRequest |-> 13, ServerHelloDone |-> 14,
     CertificateVerify |-> 15, ClientKeyExchange |-> 16, Finished |-> 20,
     CertificateStatus |-> 22, KeyUpdate |-> 24, MessageHash |-> 254]

LOCAL X == ExtensionType
LOCAL H == HandshakeType

Random == Raw(32)
SessionId == AtMost(32, PayloadU8)
ProtocolName == PayloadU8
DistinguishedName == PayloadU16
PresharedKeyBinder == PayloadU8
ResponderId == PayloadU16
CertificateDer == PayloadU24
DigitallySignedStruct == Struct(<<SignatureScheme, PayloadU16>>)

HELLO_RETRY_REQUEST_RANDOM ==
    <<207, 33, 173, 116, 229, 154, 97, 17, 190, 29, 140, 2, 30, 101, 184, 145,
      194, 162, 17, 22, 122, 187, 140, 94, 7, 158, 9, 226, 200, 168, 51, 156>>

(* An unknown extension keeps its bytes. *)
UnknownExtension == Payload
Extension(cases) ==
    Tagged(2, [t \in DOMAIN cases |-> Sized(2, cases[t])], <<Sized(2, UnknownExtension)>>)

(* A name of another type takes the rest of the list as its payload. *)
ServerName == Tagged(1, 0 :> Named(PayloadU16), <<Payload>>)

KeyShareEntry == Struct(<<NamedGroup, PayloadU16>>)
PresharedKeyIdentity == Struct(<<PayloadU16, Raw(4)>>)
PresharedKeyOffer == Struct(<<ListU16(PresharedKeyIdentity), ListU16(PresharedKeyBinder)>>)

OcspCertificateStatusRequest == Struct(<<ListU16(ResponderId), PayloadU16>>)
CertificateStatusRequest == Tagged(1, 1 :> OcspCertificateStatusRequest, <<Payload>>)
CertificateStatus == Struct(<<Exactly(<<1>>), PayloadU24>>)

(* Requests that carry nothing, and the same types with a content, which   *)
(* become Unknown, are told apart by the payload alone.                    *)
ClientExtension ==
    Extension(X.ECPointFormats :> ListU8(ECPointFormat)
           @@ X.EllipticCurves :> ListU16(NamedGroup)
           @@ X.SignatureAlgorithms :> ListU16(SignatureScheme)
           @@ X.ServerName :> ListU16(ServerName)
           @@ X.ALProtocolNegotiation :> ListU16(ProtocolName)
           @@ X.SupportedVersions :> ListU8(ProtocolVersion)
           @@ X.KeyShare :> ListU16(KeyShareEntry)
           @@ X.PSKKeyExchangeModes :> ListU8(PSKKeyExchangeMode)
           @@ X.PreSharedKey :> PresharedKeyOffer
           @@ X.Cookie :> PayloadU16
           @@ X.StatusRequest :> CertificateStatusRequest)

ServerExtension ==
    Extension(X.ECPointFormats :> ListU8(ECPointFormat)
           @@ X.ServerName :> Empty @@ X.SessionTicket :> Empty @@ X.StatusRequest :> Empty
           @@ X.ExtendedMasterSecret :> Empty @@ X.EarlyData :> Empty
           @@ X.RenegotiationInfo :> PayloadU8
           @@ X.ALProtocolNegotiation :> ListU16(ProtocolName)
           @@ X.KeyShare :> KeyShareEntry
           @@ X.PreSharedKey :> Num(2)
           @@ X.SupportedVersions :> ProtocolVersion)

HelloRetryExtension ==
    Extension(X.KeyShare :> NamedGroup @@ X.Cookie :> PayloadU16
           @@ X.SupportedVersions :> ProtocolVersion)

CertificateExtension == Extension(X.StatusRequest :> CertificateStatus)
CertReqExtension ==
    Extension(X.SignatureAlgorithms :> Filled(ListU16(SignatureScheme))
           @@ X.CertificateAuthorities :> ListU16(DistinguishedName))
NewSessionTicketExtension == Extension(X.EarlyData :> Raw(4))

(* A hello whose extensions are missing or empty is refused, and nothing   *)
(* may follow them.                                                        *)
ClientHelloPayload ==
    Whole(Struct(<<ProtocolVersion, Random, SessionId, ListU16(CipherSuite),
                   ListU8(Compression), Filled(IfAny(ListU16(ClientExtension)))>>))

ServerHelloPayload ==
    Whole(Struct(<<ProtocolVersion, Random, SessionId, CipherSuite, Compression,
                   IfAny(ListU16(ServerExtension))>>))

HelloRetryRequest ==
    Struct(<<ProtocolVersion, Exactly(HELLO_RETRY_REQUEST_RANDOM), SessionId, CipherSuite,
             Exactly(<<0>>), ListU16(HelloRetryExtension)>>)

CertificateChain == ListU24(CertListMax, CertificateDer)
CertificateEntry == Struct(<<CertificateDer, ListU16(CertificateExtension)>>)
CertificatePayloadTls13 == Struct(<<PayloadU8, ListU24(CertListMax, CertificateEntry)>>)

EcParameters == Struct(<<Exactly(<<3>>), NamedGroup>>)
ClientEcdhParams == PayloadU8
ServerEcdhParams == Struct(<<EcParameters, PayloadU8>>)
EcdheServerKeyExchange == Struct(<<ServerEcdhParams, DigitallySignedStruct>>)

CertificateRequestPayload ==
    Struct(<<ListU8(ClientCertificateType), Filled(ListU16(SignatureScheme)),
             ListU16(DistinguishedName)>>)
CertificateRequestPayloadTls13 == Struct(<<PayloadU8, ListU16(CertReqExtension)>>)

NewSessionTicketPayload == Struct(<<Raw(4), PayloadU16>>)
NewSessionTicketPayloadTls13 ==
    Struct(<<Raw(4), Raw(4), PayloadU8, PayloadU16, ListU16(NewSessionTicketExtension)>>)

EncryptedExtensions == ListU16(ServerExtension)

AlertMessagePayload == Whole(Struct(<<AlertLevel, AlertDescription>>))
ChangeCipherSpecPayload == Whole(Exactly(<<1>>))

HpkeSymmetricCipherSuite == Struct(<<U16Enum, U16Enum>>)
HpkeKeyConfig == Struct(<<Num(1), U16Enum, PayloadU16, ListU16(HpkeSymmetricCipherSuite)>>)
EchConfigContents == Struct(<<HpkeKeyConfig, Num(1), Named(PayloadU8), PayloadU16>>)
(* What the contents leave over of their length is skipped by the reader;  *)
(* what rustls itself writes leaves nothing.                               *)
EchConfig == Struct(<<U16Enum, Sized(2, Struct(<<EchConfigContents, Payload>>))>>)

(* The stored form of a server session, the plaintext of a ticket. *)
ServerSessionValue ==
    Struct(<<Flag(Named(PayloadU8)), ProtocolVersion, CipherSuite, PayloadU8, Flag(Empty),
             Flag(CertificateChain), Flag(PayloadU8), PayloadU16, Raw(8), Raw(4)>>)

------------------------------------------------------------------------------
(* Handshake messages.  The payload of a type depends on the version only  *)
(* for three of them.                                                      *)
HandshakePayload(typ, tls13) ==
    CASE typ = H.ClientHello -> ClientHelloPayload
      [] typ = H.ServerHello -> ServerHelloPayload
      [] typ = H.HelloRetryRequest -> HelloRetryRequest
      [] typ = H.Certificate -> IF tls13 THEN CertificatePayloadTls13 ELSE CertificateChain
      [] typ = H.CertificateRequest ->
            IF tls13 THEN CertificateRequestPayloadTls13 ELSE CertificateRequestPayload
      [] typ = H.NewSessionTicket ->
            IF tls13 THEN NewSessionTicketPayloadTls13 ELSE NewSessionTicketPayload
      [] typ = H.CertificateVerify -> DigitallySignedStruct
      [] typ = H.EncryptedExtensions -> EncryptedExtensions
      [] typ = H.KeyUpdate -> KeyUpdateRequest
      [] typ = H.CertificateStatus -> CertificateStatus
      [] typ \in {H.ServerHelloDone, H.EndOfEarlyData} -> Empty
      [] OTHER -> Payload

EncodeHandshake(m, tls13) ==
    LET typ == IF m[1] = H.HelloRetryRequest THEN H.ServerHello ELSE m[1]
    IN <<typ>> \o Prefixed(3, Encode(HandshakePayload(m[1], tls13), m[2]))

(* On the wire a retry is a ServerHello with a fixed random. *)
WireType(typ, sub) ==
    IF typ = H.ServerHello /\ Len(sub) >= 34 /\ SubSeq(sub, 3, 34) = HELLO_RETRY_REQUEST_RANDOM
    THEN H.HelloRetryRequest ELSE typ

(* HandshakeMessagePayload::read_version *)
ReadHandshake(b, tls13) ==
    Then(Read(Num(1), b), LAMBDA typ, body :
        Then(ReadOpaque(3, body), LAMBDA sub, after :
            IF typ \in {H.MessageHash, H.HelloRetryRequest} THEN Fail
            ELSE LET t == WireType(typ, sub)
                 IN Then(ExpectEmpty(Read(HandshakePayload(t, tls13), sub)),
                         LAMBDA p, none : Got(<<t, p>>, after))))

(* ServerKeyExchangePayload::unwrap_given_kxa *)
UnwrapGivenKxa(payload) == ExpectEmpty(Read(EcdheServerKeyExchange, payload))

(* MessagePayload::new: a payload by its content type. *)
ReadMessage(typ, tls13, b) ==
    CASE typ = 20 -> Read(ChangeCipherSpecPayload, b)
      [] typ = 21 -> Read(AlertMessagePayload, b)
      [] typ = 22 -> ReadHandshake(b, tls13)
      [] typ = 23 -> Got(b, <<>>)
      [] OTHER -> Fail

(* unpad_tls13: the last byte that is not zero is the content type. *)
Unpad(b) ==
    LET last == Max({0} \union {i \in 1..Len(b) : b[i] # 0})
    IN IF last = 0 THEN Fail ELSE Got(b[last], SubSeq(b, 1, last - 1))

------------------------------------------------------------------------------
(* Accessors of a ClientHello payload. *)
Extensions(ch) == ch[6]

HasDuplicateExtension(ch) ==
    \E i, j \in 1..Len(Extensions(ch)) : i < j /\ Extensions(ch)[i][1] = Extensions(ch)[j][1]

(* find_extension: <<>> or the body of the first extension of the type. *)
FindExtension(ch, typ) ==
    LET of == SelectSeq(Extensions(ch), LAMBDA e : e[1] = typ)
    IN IF of = <<>> THEN <<>> ELSE <<of[1][2]>>

HasDuplicateNamesForType(names) ==
    \E i, j \in 1..Len(names) : i < j /\ names[i][1] = names[j][1]

(* get_single_hostname: the first name that is a host name. *)
GetSingleHostname(names) ==
    LET hosts == SelectSeq(names, LAMBDA n : n[1] = 0)
    IN IF hosts = <<>> THEN <<>> ELSE <<hosts[1][2]>>

HasKeyshareDuplicates(ch) ==
    LET shares == FindExtension(ch, X.KeyShare)
    IN shares # <<>> /\ \E i, j \in 1..Len(shares[1]) :
                           i < j /\ shares[1][i][1] = shares[1][j][1]

CheckPskExtIsLast(ch) == Extensions(ch)[Len(Extensions(ch))][1] = X.PreSharedKey

(* get_encoding_for_binder_signing: the message without its binder list,   *)
(* its length fields still those of the whole message.                     *)
EncodingForBinderSigning(m) ==
    LET enc == EncodeHandshake(m, TRUE)
        last == Extensions(m[2])[Len(Extensions(m[2]))]
        binders == IF last[1] = X.PreSharedKey
                   THEN Encode(ListU16(PresharedKeyBinder), last[2][2]) ELSE <<>>
    IN SubSeq(enc, 1, Len(enc) - Len(binders))

(* set_psk_binder: the first binder of the offer is replaced. *)
SetPskBinder(m, binder) ==
    LET n == Len(Extensions(m[2]))
    IN IF CheckPskExtIsLast(m[2]) THEN [m EXCEPT ![2][6][n][2][2][1] = binder] ELSE m
=============================================================================
