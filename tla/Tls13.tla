-------------------------------- MODULE Tls13 --------------------------------
(***************************************************************************)
(* The TLS 1.3 handshake of both sides: the key schedule, the states from  *)
(* the answered ServerHello to traffic, tickets, early data, key updates.  *)
(* The two hello messages themselves are in TlsHandshake.                  *)
(***************************************************************************)
EXTENDS TlsCommon

(***************************************************************************)
(* The key schedule.  ks collects its inputs as they become known: the PSK *)
(* (if resuming), the key exchange, the transcript at ServerHello (th) and *)
(* at the server's Finished (ap), and the generation of each traffic key.  *)
(***************************************************************************)
Schedule(suite, psk, kx, th) ==
    [suite |-> suite, psk |-> psk, kx |-> kx, th |-> th, ap |-> <<>>, gen |-> [c |-> 0, s |-> 0]]
EarlyKey(suite, psk, th) == <<"c", "early", suite, psk, th>>
HandshakeKey(side, ks) == <<side, "hs", ks.suite, ks.psk, ks.kx, ks.th>>
TrafficKey(side, ks) == <<side, "ap", ks.suite, ks.psk, ks.kx, ks.ap, ks.gen[side]>>
VerifyData(side, ks, tr) == Some(<<"finished", HandshakeKey(side, ks), tr>>)
Binder(suite, psk, tr) == Some(<<"binder", suite, psk, tr>>)
TicketPsk(ks, tr, nonce) == <<"res", ks.suite, ks.psk, ks.kx, ks.ap, tr, nonce>>
Signature(cert, tr) == Some(<<"signature", cert, tr>>)
Finished(side, e) == M("Finished", NoBody, VerifyData(side, e.hs.ks, e.tr))
CertificateVerify(cert, scheme, e) == M("CertificateVerify", [scheme |-> scheme], Signature(cert, e.tr))

(***************************************************************************)
(* Client: early data.                                                     *)
(***************************************************************************)
EarlyEnabled(e) == e.early \in {"Ready", "Accepted"}
EarlyAccepted(e) == e.early \in {"Accepted", "AcceptedFinished"}
EmitFakeCcs(e) ==
    IF e.hs.ccsSent THEN e ELSE SendMsg([e EXCEPT !.hs.ccsSent = TRUE], Ccs, FALSE)
DeriveEarlyTrafficSecret(e) ==
    LET sess == e.hs.resuming[1]
        e1 == EmitFakeCcs(e)
    IN [SetEncrypter(e1, EarlyKey(sess.suite, Some(sess.secret), e.tr)) EXCEPT !.earlyTraffic = TRUE]
WriteEarlyData ==
    /\ Writing("c")
    /\ EarlyEnabled(ep["c"])
    /\ ep["c"].left > 0
    /\ sent["c"].early < MaxEarly
    /\ LET e == [ep["c"] EXCEPT !.left = @ - 1]
       IN Steps("c", SendMsg(e, AppData(sent["c"].early + 1), TRUE), FALSE)
    /\ sent' = [sent EXCEPT !["c"].early = @ + 1]
    /\ UNCHANGED <<store, cache>>

(***************************************************************************)
(* Client: what a ServerHello that selects TLS 1.3 does.  The caller has   *)
(* checked version and suite and hashed the message.                       *)
(***************************************************************************)
ResumesPsk(e, sh) == sh.psk /\ e.hs.resuming # None
HandleServerHello13(e, sh) ==
    LET resume == ResumesPsk(e, sh)
        e1 == IF resume THEN e
              ELSE [e EXCEPT !.early = "Rejected", !.earlyTraffic = FALSE, !.hs.resuming = None]
        psk == IF resume THEN Some(e.hs.resuming[1].secret) ELSE None
        ks == Schedule(sh.suite, psk, <<e.hs.share[1], sh.share>>, e.tr)
        e2 == SetDecrypter(e1, HandshakeKey("s", ks))
        e3 == IF EarlyEnabled(e1) THEN e2 ELSE SetEncrypter(e2, HandshakeKey("c", ks))
    IN CASE sh.share.g # e.hs.share[1].g -> SendFatalAlert(e, "illegal_parameter", "WrongGroupForKeyShare")
         [] resume /\ SuiteHash[e.hs.resuming[1].suite] # SuiteHash[sh.suite] ->
              SendFatalAlert(e, "illegal_parameter", "ResumptionWithIncompatibleSuite")
         [] resume /\ EarlyEnabled(e) /\ e.hs.resuming[1].suite # sh.suite ->
              SendFatalAlert(e, "illegal_parameter", "EarlyDataWithVariedSuite")
         [] OTHER -> EmitFakeCcs([e3 EXCEPT !.hs.ks = ks, !.resumed = resume,
                                            !.st = "ExpectEncryptedExtensions"])

ProcessAlpn_Ignored(e, alpn) == e
ProcessAlpn(e, alpn) == [e EXCEPT !.alpn = alpn]
AlpnUnoffered(alpn) == alpn # None /\ alpn[1] \notin ToSet(CCfg.alpn)
ExpectEncryptedExtensions ==
    /\ Handles("c", "ExpectEncryptedExtensions", "EncryptedExtensions")
    /\ LET ee == Msg("c").body
           e == ProcessAlpn(AddMessage(Reads("c"), Msg("c")), ee.alpn)
           rejected == SetEncrypter([e EXCEPT !.early = "Rejected", !.earlyTraffic = FALSE],
                                    HandshakeKey("c", e.hs.ks))
           answered == IF ~e.earlyTraffic THEN e
                       ELSE IF ee.early THEN [e EXCEPT !.early = "Accepted"] ELSE rejected
       IN Handled("c",
            CASE AlpnUnoffered(ee.alpn) -> SendFatalAlert(e, "illegal_parameter", "SelectedUnofferedAlpn")
              [] e.resumed -> [answered EXCEPT !.certs = Some(e.hs.resuming[1].certs),
                                               !.st = "ExpectFinished13"]
              [] ~e.resumed /\ ee.early -> Fails(e, "EarlyDataWithoutResumption")
              [] OTHER -> [e EXCEPT !.st = "ExpectCertificateOrCertReq"])
    /\ Tidy

\* The client answers a CertificateRequest with its certificate if it has a
\* key one of the offered schemes can use, with an empty one otherwise.
ClientAuthDetails(schemes) == IF CCfg.cert /\ "ec" \in schemes THEN "verify" ELSE "empty"
ExpectCertificateRequest13 ==
    /\ Handles("c", "ExpectCertificateOrCertReq", "CertificateRequest")
    /\ LET e == AddMessage(Reads("c"), Msg("c"))
       IN Handled("c", [e EXCEPT !.hs.auth = ClientAuthDetails(Msg("c").body.schemes),
                                 !.st = "ExpectCertificate13"])
    /\ Tidy
ClientExpectCertificate13 ==
    /\ \E st \in {"ExpectCertificateOrCertReq", "ExpectCertificate13"} : Handles("c", st, "Certificate")
    /\ LET e == AddMessage(Reads("c"), Msg("c"))
       IN Handled("c", [e EXCEPT !.hs.peer = Msg("c").body.chain, !.st = "ExpectCertificateVerify13"])
    /\ Tidy
ServerCertTrusted(chain) == chain # None /\ CCfg.trust
ClientExpectCertificateVerify13 ==
    /\ Handles("c", "ExpectCertificateVerify13", "CertificateVerify")
    /\ LET e == Reads("c") chain == e.hs.peer
       IN Handled("c",
            CASE ~ServerCertTrusted(chain) -> SendFatalAlert(e, "unknown_ca", "InvalidCertificate")
              [] \/ Msg("c").body.scheme \notin CCfg.sigs
                 \/ Msg("c").auth # Signature(chain[1], e.tr) ->
                   SendFatalAlert(e, "decrypt_error", "BadSignature")
              [] OTHER -> [AddMessage(e, Msg("c")) EXCEPT !.certs = chain, !.st = "ExpectFinished13"])
    /\ Tidy

\* The certificate chain a client presents, if any, and its proof.
ClientCertificate(e) == M("Certificate", [chain |-> IF e.hs.auth = "verify" THEN Some("client") ELSE None], None)
EmitClientAuth(e) ==
    CASE e.hs.auth = "none" -> e
      [] e.hs.auth = "empty" -> Emit(e, ClientCertificate(e), TRUE)
      [] OTHER -> LET e1 == Emit(e, ClientCertificate(e), TRUE)
                  IN Emit(e1, CertificateVerify("client", "ec", e1), TRUE)
EmitEndOfEarlyData(e) ==
    IF e.earlyTraffic
    THEN SetEncrypter([Emit(e, M("EndOfEarlyData", NoBody, None), TRUE)
                           EXCEPT !.earlyTraffic = FALSE, !.early = "AcceptedFinished"],
                      HandshakeKey("c", e.hs.ks))
    ELSE e
ClientExpectFinished13 ==
    /\ Handles("c", "ExpectFinished13", "Finished")
    /\ LET e == Reads("c")
           ok == Msg("c").auth = VerifyData("s", e.hs.ks, e.tr)
           e1 == AddMessage(e, Msg("c"))
           ks == [e.hs.ks EXCEPT !.ap = e1.tr]
           e2 == EmitClientAuth(EmitEndOfEarlyData(e1))
           e3 == Emit(e2, Finished("c", e2), TRUE)
           e4 == SetEncrypter(SetDecrypter(e3, TrafficKey("s", ks)), TrafficKey("c", ks))
       IN IF ok
          THEN /\ Handled("c", StartTraffic([e4 EXCEPT !.hs.ks = ks, !.st = "ExpectTraffic13"]))
               /\ store' = [store EXCEPT !.tls12 = None]
               /\ UNCHANGED <<cache, sent>>
          ELSE Handled("c", SendFatalAlert(e, "decrypt_error", "DecryptError")) /\ Tidy

(***************************************************************************)
(* Traffic: data, tickets for the client, key updates.  The reply to an    *)
(* update is sealed under the old key at once but waits in ku until the    *)
(* user next writes, while the encrypter already has the new key.          *)
(***************************************************************************)
NextGeneration(e, side) == [e EXCEPT !.hs.ks.gen[side] = @ + 1]
UpdateEncrypter(e) == LET e1 == NextGeneration(e, e.side) IN SetEncrypter(e1, TrafficKey(e.side, e1.hs.ks))
UpdateDecrypter(e) ==
    LET peer == Peer(e.side) e1 == NextGeneration(e, peer) IN SetDecrypter(e1, TrafficKey(peer, e1.hs.ks))
UpdateEncrypterAndNotify(e) == UpdateEncrypter(EncryptOutgoing(e, KeyUpdate("not_requested")))
TakeReceivedPlaintext(e, n) == [e EXCEPT !.got = Append(@, n)]
TrafficData(side) ==
    /\ \E st \in {"ExpectTraffic13", "ExpectTraffic12"} : Handles(side, st, "ApplicationData")
    /\ Handled(side, TakeReceivedPlaintext(Reads(side), Msg(side).body.n))
    /\ Tidy
HandleKeyUpdate(side) ==
    /\ Handles(side, "ExpectTraffic13", "KeyUpdate")
    /\ LET e == Reads(side)
           reply == Msg(side).body.req = "requested" /\ e.ku = <<>>
       IN Handled(side, UpdateDecrypter(IF reply THEN UpdateEncrypterAndNotify(e) ELSE e))
    /\ Tidy

\* A peer built on another implementation may ask for new keys; rustls never does.
PeerAsksForKeyUpdate(side) ==
    /\ Writing(side)
    /\ ep[side].st = "ExpectTraffic13" /\ ep[side].maySend /\ ep[side].ku = <<>>
    /\ SCfg.rekeys /\ ep[side].hs.ks.gen[side] = 0
    /\ Steps(side, UpdateEncrypter(SendMsg(ep[side], KeyUpdate("requested"), TRUE)), FALSE)
    /\ Tidy

\* insert_tls13_ticket keeps a bounded number of tickets, dropping the oldest.
MaxTickets == 8
InsertTicket(tickets, t) == Append(IF Len(tickets) = MaxTickets THEN Tail(tickets) ELSE tickets, t)
HandleNewTicket13 ==
    /\ Handles("c", "ExpectTraffic13", "NewSessionTicket")
    /\ LET e == Reads("c")
           nst == Msg("c").body
           value == [ver |-> "13", suite |-> e.suite, ticket |-> Some(nst.ticket),
                     secret |-> TicketPsk(e.hs.ks, e.tr, nst.nonce), timed |-> TRUE,
                     max |-> nst.max, certs |-> IF e.certs = None THEN "empty" ELSE e.certs[1]]
       IN /\ Handled("c", e)
          /\ store' = [store EXCEPT !.tickets = InsertTicket(@, value)]
    /\ UNCHANGED <<cache, sent>>

(***************************************************************************)
(* Server: resumption.  A ticket is either sealed, and carries its session,*)
(* or names one that the session storage gives out once.                   *)
(***************************************************************************)
CanResume(suite, sni, ems, data) ==
    /\ data.suite = suite
    /\ data.ems = ems \/ (data.ems /\ ~ems)
    /\ data.sni = sni
Stored(id) == { entry \in cache : entry.id = id }
ResumeData13(ticket) ==
    IF SCfg.ticketer THEN ticket.sealed
    ELSE IF Stored(ticket.id) = {} THEN None ELSE Some((CHOOSE x \in Stored(ticket.id) : TRUE).val)
CacheAfterTake(ch) ==
    IF ch.psk # None /\ ~SCfg.ticketer THEN cache \ Stored(ch.psk[1].id) ELSE cache
Psk13(e, chm) ==
    LET ch == chm.body
        data == IF ch.psk = None THEN None ELSE ResumeData13(ch.psk[1])
    IN IF data # None /\ CanResume(e.suite, e.hs.sni, FALSE, data[1]) THEN data ELSE None

(***************************************************************************)
(* Server: early data is accepted only for a fresh session of the same     *)
(* parameters, out of stateful storage.                                    *)
(***************************************************************************)
EarlyDataAllowed(e, ch, resume) ==
    /\ resume # None
    /\ SCfg.max > 0 /\ ~SCfg.ticketer
    /\ ch.early /\ plan[conn].age = "fresh"
    /\ resume[1].ver = e.ver /\ resume[1].suite = e.suite /\ resume[1].alpn = e.alpn
    /\ e.early # "Rejected"
MaxEarlyDataSize == IF SCfg.max # 0 THEN SCfg.max ELSE DefaultSkip

\* process_common: the server's first protocol among those the client offers.
AlpnChoice(ch) ==
    LET common == SelectSeq(SCfg.alpn, LAMBDA p : p \in ToSet(ch.alpn))
    IN IF common = <<>> THEN None ELSE Some(common[1])
NoCommonAlpn(ch) == ch.alpn # <<>> /\ SCfg.alpn # <<>> /\ AlpnChoice(ch) = None

\* The signature schemes of the hello usable with a common suite; Reality adds
\* its own.
CommonSuites(ch) == ToSet(ch.suites) \cap ToSet(SCfg.suites)
SigSchemes(ch) ==
    { s \in ch.sigs : \E suite \in CommonSuites(ch) : s \in SuiteSigs[suite] }
        \cup (IF SCfg.reality THEN {"ed"} ELSE {})
ServerRandom == <<conn, IF SCfg.reality THEN "authenticated" ELSE "plain">>
EmitServerHello13(e, ch, resume) ==
    LET share == [g |-> ch.share[1].g, n |-> <<conn, "s">>]
        sh == M("ServerHello", [ver |-> "13", suite |-> e.suite, sid |-> ch.sid, share |-> share,
                                random |-> ServerRandom, psk |-> resume # None], None)
        psk == IF resume = None THEN None ELSE Some(resume[1].secret)
        e1 == IF resume = None THEN e ELSE SetDecrypter(e, EarlyKey(e.suite, psk, e.tr))
        e2 == Emit(e1, sh, FALSE)
        ks == Schedule(e.suite, psk, <<ch.share[1], share>>, e2.tr)
    IN SetEncrypter([e2 EXCEPT !.hs.ks = ks, !.resumed = resume # None], HandshakeKey("s", ks))

VerifySchemes == {"ec", "ed", "rsa"}
ChooseScheme(ch) == SCfg.key \in SigSchemes(ch) \cup {"ed"}
EmitServerAuth13(e, ch) ==
    LET e1 == IF SCfg.auth = "none" THEN e
              ELSE Emit(e, M("CertificateRequest", [schemes |-> VerifySchemes], None), TRUE)
        e2 == Emit(e1, M("Certificate", [chain |-> Some("server")], None), TRUE)
    IN IF ChooseScheme(ch) THEN Emit(e2, CertificateVerify("server", SCfg.key, e2), TRUE)
       ELSE SendFatalAlert(e2, "handshake_failure", "NoSignatureSchemesInCommon")

EmitEncryptedExtensions(e, accepted) ==
    Emit(e, M("EncryptedExtensions", [alpn |-> e.alpn, early |-> accepted], None), TRUE)

\* EarlyDataState: New, then Rejected for good or Accepted with a buffer as
\* large as the configuration allows.  A payload that does not fit whole is
\* not taken, and ends the connection.
RejectEarly(e) == [e EXCEPT !.early = "Rejected"]
AcceptEarly(e) == [e EXCEPT !.early = "Accepted", !.left = SCfg.max]
TakesEarly(e) == e.early = "Accepted" /\ e.left > 0
TakeReceivedEarly(e, n) == [e EXCEPT !.left = @ - 1, !.gotEarly = Append(@, n)]

\* The read key for what follows: the early key if early data was accepted,
\* the handshake key otherwise, skipping what early data may still arrive.
EmitFinished13(e, ch, accepted) ==
    LET hsKey == HandshakeKey("c", e.hs.ks)
        e1 == IF accepted THEN AcceptEarly(e)
              ELSE RejectEarly(IF ch.early THEN SetTrialDecrypter(e, hsKey, MaxEarlyDataSize)
                               ELSE SetDecrypter(e, hsKey))
        e2 == Emit(e1, Finished("s", e1), TRUE)
        ks == [e2.hs.ks EXCEPT !.ap = e2.tr]
    IN SetEncrypter([e2 EXCEPT !.hs.ks = ks], TrafficKey("s", ks))

\* The server's whole answer to a ClientHello it will not retry.
ServerFlight13(e, chm) ==
    LET ch == chm.body
        resume == Psk13(e, chm)
        auth == resume = None /\ SCfg.auth # "none"
        e0 == AddMessage([e EXCEPT !.certs = IF resume = None THEN @ ELSE resume[1].certs,
                                   !.hs.tickets = IF ch.pskModes THEN SCfg.tickets ELSE 0], chm)
        e1 == EmitServerHello13(e0, ch, resume)
        e2 == IF e.hs.doneRetry THEN e1 ELSE SendMsg(e1, Ccs, FALSE)
        e3 == [e2 EXCEPT !.alpn = AlpnChoice(ch)]
        accepted == EarlyDataAllowed(e3, ch, resume)
        e4 == EmitEncryptedExtensions(e3, accepted)
        e5 == IF resume # None THEN e4 ELSE EmitServerAuth13(e4, ch)
        e6 == EmitFinished13(e5, ch, accepted)
        e7 == IF ~auth /\ SCfg.halfRtt THEN StartOutgoingTraffic(e6) ELSE e6
    IN CASE resume # None /\ chm.auth # Binder(e.suite, Some(resume[1].secret), e0.tr) ->
              SendFatalAlert(e, "decrypt_error", "IncorrectBinder")
         [] NoCommonAlpn(ch) -> SendFatalAlert(e2, "no_application_protocol", "NoApplicationProtocol")
         [] e5.err # "none" -> e5
         [] OTHER -> [e7 EXCEPT !.st = IF auth THEN "ExpectCertificate13"
                                       ELSE IF accepted THEN "ExpectEarlyData" ELSE "ExpectFinished13"]

(***************************************************************************)
(* Server: a hello without a usable share.  Nothing is resumed yet, so the *)
(* ticket the hello offers is still there for the second one.              *)
(***************************************************************************)
Retry13(e, chm, group) ==
    LET ch == chm.body
        e1 == RollupForHrr(AddMessage(e, chm))
        hrr == M("HelloRetryRequest", [suite |-> e.suite, sid |-> ch.sid, group |-> group], None)
        e2 == SendMsg(Emit(e1, hrr, FALSE), Ccs, FALSE)
    IN [e2 EXCEPT !.hs.doneRetry = TRUE, !.left = MaxEarlyDataSize,
                  !.st = IF ch.early THEN "SkipRejectedEarlyData" ELSE "ExpectClientHello"]
HandleClientHello13(e, chm) ==
    LET ch == chm.body
        usable == ch.share # None /\ ch.share[1].g \in ToSet(SCfg.groups)
        common == SelectSeq(SCfg.groups, LAMBDA g : g \in ToSet(ch.groups))
    IN CASE e.hs.doneRetry /\ ch.early ->
              SendFatalAlert(e, "illegal_parameter", "EarlyDataAttemptedInSecondClientHello")
         [] usable -> ServerFlight13(e, chm)
         [] common = <<>> -> SendFatalAlert(e, "handshake_failure", "NoKxGroupsInCommon")
         [] e.hs.doneRetry -> SendFatalAlert(e, "illegal_parameter", "RefusedToFollowHelloRetryRequest")
         [] OTHER -> Retry13(e, chm, common[1])
TakesTicket13_BeforeShare(ch) == ch.psk # None
TakesTicket13(ch) == ch.share # None /\ ch.share[1].g \in ToSet(SCfg.groups) /\ ch.psk # None

SkipRejectedEarlyData ==
    /\ Handles("s", "SkipRejectedEarlyData", "ApplicationData")
    /\ Handled("s", IF RecordLen <= ep["s"].left THEN [ep["s"] EXCEPT !.left = @ - RecordLen]
                    ELSE SendFatalAlert(ep["s"], "unexpected_message", "InappropriateMessage"))
    /\ Tidy

(***************************************************************************)
(* Server: early data, client authentication, the client's Finished.       *)
(***************************************************************************)
ExpectEarlyData ==
    /\ Handles("s", "ExpectEarlyData", "ApplicationData")
    /\ LET e == Reads("s")
       IN Handled("s", IF TakesEarly(e) THEN TakeReceivedEarly(e, Msg("s").body.n)
                       ELSE SendFatalAlert(e, "unexpected_message", "TooMuchEarlyDataReceived"))
    /\ Tidy
EndOfEarlyData_KeepsKey ==
    /\ Handles("s", "ExpectEarlyData", "EndOfEarlyData")
    /\ Handled("s", [AddMessage(Reads("s"), Msg("s")) EXCEPT !.st = "ExpectFinished13"])
    /\ Tidy
EndOfEarlyData ==
    /\ Handles("s", "ExpectEarlyData", "EndOfEarlyData")
    /\ LET e == SetDecrypter(Reads("s"), HandshakeKey("c", ep["s"].hs.ks))
       IN Handled("s", [AddMessage(e, Msg("s")) EXCEPT !.st = "ExpectFinished13"])
    /\ Tidy

\* Both versions: an absent chain passes unless authentication is mandatory.
CheckClientCert(e, chain, with, without) ==
    CASE chain = None /\ SCfg.auth = "mandatory" ->
           SendFatalAlert(e, "certificate_required", "NoCertificatesPresented")
      [] chain = None /\ SCfg.auth # "mandatory" -> [e EXCEPT !.st = without]
      [] chain # None /\ ~SCfg.trust -> SendFatalAlert(e, "unknown_ca", "InvalidCertificate")
      [] OTHER -> [e EXCEPT !.hs.peer = chain, !.st = with]
ServerExpectCertificate13 ==
    /\ Handles("s", "ExpectCertificate13", "Certificate")
    /\ LET e == AddMessage(Reads("s"), Msg("s"))
       IN Handled("s", CheckClientCert(e, Msg("s").body.chain, "ExpectCertificateVerify13", "ExpectFinished13"))
    /\ Tidy
ServerExpectCertificateVerify(st, next) ==
    /\ Handles("s", st, "CertificateVerify")
    /\ LET e == Reads("s")
       IN Handled("s", IF Msg("s").auth = Signature(e.hs.peer[1], e.tr)
                       THEN [AddMessage(e, Msg("s")) EXCEPT !.certs = e.hs.peer, !.st = next]
                       ELSE SendFatalAlert(e, "decrypt_error", "BadSignature"))
    /\ Tidy

ServerSession(e, ver, secret, ems) ==
    [ver |-> ver, suite |-> e.suite, secret |-> secret, ems |-> ems, sni |-> e.hs.sni,
     alpn |-> e.alpn, certs |-> e.certs]
Nonces(e) == [k \in 1..e.hs.tickets |-> <<conn, k>>]
Session13(e, nonce) == ServerSession(e, "13", TicketPsk(e.hs.ks, e.tr, nonce), FALSE)
EmitTicket13(e, nonce) ==
    LET sealed == IF SCfg.ticketer THEN Some(Session13(e, nonce)) ELSE None
        nst == [ticket |-> [id |-> nonce, sealed |-> sealed], nonce |-> nonce,
                max |-> IF SCfg.ticketer THEN 0 ELSE SCfg.max]
    IN IF SCfg.ticketer \/ SCfg.storage THEN SendMsg(e, M("NewSessionTicket", nst, None), TRUE) ELSE e
ServerExpectFinished13 ==
    /\ Handles("s", "ExpectFinished13", "Finished")
    /\ LET e == SetDecrypter(Reads("s"), TrafficKey("c", ep["s"].hs.ks))
           done == AddMessage(e, Msg("s"))
           ticketed == FoldLeft(EmitTicket13, done, Nonces(e))
       IN IF Msg("s").auth = VerifyData("c", e.hs.ks, e.tr)
          THEN /\ Handled("s", StartTraffic([ticketed EXCEPT !.st = "ExpectTraffic13"]))
               /\ cache' = IF SCfg.ticketer \/ ~SCfg.storage THEN cache
                           ELSE cache \cup { [id |-> n, val |-> Session13(done, n)] : n \in ToSet(Nonces(e)) }
               /\ UNCHANGED <<store, sent>>
          ELSE Handled("s", SendFatalAlert(e, "decrypt_error", "DecryptError")) /\ Tidy
=============================================================================
