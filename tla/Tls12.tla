-------------------------------- MODULE Tls12 --------------------------------
(***************************************************************************)
(* The TLS 1.2 handshake of both sides, full and abbreviated, by session   *)
(* id and by ticket.  The hello messages are in TlsHandshake.              *)
(***************************************************************************)
EXTENDS Tls13

(***************************************************************************)
(* Secrets.  The master secret of a full handshake covers the transcript   *)
(* up to ClientKeyExchange (extended master secret, which rustls always    *)
(* offers and confirms); keys also cover the randoms of the connection.    *)
(***************************************************************************)
MasterSecret(suite, kx, seed) == <<"ms", suite, kx, seed>>
WriteKey12(side, e) == <<side, "12", e.suite, e.hs.secret, e.hs.randoms>>
VerifyData12(side, e) == Some(<<"finished12", side, e.suite, e.hs.secret, e.tr>>)
StartEncryptionTls12(e) == PrepareTls12(e, WriteKey12(e.side, e), WriteKey12(Peer(e.side), e))
\* emit_ccs, start_encrypting, emit_finished: what ends either side's flight.
EmitFinished12(e) ==
    LET e1 == StartEncrypting(SendMsg(e, Ccs, FALSE))
    IN Emit(e1, M("Finished", NoBody, VerifyData12(e.side, e1)), TRUE)

(***************************************************************************)
(* Server.                                                                 *)
(***************************************************************************)
TicketAck(ch) == ch.ticketExt /\ SCfg.ticketer
Random12 == <<conn, IF "13" \in SCfg.vers THEN "downgrade" ELSE "plain">>
EmitServerHello12(e, ch, sid, resuming) ==
    LET sh == [ver |-> "12", suite |-> e.suite, sid |-> sid, random |-> Random12, alpn |-> AlpnChoice(ch),
               ticket |-> TicketAck(ch), status |-> ~resuming /\ SCfg.ocsp]
        e1 == [e EXCEPT !.alpn = AlpnChoice(ch), !.resumed = resuming, !.hs.sid = sid,
                        !.hs.sendTicket = TicketAck(ch), !.hs.randoms = <<ch.random, Random12>>]
    IN Emit(e1, M("ServerHello", sh, None), FALSE)
EmitTicket12(e) ==
    IF ~e.hs.sendTicket THEN e
    ELSE Emit(e, M("NewSessionTicket",
                   [ticket |-> [id |-> <<conn, 12>>, sealed |-> Some(ServerSession(e, "12", e.hs.secret, TRUE))]],
                   None), FALSE)

\* A ticket that decrypts, else a session id that is stored: a hello with a
\* ticket has a made-up id, which is not looked up.
ResumeData12(ch) ==
    IF ch.ticket12 # None THEN (IF SCfg.ticketer THEN ch.ticket12[1].sealed ELSE None)
    ELSE IF ch.sid # None /\ Stored(ch.sid[1]) # {} THEN Some((CHOOSE x \in Stored(ch.sid[1]) : TRUE).val)
    ELSE None
StartResumption12(e, ch, session) ==
    LET e1 == EmitServerHello12(e, ch, ch.sid, TRUE)
        e2 == StartEncryptionTls12([e1 EXCEPT !.hs.secret = session.secret, !.certs = session.certs])
    IN [EmitFinished12(EmitTicket12(e2)) EXCEPT !.st = "ExpectCcs"]

EmitServerKx(e, group) ==
    LET share == [g |-> group, n |-> <<conn, "s">>]
        signed == Signature("server", <<e.hs.randoms, share>>)
    IN [Emit(e, M("ServerKeyExchange", [share |-> share, scheme |-> SCfg.key], signed), FALSE)
          EXCEPT !.hs.kx = share]
ServerCertificate12(e, ch) ==
    LET sid == IF ~SCfg.storage \/ ch.ticket12 # None THEN None ELSE Some(<<conn, 0>>)
        e1 == EmitServerHello12(e, ch, sid, FALSE)
        e2 == Emit(e1, M("Certificate", [chain |-> Some("server")], None), FALSE)
    IN IF SCfg.ocsp THEN Emit(e2, M("CertificateStatus", NoBody, None), FALSE) ELSE e2
FullHandshake12_NoDone(e, ch, group) ==
    [EmitServerKx(ServerCertificate12(e, ch), group) EXCEPT !.st = "ExpectClientKx"]
FullHandshake12(e, ch, group) ==
    LET e1 == EmitServerKx(ServerCertificate12(e, ch), group)
        e2 == IF SCfg.auth = "none" THEN e1
              ELSE Emit(e1, M("CertificateRequest", [schemes |-> VerifySchemes], None), FALSE)
    IN [Emit(e2, M("ServerHelloDone", NoBody, None), FALSE)
          EXCEPT !.st = IF SCfg.auth = "none" THEN "ExpectClientKx" ELSE "ExpectCertificate12"]

HandleClientHello12(e0, chm) ==
    LET ch == chm.body
        e == AddMessage(e0, chm)
        data == ResumeData12(ch)
        schemes == SigSchemes(ch) \cap SuiteSigs[e.suite]
        common == SelectSeq(SCfg.groups, LAMBDA g : g \in ToSet(ch.groups))
        resume == data # None /\ CanResume(e.suite, e.hs.sni, TRUE, data[1])
    IN CASE resume /\ ~NoCommonAlpn(ch) -> StartResumption12(e, ch, data[1])
         [] ~resume /\ schemes = {} -> SendFatalAlert(e, "handshake_failure", "NoSignatureSchemesInCommon")
         [] ~resume /\ common = <<>> -> SendFatalAlert(e, "handshake_failure", "NoKxGroupsInCommon")
         [] NoCommonAlpn(ch) -> SendFatalAlert(e, "no_application_protocol", "NoApplicationProtocol")
         [] SCfg.key \notin schemes -> Fails(ServerCertificate12(e, ch), "incompatible signing key")
         [] OTHER -> FullHandshake12(e, ch, common[1])

ServerExpectCertificate12 ==
    /\ Handles("s", "ExpectCertificate12", "Certificate")
    /\ LET e == AddMessage(Reads("s"), Msg("s"))
       IN Handled("s", CheckClientCert(e, Msg("s").body.chain, "ExpectClientKx", "ExpectClientKx"))
    /\ Tidy
ExpectClientKx ==
    /\ Handles("s", "ExpectClientKx", "ClientKeyExchange")
    /\ LET e == AddMessage(Reads("s"), Msg("s"))
           secret == MasterSecret(e.suite, <<Msg("s").body.share, e.hs.kx>>, e.tr)
           e1 == StartEncryptionTls12([e EXCEPT !.hs.secret = secret])
       IN Handled("s", [e1 EXCEPT !.st = IF e.hs.peer # None THEN "ExpectCertificateVerify12" ELSE "ExpectCcs"])
    /\ Tidy
ExpectCcs(side) ==
    /\ Handles(side, "ExpectCcs", "ChangeCipherSpec")
    /\ Handled(side, [StartDecrypting(Reads(side)) EXCEPT !.st = "ExpectFinished12"])
    /\ Tidy
ServerExpectFinished12 ==
    /\ Handles("s", "ExpectFinished12", "Finished")
    /\ LET e == Reads("s")
           done == AddMessage(e, Msg("s"))
           replied == IF e.resumed THEN done ELSE EmitFinished12(EmitTicket12(done))
           saved == { [id |-> sid, val |-> ServerSession(e, "12", e.hs.secret, TRUE)] : sid \in ToSet(e.hs.sid) }
       IN IF Msg("s").auth = VerifyData12("c", e)
          THEN /\ Handled("s", StartTraffic([replied EXCEPT !.st = "ExpectTraffic12"]))
               /\ cache' = IF e.resumed \/ ~SCfg.storage THEN cache ELSE cache \cup saved
               /\ UNCHANGED <<store, sent>>
          ELSE Handled("s", SendFatalAlert(e, "decrypt_error", "DecryptError")) /\ Tidy

(***************************************************************************)
(* Client.                                                                 *)
(***************************************************************************)
HandleServerHello12(e0, sh) ==
    LET sess == e0.hs.resuming
        resume == sess # None /\ sess[1].ver = "12" /\ e0.hs.sid = sh.sid
        e == [e0 EXCEPT !.hs.randoms = <<conn, sh.random>>, !.hs.sid = sh.sid,
                        !.hs.ticketDue = sh.ticket, !.resumed = resume]
        e1 == StartEncryptionTls12([e EXCEPT !.hs.secret = sess[1].secret, !.certs = Some(sess[1].certs)])
    IN CASE "13" \in CCfg.vers /\ sh.random[2] = "downgrade" ->
              SendFatalAlert(e, "illegal_parameter", "AttemptedDowngradeToTls12")
         [] resume /\ sess[1].suite # e.suite -> Fails(e, "ResumptionOfferedWithVariedCipherSuite")
         [] resume /\ sess[1].suite = e.suite ->
              [e1 EXCEPT !.st = IF sh.ticket THEN "ExpectNewTicket" ELSE "ExpectCcs"]
         [] OTHER -> [e EXCEPT !.hs.resuming = None, !.hs.status = sh.status, !.st = "ExpectCertificate12"]

ClientExpectCertificate12 ==
    /\ Handles("c", "ExpectCertificate12", "Certificate")
    /\ LET e == AddMessage(Reads("c"), Msg("c"))
       IN Handled("c", [e EXCEPT !.hs.peer = Msg("c").body.chain,
              !.st = IF e.hs.status THEN "ExpectCertificateStatusOrServerKx" ELSE "ExpectServerKx"])
    /\ Tidy
ExpectCertificateStatus ==
    /\ Handles("c", "ExpectCertificateStatusOrServerKx", "CertificateStatus")
    /\ Handled("c", [AddMessage(Reads("c"), Msg("c")) EXCEPT !.st = "ExpectServerKx"])
    /\ Tidy
ExpectServerKx ==
    /\ \E st \in {"ExpectCertificateStatusOrServerKx", "ExpectServerKx"} : Handles("c", st, "ServerKeyExchange")
    /\ LET e == AddMessage(Reads("c"), Msg("c"))
       IN Handled("c", [e EXCEPT !.hs.kx = Msg("c"), !.st = "ExpectServerDoneOrCertReq"])
    /\ Tidy
ExpectCertificateRequest12 ==
    /\ Handles("c", "ExpectServerDoneOrCertReq", "CertificateRequest")
    /\ LET e == AddMessage(Reads("c"), Msg("c"))
       IN Handled("c", [e EXCEPT !.hs.auth = ClientAuthDetails(Msg("c").body.schemes), !.st = "ExpectServerDone"])
    /\ Tidy

\* The client's flight: certificate, key exchange, proof, Finished.
ClientFlight12(e) ==
    LET kx == e.hs.kx.body.share
        share == [g |-> kx.g, n |-> <<conn, "c">>]
        e1 == IF e.hs.auth = "none" THEN e ELSE Emit(e, ClientCertificate(e), FALSE)
        e2 == Emit(e1, M("ClientKeyExchange", [share |-> share], None), FALSE)
        secret == MasterSecret(e.suite, <<share, kx>>, e2.tr)
        e3 == IF e.hs.auth = "verify" THEN Emit(e2, CertificateVerify("client", "ec", e2), FALSE) ELSE e2
    IN EmitFinished12(StartEncryptionTls12([e3 EXCEPT !.hs.secret = secret]))
ExpectServerDone ==
    /\ \E st \in {"ExpectServerDoneOrCertReq", "ExpectServerDone"} : Handles("c", st, "ServerHelloDone")
    /\ LET e == AddMessage(Reads("c"), Msg("c"))
           chain == e.hs.peer
           kx == e.hs.kx
       IN Handled("c",
            CASE ~ServerCertTrusted(chain) -> SendFatalAlert(e, "unknown_ca", "InvalidCertificate")
              [] kx.body.scheme \notin SuiteSigs[e.suite] -> Fails(e, "SignedKxWithWrongAlgorithm")
              [] \/ kx.body.scheme \notin CCfg.sigs
                 \/ kx.auth # Signature(chain[1], <<e.hs.randoms, kx.body.share>>) ->
                   SendFatalAlert(e, "decrypt_error", "BadSignature")
              [] kx.body.share.g \notin ToSet(CCfg.groups) -> Fails(e, "SelectedUnofferedKxGroup")
              [] OTHER -> [ClientFlight12([e EXCEPT !.certs = chain])
                             EXCEPT !.st = IF e.hs.ticketDue THEN "ExpectNewTicket" ELSE "ExpectCcs"])
    /\ Tidy
ExpectNewTicket ==
    /\ Handles("c", "ExpectNewTicket", "NewSessionTicket")
    /\ Handled("c", [AddMessage(Reads("c"), Msg("c")) EXCEPT !.hs.ticket = Some(Msg("c").body.ticket),
                                                             !.st = "ExpectCcs"])
    /\ Tidy

\* save_session: the new ticket, or the one just used again; nothing if the
\* server allocated neither an id nor a ticket.
SavedSession12(e) ==
    LET old == IF e.hs.resuming = None THEN None ELSE e.hs.resuming[1].ticket
        ticket == IF e.hs.ticket # None THEN e.hs.ticket ELSE old
    IN [ver |-> "12", suite |-> e.suite, sid |-> e.hs.sid, ticket |-> ticket, secret |-> e.hs.secret,
        timed |-> e.hs.ticket # None, certs |-> e.certs[1]]
ClientExpectFinished12 ==
    /\ Handles("c", "ExpectFinished12", "Finished")
    /\ LET e == Reads("c")
           done == AddMessage(e, Msg("c"))
           value == SavedSession12(e)
           replied == IF e.resumed THEN EmitFinished12(done) ELSE done
       IN IF Msg("c").auth = VerifyData12("s", e)
          THEN /\ Handled("c", StartTraffic([replied EXCEPT !.st = "ExpectTraffic12"]))
               /\ store' = IF value.sid = None /\ value.ticket = None THEN store
                           ELSE [store EXCEPT !.tls12 = Some(value)]
               /\ UNCHANGED <<cache, sent>>
          ELSE Handled("c", SendFatalAlert(e, "decrypt_error", "DecryptError")) /\ Tidy
=============================================================================
