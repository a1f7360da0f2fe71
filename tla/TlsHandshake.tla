----------------------------- MODULE TlsHandshake -----------------------------
(***************************************************************************)
(* A rustls client and a rustls server over a reliable ordered transport:  *)
(* the hellos, the choice of version, suite and group, and the sequence of *)
(* connections that share the client's session store and the server's      *)
(* session storage.  Which configurations meet in which order is a plan.   *)
(***************************************************************************)
EXTENDS Tls12

(***************************************************************************)
(* Client: the session to offer and the ClientHello.                       *)
(***************************************************************************)
FindSession(age) ==
    LET found == IF store.tickets # <<>> THEN Some(Last(store.tickets)) ELSE store.tls12
    IN IF found # None /\ found[1].timed /\ age = "expired" THEN None ELSE found
StoreAfterFind == [store EXCEPT !.tickets = IF @ = <<>> THEN @ ELSE Front(@)]

\* What prepare_resumption puts in the hello, on the first one or a retry.
Resumption(cfg, sess, retrySuite) ==
    LET ticketed == sess # None /\ sess[1].ticket # None
        v13 == "13" \in cfg.vers
        psk == ticketed /\ sess[1].ver = "13" /\ v13
                 /\ (retrySuite = None \/ SuiteHash[retrySuite[1]] = SuiteHash[sess[1].suite])
        offer12 == ticketed /\ sess[1].ver = "12" /\ "12" \in cfg.vers /\ cfg.res12 = "IdOrTicket"
    IN [psk |-> IF psk THEN sess[1].ticket ELSE None,
        early |-> psk /\ cfg.early /\ sess[1].max > 0 /\ retrySuite = None,
        ticket12 |-> IF offer12 THEN sess[1].ticket ELSE None,
        ticketExt |-> offer12 \/ (~ticketed /\ (v13 \/ cfg.res12 = "IdOrTicket"))]
EmitClientHello(e, cfg, cn, retry) ==
    LET sess == e.hs.resuming
        r == Resumption(cfg, sess, e.hs.retrySuite)
        body == [random |-> cn, sid |-> e.hs.sid, versions |-> cfg.vers, suites |-> cfg.suites,
                 groups |-> cfg.groups, share |-> e.hs.share, sni |-> cfg.sni, alpn |-> cfg.alpn,
                 sigs |-> cfg.sigs, pskModes |-> "13" \in cfg.vers, psk |-> r.psk, early |-> r.early,
                 ticket12 |-> r.ticket12, ticketExt |-> r.ticketExt]
        binder == IF r.psk = None THEN None
                  ELSE Binder(sess[1].suite, Some(sess[1].secret), Append(e.tr, <<"ClientHello", body>>))
        e1 == IF r.early THEN [e EXCEPT !.early = "Ready", !.left = sess[1].max] ELSE e
        e2 == IF retry THEN EmitFakeCcs(e1) ELSE e1
        e3 == Emit(e2, M("ClientHello", body, binder), FALSE)
        e4 == IF r.psk # None /\ EarlyEnabled(e3) THEN DeriveEarlyTrafficSecret(e3) ELSE e3
    IN [e4 EXCEPT !.st = IF "13" \in cfg.vers /\ ~retry THEN "ExpectServerHelloOrHrr" ELSE "ExpectServerHello"]

(***************************************************************************)
(* start_handshake: the client's connection, with its first hello.  A TLS  *)
(* 1.2 session with a ticket gets a made-up session id, by which the       *)
(* client recognises that the server resumed.                              *)
(***************************************************************************)
ClientShare(cfg, cn, group) == Some([g |-> group, n |-> <<cn, "c">>])
InitialGroup(cfg) ==
    IF store.hint # None /\ store.hint[1] \in ToSet(cfg.groups) THEN store.hint[1] ELSE cfg.groups[1]
StartHandshake(cfg, cn, age) ==
    LET sess == FindSession(age)
        made == Some(<<cn, 99>>)
        sid == IF sess # None /\ sess[1].ver = "12" THEN (IF sess[1].ticket # None THEN made ELSE sess[1].sid)
               ELSE IF "13" \in cfg.vers THEN made ELSE None
        share == IF "13" \in cfg.vers THEN ClientShare(cfg, cn, InitialGroup(cfg)) ELSE None
        hs == [resuming |-> sess, share |-> share, ccsSent |-> FALSE, auth |-> "none", ks |-> None,
               peer |-> None, sid |-> sid, randoms |-> <<>>, ticketDue |-> FALSE, secret |-> <<>>,
               status |-> FALSE, kx |-> None, ticket |-> None, retrySuite |-> None]
    IN EmitClientHello(Endpoint("c", "start", hs), cfg, cn, FALSE)
AcceptServer(cfg) ==
    [Endpoint("s", "ExpectClientHello",
              [doneRetry |-> FALSE, sni |-> None, tickets |-> 0, ks |-> None, peer |-> None, sid |-> None,
               sendTicket |-> FALSE, randoms |-> <<>>, secret |-> <<>>, kx |-> None])
       EXCEPT !.early = "New"]

\* History: what each side's user did, and the session the offered ticket names.
NothingSent == [early |-> 0, data |-> 0, close |-> FALSE, heldKu |-> FALSE, offer |-> None]
Offered(cfg, hello) ==
    LET psk == hello.msg.body.psk
    IN IF psk = None THEN None
       ELSE IF cfg.ticketer THEN psk[1].sealed
       ELSE IF Stored(psk[1].id) = {} THEN None ELSE Some((CHOOSE x \in Stored(psk[1].id) : TRUE).val)

Ended(side) == ep[side].err # "none" \/ ep[side].closed
StartConnection ==
    /\ conn < Len(plan)
    /\ conn = 0 \/ \A side \in Sides : Ended(side)
    /\ conn' = conn + 1
    /\ plan' = plan
    /\ LET c == StartHandshake(plan[conn + 1].c, conn + 1, plan[conn + 1].age)
       IN /\ ep' = [c |-> [c EXCEPT !.out = <<>>], s |-> AcceptServer(plan[conn + 1].s)]
          /\ wire' = [c |-> <<>>, s |-> c.out]
          /\ sent' = [c |-> NothingSent, s |-> [NothingSent EXCEPT !.offer = Offered(plan[conn + 1].s, c.out[1])]]
    /\ store' = StoreAfterFind
    /\ UNCHANGED cache

(***************************************************************************)
(* Server: ExpectClientHello.  Version, suite, then the version's own part.*)
(***************************************************************************)
ChosenVersion(ch) ==
    IF "13" \in ch.versions /\ "13" \in SCfg.vers THEN "13"
    ELSE IF "12" \in ch.versions /\ "12" \in SCfg.vers THEN "12" ELSE "none"
SuitableSuites(ver) == SelectSeq(SCfg.suites, LAMBDA s : SCfg.key \in SuiteSigs[s] /\ SuiteVersion[s] = ver)
ChosenSuite(ch, ver) ==
    LET ours == SuitableSuites(ver)
        common == IF SCfg.pref = "server" THEN SelectSeq(ours, LAMBDA s : s \in ToSet(ch.suites))
                  ELSE SelectSeq(ch.suites, LAMBDA s : s \in ToSet(ours))
    IN IF common = <<>> THEN "none" ELSE common[1]
WithCertifiedKey(e0, chm) ==
    LET ch == chm.body
        ver == ChosenVersion(ch)
        suite == ChosenSuite(ch, ver)
        varied == e0.hs.doneRetry /\ SuiteHash[e0.suite] # SuiteHash[suite]
        e1 == [e0 EXCEPT !.ver = ver]
        e == [e1 EXCEPT !.suite = suite]
    IN CASE ver = "none" -> SendFatalAlert(e0, "protocol_version", "Tls12NotOfferedOrEnabled")
         [] ver # "none" /\ suite = "none" -> SendFatalAlert(e1, "handshake_failure", "NoCipherSuitesInCommon")
         [] suite # "none" /\ varied -> SendFatalAlert(e, "illegal_parameter", "HandshakeHashVariedAfterRetry")
         [] OTHER -> IF ver = "13" THEN HandleClientHello13(e, chm) ELSE HandleClientHello12(e, chm)
ExpectClientHello ==
    /\ \E st \in {"ExpectClientHello", "SkipRejectedEarlyData"} : Handles("s", st, "ClientHello")
    /\ LET chm == Msg("s")
           e == WithCertifiedKey([Reads("s") EXCEPT !.hs.sni = chm.body.sni], chm)
       IN /\ Handled("s", e)
          /\ cache' = IF e.ver = "13" /\ e.suite # "none" /\ TakesTicket13(chm.body)
                      THEN CacheAfterTake(chm.body) ELSE cache
    /\ UNCHANGED <<store, sent>>

(***************************************************************************)
(* Client: ServerHello and HelloRetryRequest.                              *)
(***************************************************************************)
ServerHelloError(e, sh) ==
    CASE sh.ver \notin CCfg.vers -> SendFatalAlert(e, "protocol_version", "ServerTlsVersionIsDisabled")
      [] sh.ver = "12" /\ EarlyEnabled(e) /\ e.earlyTraffic -> Fails(e, "OfferedEarlyDataWithOldProtocolVersion")
      [] sh.ver = "12" /\ AlpnUnoffered(sh.alpn) -> SendFatalAlert(e, "illegal_parameter", "SelectedUnofferedAlpn")
      [] sh.suite \notin ToSet(CCfg.suites) -> SendFatalAlert(e, "handshake_failure", "SelectedUnofferedCipherSuite")
      [] SuiteVersion[sh.suite] # sh.ver -> SendFatalAlert(e, "illegal_parameter", "SelectedUnusableCipherSuite")
      [] e.hs.retrySuite \notin {None, Some(sh.suite)} ->
           SendFatalAlert(e, "illegal_parameter", "SelectedDifferentCipherSuiteAfterRetry")
      [] OTHER -> e
ExpectServerHello ==
    /\ \E st \in {"ExpectServerHelloOrHrr", "ExpectServerHello"} : Handles("c", st, "ServerHello")
    /\ LET sh == Msg("c").body
           checked == ServerHelloError(Reads("c"), sh)
           e == [AddMessage(checked, Msg("c")) EXCEPT !.ver = sh.ver, !.suite = sh.suite]
           next == IF checked.err # "none" THEN checked
                   ELSE IF sh.ver = "13" THEN HandleServerHello13(e, sh)
                   ELSE HandleServerHello12(ProcessAlpn(e, sh.alpn), sh)
       IN /\ Handled("c", next)
          /\ store' = IF next.err = "none" /\ sh.ver = "13" THEN [store EXCEPT !.hint = Some(sh.share.g)] ELSE store
    /\ UNCHANGED <<cache, sent>>
HandleHelloRetryRequest ==
    /\ Handles("c", "ExpectServerHelloOrHrr", "HelloRetryRequest")
    /\ LET hrr == Msg("c").body
           e == Reads("c")
           e1 == AddMessage(RollupForHrr([e EXCEPT !.ver = "13", !.suite = hrr.suite]), Msg("c"))
           e2 == [e1 EXCEPT !.early = IF EarlyEnabled(e) THEN "Rejected" ELSE @,
                            !.hs.retrySuite = Some(hrr.suite), !.hs.share = ClientShare(CCfg, conn, hrr.group)]
       IN Handled("c",
            IF \/ hrr.group = e.hs.share[1].g \/ hrr.sid # e.hs.sid
               \/ hrr.suite \notin ToSet(CCfg.suites) \/ hrr.group \notin ToSet(CCfg.groups)
            THEN SendFatalAlert(e, "illegal_parameter", "IllegalHelloRetryRequest")
            ELSE EmitClientHello(e2, CCfg, conn, TRUE))
    /\ Tidy

(***************************************************************************)
(* The specification.                                                      *)
(***************************************************************************)
NoConnection == Endpoint("c", "none", <<>>)
Init ==
    /\ plan \in Plans
    /\ conn = 0
    /\ ep = [side \in Sides |-> NoConnection]
    /\ wire = [side \in Sides |-> <<>>]
    /\ store = [tickets |-> <<>>, tls12 |-> None, hint |-> None]
    /\ cache = {}
    /\ sent = [side \in Sides |-> NothingSent]

Hellos == ExpectClientHello \/ ExpectServerHello \/ HandleHelloRetryRequest
Client13 ==
    \/ ExpectEncryptedExtensions \/ ExpectCertificateRequest13 \/ ClientExpectCertificate13
    \/ ClientExpectCertificateVerify13 \/ ClientExpectFinished13 \/ HandleNewTicket13
Server13 ==
    \/ SkipRejectedEarlyData \/ ExpectEarlyData \/ EndOfEarlyData \/ ServerExpectCertificate13
    \/ ServerExpectCertificateVerify("ExpectCertificateVerify13", "ExpectFinished13")
    \/ ServerExpectFinished13
Client12 ==
    \/ ClientExpectCertificate12 \/ ExpectCertificateStatus \/ ExpectServerKx \/ ExpectCertificateRequest12
    \/ ExpectServerDone \/ ExpectNewTicket \/ ClientExpectFinished12
Server12 ==
    \/ ServerExpectCertificate12 \/ ExpectClientKx
    \/ ServerExpectCertificateVerify("ExpectCertificateVerify12", "ExpectCcs")
    \/ ServerExpectFinished12
Receive ==
    \/ Hellos \/ Client13 \/ Server13 \/ Client12 \/ Server12
    \/ \E side \in Sides :
         \/ ExpectCcs(side) \/ TrafficData(side) \/ HandleKeyUpdate(side) \/ ProcessAlert(side)
         \/ Unexpected(side) \/ MiddleboxCcs(side) \/ DropUndecryptable(side) \/ BadRecordMac(side)
         \/ PeerGone(side)
User ==
    \/ WriteEarlyData
    \/ \E side \in Sides : WriteData(side) \/ PeerAsksForKeyUpdate(side)
Close == \E side \in Sides : CloseNotify(side)
AllDone == conn = Len(plan) /\ \A side \in Sides : Ended(side)
Next == StartConnection \/ Receive \/ User \/ Close \/ (AllDone /\ UNCHANGED vars)
Spec == Init /\ [][Next]_vars

(***************************************************************************)
(* When a connection may fail.  Compatible compares the two configurations *)
(* alone; the other three reasons are limits of the implementation.        *)
(***************************************************************************)
CommonVersion ==
    IF "13" \in CCfg.vers \cap SCfg.vers THEN "13" ELSE IF "12" \in CCfg.vers \cap SCfg.vers THEN "12" ELSE "none"
Compatible ==
    /\ CommonVersion # "none"
    /\ \E suite \in ToSet(CCfg.suites) \cap ToSet(SCfg.suites) :
           SuiteVersion[suite] = CommonVersion /\ SCfg.key \in SuiteSigs[suite]
    /\ ToSet(CCfg.groups) \cap ToSet(SCfg.groups) # {}
    /\ CCfg.alpn # <<>> /\ SCfg.alpn # <<>> => ToSet(CCfg.alpn) \cap ToSet(SCfg.alpn) # {}
    /\ CCfg.trust /\ SCfg.key \in CCfg.sigs
    /\ SCfg.auth = "mandatory" => CCfg.cert
    /\ SCfg.auth # "none" /\ CCfg.cert => SCfg.trust
EarlyOverBudget ==
    IF ep["s"].early = "Accepted" THEN sent["c"].early > SCfg.max
    ELSE sent["c"].early * RecordLen > MaxEarlyDataSize
EarlyToOldServer == ep["c"].earlyTraffic /\ CommonVersion = "12"
HeldUpdateThenClose == \E side \in Sides : sent[side].heldKu

\* A connection between compatible configurations fails only if the early
\* data overran what the server skips, early data met a TLS 1.2 server, or a
\* close overtook a queued key update: resumption, retries, rejected early
\* data and key changes never break it (handle_client_hello and the states after it).
OnlyJustifiedFailure ==
    conn > 0 /\ (\E side \in Sides : ep[side].err # "none") =>
        ~Compatible \/ EarlyOverBudget \/ EarlyToOldServer \/ HeldUpdateThenClose

\* When both sides are in traffic they agree on everything negotiated, on the
\* transcript, and, once nothing is in flight, on both keys and positions.
InTraffic(side) == ep[side].st \in {"ExpectTraffic13", "ExpectTraffic12"}
Agreement ==
    (\A side \in Sides : InTraffic(side)) =>
        LET c == ep["c"] s == ep["s"]
        IN /\ <<c.ver, c.suite, c.alpn, c.resumed, c.tr>> = <<s.ver, s.suite, s.alpn, s.resumed, s.tr>>
           /\ wire["s"] = <<>> /\ c.ku = <<>> /\ s.err = "none" => c.enc = s.dec /\ c.wseq = s.rseq
           /\ wire["c"] = <<>> /\ s.ku = <<>> /\ c.err = "none" => s.enc = c.dec /\ s.wseq = c.rseq

\* Early data is delivered in order and only when accepted, all of it before
\* the handshake completes; rejected early data never reaches the user; what
\* is written later arrives in order and in full before a clean close.
UpTo(n) == [i \in 1..n |-> i]
DataExact ==
    LET c == ep["c"] s == ep["s"]
    IN /\ IsPrefix(s.gotEarly, UpTo(sent["c"].early))
       /\ s.early # "Accepted" => s.gotEarly = <<>>
       /\ InTraffic("s") /\ s.early = "Accepted" => s.gotEarly = UpTo(sent["c"].early)
       /\ InTraffic("c") => EarlyAccepted(c) = (s.early = "Accepted")
       /\ \A side \in Sides :
            /\ IsPrefix(ep[side].got, UpTo(sent[Peer(side)].data))
            /\ ep[side].closed => ep[side].got = UpTo(sent[Peer(side)].data)

\* A ticket the server can still honour is honoured, also when the hello had
\* to be retried, and a stored session is gone once it has been resumed.
ResumesWhenPossible ==
    conn > 0 /\ ep["s"].st = "ExpectTraffic13" =>
        LET offer == sent["s"].offer
        IN /\ ep["s"].resumed = (offer # None /\ CanResume(ep["s"].suite, ep["s"].hs.sni, FALSE, offer[1]))
           /\ ~SCfg.ticketer /\ ep["s"].resumed => \A x \in cache : x.val # offer[1]

\* The handshake never comes to a halt with each side waiting for the other:
\* with nothing in flight and no failure, both sides have reached traffic.
NoStall ==
    /\ conn > 0 /\ \A side \in Sides : wire[side] = <<>> /\ ep[side].err = "none"
    => \A side \in Sides : InTraffic(side)
=============================================================================
