------------------------------ MODULE TlsCommon ------------------------------
(***************************************************************************)
(* What the TLS 1.2 and TLS 1.3 state machines of the vendored rustls      *)
(* share: the endpoint (CommonState, RecordLayer and the side's connection *)
(* data), the handshake transcript, sending, and the path a received       *)
(* record takes from the deframer to a state's handler.                    *)
(*                                                                         *)
(* A key is the tuple of everything it is derived from, so two endpoints   *)
(* hold the same key exactly when they derived it from the same inputs.  A *)
(* record opens under a key and a sequence number.  One record carries one *)
(* message here; splitting and joining them is the subject of TlsRecords.  *)
(* A value that may be absent (an Option) is a sequence of length 0 or 1.  *)
(***************************************************************************)
EXTENDS Integers, Sequences, FiniteSets, SequencesExt

CONSTANTS
    Plans,        \* the sequences of connections to run: [c, s, age] each
    RecordLen,    \* length of an early-data record as it is on the wire
    DefaultSkip   \* max_early_data_size when the server configures none

VARIABLES
    plan,    \* the connections of this behaviour, chosen once
    conn,    \* the one under way
    ep,      \* the two endpoints of it
    wire,    \* records in flight towards each side, in order
    store,   \* the client's session store, kept across connections
    cache,   \* the server's session storage, kept across connections
    sent     \* history: application units accepted from each side's user

vars == <<plan, conn, ep, wire, store, cache, sent>>

Sides == {"c", "s"}
Peer(side) == IF side = "c" THEN "s" ELSE "c"
CCfg == plan[conn].c
SCfg == plan[conn].s
None == <<>>
Some(v) == <<v>>

SuiteVersion == [A128 |-> "13", A256 |-> "13", CC20 |-> "13", E128 |-> "12", R256 |-> "12"]
SuiteHash == [A128 |-> "sha256", A256 |-> "sha384", CC20 |-> "sha256", E128 |-> "sha256", R256 |-> "sha384"]
SuiteSigs == [A128 |-> {"ec", "ed", "rsa"}, A256 |-> {"ec", "ed", "rsa"}, CC20 |-> {"ec", "ed", "rsa"},
              E128 |-> {"ec", "ed"}, R256 |-> {"rsa"}]

(***************************************************************************)
(* Messages.  auth holds what is computed over the transcript (a binder, a *)
(* signature, verify_data) and body the rest; the transcript records only  *)
(* the type and the body, since auth is a function of what precedes it.    *)
(***************************************************************************)
M(typ, body, auth) == [typ |-> typ, body |-> body, auth |-> auth]
NoBody == [n |-> 0]
Ccs == M("ChangeCipherSpec", NoBody, None)
Alert(level, desc) == M("Alert", [level |-> level, desc |-> desc], None)
AppData(n) == M("ApplicationData", [n |-> n], None)
KeyUpdate(req) == M("KeyUpdate", [req |-> req], None)
Digest(m) == <<m.typ, m.body>>

(***************************************************************************)
(* An endpoint.  enc and dec are the active keys, nextEnc and nextDec the  *)
(* prepared ones; trial is the early-data budget of trial decryption;      *)
(* pending is sendable_plaintext and ku queued_key_update_message; early   *)
(* and left are the side's EarlyData; hs holds what the handshake states   *)
(* pass along; got and gotEarly what the user has read.                    *)
(***************************************************************************)
NoKey == <<>>
Endpoint(side, st, hs) ==
    [side |-> side, st |-> st, ver |-> "none", suite |-> "none", alpn |-> None, tr |-> <<>>,
     enc |-> NoKey, wseq |-> 0, dec |-> NoKey, rseq |-> 0, nextEnc |-> NoKey, nextDec |-> NoKey,
     hasDec |-> FALSE, trial |-> None, maySend |-> FALSE, mayRecv |-> FALSE, earlyTraffic |-> FALSE,
     ccs |-> 0, closed |-> FALSE, certs |-> None, pending |-> <<>>, ku |-> <<>>, out |-> <<>>,
     err |-> "none", early |-> "Disabled", left |-> 0, hs |-> hs, resumed |-> FALSE,
     got |-> <<>>, gotEarly |-> <<>>]

(***************************************************************************)
(* The transcript: HandshakeHash, and its two steps for a retry, which     *)
(* replace what was hashed by one message_hash element.                    *)
(***************************************************************************)
AddMessage(e, m) == [e EXCEPT !.tr = Append(@, Digest(m))]
RollupForHrr(e) == [e EXCEPT !.tr = <<<<"message_hash", [hash |-> @]>>>>]

(***************************************************************************)
(* The record layer.                                                       *)
(***************************************************************************)
SetEncrypter(e, k) == [e EXCEPT !.enc = k, !.wseq = 0]
SetDecrypter(e, k) == [e EXCEPT !.dec = k, !.rseq = 0, !.trial = None]
SetTrialDecrypter(e, k, max) == [e EXCEPT !.dec = k, !.rseq = 0, !.trial = Some(max)]
PrepareTls12(e, enc, dec) == [e EXCEPT !.nextEnc = enc, !.nextDec = dec]
StartEncrypting(e) == SetEncrypter(e, e.nextEnc)
StartDecrypting(e) == [e EXCEPT !.dec = e.nextDec, !.rseq = 0]

ContentType(m) ==
    CASE m.typ \in {"ChangeCipherSpec", "Alert", "ApplicationData"} -> m.typ
      [] OTHER -> "Handshake"
Record(e, m, key) == [key |-> key, seq |-> e.wseq, ver |-> e.ver, msg |-> m]
SendMsg(e, m, encrypt) ==
    IF encrypt
    THEN [e EXCEPT !.out = Append(@, Record(e, m, e.enc)), !.wseq = @ + 1]
    ELSE [e EXCEPT !.out = Append(@, Record(e, m, NoKey))]
Emit(e, m, encrypt) == SendMsg(AddMessage(e, m), m, encrypt)
EncryptOutgoing(e, m) == [e EXCEPT !.ku = Some(Record(e, m, e.enc)), !.wseq = @ + 1]

(***************************************************************************)
(* Sending application data, alerts and the reply to a key update.  What   *)
(* is written before the handshake allows it waits in sendable_plaintext.  *)
(***************************************************************************)
SendPlain(e, n) ==
    IF e.maySend THEN SendMsg(e, AppData(n), TRUE) ELSE [e EXCEPT !.pending = Append(@, n)]
FlushPlaintext(e) ==
    [FoldLeft(LAMBDA a, n : SendMsg(a, AppData(n), TRUE), e, e.pending) EXCEPT !.pending = <<>>]
StartOutgoingTraffic(e) == FlushPlaintext([e EXCEPT !.maySend = TRUE])
StartTraffic_DropsPending(e) == [e EXCEPT !.maySend = TRUE, !.mayRecv = TRUE, !.pending = <<>>]
StartTraffic(e) == StartOutgoingTraffic([e EXCEPT !.mayRecv = TRUE])
PerhapsWriteKeyUpdate(e) == [e EXCEPT !.out = @ \o e.ku, !.ku = <<>>]

SendAlert(e, level, desc) == SendMsg(e, Alert(level, desc), e.enc # NoKey)
Fails(e, err) == [e EXCEPT !.err = err]
SendFatalAlert(e, desc, err) == Fails(SendAlert(e, "fatal", desc), err)

(***************************************************************************)
(* Receiving.  A record is taken as plaintext while no decrypter is active *)
(* and, even then, if it is a ChangeCipherSpec, or an alert under TLS 1.3  *)
(* before anything was decrypted.  Sealed content seen without a decrypter *)
(* is application data by its outer type.                                  *)
(***************************************************************************)
AllowedPlaintext(e, r) ==
    \/ r.msg.typ = "ChangeCipherSpec"
    \/ r.msg.typ = "Alert" /\ r.key = NoKey /\ e.ver = "13" /\ ~e.hasDec
Passes(e, r) == e.dec = NoKey \/ AllowedPlaintext(e, r)
Opens(e, r) == ~Passes(e, r) /\ r.key = e.dec /\ r.seq = e.rseq
Content(e, r) == IF Passes(e, r) /\ r.key # NoKey THEN M("ApplicationData", [n |-> -1], None) ELSE r.msg
Opened(e, r) ==
    LET e1 == IF Opens(e, r) THEN [e EXCEPT !.rseq = @ + 1, !.hasDec = TRUE] ELSE e
    IN IF ContentType(Content(e, r)) = "Handshake" THEN [e1 EXCEPT !.trial = None] ELSE e1
DoingTrialDecryption(e) == e.trial # None /\ e.trial[1] >= RecordLen

Incoming(side) == wire[side] # <<>> /\ ep[side].err = "none" /\ ~ep[side].closed
Rec(side) == Head(wire[side])
Msg(side) == Content(ep[side], Rec(side))
Reads(side) == Opened(ep[side], Rec(side))
Readable(side) == Incoming(side) /\ (Passes(ep[side], Rec(side)) \/ Opens(ep[side], Rec(side)))

\* One step of an endpoint: its new state, with what it queued put on the wire.
Steps(side, e, consumed) ==
    /\ ep' = [ep EXCEPT ![side] = [e EXCEPT !.out = <<>>]]
    /\ wire' = [wire EXCEPT ![Peer(side)] = @ \o e.out,
                            ![side] = IF consumed THEN Tail(@) ELSE @]
    /\ UNCHANGED <<plan, conn>>
Handled(side, e) == Steps(side, e, TRUE)
Tidy == UNCHANGED <<store, cache, sent>>

(***************************************************************************)
(* The messages each handshake state accepts; any other gets the alert     *)
(* unexpected_message from process_main_protocol.                          *)
(***************************************************************************)
Expected(side, st) ==
    CASE st = "ExpectClientHello" -> {"ClientHello"}
      [] st = "SkipRejectedEarlyData" -> {"ClientHello", "ApplicationData"}
      [] st = "ExpectServerHelloOrHrr" -> {"ServerHello", "HelloRetryRequest"}
      [] st = "ExpectServerHello" -> {"ServerHello"}
      [] st = "ExpectEncryptedExtensions" -> {"EncryptedExtensions"}
      [] st = "ExpectCertificateOrCertReq" -> {"Certificate", "CertificateRequest"}
      [] st \in {"ExpectCertificate13", "ExpectCertificate12"} -> {"Certificate"}
      [] st \in {"ExpectCertificateVerify13", "ExpectCertificateVerify12"} -> {"CertificateVerify"}
      [] st = "ExpectEarlyData" -> {"ApplicationData", "EndOfEarlyData"}
      [] st \in {"ExpectFinished13", "ExpectFinished12"} -> {"Finished"}
      [] st = "ExpectTraffic13" /\ side = "c" -> {"ApplicationData", "KeyUpdate", "NewSessionTicket"}
      [] st = "ExpectTraffic13" /\ side = "s" -> {"ApplicationData", "KeyUpdate"}
      [] st = "ExpectTraffic12" -> {"ApplicationData"}
      [] st = "ExpectCertificateStatusOrServerKx" -> {"CertificateStatus", "ServerKeyExchange"}
      [] st = "ExpectServerKx" -> {"ServerKeyExchange"}
      [] st = "ExpectServerDoneOrCertReq" -> {"ServerHelloDone", "CertificateRequest"}
      [] st = "ExpectServerDone" -> {"ServerHelloDone"}
      [] st = "ExpectNewTicket" -> {"NewSessionTicket"}
      [] st = "ExpectClientKx" -> {"ClientKeyExchange"}
      [] st = "ExpectCcs" -> {"ChangeCipherSpec"}
DropsCcs(side) == Msg(side).typ = "ChangeCipherSpec" /\ ~ep[side].mayRecv /\ ep[side].ver = "13"
Handles(side, st, typ) ==
    /\ Readable(side)
    /\ ep[side].st = st
    /\ Msg(side).typ = typ
    /\ ~DropsCcs(side)

(***************************************************************************)
(* A record that does not open: skipped within the budget while early data *)
(* is being rejected, otherwise the end of the connection.                 *)
(***************************************************************************)
Sealed(side) == Incoming(side) /\ ~Readable(side)
DropUndecryptable(side) ==
    /\ Sealed(side)
    /\ DoingTrialDecryption(ep[side])
    /\ Handled(side, [ep[side] EXCEPT !.trial = Some(@[1] - RecordLen)])
    /\ Tidy
BadRecordMac(side) ==
    /\ Sealed(side)
    /\ ~DoingTrialDecryption(ep[side])
    /\ Handled(side, SendFatalAlert(ep[side], "bad_record_mac", "DecryptError"))
    /\ Tidy

\* process_msg: a TLS 1.3 handshake ignores a few middlebox ChangeCipherSpecs.
MaxDroppedCcs == 2
MiddleboxCcs(side) ==
    /\ Readable(side)
    /\ DropsCcs(side)
    /\ Handled(side, IF ep[side].ccs > MaxDroppedCcs
                      THEN SendFatalAlert(ep[side], "unexpected_message", "IllegalMiddleboxCcs")
                      ELSE [ep[side] EXCEPT !.ccs = @ + 1])
    /\ Tidy

ProcessAlert(side) ==
    /\ Readable(side)
    /\ Msg(side).typ = "Alert"
    /\ LET e == Reads(side) alert == Msg(side).body
       IN Handled(side, IF alert.desc = "close_notify" THEN [e EXCEPT !.closed = TRUE]
                        ELSE IF alert.level = "fatal" THEN Fails(e, "AlertReceived")
                        ELSE IF e.ver = "13" THEN SendFatalAlert(e, "decode_error", "AlertReceived")
                        ELSE e)
    /\ Tidy

Unexpected(side) ==
    /\ Readable(side)
    /\ ~DropsCcs(side)
    /\ Msg(side).typ \notin Expected(side, ep[side].st) \cup {"Alert"}
    /\ Handled(side, SendFatalAlert(Reads(side), "unexpected_message", "InappropriateMessage"))
    /\ Tidy

(***************************************************************************)
(* The users of the two connections: they write units numbered in order,   *)
(* close once with close_notify, and a user whose connection failed drops  *)
(* the transport, which its peer sees after reading what is in flight.     *)
(***************************************************************************)
CONSTANTS MaxEarly, MaxData   \* bounds on the units a user writes
Writing(side) == conn > 0 /\ ep[side].err = "none" /\ ~sent[side].close
WriteData(side) ==
    /\ Writing(side)
    /\ sent[side].data < MaxData
    /\ Steps(side, SendPlain(PerhapsWriteKeyUpdate(ep[side]), sent[side].data + 1), FALSE)
    /\ sent' = [sent EXCEPT ![side].data = @ + 1]
    /\ UNCHANGED <<store, cache>>
CloseNotify(side) ==
    /\ Writing(side)
    /\ ep[side].maySend /\ ep[side].mayRecv
    /\ Steps(side, SendAlert(ep[side], "warning", "close_notify"), FALSE)
    /\ sent' = [sent EXCEPT ![side].close = TRUE, ![side].heldKu = ep[side].ku # <<>>]
    /\ UNCHANGED <<store, cache>>
PeerGone(side) ==
    /\ conn > 0 /\ wire[side] = <<>>
    /\ ep[side].err = "none" /\ ~ep[side].closed
    /\ ep[Peer(side)].err # "none"
    /\ Steps(side, Fails(ep[side], "UnexpectedEof"), FALSE)
    /\ Tidy
=============================================================================
