---------------------------- MODULE VlessSession ----------------------------
(***************************************************************************)
(* serve_vless (src/src/handler.rs): one VLESS session, from the first     *)
(* read to the relay (Relay models what happens then) or to the two tasks  *)
(* of a UDP session.                                                       *)
(*                                                                         *)
(* A byte is its position in the client's stream; what the bytes mean is   *)
(* the client's plan, together with the inbound's sniffing switch:         *)
(*   kind      "vless": a valid request, "http": an HTTP request,          *)
(*             "other": anything else                                      *)
(*   hdr, cmd  length and command of the VLESS request; of an HTTP request *)
(*             hdr is the length of its method                             *)
(*   len       number of bytes the client sends                            *)
(*   sniff     sniffing is enabled                                         *)
(*   sni       TCP: length of the TLS hello with a server name that starts *)
(*             the data, 0 without one                                     *)
(*   plen      UDP: the number in a length field that starts there         *)
(*   packets   UDP: first and last position of each whole packet's payload *)
(* Definitions named X_Something are X with a plausible mistake.           *)
(***************************************************************************)
EXTENDS Naturals, Sequences

CONSTANTS Plans,
          ReadCap,     \* capacity of buf and temp_buf: 16384
          MinRequest,  \* shortest VLESS request: 22
          MaxPacket,   \* read_buf of a UDP session: 16384
          MaxRecv      \* bound: datagrams the target sends

LenHdr == 2

\* Position of the last byte of p's request and first k packets.
PacketEnd(p, k) == IF k = 0 THEN p.hdr ELSE p.packets[k][2]

\* The packets are the stream behind the request, cut by its length fields up
\* to the first packet that is not all there. A packet may be empty.
Framed(p) ==
    /\ p.packets \in Seq(Nat \X Nat)
    /\ \A k \in 1..Len(p.packets) :
          LET e == PacketEnd(p, k - 1) IN
            /\ e + LenHdr <= p.len /\ e + LenHdr + p.plen[e + 1] <= p.len
            /\ p.packets[k][1] = e + LenHdr + 1
            /\ p.packets[k][2] = e + LenHdr + p.plen[e + 1]
    /\ LET e == PacketEnd(p, Len(p.packets)) IN
         e + LenHdr <= p.len => e + LenHdr + p.plen[e + 1] > p.len

ASSUME VlessAssumption ==
    /\ {ReadCap, MinRequest, MaxPacket} \subseteq Nat \ {0}
    /\ MaxRecv \in Nat
    /\ \A p \in Plans : /\ {p.len, p.hdr, p.sni} \subseteq Nat
                        /\ p.kind \in {"vless", "http", "other"}
                        /\ p.kind = "vless" => p.hdr >= MinRequest
                        /\ p.cmd \in {"tcp", "udp", "mux"}
                        /\ p.sniff \in BOOLEAN
                        /\ p.plen \in [1..p.len -> Nat]
                        /\ p.kind = "vless" /\ p.cmd = "udp" => Framed(p)

VARIABLES
    plan,
    pc,        \* where the session is
    sock,      \* bytes that have arrived
    closed,    \* the client has half-closed
    sent,      \* history: number of bytes the client sent
    head,      \* history: bytes taken for the request
    buf,       \* buf
    reply,     \* what the client was told
    initial,   \* initial_data
    target,    \* target_address: the request's or the sniffed name
    out,       \* TCP: what the target got
    need,      \* UDP: payload length that send_task waits for; 0: a length
    lost,      \* history: bytes of the first read that a UDP session drops
    dgrams,    \* history: payloads handed to send_to
    rtask,     \* recv_task: waits for a datagram, or for the client to take one
    recvd      \* history: datagrams received from the target

client == <<plan, closed, sent>>
request == <<head, buf, reply>>
tcp == <<initial, target, out>>
udp == <<need, lost, dgrams, rtask, recvd>>
vars == <<pc, sock, client, request, tcp, udp>>

First(s, n) == SubSeq(s, 1, n)
Rest(s, n) == SubSeq(s, n + 1, Len(s))
Upto(s, cap) == IF Len(s) <= cap THEN Len(s) ELSE cap

Init ==
    /\ plan \in Plans
    /\ pc = "read"
    /\ sock = <<>> /\ head = <<>> /\ buf = <<>> /\ initial = <<>> /\ out = <<>>
    /\ closed = FALSE
    /\ sent = 0 /\ need = 0 /\ recvd = 0
    /\ lost = <<>> /\ dgrams = <<>>
    /\ rtask = "wait" /\ target = "request" /\ reply = "none"

-----------------------------------------------------------------------------
(* The client.                                                             *)

ClientSend(n) ==
    /\ ~closed /\ sent + n <= plan.len
    /\ sock' = sock \o [i \in 1..n |-> sent + i]
    /\ sent' = sent + n
    /\ UNCHANGED <<plan, closed, pc, request, tcp, udp>>

ClientClose ==
    /\ ~closed
    /\ closed' = TRUE
    /\ UNCHANGED <<plan, sent, pc, sock, request, tcp, udp>>

-----------------------------------------------------------------------------
(* The request.                                                            *)

\* Address::decode: the address, which ends the request, is complete.
AddressDecodes(n) == n >= plan.hdr

\* decode_request on the n bytes of the first read.
Decodes(n) == plan.kind = "vless" /\ n >= MinRequest /\ AddressDecodes(n)

\* The method is searched in what a failing decode_request has left. With
\* MinRequest bytes or more it has consumed the first one, which it took for
\* the version.
IsHttpProbe(n) == plan.kind = "http" /\ n >= plan.hdr /\ n < MinRequest

ReadRequest ==
    /\ pc = "read" /\ sock # <<>>
    /\ LET n == Upto(sock, ReadCap) IN
         /\ head' = IF Decodes(n) THEN First(sock, plan.hdr) ELSE <<>>
         /\ buf' = Rest(First(sock, n), Len(head'))
         /\ pc' = IF Decodes(n) THEN "respond" ELSE IF IsHttpProbe(n) THEN "probe" ELSE "closed"
         /\ sock' = Rest(sock, n)
    /\ UNCHANGED <<client, reply, tcp, udp>>

\* End of file, an error or 30 seconds without a byte.
ReadNothing ==
    /\ pc = "read" /\ sock = <<>>
    /\ pc' = "closed"
    /\ UNCHANGED <<sock, client, request, tcp, udp>>

\* A failure to write the answer is ignored.
Probe ==
    /\ pc = "probe"
    /\ reply' \in {"204", "none"}
    /\ pc' = "closed"
    /\ UNCHANGED <<sock, client, head, buf, tcp, udp>>

\* Sniffing reads although data came with the request, and keeps what it read.
Respond_SniffsAlways ==
    /\ pc = "respond"
    /\ reply' = "vless"
    /\ IF plan.cmd = "tcp"
       THEN /\ initial' = buf
            /\ buf' = <<>>
            /\ pc' = IF plan.sniff THEN "sniff" ELSE "dial"
       ELSE /\ pc' = IF plan.cmd = "udp" THEN "bind" ELSE "closed"
            /\ UNCHANGED <<buf, initial>>
    /\ UNCHANGED <<sock, client, head, target, out, udp>>

\* The response is written and flushed; a TCP session takes what came with
\* the request for its initial data and looks for more only without it. Mux
\* is not supported: the session ends.
Respond ==
    /\ pc = "respond"
    /\ reply' = "vless"
    /\ IF plan.cmd = "tcp"
       THEN /\ initial' = buf
            /\ buf' = <<>>
            /\ pc' = IF plan.sniff /\ buf = <<>> THEN "sniff" ELSE "dial"
       ELSE /\ pc' = IF plan.cmd = "udp" THEN "bind" ELSE "closed"
            /\ UNCHANGED <<buf, initial>>
    /\ UNCHANGED <<sock, client, head, target, out, udp>>

\* The response cannot be written, the target cannot be reached in ten
\* seconds or breaks, a socket cannot be bound, a name not resolved.
SetupErr ==
    /\ pc \in {"respond", "dial", "send", "bind"}
    /\ pc' = "closed"
    /\ UNCHANGED <<sock, client, request, tcp, udp>>

-----------------------------------------------------------------------------
(* TCP.                                                                    *)

SniffRead ==
    /\ pc = "sniff" /\ sock # <<>>
    /\ initial' = First(sock, Upto(sock, ReadCap))
    /\ sock' = Rest(sock, Upto(sock, ReadCap))
    /\ pc' = "dial"
    /\ UNCHANGED <<client, request, target, out, udp>>

\* End of file, an error or half a second without a byte.
SniffNothing ==
    /\ pc = "sniff" /\ sock = <<>>
    /\ pc' = "dial"
    /\ UNCHANGED <<sock, client, request, tcp, udp>>

\* sniff_tls_sni: every length field of the hello is checked against the
\* data, so that only a whole one has a name.
Sniffs(s) == plan.sni > 0 /\ Len(s) >= plan.sni

Dial ==
    /\ pc = "dial"
    /\ target' = IF plan.sniff /\ Sniffs(initial) THEN "sni" ELSE "request"
    /\ pc' = "send"
    /\ UNCHANGED <<sock, client, request, initial, out, udp>>

SendInitial ==
    /\ pc = "send"
    /\ out' = out \o initial
    /\ initial' = <<>>
    /\ pc' = "relay"
    /\ UNCHANGED <<sock, client, request, target, udp>>

\* handle_connection, as far as this direction goes.
RelayForward ==
    /\ pc = "relay" /\ sock # <<>>
    /\ out' = out \o sock
    /\ sock' = <<>>
    /\ UNCHANGED <<pc, client, request, initial, target, udp>>

RelayEnd ==
    /\ pc = "relay"
    /\ pc' = "closed"
    /\ UNCHANGED <<sock, client, request, tcp, udp>>

-----------------------------------------------------------------------------
(* UDP: a packet is a two-byte length and that many bytes.                 *)

\* The length in a packet that starts with s.
LengthOf(s) == plan.plen[s[1]]

\* The length field is sent along.
UdpStart_WithLength ==
    /\ pc = "bind"
    /\ IF Len(buf) >= LenHdr /\ Len(buf) >= LenHdr + LengthOf(buf)
       THEN /\ dgrams' = Append(dgrams, First(buf, LengthOf(buf)))
            /\ lost' = Rest(buf, LenHdr + LengthOf(buf))
       ELSE lost' = buf /\ UNCHANGED dgrams
    /\ pc' = "udp"
    /\ UNCHANGED <<sock, client, request, tcp, need, rtask, recvd>>

\* The first packet that came with the request is sent if it is complete (a
\* failure is ignored); whatever else is in buf is not looked at again.
UdpStart ==
    /\ pc = "bind"
    /\ IF Len(buf) >= LenHdr /\ Len(buf) >= LenHdr + LengthOf(buf)
       THEN /\ dgrams' = Append(dgrams, SubSeq(buf, LenHdr + 1, LenHdr + LengthOf(buf)))
            /\ lost' = Rest(buf, LenHdr + LengthOf(buf))
       ELSE lost' = buf /\ UNCHANGED dgrams
    /\ pc' = "udp"
    /\ UNCHANGED <<sock, client, request, tcp, need, rtask, recvd>>

\* send_task reads a length; an empty or an oversized packet ends it, and
\* with it the session.
SendLen ==
    /\ pc = "udp" /\ need = 0 /\ Len(sock) >= LenHdr
    /\ IF LengthOf(sock) \in 1..MaxPacket THEN need' = LengthOf(sock) /\ UNCHANGED pc
                                          ELSE pc' = "closed" /\ UNCHANGED need
    /\ sock' = Rest(sock, LenHdr)
    /\ UNCHANGED <<client, request, tcp, lost, dgrams, rtask, recvd>>

\* The payload is read and sent; a failing send_to ends the task.
SendPacket ==
    /\ pc = "udp" /\ need > 0 /\ Len(sock) >= need
    /\ dgrams' = Append(dgrams, First(sock, need))
    /\ sock' = Rest(sock, need)
    /\ need' = 0
    /\ pc' \in {"udp", "closed"}
    /\ UNCHANGED <<client, request, tcp, lost, rtask, recvd>>

\* End of file inside a packet or before the next one; five minutes without
\* a length (a payload is waited for without limit).
SendEnd ==
    /\ pc = "udp"
    /\ Len(sock) < (IF need = 0 THEN LenHdr ELSE need)
    /\ closed \/ need = 0
    /\ pc' = "closed"
    /\ UNCHANGED <<sock, client, request, tcp, udp>>

\* recv_task has a datagram of the target and frames it.
RecvPacket ==
    /\ pc = "udp" /\ rtask = "wait" /\ recvd < MaxRecv
    /\ recvd' = recvd + 1
    /\ rtask' = "write"
    /\ UNCHANGED <<pc, sock, client, request, tcp, need, lost, dgrams>>

\* The client takes the frame, which is waited for without limit.
RecvWritten ==
    /\ pc = "udp" /\ rtask = "write"
    /\ rtask' = "wait"
    /\ UNCHANGED <<pc, sock, client, request, tcp, need, lost, dgrams, recvd>>


\* An empty datagram, a failing socket, five minutes without a datagram.
RecvEnd ==
    /\ pc = "udp" /\ rtask = "wait"
    /\ pc' = "closed"
    /\ UNCHANGED <<sock, client, request, tcp, udp>>

\* The frame cannot be written.
RecvWriteErr ==
    /\ pc = "udp" /\ rtask = "write"
    /\ pc' = "closed"
    /\ UNCHANGED <<sock, client, request, tcp, udp>>

SetupNext == ReadRequest \/ ReadNothing \/ Probe \/ Respond \/ SniffRead \/ SniffNothing
             \/ Dial \/ UdpStart \/ SetupErr
SendNext == SendLen \/ SendPacket \/ SendEnd

\* The waits of the set-up that have a timer: the first read (30 s), sniffing
\* (0.5 s) and connecting (10 s).
TimedSetup == pc \in {"read", "sniff", "dial"} /\ SetupNext

Next == (\E n \in 1..plan.len : ClientSend(n)) \/ ClientClose
        \/ SetupNext \/ SendInitial \/ RelayForward \/ RelayEnd
        \/ SendNext \/ RecvPacket \/ RecvWritten \/ RecvEnd \/ RecvWriteErr

Spec == Init /\ [][Next]_vars

\* The session is scheduled, and the timers the code sets fire. Nobody has
\* to send or to take anything, and the resolver need not answer: a write to
\* a client or to a target that does not read is not fair, nor is the look-up
\* of a UDP target's name.
FairSpec == Spec /\ WF_vars(TimedSetup) /\ WF_vars(SendNext) /\ WF_vars(RecvEnd)

-----------------------------------------------------------------------------
\* Through request, leftover, sniffing and relay nothing of a TCP session's
\* stream is lost, repeated or reordered; and a target that a sniffed name
\* replaced gets the whole hello with that name before the relay starts.
TcpConserved ==
    plan.kind = "vless" /\ plan.cmd = "tcp" /\ reply = "vless"
       => /\ head \o out \o initial \o buf \o sock = [i \in 1..sent |-> i]
          /\ pc = "relay" /\ target = "sni" => Len(out) >= plan.sni

\* The payload of the client's k-th packet.
Packet(k) == [i \in 1..(plan.packets[k][2] - plan.packets[k][1] + 1) |-> plan.packets[k][1] + i - 1]

\* Unless the first read brought more than one packet, or a part of one, the
\* target gets the client's packets, each as one datagram, in order and with
\* nothing of the framing, however the stream is cut after that; and the fixed
\* buffer is never sliced by a length it does not hold (handler.rs:216-221).
Datagrams ==
    /\ need <= MaxPacket
    /\ plan.kind = "vless" /\ plan.cmd = "udp" /\ lost = <<>>
          => /\ Len(dgrams) <= Len(plan.packets)
             /\ \A k \in 1..Len(dgrams) : dgrams[k] = Packet(k)

\* A session gets to its relay, to its UDP tasks or to its end, unless it
\* stays in one of the four waits of the set-up that have no timer: the answer
\* to a probe (handler.rs:53), the response (70-71), the look-up of a UDP
\* target (166) and the initial data's way to a TCP target (136).
SetupBounded ==
    pc \in {"read", "probe", "respond", "sniff", "dial", "bind", "send"}
      ~> \/ pc \in {"relay", "udp", "closed"}
         \/ [](pc = "probe") \/ [](pc = "respond") \/ [](pc = "bind") \/ [](pc = "send")

\* A UDP session ends when nothing moves any more, unless both of its tasks
\* are in the one wait that has no timer: send_task inside a packet that
\* does not come, recv_task behind a frame that the client does not take.
UdpEnds ==
    pc = "udp" ~> \/ pc = "closed"
                  \/ [](need > 0 /\ rtask = "write" /\ ~closed)

=============================================================================
