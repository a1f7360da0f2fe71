------------------------------- MODULE Ingress -------------------------------
(***************************************************************************)
(* How the bytes of one accepted TCP connection reach whoever serves it:   *)
(* Server::handle_client (src/src/server.rs) looks for a proxy-protocol    *)
(* header, RealityServerRustls::accept (src/src/transport/reality/         *)
(* server_rustls.rs) collects the ClientHello, and then either the TLS     *)
(* acceptor (and VLESS behind it) or the fallback destination consumes the *)
(* stream.  Every stage may have read ahead, and replays what it read      *)
(* through a PrefixedStream.                                               *)
(*                                                                         *)
(* A byte is its position in the client's stream.  What the bytes mean is  *)
(* the client's plan, fixed in the initial state together with the two     *)
(* switches of the inbound's configuration:                                *)
(*   pp, reality   accept_proxy_protocol and Reality are configured        *)
(*   hdr, sig      length of the proxy-protocol header and of its          *)
(*                 signature (hdr = 0: there is none); good: it parses     *)
(*   tls, rec      the rest starts with a TLS ClientHello record of length *)
(*                 rec, record header included                             *)
(*   auth          its SNI is served and its session id authenticates      *)
(*   len           number of bytes the client sends                        *)
(* Definitions named X_Something are X with a plausible mistake.           *)
(***************************************************************************)
EXTENDS Naturals, Sequences

CONSTANTS Plans,      \* the clients considered
          PeekCap,    \* pp_buf: 512
          ReadCap,    \* chunk: 1024
          RecHdr,     \* length of a TLS record header: 5
          MaxHello    \* accept gives up collecting here: 16384

ASSUME IngressAssumption ==
    /\ {PeekCap, ReadCap, RecHdr, MaxHello} \subseteq Nat \ {0}
    /\ \A p \in Plans : /\ {p.hdr, p.sig, p.rec, p.len} \subseteq Nat
                        /\ {p.pp, p.reality, p.good, p.tls, p.auth} \subseteq BOOLEAN
                        /\ p.sig <= p.hdr

VARIABLES
    plan,
    pc,        \* where the connection's task is
    peeked,    \* n, the result of peek
    sock,      \* received by the kernel, not yet read
    closed,    \* the client has half-closed
    prefix,    \* unread part of server.rs's PrefixedStream
    buffer,    \* accept's buffer; later the unread part of its PrefixedStream
    out,       \* what the TLS acceptor, VLESS or the fallback destination got
    skipped,   \* the proxy-protocol header that was removed
    sent,      \* history: all the client sent
    shut,      \* copy_bidirectional has shut the destination down
    destDone   \* the destination has closed its side

vars == <<plan, pc, peeked, sock, closed, prefix, buffer, out, skipped, sent, shut, destDone>>
ends == <<plan, closed, sent, shut, destDone>>

First(s, n) == SubSeq(s, 1, n)
Rest(s, n) == SubSeq(s, n + 1, Len(s))
MinOf(a, b) == IF a <= b THEN a ELSE b

Init ==
    /\ plan \in Plans
    /\ pc = IF plan.pp THEN "peek" ELSE IF plan.reality THEN "hello" ELSE "serve"
    /\ peeked = 0
    /\ sock = <<>> /\ prefix = <<>> /\ buffer = <<>>
    /\ out = <<>> /\ skipped = <<>> /\ sent = <<>>
    /\ closed = FALSE /\ shut = FALSE /\ destDone = FALSE

-----------------------------------------------------------------------------
(* The client.                                                             *)

ClientSend(n) ==
    /\ ~closed
    /\ Len(sent) + n <= plan.len
    /\ LET seg == [i \in 1..n |-> Len(sent) + i] IN
         /\ sock' = sock \o seg
         /\ sent' = sent \o seg
    /\ UNCHANGED <<plan, pc, peeked, closed, prefix, buffer, out, skipped, shut, destDone>>

ClientClose ==
    /\ ~closed
    /\ closed' = TRUE
    /\ UNCHANGED <<plan, pc, peeked, sock, prefix, buffer, out, skipped, sent, shut, destDone>>

-----------------------------------------------------------------------------
(* handle_client: the proxy-protocol header.                               *)

AfterPP == IF plan.reality THEN "hello" ELSE "serve"

\* A header is recognised by its signature alone, complete or not.
IsProxyProtocol(n) == plan.hdr > 0 /\ n >= plan.sig
ParseProxyProtocol(n) == plan.good /\ n >= plan.hdr

Peek ==
    /\ pc = "peek"
    /\ sock # <<>>
    /\ peeked' = MinOf(PeekCap, Len(sock))
    /\ pc' = IF IsProxyProtocol(peeked') THEN "exact" ELSE AfterPP
    /\ UNCHANGED <<sock, prefix, buffer, out, skipped, ends>>

\* End of file, an error or five seconds without a byte.
PeekNothing ==
    /\ pc = "peek"
    /\ sock = <<>>
    /\ pc' = AfterPP
    /\ UNCHANGED <<peeked, sock, prefix, buffer, out, skipped, ends>>

\* Whatever was read beyond a parsed header, or all of it when it does not
\* parse, is put back in front of the stream.
ReadExact ==
    /\ pc = "exact"
    /\ LET n == IF ParseProxyProtocol(peeked) THEN plan.hdr ELSE 0 IN
         /\ skipped' = First(sock, n)
         /\ prefix' = SubSeq(sock, n + 1, peeked)
    /\ sock' = Rest(sock, peeked)
    /\ pc' = AfterPP
    /\ UNCHANGED <<peeked, buffer, out, ends>>

-----------------------------------------------------------------------------
(* Reading the stream that handle_client passes on: the prefix, if there   *)
(* is one left, and only then the socket.                                  *)

StreamReady(n) == n <= Len(IF prefix # <<>> THEN prefix ELSE sock)
StreamTake(n) == First(IF prefix # <<>> THEN prefix ELSE sock, n)
StreamAdvance(n) ==
    IF prefix # <<>> THEN prefix' = Rest(prefix, n) /\ UNCHANGED sock
                     ELSE sock' = Rest(sock, n) /\ UNCHANGED prefix
StreamIdle == prefix = <<>> /\ sock = <<>>

-----------------------------------------------------------------------------
(* RealityServerRustls::accept.                                            *)

\* The buffer starts with the client's TLS record.
IsHello == plan.tls /\ buffer[1] = plan.hdr + 1

\* The record header is not counted.
Needed_NoHeader == IF IsHello THEN plan.rec - RecHdr ELSE Len(buffer)

Needed == IF IsHello THEN plan.rec ELSE Len(buffer)

HelloWants == Len(buffer) >= RecHdr => Len(buffer) < Needed /\ Len(buffer) < MaxHello

HelloRead(n) ==
    /\ pc = "hello" /\ HelloWants
    /\ StreamReady(n)
    /\ buffer' = buffer \o StreamTake(n)
    /\ StreamAdvance(n)
    /\ UNCHANGED <<pc, peeked, out, skipped, ends>>

\* The connection is reset while the header or the ClientHello is read.
ReadErr ==
    /\ pc = "exact" \/ (pc = "hello" /\ HelloWants /\ prefix = <<>>)
    /\ pc' = "closed"
    /\ UNCHANGED <<peeked, sock, prefix, buffer, out, skipped, ends>>

\* Closed early, or an incomplete ClientHello that is judged as it stands.
HelloEof ==
    /\ pc = "hello" /\ HelloWants
    /\ StreamIdle /\ closed
    /\ pc' = IF Len(buffer) < RecHdr THEN "closed" ELSE "connect"
    /\ UNCHANGED <<peeked, sock, prefix, buffer, out, skipped, ends>>

\* There is no handshake timeout.
HelloTimeout_Never == FALSE /\ UNCHANGED vars

HelloTimeout ==
    /\ pc = "hello" /\ HelloWants
    /\ StreamIdle /\ ~closed
    /\ pc' = "closed"
    /\ UNCHANGED <<peeked, sock, prefix, buffer, out, skipped, ends>>

\* parse_client_hello finds a whole record; what it extracts is the plan's.
ParsesHello == IsHello /\ Len(buffer) >= plan.rec

\* The SNI check and verify_client_reality: the session id is authenticated
\* over all that was read after the record header, so a byte read beyond the
\* record makes it fail.
Verified == ParsesHello /\ plan.auth /\ Len(buffer) = plan.rec

\* No certificate can be made for a verified client.
CertFail ==
    /\ pc = "hello" /\ ~HelloWants
    /\ Verified
    /\ pc' = "closed"
    /\ UNCHANGED <<peeked, sock, prefix, buffer, out, skipped, ends>>

HelloDispatch ==
    /\ pc = "hello" /\ ~HelloWants
    /\ pc' = IF Verified THEN "tls" ELSE "connect"
    /\ UNCHANGED <<peeked, sock, prefix, buffer, out, skipped, ends>>

-----------------------------------------------------------------------------
(* The TLS acceptor, and VLESS behind it.                                  *)

TlsRead(n) ==
    /\ pc \in {"tls", "serve"}
    /\ IF buffer # <<>>
       THEN /\ n <= Len(buffer)
            /\ out' = out \o First(buffer, n)
            /\ buffer' = Rest(buffer, n)
            /\ UNCHANGED <<sock, prefix>>
       ELSE /\ StreamReady(n)
            /\ out' = out \o StreamTake(n)
            /\ StreamAdvance(n)
            /\ UNCHANGED buffer
    /\ UNCHANGED <<pc, peeked, skipped, ends>>

TlsDone ==
    /\ pc = "tls"
    /\ Len(out) >= plan.rec
    /\ pc' = "serve"
    /\ UNCHANGED <<peeked, sock, prefix, buffer, out, skipped, ends>>

\* No certificate, a failed handshake or its five-second timeout.
TlsFail ==
    /\ pc = "tls"
    /\ pc' = "closed"
    /\ UNCHANGED <<peeked, sock, prefix, buffer, out, skipped, ends>>

-----------------------------------------------------------------------------
(* fallback.                                                               *)

FallbackConnect ==
    /\ pc = "connect"
    /\ pc' \in {"write", "closed"}
    /\ UNCHANGED <<peeked, sock, prefix, buffer, out, skipped, ends>>

\* The destination is connected to the client without the collected bytes.
FallbackWrite_NoPrefix ==
    /\ pc = "write"
    /\ pc' = "copy"
    /\ buffer' = <<>>
    /\ UNCHANGED <<peeked, sock, prefix, out, skipped, ends>>

FallbackWrite ==
    /\ pc = "write"
    /\ \/ /\ pc' = "copy"
          /\ out' = out \o buffer
          /\ buffer' = <<>>
       \/ /\ pc' = "closed"
          /\ UNCHANGED <<out, buffer>>
    /\ UNCHANGED <<peeked, sock, prefix, skipped, ends>>

Copy(n) ==
    /\ pc = "copy"
    /\ StreamReady(n)
    /\ out' = out \o StreamTake(n)
    /\ StreamAdvance(n)
    /\ UNCHANGED <<pc, peeked, buffer, skipped, ends>>

CopyEof ==
    /\ pc = "copy" /\ ~shut
    /\ StreamIdle /\ closed
    /\ shut' = TRUE
    /\ UNCHANGED <<plan, pc, peeked, sock, closed, prefix, buffer, out, skipped, sent, destDone>>

DestClose ==
    /\ pc = "copy" /\ ~destDone
    /\ destDone' = TRUE
    /\ UNCHANGED <<plan, pc, peeked, sock, closed, prefix, buffer, out, skipped, sent, shut>>

\* copy_bidirectional returns when both directions are over ...
CopyEnd ==
    /\ pc = "copy"
    /\ shut /\ destDone
    /\ pc' = "closed"
    /\ UNCHANGED <<peeked, sock, prefix, buffer, out, skipped, ends>>

\* ... or when either endpoint fails.
CopyErr ==
    /\ pc = "copy"
    /\ pc' = "closed"
    /\ UNCHANGED <<peeked, sock, prefix, buffer, out, skipped, ends>>

HandleNext == Peek \/ PeekNothing \/ ReadExact
HelloNext == (\E n \in 1..ReadCap : HelloRead(n)) \/ HelloEof \/ HelloTimeout \/ CertFail \/ HelloDispatch
TlsNext == (\E n \in 1..ReadCap : TlsRead(n)) \/ TlsDone \/ TlsFail
FallbackNext == FallbackConnect \/ FallbackWrite \/ (\E n \in 1..ReadCap : Copy(n)) \/ CopyEof \/ CopyEnd

Next == (\E n \in 1..plan.len : ClientSend(n)) \/ ClientClose \/ DestClose
        \/ ReadErr \/ CopyErr
        \/ HandleNext \/ HelloNext \/ TlsNext \/ FallbackNext

Spec == Init /\ [][Next]_vars

\* The task is scheduled and its timers fire.
FairSpec == Spec /\ WF_vars(HandleNext) /\ WF_vars(HelloNext) /\ WF_vars(TlsNext)
                 /\ WF_vars(FallbackNext)

-----------------------------------------------------------------------------
Bytes == Nat \ {0}

\* Every variable keeps to its type, and what peek announced is still there
\* when it is read.
TypeOK ==
    /\ plan \in Plans
    /\ pc \in {"peek", "exact", "hello", "tls", "serve", "connect", "write", "copy", "closed"}
    /\ peeked \in 0..PeekCap
    /\ sock \in Seq(Bytes) /\ prefix \in Seq(Bytes) /\ buffer \in Seq(Bytes)
    /\ out \in Seq(Bytes) /\ skipped \in Seq(Bytes) /\ sent \in Seq(Bytes)
    /\ closed \in BOOLEAN /\ shut \in BOOLEAN /\ destDone \in BOOLEAN
    /\ pc \in {"peek", "exact"} =>
          prefix = <<>> /\ buffer = <<>> /\ out = <<>> /\ skipped = <<>>
    /\ pc = "exact" => peeked <= Len(sock) /\ IsProxyProtocol(peeked)

\* Through both PrefixedStreams no byte of the client's stream is lost,
\* repeated or moved: header, consumer, the two read-ahead buffers and the
\* socket always hold exactly what was sent, in order.
StreamConserved == sent = skipped \o out \o buffer \o prefix \o sock

\* The consumer sees a proxy-protocol header either not at all or from its
\* first byte on, however the header was cut into segments.
HeaderAllOrNothing ==
    out # <<>> => \/ skipped = <<>> /\ out[1] = 1
                  \/ Len(skipped) = plan.hdr /\ out[1] = plan.hdr + 1

\* Both together: header detection and the two replaying streams (server.rs:259-291,
\* 348-362, server_rustls.rs:284-302) hand the consumer the client's stream,
\* gap-free, with the header removed as a whole or left in place as a whole.
StreamIntact == StreamConserved /\ HeaderAllOrNothing

\* A client that authenticates is never sent to the fallback destination, in
\* whatever segments its record arrives (server_rustls.rs:76-130), unless its
\* header was cut short, it gives up, or it has sent something behind its
\* ClientHello without waiting for the answer: all that was read is
\* authenticated with the record (server_rustls.rs:177).
GenuineClientServed ==
    (/\ plan.auth /\ plan.tls /\ plan.reality
     /\ RecHdr <= plan.rec /\ plan.rec <= MaxHello
     /\ Len(skipped) = plan.hdr /\ ~closed
     /\ Len(sent) <= plan.hdr + plan.rec)
    => pc \notin {"connect", "write", "copy"}

\* The task decides in bounded time: a client that sends nothing, or only a
\* part of its header or ClientHello, does not hold it (server.rs:265,
\* server_rustls.rs:94).
Decided == pc \in {"peek", "exact", "hello", "tls", "connect", "write"}
              ~> pc \in {"serve", "copy", "closed"}
=============================================================================
