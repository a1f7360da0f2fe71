# A TLA+ model of xray-lite

xray-lite is a proxy server in Rust: it accepts TCP connections, decides whether a
client is a genuine Reality client or has to be passed on to a fallback site, speaks
VLESS (directly, or inside HTTP/2 requests: XHTTP), and relays to TCP or UDP targets.
TLS is done by a modified copy of rustls that is kept in the repository. This directory
specifies what the program and its TLS library do, checks the specifications with TLC on
small instances, and proves the invariants that matter most with TLAPS for every value of
the constants.

Paths below are relative to the repository (`src/handler.rs` and so on); `rustls/` stands
for `rustls-reality/rustls/src/`.

## 1. The system and its parts

| part | code | state | what makes it hard |
|---|---|---|---|
| accept loops | `src/server.rs` `run`, `run_inbound` | a semaphore per inbound, the kernel's backlog, descriptors shared by all inbounds | permits that leave the loop body on several paths; EMFILE; connections that never end |
| ingress | `src/server.rs` `handle_client`, `src/transport/reality/server_rustls.rs` `accept`, `fallback` | read-ahead buffers of two `PrefixedStream`s | TCP cuts the stream anywhere; every stage reads ahead and replays; a client may stop at any byte |
| certificate cache | `server_rustls.rs` `CERT_CACHE`, `generate_reality_cert` | an LRU map behind a mutex | the lock is released during generation; a lock may be poisoned |
| HTTP/2 connection | `src/transport/xhttp/h2.rs` `handle` | `active_streams`, the `is_idle` snapshot | the snapshot is stale while `select!` waits; request tasks outlive the loop |
| XHTTP split session | `h2.rs` `handle_xhttp_get`, `handle_xhttp_post`, `SESSIONS` | the global map, a channel and a duplex per GET | several tasks per session, overlapping sessions on a path, removal by path, idle timers |
| XHTTP stand-alone stream | `h2.rs` `handle_standalone` | the framing flag shared by two tasks, undecoded bytes | messages cut into DATA frames; the flag changes while the response may already run |
| VLESS session | `src/handler.rs` `serve_vless` | request buffer, initial data, two UDP tasks | one read for a request; leftovers; timers in one direction only |
| relay | `src/network/connection.rs` `relay`, `handle_connection` | two loops, socket buffers, `active_connections` | half-close, failure of one side while the other writes, independent idle timers |
| parsers | `src/protocol/`, `hello_parser.rs`, `grpc.rs` | none | length fields at the edge of the buffer; three parsers of one ClientHello |
| TLS handshakes | `rustls/{client,server}/`, `common_state.rs`, `conn.rs`, `tls13/` | two state machines per version, keys, transcript | retries, resumption, early data and key changes in combination |
| TLS records | `rustls/msgs/deframer.rs`, `fragmenter.rs`, `vecbuf.rs`, `stream.rs` | buffers with limits, sequence numbers | messages joined in place in the buffer that holds what follows; ends of stream |
| TLS codecs | `rustls/msgs/` | none | nested lengths; bytes rebuilt from a parsed message |
| TLS session stores | `rustls/limited_cache.rs`, `ticketer.rs`, `{client,server}/handy.rs`, `msgs/persist.rs` | maps, rotating keys | shared by connections; a lock released during key generation; clocks |

How they interact: an accept loop hands a connection and a permit to a task, which runs
ingress. Ingress ends by serving VLESS on the (decrypted) stream or, when XHTTP is
configured, by running the HTTP/2 connection loop; each HTTP/2 request becomes a split or
stand-alone stream with an in-memory duplex to a VLESS session; a TCP session ends in the
relay. Every boundary is a byte stream. That is what the modules assume of each other:
XhttpSession and Standalone take the VLESS session as somebody who reads, writes and ends
at the other end of the duplex, and VlessSession takes the relay as somebody who consumes
the stream from where it stands. `Pipe` is the common abstract promise: what comes out of
a channel is a beginning of what went in.

## 2. Modules

A definition `X_Something` standing before `X` is `X` with a plausible mistake. It is not
used by the specification; it serves to show that a property notices the mistake. Modules
`MC*` hold the instances for TLC, modules `*Proofs` the proofs.

### The proxy

**Pipe** - abstract: per channel, `sent` grows at its end and `got` is a prefix of it.
Target of two refinements.

**Listener** - `loop[i]` is where `run_inbound` of inbound `i` is: `Setup` (which may fail
and end this inbound only), `Acquire` (`acquire_owned`), `Accept` (the permit moves into
the spawned task), `AcceptErr` and `AcceptEmfile`/`Wake` (the error paths drop it, the
latter after a second), `TaskEnd` (the task drops it). `Dial` is `handle_client` taking a
second descriptor, for the fallback or, without XHTTP, for the destination. With XHTTP the
requests of a connection start sessions (`SessionStart`), each of which may take a
descriptor for its own destination (`SessionDial`); they hold no permit and may go on after
`TaskEnd` (`SessionEnd`).

**Ingress** - a byte is its position in the client's stream, and what the bytes mean is a
`plan` chosen initially (header or not, hello or not, authentic or not, configuration of
the inbound). `Peek`, `PeekNothing`, `ReadExact` are the proxy-protocol detection;
`HelloRead`, `HelloEof`, `HelloTimeout`, `HelloDispatch`, `CertFail` collect the ClientHello
and decide; `Tls*` is the acceptor reading through the `PrefixedStream`; `Fallback*`,
`Copy*` are the relay to the fallback destination. `skipped`, `out`, `buffer`, `prefix`,
`sock` are the places where a byte can be.

**CertCache** - one connection's way through `generate_reality_cert`: lookup, generation
without the lock, put, signature.

**H2Connection** - `Load` takes the `is_idle` snapshot, then `AcceptRequest`, `AcceptEnd`
or `Watchdog` is what `select!` returns; `RequestEnd` is a request task's `fetch_sub`.

**XhttpSession** - `sessions` is `SESSIONS` (value: the GET that inserted it). Per GET:
`GetOpen` (insert, guard, spawn), `GetRespond`/`GetRespondErr`, the downstream loop
`DownForward`/`DownEof`/`DownTimeout`, `GetRemove` (explicit removal), `GetJoin` (await of
the upstream task, then the guard); the upstream task `UpRecv`, `UpWrite`, `UpWriteErr`,
`UpClosed`, `UpTimeout`. Per POST: `PostArrive`, `PostPoll` (the `contains_key` loop),
`PostLookup` (the second lookup), `PostChunk`, `PostAck`, `PostFail`. `ClientReset` is the
HTTP/2 stream disappearing. The handler behind the duplex is `VlessRead`, `VlessWrite`,
`VlessShut` (the relay passes on the target's half-close, `connection.rs:104`, which ends
the response while the handler still reads) and `VlessEnd`.

**Standalone** - `UpChunk` takes a DATA frame, which may be empty, and settles the framing
by its first byte, `UpMessage`/`UpRaw`/`UpMore` are the deframing loop, `UpWrite` the write
into the duplex; `DownForward`, `DownEnd`, `DownErr` the response loop. `HandlerShut` is
the relay's half-close. A framed body is cut by its own length fields (`Framed`): `msgs` are
its messages up to the first that is not all there or that is longer than `MaxMsg`
(65535); with the header of the latter `UpRaw` gives up the framing in mid-stream.

**VlessSession** - `ReadRequest`/`ReadNothing` (the one read), `Probe`, `Respond`,
`SniffRead`/`SniffNothing`, `Dial`, `SendInitial`, `RelayForward`/`RelayEnd`; for UDP
`UdpStart` (what came with the request), `SendLen`, `SendPacket`, `SendEnd` (send_task)
and `RecvPacket`, `RecvWritten`, `RecvEnd`, `RecvWriteErr` (recv_task).

**Relay** - a flow `<<c, s>>` is one copy loop: `inq` (kernel), `buf` (the loop), `outq`
(kernel). `Start`/`Join`/`Finish` are `handle_connection` and `try_join!`.

**Parsers** - the VLESS request and address codec, the gRPC frame, both PROXY headers, the
Reality ClientHello parser and the SNI sniffer, as pure operators on bytes.

### TLS

**TlsCommon, Tls13, Tls12, TlsHandshake** - both endpoints of a connection, with the
client's and the server's stores kept over a sequence of connections. An endpoint is a
record (`CommonState`, `RecordLayer`, connection data), a state is named as in the code
(`ExpectServerHello13`, `ExpectTraffic12` ...), and each of its handlers is one operator
from endpoint to endpoint. TlsCommon holds what is shared: sending, alerts, the path of a
record through decryption and trial decryption, the message checks. TlsHandshake holds the
two hellos and composes the rest. A key is the tuple of everything it is derived from, so
two endpoints hold the same key exactly when they derived it from the same inputs.

**TlsRecords** - one direction of an established connection byte by byte: `Write`,
`SendHandshake`, `CloseNotify` through the fragmenter into the limited output buffer;
`WriteTls` to a transport that takes what it likes; `ReadTls`, `Pop*` the deframer with its
one buffer; `ReadPlain`, `ReadEnd` the blocking stream. `PeerFlight` is another
implementation's packing of handshake messages. Byte `i` of record `r` is `<<r, i>>`, so a
byte in the wrong place is seen to be wrong.

**Wire, TlsMessages** - the layout of every message as a value ("a list with a two-byte
length of ..."), and one encoder and one reader that interpret it, as the `Codec` trait
and its generic implementations do. **Codecs** puts a reader in front of a stream on which
a message arrives byte by byte, for TlsMessages and Parsers alike.

**LimitedCache, Ticketer, Resumption** - the bounded map; `TicketSwitcher`, in which a call
is `Call`, `MaybeRoll` (under the lock), `Generate` (without it), `Relock`; and the calls
that connections make on the stores, with expiry and freshness. **Stores** composes them
with CertCache.

Data is abstract throughout: chunks are numbers, bytes are positions (except in the codecs,
whose subject they are). Log messages, padding, header values, socket options and traffic
counters are left out.

## 3. Runs

| run | instance | distinct states | shows |
|---|---|---|---|
| `listener` | two inbounds, one with XHTTP, 3+1 clients, two sessions per connection, two permits each, three descriptors, one connection that never ends | 11,068 | permits are conserved; waiting clients are served |
| `ingress` | all clients of `MCIngress`, up to seven bytes, cut in every way | 43,718 | no byte lost between the stages, headers whole or untouched; genuine clients served; a decision is always made |
| `h2_connection` | four requests | 3,552 | the watchdog spares connections in use; the loop ends after the peer |
| `xhttp_shared` | two GETs and a POST on one path | 1,347,744 | no stale entry; a live GET is reachable; bodies arrive as gap-free beginnings in one session |
| `xhttp_session` | one GET, two POSTs, one-chunk duplex, one chunk down | 235,388 | order across POSTs; what a 200 and an end of stream mean; release after a reset |
| `standalone` | framed bodies, two of them with a message above the limit, first or later, and raw bodies, two-byte duplex | 104,362 | exact deframing up to the limit, and the body as it is from there; one framing per response, or one change of it, and an ordered end; release after a reset |
| `vless` | TCP with and without sniffing and hello, UDP with good, cut, empty and oversized packets, mux, HTTP, invalid | 7,240 | the stream is conserved into the relay; datagrams are the client's packets; what bounds a session |
| `relay` | one connection, two chunks each way, one-chunk sockets | 31,307 | honest ends and explained loss; refinement of Pipe; relays end and are counted out |
| `tls` | 24 single connections, 28 pairs and 12 triples of them, of differing configurations | 27,809 | compatible endpoints fail for three named reasons only; both sides agree; data and early data exact; tickets are honoured when they can be; no mutual waiting |
| `records` | twelve scripts of up to three operations, sizes around every limit | 29,924 | the deframer's buffer is exact; order; one key per message; honest ends; accepted bytes arrive |
| `codecs` | every message kind, byte by byte, and hellos with any one byte changed to others | 7,619 | round trips to the byte, no part taken for a message; binders cover what was received; three parsers agree |
| `stores` | two connections at a time, six configurations; two requests and three hosts for the certificates | 540,987 | no slot leaks; early data accepted exactly when fresh and once; secrets agree; tickets live for a lifetime; certificates are the connection's own |

Why the bounds are enough. The conservation and framing properties are about the place of
a chunk relative to its neighbours: two chunks and a buffer of one give every relative
position (waiting, held, blocked, behind a full buffer). Ingress, Standalone, VlessSession
and TlsRecords keep every *ratio* that the code compares (header against segment, record
against buffer, message against record, packet against buffer) while scaling lengths down:
a record header is one or two bytes instead of five, and so on, so that each comparison is
met on both sides and at equality. Overlap on a path needs two GETs; sequential POSTs need
two; a store race needs two connections, and eviction one item more than there are slots.
For the handshakes the instance is a list of pairs of configurations: what differs between
them, and between one connection and the next, is what the code branches on. Where a number
of peers could matter beyond that - relays sharing the counter, requests, clients,
inbounds, threads rotating ticket keys - a theorem covers every number.

Deadlock is checked for `tls` and `records`. The other systems may stop: clients that have
sent everything, requests that have ended.

### Fairness

Weak fairness of the server's own tasks and timers, because the tokio runtime polls every
woken task and a `timeout` fires. Nothing is assumed of clients. What is assumed of others:

- Relay: the sink reads what the kernel holds for it. `write_all` (`connection.rs:86`,
  `108`) has no timer, so without this `RelayEnds` is false.
- XhttpSession: the handler keeps reading its end of the duplex. Standalone: the handler
  ends. The relay's timers give this as long as the target reads; its writes have no timer.
- Listener: connections and their sessions end, except those in `Held`, which may last
  for ever.
- Ingress: the fallback destination takes the first bytes (`server_rustls.rs:278`).
- VlessSession: nothing. Of the set-up only the waits with a timer are fair
  (`TimedSetup`: the first read, sniffing, connecting); the answers to the client, the
  look-up of a UDP target's name and the initial data's way to a TCP target have none, and
  `SetupBounded` names them as the four places where a session may stay. `UdpEnds` names
  the one state in which no timer of a UDP session is running.
- TlsRecords: the writer's user goes on calling `write_tls`, the reader's user goes on
  reading; `complete_io` and `Stream::read` loop in that way.

The `tls` run needs no fairness: `NoStall` says of every state with nothing in flight that
the handshake is over.

## 4. Where code and documentation differ

Met while modelling. The models follow the code; where a property would be false for the
reason named, it says so in its premise.

In the proxy:

- "任何一方出错或完成，都会结束" (`connection.rs:122-123`): `try_join!` returns early on an error
  only; a loop that ends leaves the other one running.
- A connection without active streams and without new requests for 300 s is closed
  (`h2.rs:184-185`): `is_idle` is loaded right after a request was counted and not again
  when that request ends, so the watchdog stays disabled.
- "必须联动：一端彻底结束或出错，另一端也该停止" (`h2.rs:379-380`): each direction is awaited on its
  own; neither stops the other.
- "支持多次读取" (`handler.rs:15`): one read is made; a request that arrives in two pieces ends
  the session.
- A raw body under a gRPC content type is taken for framed if its first byte was not looked
  at, since the first DATA frame was empty, or is 0 or 1, and a possible length follows
  (`h2.rs:299-312`; `Misjudged` in Standalone).
- A genuine gRPC message of more than 65535 bytes is taken for a raw stream (`h2.rs:311-316`,
  logged as "判定为 VLESS 原始流"): from its header on the handler gets the body undecoded, and
  the response, which may have begun framed, goes on raw and ends without trailers
  (`Overlong`, `Exceeded` in Standalone).
- A POST is answered 200 although its session's upstream task has ended and the rest of the
  body, or all of it, was turned away (`h2.rs:502`, the third case of `AckedNotLost`); what
  was accepted is lost when the handler, or the GET itself, ends before it was read (the second).
- The guard of a GET removes by path: one that runs late takes the entry of a running GET of
  the same path away (`h2.rs:38`; the second exception of `LiveGetReachable`).
- An HTTP request of 22 bytes or more is not recognised as a probe (`handler.rs:44`), since
  the failing decoder has already consumed its first byte (`request.rs:56`).
- A UDP session drops all but the first packet that came with its request (`lost`).
- After a panic under its lock `CERT_CACHE` stays poisoned, and every later lookup empties it.
- The Reality parser reads a ClientHello only within one record; a PROXY v1 `UNKNOWN` line
  needs all six words; a server name list that starts with a name of an unknown type has no
  host for rustls, while the proxy's two parsers skip that name.

In rustls:

- The answer to a key update is queued already encrypted, while the new key is in use:
  close_notify or an alert sent before the next write overtakes it and cannot be opened
  (`common_state.rs:486-499`, `559-572`; `HeldUpdateThenClose`).
- The early-data allowance counts plaintext, the budget for skipping rejected early data
  counts record bytes: a client within the first can overrun the second (`EarlyOverBudget`).
- At `SEQ_SOFT_LIMIT` `send_single_fragment` calls `send_close_notify`, which calls
  `send_single_fragment` (`common_state.rs:255-259`; `w.crashed` in TlsRecords).
- `LimitedCache` retains one item less than its capacity (`limited_cache.rs:11-13`).
- An idle `TicketSwitcher` opens tickets for longer than twice the lifetime
  (`ticketer.rs:35-36`), since keys are rotated by calls only.
- After a failed record, later calls of `process_new_packets` do not return the same error
  (`conn.rs:470-476`).
- `Stream::read` reports an error before plaintext that was received ahead of it, and may
  return `WouldBlock` on a blocking stream after a refused renegotiation; bytes behind
  close_notify keep `reader()` from reporting the clean end.
- A handshake message that the size check accepts may not fit the buffer once the overhead
  of its records is added (`Outgrows`).
- A ServerHello with an empty list of extensions is not encoded again as it was; lengths of
  over-long values are truncated when encoded.
- A client session with lifetime 0 never expires; a resumed TLS 1.2 connection that got no
  new ticket saves the old one as if it were new.

## 5. Proofs

All for arbitrary constants that satisfy the named assumptions of the modules.

| module | theorems | inductive invariant |
|---|---|---|
| XhttpSessionProofs | SessionsNeverLeak, XhttpTypes, LiveGetsAreFound, UploadImplementsPipe | `SessionInv`: every entry names a GET of that path before its removal. `TypeInv`: types, how many lookups a POST has left, and that one which forwards has found a session. `UploadInv`: what went into a GET's channel is what came out of the duplex followed by what is under way, as long as the upstream task or the handler lives, and continues it afterwards; this gives the refinement of Pipe |
| LoopProofs, relay | CounterIsExact, TypeCorrect, NothingLost, FinIsHonest, LossIsExplained, RelayIsHonest, RelayImplementsPipe | `DataInv` = types, `Conserved`, and `EofInv`: a loop that shuts down has seen a half-closed source with nothing left to read. Without `EofInv` an honest end of file is not inductive, since it depends on what was true when the loop read zero bytes |
| IngressProofs | IngressTypes, NoByteLost, HeaderWhole, StreamIsIntact, GenuineClientsAreServed | `StreamInv`: types, conservation, the stream consists of the positions 1..n, and what was skipped is the whole header or nothing. `HeaderWhole` follows from the first byte of a concatenation (`FirstOut`). `ServedInv`: a genuine client whose header was skipped whole has only hello bytes in the buffer, and the record is dispatched with all of it there |
| LoopProofs, accept loops | ListenerTypes, NoPermitLost, ConnectionsBounded; H2Types, StreamCounterExact, WatchdogIsSafe | `PermitInv`: types, finite `ServedBy`, permits add up, and `QueueInv` (a backlog holds each waiting client once), needed because accepting a client twice would count it once; sessions are in the types only, since they hold no permit. `LoopInv`: the HTTP/2 connection's counter is the number of running requests, and a true snapshot still holds while `select!` waits. The second part is why staleness is harmless in that direction: only the loop itself starts requests |
| XhttpBodyProofs | UploadsArePrefixes, SequentialPostsInOrder, NothingLostSilently | `BodyInv`: what each POST has put into a session, in the order of its body, is at one of the known places, and a POST that began later stands behind one that was acknowledged before. `DownInv`: the response is a beginning of what the handler wrote, and all of it when it ended cleanly |
| VlessSessionProofs | TcpIsConserved, PacketsBecomeDatagrams | `TcpInv`: conservation, and for each stage which of the places a byte can be in are empty, so that the next move puts bytes behind those already there; a sniffed name comes from the initial data. `UdpInv`: the send task stands at the edge of a packet or behind its length, and what was sent are the packets before it |
| StandaloneProofs | PayloadIsExact, ResponseIsExact | `UploadInv`: of a framed body, the first `k` messages have been taken out of what was read, their payload is with the handler or on its way, and `leftover` is exactly what was read behind them (`FramedAt`), until the header of a message above the limit has come and everything behind the messages before it is released as it stands (`PastLimit`); of a raw body that is not misjudged, everything read is with the handler, on its way or, as long as it may still pass for framed, in `leftover`. `ResponseInv`: the handler writes only after it has read something, by which time the flag is settled but for such a message; as long as it is set all of the response is framed, so that it changes once and trailers follow framed data only |
| CacheProofs | TicketsLive | `TInv`: types, `CallOk` (what a thread between its two lock acquisitions may assume of a state others have changed since) and `SealedOk` (a ticket that the current key did not seal is more than a lifetime older than the next switch, one that neither key sealed more than a lifetime old). Also the lemmas about LimitedCache and CertCache |
| StoresProofs | StoresUseTicketer, ServerTicketsLive, StoresStayExact, ResumptionAgrees, EarlyDataIsFresh, CertificatesAreOwn | `ResInv`: both stores are exact maps whose entries were made by a connection that both sides completed, one-time values are used up when they are taken, and each connection's view of its ticket is what the store held. `CertInv`: one template per host, within the capacity, and what a connection holds was generated for its host. `StoresUseTicketer` shows that the composition implements TicketerSpec, so that the ticketer's theorems hold in it |

Assumptions that say something about the program rather than about types: `Framed` in
VlessSession and in Standalone (the packets or messages of a plan are the client's stream
cut by its own length fields, up to the first that is not all there or, in Standalone, is
longer than `MaxMsg`; no length is excluded), `ResumptionAssumption` (ages are compared in
milliseconds modulo 2^32, and a ticket lives for at most seven days, far below that).

Model-checked only: all liveness, for which the prover has no rules; TlsRecords; the
handshakes, whose state machines are too large for a proof of this kind; and the codecs,
which are recursive, so that what they compute for every input is out of the prover's reach.

## 6. Not modelled

- Cryptography and X.509: keys are terms, a certificate is trusted or not. Reality's
  verification is represented by what it accepts.
- In rustls: QUIC, secret extraction, the `Acceptor` interface, certificate resolvers,
  configuration builders, key logging, the buffered and vectored variants of the
  stream methods, which forward to those modelled. They hold no protocol state of their own.
- `src/transport/reality/{stream,handshake,tls,crypto,auth,server}.rs`: an earlier
  TLS implementation that the server does not reach.
- `BUFFER_POOL` (not called), request validation and padding in `h2.rs` (stateless).
- XDP: kernel maps and a program outside this source tree; off by default.
- Configuration, command line, tools, logging.
- Memory: channels without a limit are sequences without a limit.
- A composition of TlsHandshake with TlsRecords, and of Listener with the lifetimes that
  Ingress and VlessSession establish: each pair shares only a byte stream, or the fact that
  a connection ends, and the constants of the two sides (`Held`, one record per message)
  stand for it.
