----------------------------- MODULE Standalone -----------------------------
(***************************************************************************)
(* handle_standalone (src/src/transport/xhttp/h2.rs): a POST without a     *)
(* session carries upload and download in one HTTP/2 stream.  A spawned    *)
(* task takes the gRPC framing off the request body and writes it to the   *)
(* VLESS handler through a duplex; the request's own task frames what the  *)
(* handler answers.  The two share one flag: whether the stream is framed. *)
(* It starts as the content type says, and the upload clears it when the   *)
(* body turns out not to be framed, or has a message that is too long.     *)
(*                                                                         *)
(* A byte of the body is its position.  What the bytes mean is the plan:   *)
(*   grpc     the content type announces gRPC                              *)
(*   n        length of the body                                           *)
(*   flag     its first byte is one a gRPC frame may start with (0 or 1)   *)
(*   len      the number in the length field of a header starting there    *)
(*   framed   the client really frames its messages                        *)
(*   msgs     its messages up to the first one that is not all there or is *)
(*            longer than MaxMsg: where each one ends, and how much payload  *)
(*            there is up to that end                                      *)
(*   payload  the positions of the bytes meant for the handler, in order   *)
(* Definitions named X_Something are X with a plausible mistake.           *)
(***************************************************************************)
EXTENDS Naturals, Sequences

CONSTANTS Plans,
          HdrLen,      \* length of a gRPC header: 5
          MaxMsg,      \* longest message taken for gRPC: 65535
          DuplexCap,   \* bytes the duplex holds in each direction
          MaxDown      \* bound: bytes the handler writes

Range1(a, b) == [i \in 1..(b - a) |-> a + i]
DropFirst(s, k) == SubSeq(s, k + 1, Len(s))

\* Where the first k messages of p end, and their payload's length.
MsgEnd(p, k) == IF k = 0 THEN 0 ELSE p.msgs[k].end
Upto(p, k) == IF k = 0 THEN 0 ELSE p.msgs[k].upto

\* Where the last of these messages ends; the one behind it has its header in
\* the body and is longer than MaxMsg.
LastEnd(p) == MsgEnd(p, Len(p.msgs))
Overlong(p) == p.framed /\ LastEnd(p) + HdrLen <= p.n /\ p.len[LastEnd(p) + 1] > MaxMsg

\* A framed body is cut by its length fields.  The payload is what lies between
\* the headers.
Framed(p) ==
    /\ p.grpc /\ p.flag
    /\ p.msgs \in Seq([end : Nat, upto : Nat])
    /\ \A k \in 1..Len(p.msgs) :
          LET e == MsgEnd(p, k - 1)
              u == Upto(p, k - 1) IN
            /\ e + HdrLen <= p.n /\ p.len[e + 1] <= MaxMsg
            /\ p.msgs[k].end = e + HdrLen + p.len[e + 1] /\ p.msgs[k].end <= p.n
            /\ p.msgs[k].upto = u + p.len[e + 1] /\ p.msgs[k].upto <= Upto(p, Len(p.msgs))
            /\ \A j \in 1..p.len[e + 1] : p.payload[u + j] = e + HdrLen + j
    /\ Upto(p, Len(p.msgs)) <= Len(p.payload)
    /\ LET e == LastEnd(p) IN
         e + HdrLen <= p.n => p.len[e + 1] > MaxMsg \/ e + HdrLen + p.len[e + 1] > p.n

ASSUME StandaloneAssumption ==
    /\ {HdrLen, DuplexCap} \subseteq Nat \ {0}
    /\ {MaxMsg, MaxDown} \subseteq Nat
    /\ \A p \in Plans : /\ p.n \in Nat
                        /\ {p.grpc, p.flag, p.framed} \subseteq BOOLEAN
                        /\ p.len \in [1..p.n -> Nat]
                        /\ p.payload \in Seq(1..p.n)
                        /\ IF p.framed THEN Framed(p) ELSE p.payload = Range1(0, p.n)

VARIABLES
    plan,
    framing,    \* use_grpc_framing
    first,      \* first_chunk
    blind,      \* history: the first DATA frame had no byte to look at
    read,       \* bytes of the body read so far
    bodyEnd,    \* the client has ended the body
    reset,      \* the HTTP/2 stream is gone
    upc,        \* where the upload task is
    leftover,   \* received, not yet deframed
    hand,       \* being written to the duplex
    up,         \* duplex, towards the handler
    dpc,        \* where the download loop is
    down,       \* bytes in the duplex, towards the client
    handler,    \* the spawned VLESS handler
    taken,      \* history: bytes the handler read
    wrote,      \* history: number of bytes the handler wrote
    shown,      \* history: of what was sent on the response, which is framed
    told,       \* history: number of bytes sent on the response
    eos         \* how the response was ended

upVars == <<framing, first, blind, read, upc, leftover, hand>>
standaloneVars == <<plan, framing, first, blind, read, bodyEnd, reset, upc, leftover, hand, up,
                   dpc, down, handler, taken, wrote, shown, told, eos>>

StandaloneInit ==
    /\ plan \in Plans
    /\ framing = plan.grpc
    /\ first = TRUE /\ blind = FALSE
    /\ read = 0 /\ wrote = 0 /\ down = 0 /\ told = 0
    /\ bodyEnd = FALSE /\ reset = FALSE
    /\ upc = "off" /\ dpc = "start" /\ handler = "off"
    /\ leftover = <<>> /\ hand = <<>> /\ up = <<>> /\ taken = <<>> /\ shown = <<>>
    /\ eos = "none"

\* The response is sent, handler and upload task are spawned.
Respond ==
    /\ dpc = "start" /\ ~reset
    /\ dpc' = "run" /\ upc' = "body" /\ handler' = "run"
    /\ UNCHANGED <<plan, framing, first, blind, read, bodyEnd, reset, leftover, hand, up, down, taken, wrote, shown, told, eos>>

\* send_response fails: nothing is spawned.
RespondErr ==
    /\ dpc = "start" /\ reset
    /\ dpc' = "err" /\ upc' = "done"
    /\ UNCHANGED <<plan, framing, first, blind, read, bodyEnd, reset, leftover, hand, up, down, handler, taken, wrote, shown, told, eos>>

-----------------------------------------------------------------------------
(* The upload task.                                                        *)

\* The first byte is looked at only while it decides anything; a DATA frame
\* may be empty, and the first one then passes without a look.
UpChunk(k) ==
    /\ upc = "body" /\ ~reset /\ ~bodyEnd
    /\ read + k <= plan.n
    /\ read' = read + k
    /\ framing' = (framing /\ (first /\ k > 0 => plan.flag))
    /\ first' = FALSE
    /\ blind' = (blind \/ (first /\ k = 0))
    /\ LET chunk == Range1(read, read + k) IN
         IF framing'
         THEN /\ leftover' = leftover \o chunk
              /\ upc' = "parse"
              /\ UNCHANGED hand
         ELSE /\ hand' = chunk
              /\ upc' = "write"
              /\ UNCHANGED leftover
    /\ UNCHANGED <<plan, bodyEnd, reset, up, dpc, down, handler, taken, wrote, shown, told, eos>>

\* The header is left in front of the message.
UpMessage_KeepsHeader ==
    /\ upc = "parse"
    /\ Len(leftover) >= HdrLen
    /\ LET m == plan.len[leftover[1]] IN
         /\ m <= MaxMsg
         /\ Len(leftover) >= HdrLen + m
         /\ hand' = SubSeq(leftover, 1, HdrLen + m)
         /\ leftover' = DropFirst(leftover, HdrLen + m)
    /\ upc' = "write"
    /\ UNCHANGED <<plan, framing, first, blind, read, bodyEnd, reset, up, dpc, down, handler, taken, wrote, shown, told, eos>>

\* A complete message: its header is dropped.
UpMessage ==
    /\ upc = "parse"
    /\ Len(leftover) >= HdrLen
    /\ LET m == plan.len[leftover[1]] IN
         /\ m <= MaxMsg
         /\ Len(leftover) >= HdrLen + m
         /\ hand' = SubSeq(leftover, HdrLen + 1, HdrLen + m)
         /\ leftover' = DropFirst(leftover, HdrLen + m)
    /\ upc' = "write"
    /\ UNCHANGED <<plan, framing, first, blind, read, bodyEnd, reset, up, dpc, down, handler, taken, wrote, shown, told, eos>>

\* The flag is not cleared.
UpRaw_KeepsFraming ==
    /\ upc = "parse"
    /\ Len(leftover) >= HdrLen
    /\ plan.len[leftover[1]] > MaxMsg
    /\ hand' = leftover
    /\ leftover' = <<>>
    /\ upc' = "write"
    /\ UNCHANGED <<plan, framing, first, blind, read, bodyEnd, reset, up, dpc, down, handler, taken, wrote, shown, told, eos>>

\* Too great a length: the body is taken for raw, from this header on.
UpRaw ==
    /\ upc = "parse"
    /\ Len(leftover) >= HdrLen
    /\ plan.len[leftover[1]] > MaxMsg
    /\ framing' = FALSE
    /\ hand' = leftover
    /\ leftover' = <<>>
    /\ upc' = "write"
    /\ UNCHANGED <<plan, first, blind, read, bodyEnd, reset, up, dpc, down, handler, taken, wrote, shown, told, eos>>

\* The header or the message is not complete yet.
UpMore ==
    /\ upc = "parse"
    /\ Len(leftover) >= HdrLen =>
          LET m == plan.len[leftover[1]] IN m <= MaxMsg /\ Len(leftover) < HdrLen + m
    /\ upc' = "body"
    /\ UNCHANGED <<plan, framing, first, blind, read, bodyEnd, reset, leftover, hand, up, dpc, down, handler, taken, wrote, shown, told, eos>>

\* A handler that has shut down its writing half still reads.
Reading == {"run", "half"}

\* write_all, as far as the duplex has room; it does not notice a missing
\* reader when there is nothing to write.
UpWrite ==
    /\ upc = "write"
    /\ handler \in Reading \/ hand = <<>>
    /\ LET room == DuplexCap - Len(up)
           k == IF Len(hand) <= room THEN Len(hand) ELSE room IN
         /\ k > 0 \/ hand = <<>>
         /\ up' = up \o SubSeq(hand, 1, k)
         /\ hand' = DropFirst(hand, k)
         /\ upc' = IF k < Len(hand) THEN "write" ELSE IF framing THEN "parse" ELSE "body"
    /\ UNCHANGED <<plan, framing, first, blind, read, bodyEnd, reset, leftover, dpc, down, handler, taken, wrote, shown, told, eos>>

\* The errors of the body are skipped.
UpEnd_IgnoresReset ==
    /\ \/ upc = "body" /\ bodyEnd /\ ~reset
       \/ upc = "write" /\ handler = "over" /\ hand # <<>>
    /\ upc' = "done"
    /\ UNCHANGED <<plan, framing, first, blind, read, bodyEnd, reset, leftover, hand, up, dpc, down, handler, taken, wrote, shown, told, eos>>

\* The body is over, the stream is reset, or the handler is gone.  A message
\* that never became complete is dropped.
UpEnd ==
    /\ \/ upc = "body" /\ (bodyEnd \/ reset)
       \/ upc = "write" /\ handler = "over" /\ hand # <<>>
    /\ upc' = "done"
    /\ UNCHANGED <<plan, framing, first, blind, read, bodyEnd, reset, leftover, hand, up, dpc, down, handler, taken, wrote, shown, told, eos>>

-----------------------------------------------------------------------------
(* The download loop.                                                      *)

\* A handler that will write no more: the duplex says end of file once empty.
Silent == {"half", "over"}

\* Everything the duplex holds goes out, framed or not as the flag says now.
DownForward ==
    /\ dpc = "run" /\ down > 0 /\ ~reset
    /\ shown' = Append(shown, framing)
    /\ told' = told + down
    /\ down' = 0
    /\ UNCHANGED <<plan, upVars, bodyEnd, reset, up, dpc, handler, taken, wrote, eos>>

DownErr ==
    /\ dpc = "run" /\ reset
    /\ down > 0 \/ handler \in Silent
    /\ dpc' = "err"
    /\ UNCHANGED <<plan, upVars, bodyEnd, reset, up, down, handler, taken, wrote, shown, told, eos>>

\* The handler has shut down or dropped its end and everything was read.
DownEnd ==
    /\ dpc = "run" /\ down = 0 /\ handler \in Silent /\ ~reset
    /\ eos' = IF framing THEN "trailers" ELSE "data"
    /\ dpc' = "done"
    /\ UNCHANGED <<plan, upVars, bodyEnd, reset, up, down, handler, taken, wrote, shown, told>>

-----------------------------------------------------------------------------
(* The handler at the other end of the duplex, and the client.  A VLESS    *)
(* handler answers only after it has read a request.                       *)

HandlerRead ==
    /\ handler \in Reading /\ up # <<>>
    /\ taken' = taken \o up
    /\ up' = <<>>
    /\ UNCHANGED <<plan, upVars, bodyEnd, reset, dpc, down, handler, wrote, shown, told, eos>>

HandlerWrite ==
    /\ handler = "run" /\ taken # <<>>
    /\ wrote < MaxDown /\ down < DuplexCap
    /\ dpc = "run" \/ upc # "done"
    /\ wrote' = wrote + 1
    /\ down' = down + 1
    /\ UNCHANGED <<plan, upVars, bodyEnd, reset, up, dpc, handler, taken, shown, told, eos>>

\* The target has ended its side: the relay shuts down the direction to the
\* client and goes on with the other one (connection.rs:104).
HandlerShut ==
    /\ handler = "run" /\ taken # <<>>
    /\ handler' = "half"
    /\ UNCHANGED <<plan, upVars, bodyEnd, reset, up, dpc, down, taken, wrote, shown, told, eos>>

HandlerEnd ==
    /\ handler \in Reading
    /\ handler' = "over"
    /\ UNCHANGED <<plan, upVars, bodyEnd, reset, up, dpc, down, taken, wrote, shown, told, eos>>

ClientEnd ==
    /\ ~bodyEnd
    /\ bodyEnd' = TRUE
    /\ UNCHANGED <<plan, upVars, reset, up, dpc, down, handler, taken, wrote, shown, told, eos>>

ClientReset ==
    /\ ~reset
    /\ reset' = TRUE
    /\ UNCHANGED <<plan, upVars, bodyEnd, up, dpc, down, handler, taken, wrote, shown, told, eos>>

UpNext == UpMessage \/ UpRaw \/ UpMore \/ UpWrite \/ UpEnd
DownNext == Respond \/ RespondErr \/ DownForward \/ DownErr \/ DownEnd

StandaloneNext == (\E k \in 0..plan.n : UpChunk(k)) \/ UpNext \/ DownNext
        \/ HandlerRead \/ HandlerWrite \/ HandlerShut \/ HandlerEnd \/ ClientEnd \/ ClientReset

StandaloneSpec == StandaloneInit /\ [][StandaloneNext]_standaloneVars

\* Both tasks are scheduled, and the handler ends: the relay's waits for data
\* have timers, its writes to the target do not, so this is an assumption on
\* the target.  Nothing is assumed of the client.
StandaloneFairSpec == StandaloneSpec /\ WF_standaloneVars(UpNext) /\ WF_standaloneVars(DownNext) /\ WF_standaloneVars(HandlerEnd)

-----------------------------------------------------------------------------
\* A raw body under a gRPC content type is taken for framed if it can pass for
\* that: by its first byte, unless that byte was not looked at (h2.rs:299-305),
\* and by what stands where a length would be (h2.rs:311-312).
Misjudged == /\ plan.grpc /\ ~plan.framed /\ (plan.flag \/ blind)
             /\ plan.n >= HdrLen /\ plan.len[1] <= MaxMsg

\* What the handler is to get: the payload; but from a message longer than
\* MaxMsg on the body as it stands, headers included (h2.rs:311-316).
Handed(p) == IF Overlong(p) THEN SubSeq(p.payload, 1, Upto(p, Len(p.msgs))) \o Range1(LastEnd(p), p.n)
                            ELSE p.payload

\* However headers and messages are cut into DATA frames, empty ones included,
\* and wherever the framing is given up (h2.rs:299-330), the handler gets exactly
\* the payload, in order, up to the first message of more than 65535 bytes, and
\* from that one's header on every byte of the body; in neither part is anything
\* lost or repeated at the change.  The one exception is a raw body that is
\* misjudged.
Deframed ==
    LET all == taken \o up \o hand IN
    ~Misjudged => /\ Len(all) <= Len(Handed(plan))
                  /\ all = SubSeq(Handed(plan), 1, Len(all))

\* The header of a message longer than MaxMsg has been received.
Exceeded == Overlong(plan) /\ read >= LastEnd(plan) + HdrLen

\* The response is framed as the request was, all of it and its end (h2.rs:352-376),
\* though the flag belongs to the other task: the upload has settled it before
\* the handler can have anything to answer, and changes it later only when it
\* meets a message that is too long (h2.rs:313).  Then the response changes once,
\* to raw, and neither it nor its end goes back.  It ends only after everything
\* the handler wrote, also when the handler only shuts down its half.
ResponseExact ==
    /\ ~Misjudged /\ ~Exceeded =>
          /\ \A i \in 1..Len(shown) : shown[i] = plan.framed
          /\ shown # <<>> /\ eos # "none" => (eos = "trailers") = plan.framed
    /\ \A i, j \in 1..Len(shown) : i <= j /\ shown[j] => shown[i]
    /\ eos = "trailers" => \A i \in 1..Len(shown) : shown[i]
    /\ eos # "none" => told = wrote

Finished == upc = "done" /\ dpc \in {"done", "err"}

\* A reset stream ends both tasks, whatever they were waiting for, though
\* neither of them stops the other one (h2.rs:378-388).
ResetEnds == reset ~> Finished
=============================================================================
