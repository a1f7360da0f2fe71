------------------------------ MODULE TlsRecords ------------------------------
(***************************************************************************)
(* One direction of an established TLS connection, byte by byte: the       *)
(* writer's fragmenter, sequence numbers and output buffer, the transport, *)
(* the reader's deframer with its single buffer in which split handshake   *)
(* messages are joined in place, the received plaintext, and the blocking  *)
(* Stream that drives the reading side.                                    *)
(*                                                                         *)
(* Byte i of record r is <<r, i>>; once opened, byte i of handshake        *)
(* message m is <<-m, i>> and application byte n is <<0, n>>.  So a byte   *)
(* that ends up in the wrong place is seen to be wrong.                    *)
(***************************************************************************)
EXTENDS Integers, Sequences

CONSTANTS
    Scripts,     \* the sequences of operations of the writing side
    Hdr, Tag,    \* sizes of a record header and of a cipher's overhead
    HsHdr,       \* size of a handshake message header
    MaxFrag,     \* max_frag: plaintext bytes in one record
    ReadSize,    \* READ_SIZE: how much a read asks for
    MaxWire,     \* MAX_WIRE_SIZE: buffer limit without a joined message
    MaxHs,       \* MAX_HANDSHAKE_SIZE: message size and buffer limit with one
    TlsLimit,    \* limit of sendable_tls
    MaxIov,      \* records offered to the transport in one write
    SoftLimit, HardLimit,  \* SEQ_SOFT_LIMIT, SEQ_HARD_LIMIT
    MaxArrival   \* how many bytes Arrives speaks of

VARIABLES
    script,   \* what the writing side has still to do
    w,        \* the writing connection
    wire,     \* [bytes, fin]: the transport
    d,        \* MessageDeframer
    r,        \* the reading connection and its Stream
    recs,     \* history: what each record carries
    lens,     \* history: the length of each handshake message, and whether it rekeys
    seen      \* history: the messages handed to the state machine

vars == <<script, w, wire, d, r, recs, lens, seen>>

Blank == <<0, 0>>
MinOf(a, b) == IF a < b THEN a ELSE b

\* The concatenation of a sequence of sequences; the elements of s in T.
Flat(ss) ==
    LET upto[i \in 0..Len(ss)] == IF i = 0 THEN <<>> ELSE upto[i - 1] \o ss[i]
    IN upto[Len(ss)]
Keep(s, T) == Flat([i \in 1..Len(s) |-> IF s[i] \in T THEN <<s[i]>> ELSE <<>>])
StartsWith(s, t) == Len(t) <= Len(s) /\ SubSeq(s, 1, Len(t)) = t

RecordBytes(id, n) == [i \in 1..(Hdr + n + Tag) |-> <<id, i>>]
MessageBytes(m, n) == [i \in 1..n |-> <<-m, i>>]
FlightBytes(before, msgs) == Flat([j \in 1..Len(msgs) |-> MessageBytes(before + j, msgs[j].n)])

(***************************************************************************)
(* The writing side.  Every fragment becomes one record.  At SoftLimit the *)
(* connection wants to send close_notify first, which is itself a fragment *)
(* at SoftLimit: the call does not return and the process dies.            *)
(***************************************************************************)
Cut(bytes, cuts) == [k \in 1..Len(cuts) |-> SubSeq(bytes, (IF k = 1 THEN 0 ELSE cuts[k - 1]) + 1, cuts[k])]
FragmentCuts(n) == [k \in 1..((n + MaxFrag - 1) \div MaxFrag) |-> MinOf(k * MaxFrag, n)]
Fragment(pay) == Cut(pay, FragmentCuts(Len(pay)))
RecordOf(typ, pay, st) == [typ |-> typ, pay |-> pay, epoch |-> st.epoch, seq |-> st.seq]
NextEpoch(st, rekey) == IF rekey THEN [st EXCEPT !.epoch = @ + 1, !.seq = 0] ELSE st
SendSingleFragment(acc, typ, pay, rekey) ==
    CASE acc.w.crashed \/ acc.w.seq >= HardLimit -> acc
      [] ~acc.w.crashed /\ acc.w.seq = SoftLimit -> [acc EXCEPT !.w.crashed = TRUE]
      [] OTHER ->
           [w |-> NextEpoch([acc.w EXCEPT !.seq = @ + 1,
                                          !.tls = Append(@, RecordBytes(Len(acc.recs) + 1, Len(pay)))], rekey),
            recs |-> Append(acc.recs, RecordOf(typ, pay, acc.w))]
SendFragments(typ, pays, keys) ==
    LET sent[k \in 0..Len(pays)] ==
            IF k = 0 THEN [w |-> w, recs |-> recs]
            ELSE SendSingleFragment(sent[k - 1], typ, pays[k], k \in keys)
    IN sent[Len(pays)]
Queue(sent) == w' = sent.w /\ recs' = sent.recs
Buffered(chunks) == Len(Flat(chunks))
ApplyLimit(n) == MinOf(n, IF TlsLimit > Buffered(w.tls) THEN TlsLimit - Buffered(w.tls) ELSE 0)

Op == Head(script)
Doing(op) == script # <<>> /\ ~w.crashed /\ ~wire.fin /\ Op.op = op
WriterOnly == UNCHANGED <<wire, d, r, seen>>

\* A write takes what the limit of sendable_tls leaves room for; the caller
\* comes back with the rest.
Write ==
    /\ Doing("app")
    /\ ApplyLimit(Op.n) > 0
    /\ LET n == ApplyLimit(Op.n)
           sent == SendFragments("app", Fragment([i \in 1..n |-> <<0, w.data + i>>]), {})
       IN Queue([sent EXCEPT !.w.data = @ + n])
    /\ script' = IF ApplyLimit(Op.n) = Op.n THEN Tail(script)
                 ELSE <<[Op EXCEPT !.n = @ - ApplyLimit(Op.n)]>> \o Tail(script)
    /\ WriterOnly /\ UNCHANGED lens

\* One handshake message, in as many records as it needs; a key update moves
\* the writer to its next key after its last record.
SendHandshake ==
    /\ Doing("hs")
    /\ LET pays == Fragment(MessageBytes(Len(lens) + 1, Op.n))
       IN Queue(SendFragments("hs", pays, IF Op.kind = "key" THEN {Len(pays)} ELSE {}))
    /\ lens' = Append(lens, [n |-> Op.n, kind |-> Op.kind])
    /\ script' = Tail(script)
    /\ WriterOnly
CloseNotify ==
    /\ Doing("close")
    /\ Queue(SendFragments("alert", <<<<Blank>>>>, {}))
    /\ script' = Tail(script)
    /\ WriterOnly /\ UNCHANGED lens

\* Where messages end, given the lengths ls; whether one that ends changes keys.
IsEnd(b, ls) == b[2] = ls[-b[1]].n
Rekeys(pay, ls) == \E i \in 1..Len(pay) : IsEnd(pay[i], ls) /\ ls[-pay[i][1]].kind = "key"

\* Another implementation may put several messages into one record and cut
\* them anywhere, the key change included.  Op.msgs are the messages, Op.cuts
\* the ends of the records.
PeerFlight ==
    /\ Doing("flight")
    /\ LET all == lens \o Op.msgs
           pays == Cut(FlightBytes(Len(lens), Op.msgs), Op.cuts)
       IN /\ Queue(SendFragments("hs", pays, {k \in 1..Len(pays) : Rekeys(pays[k], all)}))
          /\ lens' = all
    /\ script' = Tail(script)
    /\ WriterOnly

(***************************************************************************)
(* write_tls: the transport takes any part of the first chunks.  The       *)
(* writing process may end at any time; what it wrote stays readable.      *)
(***************************************************************************)
Consume(chunks, n) ==
    LET gone(k) == Buffered(SubSeq(chunks, 1, k))
        k == CHOOSE j \in 0..Len(chunks) : gone(j) <= n /\ (j = Len(chunks) \/ gone(j + 1) > n)
        rest == SubSeq(chunks, k + 1, Len(chunks))
    IN IF n = gone(k) THEN rest
       ELSE <<SubSeq(rest[1], n - gone(k) + 1, Len(rest[1]))>> \o Tail(rest)
WriteTls_WhenFull ==
    /\ Buffered(w.tls) >= TlsLimit /\ ~w.crashed /\ ~wire.fin
    /\ LET offered == Flat(SubSeq(w.tls, 1, MinOf(MaxIov, Len(w.tls))))
       IN \E n \in 1..Len(offered) :
            /\ wire' = [wire EXCEPT !.bytes = @ \o SubSeq(offered, 1, n)]
            /\ w' = [w EXCEPT !.tls = Consume(@, n)]
    /\ UNCHANGED <<script, d, r, recs, lens, seen>>
WriteTls ==
    /\ w.tls # <<>> /\ ~w.crashed /\ ~wire.fin
    /\ LET offered == Flat(SubSeq(w.tls, 1, MinOf(MaxIov, Len(w.tls))))
       IN \E n \in 1..Len(offered) :
            /\ wire' = [wire EXCEPT !.bytes = @ \o SubSeq(offered, 1, n)]
            /\ w' = [w EXCEPT !.tls = Consume(@, n)]
    /\ UNCHANGED <<script, d, r, recs, lens, seen>>
Fin ==
    /\ ~wire.fin
    /\ wire' = [wire EXCEPT !.fin = TRUE]
    /\ UNCHANGED <<script, w, d, r, recs, lens, seen>>

(***************************************************************************)
(* The reading side.  Stream::read runs complete_io while the connection   *)
(* wants to read: write what is queued (and, if there was any, return with *)
(* nothing read), read once, process everything, look again.               *)
(***************************************************************************)
WantsRead == r.plain = <<>> /\ ~r.closed
Working == r.err = "none" /\ r.end = "none"
CallRead ==
    /\ r.pc = "idle" /\ Working
    /\ r' = [r EXCEPT !.pc = "read", !.alerts = 0]
    /\ UNCHANGED <<script, w, wire, d, recs, lens, seen>>
WritesInstead ==
    /\ r.pc = "read" /\ WantsRead /\ r.alerts > 0
    /\ r' = [r EXCEPT !.pc = "deliver", !.alerts = 0]
    /\ UNCHANGED <<script, w, wire, d, recs, lens, seen>>

\* prepare_read: the limit depends on whether a message is being joined, and
\* the buffer grows or shrinks to what one read may bring.
AllowMax == IF d.join.on THEN MaxHs ELSE MaxWire
NeedCapacity == MinOf(AllowMax, d.used + ReadSize)
Resized(buf, n) == [i \in 1..n |-> IF i <= Len(buf) THEN buf[i] ELSE Blank]
PrepareRead ==
    IF NeedCapacity > Len(d.buf) \/ d.used = 0 \/ Len(d.buf) > AllowMax
    THEN Resized(d.buf, NeedCapacity) ELSE d.buf
Overwrite(buf, at, new) ==
    [i \in 1..Len(buf) |-> IF i > at /\ i <= at + Len(new) THEN new[i - at] ELSE buf[i]]
ReadTls ==
    /\ r.pc = "read" /\ WantsRead /\ r.alerts = 0
    /\ d.used < AllowMax
    /\ wire.bytes # <<>>
    /\ LET buf == PrepareRead
           room == Len(buf) - d.used
       IN \E n \in 1..MinOf(room, Len(wire.bytes)) :
            /\ d' = [d EXCEPT !.buf = Overwrite(buf, d.used, SubSeq(wire.bytes, 1, n)), !.used = @ + n]
            /\ wire' = [wire EXCEPT !.bytes = SubSeq(@, n + 1, Len(@))]
    /\ r' = [r EXCEPT !.pc = "process", !.got = TRUE]
    /\ UNCHANGED <<script, w, recs, lens, seen>>
ReadEof ==
    /\ r.pc = "read" /\ WantsRead /\ r.alerts = 0
    /\ d.used < AllowMax
    /\ wire.bytes = <<>> /\ wire.fin
    /\ d' = [d EXCEPT !.buf = PrepareRead]
    /\ r' = [r EXCEPT !.pc = "process", !.got = FALSE, !.eof = TRUE]
    /\ UNCHANGED <<script, w, wire, recs, lens, seen>>
BufferFull ==
    /\ r.pc = "read" /\ WantsRead /\ r.alerts = 0
    /\ d.used >= AllowMax
    /\ r' = [r EXCEPT !.pc = "idle", !.err = "message buffer full"]
    /\ UNCHANGED <<script, w, wire, d, recs, lens, seen>>

(***************************************************************************)
(* MessageDeframer::pop, one turn of its loop per step.                    *)
(***************************************************************************)
Unparsed == SubSeq(d.buf, d.join.end + 1, d.used)
RecordId == Unparsed[1][1]
HasHeader == Len(Unparsed) >= Hdr
WellFormed == Unparsed[1][2] = 1 /\ RecordId > 0
WireLen == Hdr + Len(recs[RecordId].pay) + Tag
HasRecord == HasHeader /\ WellFormed /\ Len(Unparsed) >= WireLen
Genuine ==
    /\ SubSeq(Unparsed, 1, WireLen) = RecordBytes(RecordId, Len(recs[RecordId].pay))
    /\ recs[RecordId].epoch = r.epoch /\ recs[RecordId].seq = r.seq
Discard(df, taken) ==
    IF taken < df.used
    THEN [df EXCEPT !.buf = Overwrite(@, 0, SubSeq(@, taken + 1, df.used)), !.used = @ - taken]
    ELSE [df EXCEPT !.used = 0]

\* The message being joined: its bytes are at start+1..stop, what is parsed
\* ends at end, and size is its length, or 0 while its header is incomplete.
NoJoin == [on |-> FALSE, start |-> 0, stop |-> 0, end |-> 0, size |-> 0]
PayloadSize(bytes) == IF Len(bytes) >= HsHdr /\ bytes[1][1] < 0 THEN lens[-bytes[1][1]].n ELSE 0
TooLarge(join) == join.size - HsHdr > MaxHs
JoinedBytes(buf, join) == SubSeq(buf, join.start + 1, join.stop)
Complete == d.join.on /\ d.join.size # 0 /\ d.join.size <= d.join.stop - d.join.start

AppendHs_AtEnd(pay, end) ==
    LET buf == Overwrite(d.buf, d.join.end, pay)
        join == [d.join EXCEPT !.on = TRUE, !.end = end, !.stop = @ + Len(pay)]
    IN [d EXCEPT !.buf = buf,
                 !.join = [join EXCEPT !.size = IF @ # 0 THEN @ ELSE PayloadSize(JoinedBytes(buf, join))]]
\* append_hs: the opened payload is copied behind the bytes joined so far, or
\* to the front of the buffer; the record it came from counts as parsed.
AppendHs(pay, end) ==
    LET buf == Overwrite(d.buf, d.join.stop, pay)
        join == [d.join EXCEPT !.on = TRUE, !.end = end, !.stop = @ + Len(pay)]
    IN [d EXCEPT !.buf = buf,
                 !.join = [join EXCEPT !.size = IF @ # 0 THEN @ ELSE PayloadSize(JoinedBytes(buf, join))]]

Processing == r.pc = "process" /\ r.err = "none"
Fails(why) == r' = [r EXCEPT !.err = why, !.pc = "idle"]
ReaderOnly == UNCHANGED <<script, w, wire, recs, lens>>

\* Nothing more to pop: back to the loop of Stream::read, which ends when
\* complete_io has read nothing.
PopNone ==
    /\ Processing /\ ~Complete
    /\ HasHeader => WellFormed /\ ~HasRecord
    /\ r' = [r EXCEPT !.pc = IF r.got THEN "read" ELSE "deliver"]
    /\ ReaderOnly /\ UNCHANGED <<d, seen>>

\* What pop refuses: no record header, a record that does not open, another
\* record inside a handshake message.
Refusal ==
    CASE ~WellFormed -> "InvalidMessage"
      [] WellFormed /\ HasRecord /\ ~Genuine -> "DecryptError"
      [] WellFormed /\ HasRecord /\ Genuine /\ d.join.on /\ recs[RecordId].typ # "hs" ->
           "MessageInterleavedWithHandshakeMessage"
      [] OTHER -> "none"
PopRefused ==
    /\ Processing /\ ~Complete /\ HasHeader /\ Refusal # "none"
    /\ Fails(Refusal)
    /\ ReaderOnly /\ UNCHANGED <<d, seen>>

\* A record that opens.  Application data and alerts are handled at once, a
\* piece of a handshake message is joined to what is there of it.
Opened == [r EXCEPT !.seq = @ + 1, !.nrec = @ + 1]
PopData ==
    /\ Processing /\ ~Complete /\ HasRecord /\ Genuine
    /\ ~d.join.on /\ recs[RecordId].typ # "hs"
    /\ d' = Discard(d, WireLen)
    /\ LET rec == recs[RecordId]
       IN IF rec.typ = "app"
          THEN /\ r' = [Opened EXCEPT !.plain = Append(@, rec.pay)]
               /\ seen' = seen \o [i \in 1..Len(rec.pay) |-> rec.pay[i][2]]
          ELSE /\ r' = [Opened EXCEPT !.closed = TRUE]
               /\ seen' = Append(seen, 0)
    /\ ReaderOnly
PopPiece ==
    /\ Processing /\ ~Complete /\ HasRecord /\ Genuine
    /\ recs[RecordId].typ = "hs"
    /\ LET df == AppendHs(recs[RecordId].pay, d.join.end + WireLen)
       IN IF TooLarge(df.join)
          THEN Fails("HandshakePayloadTooLarge") /\ UNCHANGED d
          ELSE d' = df /\ r' = Opened
    /\ ReaderOnly /\ UNCHANGED seen

\* A whole message: hand it over, and go on with the bytes behind it or give
\* the space back.  A message that changes keys must be the last of its record.
Message == -d.buf[d.join.start + 1][1]
AfterYield ==
    LET next == [d.join EXCEPT !.start = @ + d.join.size]
    IN IF next.start < next.stop
       THEN [d EXCEPT !.join = [next EXCEPT !.size = PayloadSize(JoinedBytes(d.buf, next))]]
       ELSE Discard([d EXCEPT !.join = NoJoin], d.join.end)
CheckAligned_Skipped(df) == TRUE
CheckAligned(df) == ~df.join.on
Handle(st, df) ==
    CASE lens[Message].kind = "key" /\ ~CheckAligned(df) ->
           [st EXCEPT !.err = "KeyEpochWithPendingFragment", !.pc = "idle"]
      [] lens[Message].kind = "key" /\ CheckAligned(df) -> [st EXCEPT !.epoch = @ + 1, !.seq = 0]
      [] lens[Message].kind = "hello" -> [st EXCEPT !.alerts = @ + 1]
      [] OTHER -> st
PopMessage ==
    /\ Processing /\ Complete
    /\ IF AfterYield.join.on /\ TooLarge(AfterYield.join)
       THEN Fails("HandshakePayloadTooLarge") /\ UNCHANGED <<d, seen>>
       ELSE /\ d' = AfterYield
            /\ r' = Handle(r, AfterYield)
            /\ seen' = Append(seen, -Message)
    /\ ReaderOnly

(***************************************************************************)
(* Reader::read: plaintext if there is any, else the end of the stream if  *)
(* close_notify came and no bytes are pending, else an error.              *)
(***************************************************************************)
Delivering == r.err = "none" /\ (r.pc = "deliver" \/ (r.pc = "read" /\ ~WantsRead))
ReadPlain_DropsRest ==
    /\ Delivering /\ r.plain # <<>>
    /\ \E n \in 1..Buffered(r.plain) :
         r' = [r EXCEPT !.pc = "idle", !.plain = Tail(@), !.out = @ \o SubSeq(Flat(r.plain), 1, n)]
    /\ UNCHANGED <<script, w, wire, d, recs, lens, seen>>
ReadPlain ==
    /\ Delivering /\ r.plain # <<>>
    /\ \E n \in 1..Buffered(r.plain) :
         r' = [r EXCEPT !.pc = "idle", !.plain = Consume(@, n),
                        !.out = @ \o SubSeq(Flat(r.plain), 1, n)]
    /\ UNCHANGED <<script, w, wire, d, recs, lens, seen>>
CleanlyClosed_NoCheck == r.closed \/ r.eof
CleanlyClosed == r.closed /\ d.used = 0
ReadEnd ==
    /\ Delivering /\ r.plain = <<>>
    /\ r' = [r EXCEPT !.pc = "idle",
                      !.end = IF CleanlyClosed THEN "clean" ELSE IF r.eof THEN "UnexpectedEof" ELSE @,
                      !.blocked = ~CleanlyClosed /\ ~r.eof]
    /\ UNCHANGED <<script, w, wire, d, recs, lens, seen>>

(***************************************************************************)
(* The specification.  Nothing obliges the writing process to go on with   *)
(* its script or to end; what it has queued is sent, and the reader reads. *)
(***************************************************************************)
Init ==
    /\ script \in Scripts
    /\ w = [tls |-> <<>>, seq |-> 0, epoch |-> 0, data |-> 0, crashed |-> FALSE]
    /\ wire = [bytes |-> <<>>, fin |-> FALSE]
    /\ d = [buf |-> <<>>, used |-> 0, join |-> NoJoin]
    /\ r = [pc |-> "idle", plain |-> <<>>, closed |-> FALSE, eof |-> FALSE, got |-> FALSE, seq |-> 0, epoch |-> 0,
            alerts |-> 0, err |-> "none", end |-> "none", blocked |-> FALSE, out |-> <<>>, nrec |-> 0]
    /\ recs = <<>> /\ lens = <<>> /\ seen = <<>>

Sender == Write \/ SendHandshake \/ CloseNotify \/ PeerFlight
Read == CallRead \/ WritesInstead \/ ReadTls \/ ReadEof \/ BufferFull \/ ReadPlain \/ ReadEnd
Pop == PopNone \/ PopRefused \/ PopData \/ PopPiece \/ PopMessage
Finished == ~Working /\ UNCHANGED vars
Next == Sender \/ WriteTls \/ Fin \/ Read \/ Pop \/ Finished
Spec == Init /\ [][Next]_vars /\ WF_vars(WriteTls) /\ WF_vars(Read \/ Pop)

(***************************************************************************)
(* Properties.                                                             *)
(***************************************************************************)
Sealed(rs) == [i \in 1..Len(rs) |-> RecordBytes(i, Len(rs[i].pay))]
Stream(rs, n) == Flat(SubSeq(Sealed(rs), n + 1, Len(rs)))
Pays(rs, typ, n) == Flat([i \in 1..n |-> IF rs[i].typ = typ THEN rs[i].pay ELSE <<>>])
Negative == {x \in Int : x < 0}
Positive == {x \in Int : x > 0}
Yielded == Len(Keep(seen, Negative))
Joined == JoinedBytes(d.buf, d.join)

\* The one buffer of the deframer always holds, behind what it has parsed,
\* exactly the next bytes of the stream, from the start of a record on; and
\* in front of it exactly the opened bytes of messages not yet handed over.
\* Joining in place never overwrites a byte that is still needed.
BufferExact ==
    r.err = "none" =>
        /\ Unparsed \o wire.bytes \o Flat(w.tls) = Stream(recs, r.nrec)
        /\ Pays(recs, "hs", r.nrec) = FlightBytes(0, SubSeq(lens, 1, Yielded)) \o Joined

Ends(bytes, ls) == Flat([i \in 1..Len(bytes) |-> IF IsEnd(bytes[i], ls) THEN <<bytes[i][1]>> ELSE <<>>])
EventsOf(rec, ls) ==
    CASE rec.typ = "app" -> [i \in 1..Len(rec.pay) |-> rec.pay[i][2]]
      [] rec.typ = "alert" -> <<0>>
      [] OTHER -> Ends(rec.pay, ls)
Events(rs, ls, n) == Flat([i \in 1..n |-> EventsOf(rs[i], ls)])
DataSeen == Keep(seen, Positive)

\* The state machine sees what was sent, whole and in the order sent, and
\* the user reads exactly the application data in it (deframer.rs pop,
\* vecbuf.rs read).
InOrder ==
    /\ StartsWith(Events(recs, lens, Len(recs)), seen)
    /\ r.out \o Flat(r.plain) = [i \in 1..Len(DataSeen) |-> <<0, DataSeen[i]>>]

\* No handshake message is put together from records of two keys
\* (common_state.rs check_aligned_handshake).
Carries(rec, m) == \E i \in 1..Len(rec.pay) : rec.pay[i][1] = -m
OneEpoch ==
    \A m \in 1..Yielded : \A i, j \in 1..Len(recs) :
        Carries(recs[i], m) /\ Carries(recs[j], m) => recs[i].epoch = recs[j].epoch

NothingAfterClose == \A i \in 1..Len(recs) : recs[i].typ = "alert" => i = Len(recs)
AtBoundary(n) == LET hs == Pays(recs, "hs", n) IN hs = <<>> \/ IsEnd(hs[Len(hs)], lens)
Interleaves == \E i \in 1..Len(recs) : recs[i].typ # "hs" /\ ~AtBoundary(i - 1)
Misaligns ==
    \E i \in 1..Len(recs) :
        recs[i].typ = "hs" /\ Rekeys(SubSeq(recs[i].pay, 1, Len(recs[i].pay) - 1), lens)
Outgrows ==
    \/ \E m \in 1..Len(lens) : lens[m].n - HsHdr > MaxHs
    \/ \E i, j \in 1..Len(recs) :
         /\ \A k \in i..j : recs[k].typ = "hs"
         /\ \A k \in i..(j - 1) : ~AtBoundary(k)
         /\ LET n == Buffered(SubSeq(Sealed(recs), i, j)) IN n > MaxHs \/ (n = MaxHs /\ ~AtBoundary(j))

\* The reader is told the truth about how its stream ends (conn.rs Reader::read,
\* process_new_packets).  A clean end comes only after close_notify and
\* everything before it, and a stream cut short is always an error.  It fails
\* only for a peer that interleaves or misaligns, or whose message outgrows the
\* buffer; it has to try again only after an alert was written in between or
\* when bytes follow close_notify.
HonestEnd ==
    /\ r.end = "clean" => r.closed /\ (NothingAfterClose => r.out = Pays(recs, "app", Len(recs)))
    /\ r.end = "UnexpectedEof" => ~r.closed /\ wire.fin /\ ~HasRecord
    /\ r.err # "none" => Interleaves \/ Misaligns \/ Outgrows
    /\ r.blocked => (r.closed /\ ~NothingAfterClose) \/ \E m \in 1..Len(lens) : lens[m].kind = "hello"
    /\ w.crashed => w.seq = SoftLimit

\* Every byte a write accepted reaches the reader's user, unless the writing
\* process ended first, the reader failed, or the connection was closed.
Arrives ==
    \A n \in 1..MaxArrival :
        w.data >= n ~> (Len(r.out) >= n \/ wire.fin \/ w.crashed \/ r.err # "none" \/ r.closed)
=============================================================================
