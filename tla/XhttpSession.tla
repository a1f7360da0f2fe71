---------------------------- MODULE XhttpSession ----------------------------
(***************************************************************************)
(* The XHTTP "split" mode of src/src/transport/xhttp/h2.rs: a GET request  *)
(* registers a session under its path in the global SESSIONS map and       *)
(* carries the download; POST requests look the session up under the same  *)
(* path and carry the upload.                                              *)
(*                                                                         *)
(* Every request is a task of its own.  A GET owns                         *)
(*   - the map entry, whose value is the sending end of an unbounded       *)
(*     channel (the POSTs clone it), and a guard that removes the entry;   *)
(*   - a 512 KB in-memory duplex to a spawned VLESS handler;               *)
(*   - a spawned upstream task: channel -> duplex;                         *)
(*   - the downstream loop, run inline: duplex -> HTTP/2 response body.    *)
(* The value of a map entry is the GET that inserted it.  A chunk of a     *)
(* POST body is the pair of the POST and its position in the body.         *)
(*                                                                         *)
(* Definitions named X_Something stand before the definition X and are not *)
(* part of the specification: each is X with a mistake that the code could *)
(* plausibly have had, and that a property below is there to notice.       *)
(***************************************************************************)
EXTENDS Naturals, Sequences

CONSTANTS Gets, Posts,   \* the GET and the POST requests
          Paths,         \* the request paths (map keys)
          PathOf,        \* the path each request was sent to
          NoGet,         \* "no session under this path"
          MaxPolls,      \* lookups a POST makes before it gives up (40)
          MaxChunks,     \* bound: chunks of a POST body
          MaxDown,       \* bound: chunks a VLESS handler writes
          DuplexCap      \* chunks the duplex holds in each direction

ASSUME XhttpAssumption ==
    /\ Gets \cap Posts = {}
    /\ NoGet \notin Gets
    /\ PathOf \in [Gets \cup Posts -> Paths]
    /\ MaxPolls \in Nat \ {0}
    /\ MaxChunks \in Nat
    /\ MaxDown \in Nat
    /\ DuplexCap \in Nat \ {0}

VARIABLES
    sessions,   \* SESSIONS: path -> the GET whose channel is registered
    gpc,        \* where the task of each GET is
    upc,        \* where the spawned upstream task of each GET is
    vless,      \* the spawned VLESS handler of each GET
    reset,      \* the HTTP/2 stream of the GET is gone
    chan,       \* the unbounded channel of each GET
    hand,       \* the chunk the upstream task is writing (at most one)
    up,         \* duplex, towards the VLESS handler
    down,       \* duplex, towards the client
    wrote,      \* chunks the VLESS handler has written
    eos,        \* how END_STREAM was sent on the response, if it was
    ppc,        \* where the task of each POST is
    polls,      \* lookups the POST has made
    tx,         \* the channel the POST has cloned
    read,       \* chunks of its body the POST has read
    log,        \* history: chunks the channel accepted
    delivered,  \* history: chunks the VLESS handler read
    shown,      \* history: chunks sent on the GET's response
    before      \* history: POSTs answered before this one arrived

getVars  == <<gpc, upc, vless, reset, hand, up, down, wrote, eos, delivered, shown>>
postVars == <<ppc, polls, tx, read, before>>
vars == <<sessions, gpc, upc, vless, reset, chan, hand, up, down, wrote, eos,
          ppc, polls, tx, read, log, delivered, shown, before>>

Chunk == [post : Posts, n : 1..MaxChunks]

\* The receiving end exists until the upstream task that owns it ends.
RxAlive(g) == gpc[g] = "open" \/ upc[g] = "run"

\* A sending end exists in the map entry and in every POST that cloned it.
HasSender(g) == \/ sessions[PathOf[g]] = g
                \/ \E p \in Posts : ppc[p] = "forward" /\ tx[p] = g

\* The client side of the duplex lives until both of its halves are dropped:
\* the downstream loop owns one, the upstream task the other.
ClientIoAlive(g) == gpc[g] \in {"open", "stream"} \/ upc[g] = "run"

Init ==
    /\ sessions = [k \in Paths |-> NoGet]
    /\ gpc = [g \in Gets |-> "idle"]
    /\ upc = [g \in Gets |-> "off"]
    /\ vless = [g \in Gets |-> "off"]
    /\ reset = [g \in Gets |-> FALSE]
    /\ chan = [g \in Gets |-> <<>>]
    /\ hand = [g \in Gets |-> <<>>]
    /\ up = [g \in Gets |-> <<>>]
    /\ down = [g \in Gets |-> <<>>]
    /\ wrote = [g \in Gets |-> 0]
    /\ eos = [g \in Gets |-> "none"]
    /\ ppc = [p \in Posts |-> "idle"]
    /\ polls = [p \in Posts |-> 0]
    /\ tx = [p \in Posts |-> NoGet]
    /\ read = [p \in Posts |-> 0]
    /\ log = [g \in Gets |-> <<>>]
    /\ delivered = [g \in Gets |-> <<>>]
    /\ shown = [g \in Gets |-> <<>>]
    /\ before = [p \in Posts |-> {}]

-----------------------------------------------------------------------------
(* The task of a GET request: handle_xhttp_get.                            *)

\* SESSIONS.remove(&path): whoever's entry it is.
Unregister(k) == sessions' = [sessions EXCEPT ![k] = NoGet]

\* The guard only notifies.
GuardDrop_Forgotten(g) == UNCHANGED sessions

\* Drop of SessionGuard.  (Nothing waits on its Notify.)
GuardDrop(g) == Unregister(PathOf[g])

\* Insert the session, create guard and duplex, spawn the VLESS handler.
GetOpen(g) ==
    /\ gpc[g] = "idle"
    /\ sessions' = [sessions EXCEPT ![PathOf[g]] = g]
    /\ gpc' = [gpc EXCEPT ![g] = "open"]
    /\ vless' = [vless EXCEPT ![g] = "run"]
    /\ UNCHANGED <<upc, reset, chan, hand, up, down, wrote, eos, log, delivered, shown, postVars>>

\* send_response succeeds; the upstream task is spawned.
GetRespond(g) ==
    /\ gpc[g] = "open"
    /\ ~reset[g]
    /\ gpc' = [gpc EXCEPT ![g] = "stream"]
    /\ upc' = [upc EXCEPT ![g] = "run"]
    /\ UNCHANGED <<sessions, vless, reset, chan, hand, up, down, wrote, eos, log, delivered, shown, postVars>>

\* send_response fails: early return, guard, duplex and receiver are dropped.
GetRespondErr(g) ==
    /\ gpc[g] = "open"
    /\ reset[g]
    /\ gpc' = [gpc EXCEPT ![g] = "closed"]
    /\ GuardDrop(g)
    /\ chan' = [chan EXCEPT ![g] = <<>>]
    /\ UNCHANGED <<upc, vless, reset, hand, up, down, wrote, eos, log, delivered, shown, postVars>>

\* The downstream loop reads from the duplex and sends on the response.
DownForward(g) ==
    /\ gpc[g] = "stream"
    /\ down[g] # <<>>
    /\ down' = [down EXCEPT ![g] = Tail(@)]
    /\ IF reset[g]
         THEN gpc' = [gpc EXCEPT ![g] = "ended"] /\ UNCHANGED shown
         ELSE shown' = [shown EXCEPT ![g] = Append(@, Head(down[g]))] /\ UNCHANGED gpc
    /\ UNCHANGED <<sessions, upc, vless, reset, chan, hand, up, wrote, eos, log, delivered, postVars>>

\* The VLESS handler has shut down its writing half or is gone, and its data
\* are read: end of stream.
DownEof(g) ==
    /\ gpc[g] = "stream"
    /\ down[g] = <<>>
    /\ vless[g] \in {"half", "done"}
    /\ gpc' = [gpc EXCEPT ![g] = "ended"]
    /\ eos' = [eos EXCEPT ![g] = IF reset[g] THEN "none" ELSE "eof"]
    /\ UNCHANGED <<sessions, upc, vless, reset, chan, hand, up, down, wrote, log, delivered, shown, postVars>>

\* 300 s without data from the VLESS handler: the loop ends the response.
DownTimeout(g) ==
    /\ gpc[g] = "stream"
    /\ down[g] = <<>>
    /\ vless[g] = "run"
    /\ gpc' = [gpc EXCEPT ![g] = "ended"]
    /\ eos' = [eos EXCEPT ![g] = IF reset[g] THEN "none" ELSE "idle"]
    /\ UNCHANGED <<sessions, upc, vless, reset, chan, hand, up, down, wrote, log, delivered, shown, postVars>>

\* SESSIONS.remove(&path) after the downstream loop.
GetRemove(g) ==
    /\ gpc[g] = "ended"
    /\ Unregister(PathOf[g])
    /\ gpc' = [gpc EXCEPT ![g] = "joining"]
    /\ UNCHANGED <<upc, vless, reset, chan, hand, up, down, wrote, eos, log, delivered, shown, postVars>>

\* up_handle.await returns; the guard is dropped.
GetJoin(g) ==
    /\ gpc[g] = "joining"
    /\ upc[g] = "done"
    /\ gpc' = [gpc EXCEPT ![g] = "closed"]
    /\ GuardDrop(g)
    /\ UNCHANGED <<upc, vless, reset, chan, hand, up, down, wrote, eos, log, delivered, shown, postVars>>

-----------------------------------------------------------------------------
(* The upstream task of a GET.                                             *)

\* A handler that has shut down its writing half still reads.
Reading == {"run", "half"}

UpRecv(g) ==
    /\ upc[g] = "run"
    /\ hand[g] = <<>>
    /\ chan[g] # <<>>
    /\ hand' = [hand EXCEPT ![g] = <<Head(chan[g])>>]
    /\ chan' = [chan EXCEPT ![g] = Tail(@)]
    /\ UNCHANGED <<sessions, gpc, upc, vless, reset, up, down, wrote, eos, log, delivered, shown, postVars>>

\* The chunk is kept after the write, and written again.
UpWrite_Repeats(g) ==
    /\ upc[g] = "run"
    /\ hand[g] # <<>>
    /\ vless[g] \in Reading
    /\ Len(up[g]) < DuplexCap
    /\ up' = [up EXCEPT ![g] = @ \o hand[g]]
    /\ UNCHANGED <<sessions, gpc, upc, vless, reset, chan, hand, down, wrote, eos, log, delivered, shown, postVars>>

\* A chunk that does not fit into the duplex is dropped.
UpWrite_DropsWhenFull(g) ==
    /\ upc[g] = "run"
    /\ hand[g] # <<>>
    /\ vless[g] \in Reading
    /\ up' = [up EXCEPT ![g] = IF Len(@) < DuplexCap THEN @ \o hand[g] ELSE @]
    /\ hand' = [hand EXCEPT ![g] = <<>>]
    /\ UNCHANGED <<sessions, gpc, upc, vless, reset, chan, down, wrote, eos, log, delivered, shown, postVars>>

\* write_all completes once the duplex has room.
UpWrite(g) ==
    /\ upc[g] = "run"
    /\ hand[g] # <<>>
    /\ vless[g] \in Reading
    /\ Len(up[g]) < DuplexCap
    /\ up' = [up EXCEPT ![g] = @ \o hand[g]]
    /\ hand' = [hand EXCEPT ![g] = <<>>]
    /\ UNCHANGED <<sessions, gpc, upc, vless, reset, chan, down, wrote, eos, log, delivered, shown, postVars>>

\* The task returns and drops its receiver: what is queued is lost.
UpEnd(g) ==
    /\ upc' = [upc EXCEPT ![g] = "done"]
    /\ hand' = [hand EXCEPT ![g] = <<>>]
    /\ chan' = [chan EXCEPT ![g] = <<>>]
    /\ UNCHANGED <<sessions, gpc, vless, reset, up, down, wrote, eos, log, delivered, shown, postVars>>

\* write_all fails: the VLESS handler has dropped its end of the duplex.
UpWriteErr(g) ==
    /\ upc[g] = "run"
    /\ hand[g] # <<>>
    /\ vless[g] = "done"
    /\ UpEnd(g)

\* recv() returns None: every sender is gone and the queue is empty.
UpClosed(g) ==
    /\ upc[g] = "run"
    /\ hand[g] = <<>>
    /\ chan[g] = <<>>
    /\ ~HasSender(g)
    /\ UpEnd(g)

\* No idle timeout on the upload.
UpTimeout_Never(g) == FALSE /\ UpEnd(g)

\* 300 s without a chunk.
UpTimeout(g) ==
    /\ upc[g] = "run"
    /\ hand[g] = <<>>
    /\ chan[g] = <<>>
    /\ HasSender(g)
    /\ UpEnd(g)

-----------------------------------------------------------------------------
(* The VLESS handler spawned for a GET, as far as the duplex shows it.     *)

VlessRead(g) ==
    /\ vless[g] \in Reading
    /\ up[g] # <<>>
    /\ delivered' = [delivered EXCEPT ![g] = Append(@, Head(up[g]))]
    /\ up' = [up EXCEPT ![g] = Tail(@)]
    /\ UNCHANGED <<sessions, gpc, upc, vless, reset, chan, hand, down, wrote, eos, log, shown, postVars>>

VlessWrite(g) ==
    /\ vless[g] = "run"
    /\ ClientIoAlive(g)
    /\ wrote[g] < MaxDown
    /\ Len(down[g]) < DuplexCap
    /\ wrote' = [wrote EXCEPT ![g] = @ + 1]
    /\ down' = [down EXCEPT ![g] = Append(@, wrote[g] + 1)]
    /\ UNCHANGED <<sessions, gpc, upc, vless, reset, chan, hand, up, eos, log, delivered, shown, postVars>>

\* The target has ended its side: the relay shuts down the direction to the
\* client and goes on with the other one (connection.rs:104).
VlessShut(g) ==
    /\ vless[g] = "run"
    /\ vless' = [vless EXCEPT ![g] = "half"]
    /\ UNCHANGED <<sessions, gpc, upc, reset, chan, hand, up, down, wrote, eos, log, delivered, shown, postVars>>

\* The handler returns, for whatever reason, and drops its end.
VlessEnd(g) ==
    /\ vless[g] \in Reading
    /\ vless' = [vless EXCEPT ![g] = "done"]
    /\ UNCHANGED <<sessions, gpc, upc, reset, chan, hand, up, down, wrote, eos, log, delivered, shown, postVars>>

\* The client resets the stream, or its connection breaks.
ClientReset(g) ==
    /\ gpc[g] \in {"open", "stream"}
    /\ ~reset[g]
    /\ reset' = [reset EXCEPT ![g] = TRUE]
    /\ UNCHANGED <<sessions, gpc, upc, vless, chan, hand, up, down, wrote, eos, log, delivered, shown, postVars>>

-----------------------------------------------------------------------------
(* The task of a POST request: handle_request and handle_xhttp_post.       *)

\* A client whose user agent is Go-http-client does not wait for the GET.
PostArrive(p) ==
    /\ ppc[p] = "idle"
    /\ \E next \in {"poll", "lookup"} : ppc' = [ppc EXCEPT ![p] = next]
    /\ before' = [before EXCEPT ![p] = {q \in Posts : ppc[q] = "acked"}]
    /\ UNCHANGED <<sessions, getVars, chan, log, polls, tx, read>>

\* One round of the loop: contains_key, else sleep 50 ms.
PostPoll(p) ==
    /\ ppc[p] = "poll"
    /\ IF sessions[PathOf[p]] # NoGet
         THEN ppc' = [ppc EXCEPT ![p] = "lookup"] /\ UNCHANGED polls
         ELSE /\ polls' = [polls EXCEPT ![p] = @ + 1]
              /\ ppc' = [ppc EXCEPT ![p] = IF polls[p] + 1 = MaxPolls THEN "lookup" ELSE "poll"]
    /\ UNCHANGED <<sessions, getVars, chan, log, tx, read, before>>

\* The POST takes the entry out of the map instead of cloning the sender.
PostLookup_Takes(p) ==
    /\ ppc[p] = "lookup"
    /\ ppc' = [ppc EXCEPT ![p] = IF sessions[PathOf[p]] # NoGet THEN "forward" ELSE "standalone"]
    /\ tx' = [tx EXCEPT ![p] = sessions[PathOf[p]]]
    /\ Unregister(PathOf[p])
    /\ UNCHANGED <<getVars, chan, log, polls, read, before>>

\* SESSIONS.get: forward into the session, or serve the POST on its own.
PostLookup(p) ==
    /\ ppc[p] = "lookup"
    /\ IF sessions[PathOf[p]] # NoGet
         THEN /\ ppc' = [ppc EXCEPT ![p] = "forward"]
              /\ tx' = [tx EXCEPT ![p] = sessions[PathOf[p]]]
         ELSE /\ ppc' = [ppc EXCEPT ![p] = "standalone"]
              /\ UNCHANGED tx
    /\ UNCHANGED <<sessions, getVars, chan, log, polls, read, before>>

\* The body is forwarded by a detached task; the reply does not wait for it.
PostChunk_AfterReply(p) ==
    LET c == [post |-> p, n |-> read[p] + 1]
        g == tx[p]
    IN /\ ppc[p] \in {"forward", "acked"}
       /\ read[p] < MaxChunks
       /\ read' = [read EXCEPT ![p] = @ + 1]
       /\ IF RxAlive(g)
            THEN /\ chan' = [chan EXCEPT ![g] = Append(@, c)]
                 /\ log' = [log EXCEPT ![g] = Append(@, c)]
            ELSE UNCHANGED <<chan, log>>
       /\ UNCHANGED <<sessions, getVars, ppc, polls, tx, before>>

\* One chunk of the body; the result of tx.send is ignored.
PostChunk(p) ==
    LET c == [post |-> p, n |-> read[p] + 1]
        g == tx[p]
    IN /\ ppc[p] = "forward"
       /\ read[p] < MaxChunks
       /\ read' = [read EXCEPT ![p] = @ + 1]
       /\ IF RxAlive(g)
            THEN /\ chan' = [chan EXCEPT ![g] = Append(@, c)]
                 /\ log' = [log EXCEPT ![g] = Append(@, c)]
            ELSE UNCHANGED <<chan, log>>
       /\ UNCHANGED <<sessions, getVars, ppc, polls, tx, before>>

\* The body is complete: 200 OK.
PostAck(p) ==
    /\ ppc[p] = "forward"
    /\ ppc' = [ppc EXCEPT ![p] = "acked"]
    /\ UNCHANGED <<sessions, getVars, chan, log, polls, tx, read, before>>

\* The body breaks off, or the response cannot be sent.
PostFail(p) ==
    /\ ppc[p] = "forward"
    /\ ppc' = [ppc EXCEPT ![p] = "failed"]
    /\ UNCHANGED <<sessions, getVars, chan, log, polls, tx, read, before>>

-----------------------------------------------------------------------------
GetNext(g) == GetOpen(g) \/ GetRespond(g) \/ GetRespondErr(g) \/ DownForward(g)
              \/ DownEof(g) \/ DownTimeout(g) \/ GetRemove(g) \/ GetJoin(g)
UpNext(g) == UpRecv(g) \/ UpWrite(g) \/ UpWriteErr(g) \/ UpClosed(g) \/ UpTimeout(g)
EnvNext(g) == VlessRead(g) \/ VlessWrite(g) \/ VlessShut(g) \/ VlessEnd(g) \/ ClientReset(g)
PostNext(p) == PostArrive(p) \/ PostPoll(p) \/ PostLookup(p) \/ PostChunk(p)
               \/ PostAck(p) \/ PostFail(p)

Next == \/ \E g \in Gets : GetNext(g) \/ UpNext(g) \/ EnvNext(g)
        \/ \E p \in Posts : PostNext(p)

Spec == Init /\ [][Next]_vars

\* Tasks the runtime schedules run; a timer whose condition persists fires.
\* The VLESS handler is assumed to keep reading its end of the duplex.
\* Nothing is assumed of clients, nor of when the handler writes or ends.
Fairness ==
    /\ \A g \in Gets :
         /\ WF_vars(GetRespond(g) \/ GetRespondErr(g))
         /\ WF_vars(DownForward(g) \/ DownEof(g) \/ DownTimeout(g))
         /\ WF_vars(GetRemove(g) \/ GetJoin(g))
         /\ WF_vars(UpNext(g))
         /\ WF_vars(VlessRead(g))
    /\ \A p \in Posts : WF_vars(PostPoll(p) \/ PostLookup(p))

FairSpec == Spec /\ Fairness

-----------------------------------------------------------------------------
(* Properties.                                                             *)

\* Every variable keeps to its type; in particular a POST makes at most
\* MaxPolls lookups and neither direction of the duplex exceeds its capacity.
TypeOK ==
    /\ sessions \in [Paths -> Gets \cup {NoGet}]
    /\ gpc \in [Gets -> {"idle", "open", "stream", "ended", "joining", "closed"}]
    /\ upc \in [Gets -> {"off", "run", "done"}]
    /\ vless \in [Gets -> {"off", "run", "half", "done"}]
    /\ reset \in [Gets -> BOOLEAN]
    /\ chan \in [Gets -> Seq(Chunk)]
    /\ hand \in [Gets -> Seq(Chunk)]
    /\ up \in [Gets -> Seq(Chunk)]
    /\ down \in [Gets -> Seq(1..MaxDown)]
    /\ wrote \in [Gets -> 0..MaxDown]
    /\ eos \in [Gets -> {"none", "eof", "idle"}]
    /\ ppc \in [Posts -> {"idle", "poll", "lookup", "forward", "acked", "failed", "standalone"}]
    /\ polls \in [Posts -> 0..MaxPolls]
    /\ tx \in [Posts -> Gets \cup {NoGet}]
    /\ read \in [Posts -> 0..MaxChunks]
    /\ log \in [Gets -> Seq(Chunk)]
    /\ delivered \in [Gets -> Seq(Chunk)]
    /\ shown \in [Gets -> Seq(1..MaxDown)]
    /\ before \in [Posts -> SUBSET Posts]
    /\ \A g \in Gets : /\ Len(hand[g]) <= 1
                       /\ Len(up[g]) <= DuplexCap
                       /\ Len(down[g]) <= DuplexCap

\* No session leaks (h2.rs:29-43, 410, 480): an entry of SESSIONS always
\* belongs to a GET on that path that has not yet passed its own removal, on
\* every exit path of handle_xhttp_get.
SessionOwnerLive ==
    \A k \in Paths : sessions[k] # NoGet =>
        /\ PathOf[sessions[k]] = k
        /\ gpc[sessions[k]] \in {"open", "stream", "ended"}

\* A GET whose download is running can be found by the POSTs of its path
\* (h2.rs:229), unless another GET of the same path has the entry now, or has
\* removed it since: explicitly (h2.rs:480) or by a guard that ran late (38).
LiveGetReachable ==
    \A g \in Gets : gpc[g] \in {"open", "stream"} =>
        \/ sessions[PathOf[g]] = g
        \/ \E h \in Gets \ {g} : /\ PathOf[h] = PathOf[g]
                                 /\ sessions[PathOf[h]] = h \/ gpc[h] \in {"joining", "closed"}

\* What the VLESS handler of a GET has read (h2.rs:458-474) is, for every
\* POST, a gap-free and duplicate-free beginning of that POST's body, and only
\* of POSTs that were routed to this very GET.
UploadPrefix ==
    \A g \in Gets : \A i \in 1..Len(delivered[g]) :
        LET c == delivered[g][i]
        IN /\ tx[c.post] = g
           /\ \A j \in 1..(i-1) : delivered[g][j].post = c.post => delivered[g][j].n < c.n
           /\ c.n > 1 => \E j \in 1..(i-1) : delivered[g][j] = [post |-> c.post, n |-> c.n - 1]

\* A client that waits for the 200 of one POST before it sends the next
\* (h2.rs:497-514) has its POSTs delivered in that order.
SequentialPosts ==
    \A g \in Gets : \A i, j \in 1..Len(delivered[g]) :
        delivered[g][i].post \in before[delivered[g][j].post] => i < j

\* Everything the upload path of a GET holds, oldest first.
Stream(g) == delivered[g] \o up[g] \o hand[g] \o chan[g]

Holds(s, c) == \E i \in 1..Len(s) : s[i] = c

\* The handler has returned, or the GET's response could not even be started.
Broken(g) == vless[g] = "done" \/ (gpc[g] = "closed" /\ upc[g] = "off")

\* A 200 (h2.rs:507-514) says that the body was read, not that it will be used:
\* the result of tx.send is ignored (h2.rs:502).  Of an acknowledged body a
\* chunk that the session accepted is with the handler or still on its way to
\* it, and is lost only with the handler itself or with a GET that fails before
\* its response; no timer of the upstream task, no removal from the map and no
\* closing of the channel loses it.  A chunk is turned away, in silence, only
\* when the upstream task has already ended.
AckedNotLost ==
    \A p \in Posts : ppc[p] = "acked" => \A n \in 1..read[p] :
        LET c == [post |-> p, n |-> n]
            g == tx[p]
        IN \/ Holds(Stream(g), c)
           \/ Holds(log[g], c) /\ Broken(g)
           \/ ~Holds(log[g], c) /\ ~RxAlive(g)

\* The client sees a beginning of what the VLESS handler wrote, in order; and
\* when the response was ended because the handler finished (h2.rs:446, 454)
\* the client has seen all of it.
DownloadComplete ==
    \A g \in Gets : /\ shown[g] = [i \in 1..Len(shown[g]) |-> i]
                    /\ eos[g] = "eof" => Len(shown[g]) = wrote[g]

\* What a client may conclude from being told that all is well: from an end of
\* stream that it has seen everything, from a 200 that the body can only be
\* missing because the handler or the session's upload was over.
NoSilentLoss == AckedNotLost /\ DownloadComplete

\* The upload path of every GET - channel, upstream task, duplex - implements
\* an abstract pipe from the POST handlers to the VLESS handler.
Upload == INSTANCE Pipe WITH Chans <- Gets, Data <- Chunk, sent <- log, got <- delivered
UploadIsPipe == Upload!Spec

\* A GET whose client has gone is released: its downstream loop notices at
\* the next chunk or after 300 s (h2.rs:437-452), its upstream task ends
\* (h2.rs:462-470), and the task of the request returns.
ResetReleased == \A g \in Gets : reset[g] ~> gpc[g] = "closed"
=============================================================================
