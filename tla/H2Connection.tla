---------------------------- MODULE H2Connection ----------------------------
(***************************************************************************)
(* H2Handler::handle (src/src/transport/xhttp/h2.rs): one HTTP/2           *)
(* connection, its accept loop, the tasks it spawns, one for each request, *)
(* the counter of active streams and the watchdog that closes an idle      *)
(* connection.  What a request does once it has been dispatched is the     *)
(* subject of XhttpSession and Standalone.                                 *)
(*                                                                         *)
(* Definitions named X_Something are X with a plausible mistake.           *)
(***************************************************************************)
EXTENDS Naturals, FiniteSets

CONSTANT Requests   \* the requests that the client may send

VARIABLES
    hpc,            \* where handle is
    isIdle,         \* is_idle, as loaded at the top of the loop
    activeStreams,  \* active_streams
    st,             \* each request
    peer,           \* the client's end of the TCP connection
    ping            \* the spawned PING task

h2Vars == <<hpc, isIdle, activeStreams, st, peer, ping>>

RunningRequests == {r \in Requests : st[r] = "run"}

H2Init ==
    /\ hpc = "handshake"
    /\ isIdle = FALSE
    /\ activeStreams = 0
    /\ st = [r \in Requests |-> "none"]
    /\ peer = "open"
    /\ ping = "off"

\* builder.handshake, and the PING task.
Handshake ==
    /\ hpc = "handshake"
    /\ peer = "open"
    /\ hpc' = "load"
    /\ ping' = "run"
    /\ UNCHANGED <<isIdle, activeStreams, st, peer>>

\* It fails, or takes more than 20 seconds.
HandshakeFail ==
    /\ hpc = "handshake"
    /\ hpc' = "closed"
    /\ UNCHANGED <<isIdle, activeStreams, st, peer, ping>>

Load ==
    /\ hpc = "load"
    /\ isIdle' = (activeStreams = 0)
    /\ hpc' = "select"
    /\ UNCHANGED <<activeStreams, st, peer, ping>>

\* accept yields a request: count it, spawn its task, loop.
AcceptRequest(r) ==
    /\ hpc = "select"
    /\ st[r] = "queued"
    /\ activeStreams' = activeStreams + 1
    /\ st' = [st EXCEPT ![r] = "run"]
    /\ hpc' = "load"
    /\ UNCHANGED <<isIdle, peer, ping>>

\* An error is ignored and accept called again.
AcceptEnd_Ignored ==
    /\ hpc = "select"
    /\ peer = "gone"
    /\ hpc' = "load"
    /\ UNCHANGED <<isIdle, activeStreams, st, peer, ping>>

\* accept yields an error or the end of the connection.
AcceptEnd ==
    /\ hpc = "select"
    /\ peer = "gone"
    /\ hpc' = "closed"
    /\ UNCHANGED <<isIdle, activeStreams, st, peer, ping>>

\* 300 seconds without a request since is_idle was loaded.  (When a request
\* has arrived at that very moment, select! may choose either.)
Watchdog ==
    /\ hpc = "select"
    /\ isIdle
    /\ hpc' = "closed"
    /\ UNCHANGED <<isIdle, activeStreams, st, peer, ping>>

\* A request that fails is not subtracted.
RequestEnd_OnlyOk(r) ==
    /\ st[r] = "run"
    /\ \E ok \in BOOLEAN : activeStreams' = IF ok THEN activeStreams - 1 ELSE activeStreams
    /\ st' = [st EXCEPT ![r] = "done"]
    /\ UNCHANGED <<hpc, isIdle, peer, ping>>

\* handle_request returns, Ok or Err, whether or not the connection is still
\* there, and the counter is decremented.
RequestEnd(r) ==
    /\ st[r] = "run"
    /\ activeStreams' = activeStreams - 1
    /\ st' = [st EXCEPT ![r] = "done"]
    /\ UNCHANGED <<hpc, isIdle, peer, ping>>

\* send_ping fails: at the latest when the connection is gone.
PingEnd ==
    /\ ping = "run"
    /\ ping' = "over"
    /\ UNCHANGED <<hpc, isIdle, activeStreams, st, peer>>

Arrive(r) ==
    /\ hpc \in {"load", "select"} /\ peer = "open"
    /\ st[r] = "none"
    /\ st' = [st EXCEPT ![r] = "queued"]
    /\ UNCHANGED <<hpc, isIdle, activeStreams, peer, ping>>

PeerGone ==
    /\ peer = "open"
    /\ peer' = "gone"
    /\ UNCHANGED <<hpc, isIdle, activeStreams, st, ping>>

H2LoopNext == Handshake \/ HandshakeFail \/ Load \/ (\E r \in Requests : AcceptRequest(r)) \/ AcceptEnd \/ Watchdog

H2Next == \/ H2LoopNext \/ PingEnd \/ PeerGone
        \/ \E r \in Requests : RequestEnd(r) \/ Arrive(r)

H2Spec == H2Init /\ [][H2Next]_h2Vars

\* The loop is scheduled, its timers fire, and PING fails on a closed
\* connection.  Nothing is assumed of the client or of the requests.
H2FairSpec == /\ H2Spec
            /\ WF_h2Vars(Handshake \/ HandshakeFail \/ Load) /\ WF_h2Vars(AcceptEnd) /\ WF_h2Vars(Watchdog)
            /\ WF_h2Vars(\E r \in Requests : AcceptRequest(r))
            /\ WF_h2Vars(hpc = "closed" /\ PingEnd)

-----------------------------------------------------------------------------
\* Every variable keeps to its type; the counter does not pass below zero.
H2TypeOK ==
    /\ hpc \in {"handshake", "load", "select", "closed"}
    /\ isIdle \in BOOLEAN
    /\ activeStreams \in Nat
    /\ st \in [Requests -> {"none", "queued", "run", "done"}]
    /\ peer \in {"open", "gone"}
    /\ ping \in {"off", "run", "over"}

\* active_streams counts the request tasks that are running, also after the
\* connection is closed under them.
ActiveExact == activeStreams = Cardinality(RunningRequests)

\* is_idle (h2.rs:157) says exactly whether a request task is running when it
\* is taken, however many tasks ended or outlived a failure before; and though
\* stale when select! acts on it, it is never so in the direction that would
\* close a connection in use: the watchdog closes one without running requests.
WatchdogSpares ==
    [][/\ hpc = "load" /\ hpc' = "select" => isIdle' = (RunningRequests = {})
       /\ hpc = "select" /\ hpc' = "closed" /\ peer = "open" => RunningRequests = {}]_h2Vars

\* When the client is gone, handle returns, and the PING task follows.
ClosesAfterPeer == peer = "gone" ~> hpc = "closed" /\ ping # "run"
=============================================================================
