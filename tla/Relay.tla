-------------------------------- MODULE Relay --------------------------------
(***************************************************************************)
(* The TCP relay of src/src/network/connection.rs: ProxyConnection::relay  *)
(* and the connection counter of ConnectionManager.                        *)
(*                                                                         *)
(* A relay joins two endpoints, "client" and "remote".  It consists of two *)
(* loops that run concurrently under try_join!: a flow <<c, s>> carries    *)
(* the bytes that endpoint s of connection c sends to the other endpoint.  *)
(* Each loop reads with a 300 s timeout, writes without one, and half-     *)
(* closes its sink when its source half-closes.                            *)
(* What the kernel holds (unread input, unread output) is part of the      *)
(* state; an endpoint can half-close, break, or stop sending at any time.  *)
(* Definitions named X_Something are X with a plausible mistake; they are  *)
(* not part of the specification.                                          *)
(***************************************************************************)
EXTENDS Naturals, Sequences, FiniteSets

CONSTANTS Conns,     \* connections
          MaxData,   \* bound: chunks an endpoint sends
          SockCap    \* chunks the sink's socket buffer holds

ASSUME RelayAssumption == /\ IsFiniteSet(Conns)
                          /\ MaxData \in Nat
                          /\ SockCap \in Nat \ {0}

Side == {"client", "remote"}
Flow == Conns \X Side

VARIABLES
    rpc,       \* where handle_connection is
    active,    \* active_connections
    task,      \* where each copy loop is
    srcOpen,   \* the source of the flow has not half-closed
    broken,    \* endpoint f[2] of connection f[1] is broken
    inq,       \* sent by the source, not yet read by the loop
    buf,       \* read, not yet written (cleared when written)
    outq,      \* written to the sink's socket, not yet read by the sink
    fin,       \* the loop has shut its sink down
    timedOut,  \* history: the loop ended on its idle timeout
    log,       \* history: all the source sent
    got        \* history: all the sink read

vars == <<rpc, active, task, srcOpen, broken, inq, buf, outq, fin, timedOut, log, got>>
envVars == <<srcOpen, broken, log, got>>

\* The same connection in the other direction; f's sink is the source of Rev(f).
Rev(f) == <<f[1], IF f[2] = "client" THEN "remote" ELSE "client">>

Init ==
    /\ rpc = [c \in Conns |-> "idle"]
    /\ active = 0
    /\ task = [f \in Flow |-> "read"]
    /\ srcOpen = [f \in Flow |-> TRUE]
    /\ broken = [f \in Flow |-> FALSE]
    /\ inq = [f \in Flow |-> <<>>]
    /\ buf = [f \in Flow |-> <<>>]
    /\ outq = [f \in Flow |-> <<>>]
    /\ fin = [f \in Flow |-> FALSE]
    /\ timedOut = [f \in Flow |-> FALSE]
    /\ log = [f \in Flow |-> <<>>]
    /\ got = [f \in Flow |-> <<>>]

-----------------------------------------------------------------------------
(* handle_connection and try_join!                                         *)

Start(c) ==
    /\ rpc[c] = "idle"
    /\ rpc' = [rpc EXCEPT ![c] = "run"]
    /\ active' = active + 1
    /\ UNCHANGED <<task, inq, buf, outq, fin, timedOut, envVars>>

\* try_join! returns when both loops have finished.
Join(c) ==
    /\ rpc[c] = "run"
    /\ \A s \in Side : task[<<c, s>>] = "done"
    /\ rpc' = [rpc EXCEPT ![c] = "ended"]
    /\ UNCHANGED <<active, task, inq, buf, outq, fin, timedOut, envVars>>

\* The counter is only decremented when the relay succeeded.
Finish_OnlyOnOk(c) ==
    /\ rpc[c] = "ended"
    /\ rpc' = [rpc EXCEPT ![c] = "closed"]
    /\ active' = IF \E s \in Side : task[<<c, s>>] = "err" THEN active ELSE active - 1
    /\ UNCHANGED <<task, inq, buf, outq, fin, timedOut, envVars>>

Finish(c) ==
    /\ rpc[c] = "ended"
    /\ rpc' = [rpc EXCEPT ![c] = "closed"]
    /\ active' = active - 1
    /\ UNCHANGED <<task, inq, buf, outq, fin, timedOut, envVars>>

-----------------------------------------------------------------------------
(* One copy loop.                                                          *)

Running(f, pc) == rpc[f[1]] = "run" /\ task[f] = pc

\* A loop that fails ends try_join! at once: the other loop, which runs in the
\* same task, is dropped where it stands.
Fail(f) ==
    /\ task' = [task EXCEPT ![f] = "err"]
    /\ rpc' = [rpc EXCEPT ![f[1]] = "ended"]

ReadData(f) ==
    /\ Running(f, "read")
    /\ ~broken[f]
    /\ inq[f] # <<>>
    /\ buf' = [buf EXCEPT ![f] = <<Head(inq[f])>>]
    /\ inq' = [inq EXCEPT ![f] = Tail(@)]
    /\ task' = [task EXCEPT ![f] = "write"]
    /\ UNCHANGED <<rpc, active, outq, fin, timedOut, envVars>>

\* End of file is taken to be a half-close even while data is unread.
ReadEof_Eager(f) ==
    /\ Running(f, "read")
    /\ ~broken[f]
    /\ ~srcOpen[f]
    /\ task' = [task EXCEPT ![f] = "shut"]
    /\ UNCHANGED <<rpc, active, inq, buf, outq, fin, timedOut, envVars>>

ReadEof(f) ==
    /\ Running(f, "read")
    /\ ~broken[f]
    /\ inq[f] = <<>>
    /\ ~srcOpen[f]
    /\ task' = [task EXCEPT ![f] = "shut"]
    /\ UNCHANGED <<rpc, active, inq, buf, outq, fin, timedOut, envVars>>

ReadErr(f) ==
    /\ Running(f, "read")
    /\ broken[f]
    /\ Fail(f)
    /\ UNCHANGED <<active, inq, buf, outq, fin, timedOut, envVars>>

\* 300 s in one read: the loop finishes and does not shut its sink down.
ReadTimeout(f) ==
    /\ Running(f, "read")
    /\ ~broken[f]
    /\ inq[f] = <<>>
    /\ srcOpen[f]
    /\ task' = [task EXCEPT ![f] = "done"]
    /\ timedOut' = [timedOut EXCEPT ![f] = TRUE]
    /\ UNCHANGED <<rpc, active, inq, buf, outq, fin, envVars>>

\* The buffer is not cleared after it was written.
WriteAll_NoClear(f) ==
    /\ Running(f, "write")
    /\ ~broken[Rev(f)]
    /\ Len(outq[f]) < SockCap
    /\ outq' = [outq EXCEPT ![f] = @ \o buf[f]]
    /\ task' = [task EXCEPT ![f] = IF inq[f] = <<>> THEN "read" ELSE "write"]
    /\ UNCHANGED <<rpc, active, inq, buf, fin, timedOut, envVars>>

WriteAll(f) ==
    /\ Running(f, "write")
    /\ ~broken[Rev(f)]
    /\ Len(outq[f]) < SockCap
    /\ outq' = [outq EXCEPT ![f] = @ \o buf[f]]
    /\ buf' = [buf EXCEPT ![f] = <<>>]
    /\ task' = [task EXCEPT ![f] = "read"]
    /\ UNCHANGED <<rpc, active, inq, fin, timedOut, envVars>>

WriteErr(f) ==
    /\ Running(f, "write")
    /\ broken[Rev(f)]
    /\ Fail(f)
    /\ UNCHANGED <<active, inq, buf, outq, fin, timedOut, envVars>>

\* Shutting down a broken sink may or may not be reported as an error.
Shutdown(f) ==
    /\ Running(f, "shut")
    /\ fin' = [fin EXCEPT ![f] = ~broken[Rev(f)]]
    /\ task' = [task EXCEPT ![f] = "done"]
    /\ UNCHANGED <<rpc, active, inq, buf, outq, timedOut, envVars>>

ShutdownErr(f) ==
    /\ Running(f, "shut")
    /\ broken[Rev(f)]
    /\ Fail(f)
    /\ UNCHANGED <<active, inq, buf, outq, fin, timedOut, envVars>>

-----------------------------------------------------------------------------
(* The endpoints.                                                          *)

Send(f) ==
    /\ srcOpen[f] /\ ~broken[f]
    /\ Len(log[f]) < MaxData
    /\ log' = [log EXCEPT ![f] = Append(@, Len(log[f]) + 1)]
    /\ inq' = [inq EXCEPT ![f] = Append(@, Len(log[f]) + 1)]
    /\ UNCHANGED <<rpc, active, task, srcOpen, broken, buf, outq, fin, timedOut, got>>

HalfClose(f) ==
    /\ srcOpen[f] /\ ~broken[f]
    /\ srcOpen' = [srcOpen EXCEPT ![f] = FALSE]
    /\ UNCHANGED <<rpc, active, task, broken, inq, buf, outq, fin, timedOut, log, got>>

Break(f) ==
    /\ ~broken[f]
    /\ broken' = [broken EXCEPT ![f] = TRUE]
    /\ UNCHANGED <<rpc, active, task, srcOpen, inq, buf, outq, fin, timedOut, log, got>>

Recv(f) ==
    /\ ~broken[Rev(f)]
    /\ outq[f] # <<>>
    /\ got' = [got EXCEPT ![f] = Append(@, Head(outq[f]))]
    /\ outq' = [outq EXCEPT ![f] = Tail(@)]
    /\ UNCHANGED <<rpc, active, task, srcOpen, broken, inq, buf, fin, timedOut, log>>

LoopNext(f) == ReadData(f) \/ ReadEof(f) \/ ReadErr(f) \/ ReadTimeout(f)
               \/ WriteAll(f) \/ WriteErr(f) \/ Shutdown(f) \/ ShutdownErr(f)
EnvNext(f) == Send(f) \/ HalfClose(f) \/ Break(f) \/ Recv(f)

Next == \/ \E c \in Conns : Start(c) \/ Join(c) \/ Finish(c)
        \/ \E f \in Flow : LoopNext(f) \/ EnvNext(f)

Spec == Init /\ [][Next]_vars

\* The relay's own steps and timers happen; the sink is assumed to read what
\* the kernel holds for it, since write_all has no timeout of its own.
Fairness == /\ \A c \in Conns : WF_vars(Join(c)) /\ WF_vars(Finish(c))
            /\ \A f \in Flow : WF_vars(LoopNext(f)) /\ WF_vars(Recv(f))

FairSpec == Spec /\ Fairness

-----------------------------------------------------------------------------
\* Every variable keeps to its type; a loop holds at most one buffer, and
\* exactly while it is writing it or after it failed to.
TypeOK ==
    /\ rpc \in [Conns -> {"idle", "run", "ended", "closed"}]
    /\ active \in Nat
    /\ task \in [Flow -> {"read", "write", "shut", "done", "err"}]
    /\ srcOpen \in [Flow -> BOOLEAN]
    /\ broken \in [Flow -> BOOLEAN]
    /\ inq \in [Flow -> Seq(1..MaxData)]
    /\ buf \in [Flow -> Seq(1..MaxData)]
    /\ outq \in [Flow -> Seq(1..MaxData)]
    /\ fin \in [Flow -> BOOLEAN]
    /\ timedOut \in [Flow -> BOOLEAN]
    /\ log \in [Flow -> Seq(1..MaxData)]
    /\ got \in [Flow -> Seq(1..MaxData)]
    /\ \A f \in Flow : task[f] \notin {"write", "err"} => buf[f] = <<>>

\* active_count (connection.rs:155) is the number of relays between the
\* increment and the decrement of handle_connection, whatever way they end.
CounterExact == active = Cardinality({c \in Conns : rpc[c] \in {"run", "ended"}})

\* Nothing is lost, repeated or reordered inside the relay: what an endpoint
\* sent is at every moment what the other endpoint has read, followed by what
\* the sink's socket, the loop's buffer and the source's socket hold.
Conserved == \A f \in Flow : log[f] = got[f] \o outq[f] \o buf[f] \o inq[f]

\* An end of file that the relay signals itself (connection.rs:82, 104) is
\* honest: all the source ever sent has been written to the sink before it.
FinMeansComplete == \A f \in Flow : fin[f] => log[f] = got[f] \o outq[f]

\* Data is left behind only by an idle timeout or by a broken endpoint: a
\* half-closed direction does not cut off the other one (connection.rs:124).
LossOnlyOnTimeoutOrError ==
    \A c \in Conns :
        (/\ rpc[c] \in {"ended", "closed"}
         /\ \A s \in Side : ~timedOut[<<c, s>>] /\ ~broken[<<c, s>>])
        => \A s \in Side : log[<<c, s>>] = got[<<c, s>>] \o outq[<<c, s>>]

\* The relay ends honestly: neither the end of file it passes on nor its own
\* end hides data that was sent, unless a timer fired or an endpoint broke.
EndsHonestly == FinMeansComplete /\ LossOnlyOnTimeoutOrError

\* Each flow of the relay implements an abstract pipe.
RelayPipe == INSTANCE Pipe WITH Chans <- Flow, Data <- 1..MaxData, sent <- log, got <- got
RelayIsPipe == RelayPipe!Spec

\* A relay does not run forever once its endpoints fall silent (the 300 s
\* timeouts of connection.rs:80, 102), and on whichever path it ends it has
\* then been taken off the counter (connection.rs:176-187).
RelayEnds == \A c \in Conns : rpc[c] = "run" ~> rpc[c] = "closed" /\ CounterExact
=============================================================================
