------------------------------ MODULE Listener ------------------------------
(***************************************************************************)
(* The accept loops of src/src/server.rs.  Server::run spawns one task per *)
(* inbound; run_inbound opens the listening socket and then, for ever,     *)
(* takes a permit of the inbound's semaphore, accepts a connection and     *)
(* hands the permit to the task that serves it, which drops it when        *)
(* handle_client returns.  The inbounds share the file descriptors of the  *)
(* process: a connection uses one for its client and, once it has dialled, *)
(* one for its destination.  With XHTTP every request of a connection gets *)
(* a task, which may serve a session of its own that dials a destination,  *)
(* and which the end of the connection does not end.                       *)
(*                                                                         *)
(* Definitions named X_Something are X with a plausible mistake.           *)
(***************************************************************************)
EXTENDS Naturals, Sequences, FiniteSets

CONSTANTS Inbounds,
          Clients,         \* connections that clients may make
          InboundOf,       \* the inbound a client connects to
          MaxConnections,  \* MAX_CONNECTIONS: 10000 for each inbound
          Backlog,         \* listen(1024)
          FdLimit,         \* descriptors the process has for connections
          Xhttp,           \* inbounds with xhttpSettings
          MaxSessions,     \* bound: sessions that one connection started
          Held             \* clients whose connection may last for ever

ASSUME ListenerAssumption ==
    /\ InboundOf \in [Clients -> Inbounds]
    /\ {MaxConnections, Backlog, FdLimit} \subseteq Nat \ {0}
    /\ MaxSessions \in Nat
    /\ Xhttp \subseteq Inbounds
    /\ Held \subseteq Clients

VARIABLES
    loop,      \* where the task of each inbound is
    permits,   \* available permits of each inbound's semaphore
    backlog,   \* connections the kernel has completed and nobody accepted
    conn,      \* each client's connection
    sessions,  \* number of session tasks that its requests have running
    dials      \* how many of these have dialled their destination

sessionVars == <<sessions, dials>>
listenerVars == <<loop, permits, backlog, conn, sessionVars>>

Serving == {"run", "dialled"}
ServedBy(i) == {c \in Clients : InboundOf[c] = i /\ conn[c] \in Serving}

\* Iterations of the loop that hold a permit of their own.
Holding(i) == IF loop[i] \in {"accept", "sleep"} THEN 1 ELSE 0

FdsUsed == Cardinality({c \in Clients : conn[c] \in Serving})
           + Cardinality({c \in Clients : conn[c] = "dialled"})
           + Cardinality({x \in Clients \X (1..MaxSessions) : x[2] <= dials[x[1]]})

ListenerInit ==
    /\ loop = [i \in Inbounds |-> "setup"]
    /\ permits = [i \in Inbounds |-> MaxConnections]
    /\ backlog = [i \in Inbounds |-> <<>>]
    /\ conn = [c \in Clients |-> "out"]
    /\ sessions = [c \in Clients |-> 0] /\ dials = [c \in Clients |-> 0]

\* Address, socket, bind, listen, Reality and XHTTP servers: an error in any
\* of them ends this inbound's task and no other.
Setup(i) ==
    /\ loop[i] = "setup"
    /\ \E next \in {"permit", "failed"} : loop' = [loop EXCEPT ![i] = next]
    /\ UNCHANGED <<permits, backlog, conn, sessionVars>>

Connect(c) ==
    LET i == InboundOf[c] IN
    /\ conn[c] = "out"
    /\ loop[i] \notin {"setup", "failed"}
    /\ Len(backlog[i]) < Backlog
    /\ backlog' = [backlog EXCEPT ![i] = Append(@, c)]
    /\ conn' = [conn EXCEPT ![c] = "queued"]
    /\ UNCHANGED <<loop, permits, sessionVars>>

\* acquire_owned.  (Nothing closes the semaphore.)
Acquire(i) ==
    /\ loop[i] = "permit"
    /\ permits[i] > 0
    /\ permits' = [permits EXCEPT ![i] = @ - 1]
    /\ loop' = [loop EXCEPT ![i] = "accept"]
    /\ UNCHANGED <<backlog, conn, sessionVars>>

\* The permit moves into the spawned task.
Accept(i) ==
    /\ loop[i] = "accept"
    /\ backlog[i] # <<>>
    /\ FdsUsed < FdLimit
    /\ conn' = [conn EXCEPT ![Head(backlog[i])] = "run"]
    /\ backlog' = [backlog EXCEPT ![i] = Tail(@)]
    /\ loop' = [loop EXCEPT ![i] = "permit"]
    /\ UNCHANGED <<permits, sessionVars>>

\* The error ends the loop.
AcceptErr_Returns(i) ==
    /\ loop[i] = "accept"
    /\ backlog[i] # <<>>
    /\ conn' = [conn EXCEPT ![Head(backlog[i])] = "gone"]
    /\ backlog' = [backlog EXCEPT ![i] = Tail(@)]
    /\ loop' = [loop EXCEPT ![i] = "failed"]
    /\ permits' = [permits EXCEPT ![i] = @ + 1]
    /\ UNCHANGED sessionVars

\* The client had already gone: the error is logged, the permit dropped.
AcceptErr(i) ==
    /\ loop[i] = "accept"
    /\ backlog[i] # <<>>
    /\ conn' = [conn EXCEPT ![Head(backlog[i])] = "gone"]
    /\ backlog' = [backlog EXCEPT ![i] = Tail(@)]
    /\ loop' = [loop EXCEPT ![i] = "permit"]
    /\ permits' = [permits EXCEPT ![i] = @ + 1]
    /\ UNCHANGED sessionVars

\* EMFILE: the kernel reserves the descriptor before it looks for a client.
AcceptEmfile(i) ==
    /\ loop[i] = "accept"
    /\ FdsUsed >= FdLimit
    /\ loop' = [loop EXCEPT ![i] = "sleep"]
    /\ UNCHANGED <<permits, backlog, conn, sessionVars>>

\* The permit is not given back.
Wake_KeepsPermit(i) ==
    /\ loop[i] = "sleep"
    /\ loop' = [loop EXCEPT ![i] = "permit"]
    /\ UNCHANGED <<permits, backlog, conn, sessionVars>>

\* continue: the permit of this iteration is dropped.
Wake(i) ==
    /\ loop[i] = "sleep"
    /\ loop' = [loop EXCEPT ![i] = "permit"]
    /\ permits' = [permits EXCEPT ![i] = @ + 1]
    /\ UNCHANGED <<backlog, conn, sessionVars>>

\* handle_client itself connects: to the fallback, or without XHTTP to the
\* destination.
Dial(c) ==
    /\ conn[c] = "run" /\ sessions[c] = 0
    /\ FdsUsed < FdLimit
    /\ conn' = [conn EXCEPT ![c] = "dialled"]
    /\ UNCHANGED <<loop, permits, backlog, sessionVars>>

\* A request of an XHTTP connection starts a session, in a task that has no
\* permit.
SessionStart(c) ==
    /\ conn[c] = "run" /\ InboundOf[c] \in Xhttp
    /\ sessions[c] < MaxSessions
    /\ sessions' = [sessions EXCEPT ![c] = @ + 1]
    /\ UNCHANGED <<loop, permits, backlog, conn, dials>>

\* It connects to its destination, the connection being open or not.
SessionDial(c) ==
    /\ dials[c] < sessions[c]
    /\ FdsUsed < FdLimit
    /\ dials' = [dials EXCEPT ![c] = @ + 1]
    /\ UNCHANGED <<loop, permits, backlog, conn, sessions>>

\* It ends, before or after it has dialled.
SessionEnd(c) ==
    /\ sessions[c] > 0
    /\ sessions' = [sessions EXCEPT ![c] = @ - 1]
    /\ \/ dials[c] < sessions[c] /\ UNCHANGED dials
       \/ dials[c] > 0 /\ dials' = [dials EXCEPT ![c] = @ - 1]
    /\ UNCHANGED <<loop, permits, backlog, conn>>

\* handle_client returns, Ok or Err (a failed dial included).  Sessions that
\* its requests started go on.
TaskEnd(c) ==
    /\ conn[c] \in Serving
    /\ conn' = [conn EXCEPT ![c] = "gone"]
    /\ permits' = [permits EXCEPT ![InboundOf[c]] = @ + 1]
    /\ UNCHANGED <<loop, backlog, sessionVars>>

SessionNext(c) == SessionStart(c) \/ SessionDial(c) \/ SessionEnd(c)

AcceptNext(i) == Setup(i) \/ Acquire(i) \/ Accept(i) \/ AcceptErr(i) \/ AcceptEmfile(i) \/ Wake(i)

ListenerNext == \/ \E i \in Inbounds : AcceptNext(i)
        \/ \E c \in Clients : Connect(c) \/ Dial(c) \/ TaskEnd(c) \/ SessionNext(c)

ListenerSpec == ListenerInit /\ [][ListenerNext]_listenerVars

\* The loops are scheduled and every connection ends, with its sessions,
\* except those of Held, which nothing in the code forces to (fallback has no
\* idle timeout).
ListenerFairSpec == ListenerSpec /\ \A i \in Inbounds : WF_listenerVars(AcceptNext(i))
                 /\ \A c \in Clients \ Held : WF_listenerVars(TaskEnd(c)) /\ WF_listenerVars(SessionEnd(c))

-----------------------------------------------------------------------------
SessionTypeOK ==
    /\ sessions \in [Clients -> 0..MaxSessions]
    /\ dials \in [Clients -> 0..MaxSessions]
    /\ \A c \in Clients : dials[c] <= sessions[c]

\* Every variable keeps to its type; no semaphore has more permits than it
\* was created with.
ListenerTypeOK ==
    /\ loop \in [Inbounds -> {"setup", "failed", "permit", "accept", "sleep"}]
    /\ permits \in [Inbounds -> 0..MaxConnections]
    /\ backlog \in [Inbounds -> Seq(Clients)]
    /\ conn \in [Clients -> {"out", "queued", "run", "dialled", "gone"}]
    /\ SessionTypeOK

\* On no path through the loop or a connection's task is a permit lost or
\* dropped twice: permits, the loop's own and the running connections always
\* add up, so an inbound serves at most MaxConnections and can again serve
\* that many when they are over.
PermitsConserved ==
    \A i \in Inbounds : permits[i] + Holding(i) + Cardinality(ServedBy(i)) = MaxConnections

\* Descriptors that a client's connection may take.
FdsOf(c) == IF InboundOf[c] \in Xhttp /\ MaxSessions > 0 THEN 1 + MaxSessions ELSE 2

\* Connections that last for ever take neither all permits of an inbound
\* nor all descriptors.
HeldLeavesRoom ==
    /\ \A i \in Inbounds : Cardinality({c \in Held : InboundOf[c] = i}) < MaxConnections
    /\ Cardinality({x \in Held \X (1..(2 + MaxSessions)) : x[2] <= FdsOf(x[1])}) < FdLimit

\* Neither an inbound that fails or is full, nor exhausted descriptors, nor
\* accept errors keep a client waiting for ever, as long as the connections
\* that do not end leave room.
Served == HeldLeavesRoom =>
            \A c \in Clients : conn[c] = "queued" ~> conn[c] # "queued"
=============================================================================
