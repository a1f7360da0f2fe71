----------------------------- MODULE LoopProofs ------------------------------
(* Proofs about the loops that serve connections and what they count: the  *)
(* copy loops of Relay, for any finite set of connections, any amount of   *)
(* data and any socket capacity; the permits of Listener's accept loop,    *)
(* for any number of inbounds and clients and every limit; and the active  *)
(* streams of H2Connection's, for any number of requests.                  *)
EXTENDS Relay, Listener, H2Connection, FiniteSetTheorems, TLAPS

-----------------------------------------------------------------------------
(* Relay: the counter, and every byte of every flow.                       *)

\* Taking the head of a queue and appending it to the one in front of it
\* does not change the concatenation of the two.
LEMMA MoveHead ==
    ASSUME NEW S, NEW s \in Seq(S), NEW t \in Seq(S), t # <<>>
    PROVE  Append(s, Head(t)) \o Tail(t) = s \o t
  OBVIOUS

\* A queue that gets its first chunk, and one that gets nothing.
LEMMA ConcatShort ==
    ASSUME NEW S, NEW s \in Seq(S), NEW e \in S
    PROVE  s \o <<e>> = Append(s, e) /\ s \o <<>> = s
  OBVIOUS

\* Appending to the last queue of a chain appends to the whole.
LEMMA AppendLast ==
    ASSUME NEW S, NEW s \in Seq(S), NEW t \in Seq(S), NEW e \in S
    PROVE  s \o Append(t, e) = Append(s \o t, e)
  OBVIOUS

\* Moving a whole queue to the one in front of it.
LEMMA MoveAll ==
    ASSUME NEW S, NEW s \in Seq(S), NEW t \in Seq(S), NEW u \in Seq(S),
           NEW tt, NEW uu, tt = t \o u, uu = <<>>
    PROVE  s \o tt \o uu = s \o t \o u
<1>1. s \o (t \o u) \o <<>> = s \o t \o u
  OBVIOUS
<1> QED
  BY <1>1

\* The chunk after the first Len(s) ones of the chain is the head of t.
LEMMA NextInChain ==
    ASSUME NEW S, NEW s \in Seq(S), NEW t \in Seq(S), NEW u \in Seq(S), NEW v \in Seq(S),
           t # <<>>
    PROVE  /\ Len(s) < Len(s \o t \o u \o v)
           /\ (s \o t \o u \o v)[Len(s) + 1] = Head(t)
  OBVIOUS

\* What makes FinMeansComplete and LossOnlyOnTimeoutOrError inductive: a loop
\* that got as far as shutting its sink down has seen its source's end of
\* file with nothing unread, and a relay ends only in the ways that
\* try_join! allows.
EofInv ==
    /\ \A f \in Flow :
        /\ (task[f] = "shut" \/ (task[f] = "done" /\ ~timedOut[f]))
              => inq[f] = <<>> /\ ~srcOpen[f]
        /\ fin[f] => task[f] = "done" /\ ~timedOut[f]
        /\ timedOut[f] => task[f] = "done"
        /\ task[f] = "err" => broken[f] \/ broken[Rev(f)]
    /\ \A c \in Conns :
        rpc[c] \in {"ended", "closed"} =>
            \/ \A s \in Side : task[<<c, s>>] = "done"
            \/ \E s \in Side : task[<<c, s>>] = "err"

DataInv == TypeOK /\ Conserved /\ EofInv

\* A flow is a connection and a side, and so is the opposite one.
LEMMA RevFlow ==
    ASSUME NEW f \in Flow
    PROVE  Rev(f) \in Flow /\ f[1] \in Conns /\ f[2] \in Side /\ f = <<f[1], f[2]>>
  BY DEF Flow, Side, Rev

\* The chain of queues of a flow, cut behind the socket of its sink and
\* behind the buffer of its loop, is made of sequences of chunks.
LEMMA ChainType ==
    ASSUME TypeOK, NEW f \in Flow
    PROVE  /\ log[f] \in Seq(1..MaxData) /\ got[f] \in Seq(1..MaxData)
           /\ outq[f] \in Seq(1..MaxData) /\ buf[f] \in Seq(1..MaxData)
           /\ inq[f] \in Seq(1..MaxData)
           /\ got[f] \o outq[f] \in Seq(1..MaxData)
           /\ got[f] \o outq[f] \o buf[f] \in Seq(1..MaxData)
  BY DEF TypeOK

\* Before the relay starts every queue is empty.
LEMMA InitData == Init => DataInv
<1> SUFFICES ASSUME Init PROVE DataInv
  OBVIOUS
<1>1. TypeOK
  BY DEF Init, TypeOK
<1>2. Conserved
  BY DEF Init, Conserved
<1>3. EofInv
  BY DEF Init, EofInv, Flow, Side
<1> QED
  BY <1>1, <1>2, <1>3 DEF DataInv

\* The loops and the endpoints change neither the counter nor, unless a loop
\* fails, the state of a relay; a failure keeps the relay in the counted set.
LEMMA FlowSteps ==
    ASSUME NEW f \in Flow, LoopNext(f) \/ EnvNext(f)
    PROVE  /\ active' = active
           /\ \/ rpc' = rpc
              \/ rpc[f[1]] = "run" /\ rpc' = [rpc EXCEPT ![f[1]] = "ended"]
  BY DEF LoopNext, EnvNext, ReadData, ReadEof, ReadErr, ReadTimeout, WriteAll, WriteErr,
         Shutdown, ShutdownErr, Fail, Running, Send, HalfClose, Break, Recv

RpcType == rpc \in [Conns -> {"idle", "run", "ended", "closed"}]
Busy == {c \in Conns : rpc[c] \in {"run", "ended"}}

\* active_connections counts the relays in progress, for any number of
\* concurrent connections and whatever way each of them ends.
THEOREM CounterIsExact == Spec => []CounterExact
<1> DEFINE CountInv == RpcType /\ active = Cardinality(Busy)
<1>1. Init => CountInv
  <2> SUFFICES ASSUME Init PROVE CountInv
    OBVIOUS
  <2>1. Busy = {} /\ RpcType /\ active = 0
    BY DEF Init, Busy, RpcType
  <2> QED
    BY <2>1, FS_EmptySet
<1>2. CountInv /\ [Next]_vars => CountInv'
  <2> SUFFICES ASSUME CountInv, [Next]_vars PROVE CountInv'
    OBVIOUS
  <2>0. IsFiniteSet(Busy) /\ Cardinality(Busy) \in Nat
    BY RelayAssumption, FS_Subset, FS_CardinalityType DEF Busy
  <2>1. ASSUME NEW c \in Conns, Start(c) PROVE CountInv'
    <3>1. Busy' = Busy \cup {c} /\ c \notin Busy /\ RpcType' /\ active' = active + 1
      BY <2>1 DEF Start, Busy, RpcType
    <3> QED
      BY <3>1, <2>0, FS_AddElement
  <2>2. ASSUME NEW c \in Conns, Join(c) PROVE CountInv'
    <3>1. Busy' = Busy /\ RpcType' /\ active' = active
      BY <2>2 DEF Join, Busy, RpcType
    <3> QED
      BY <3>1
  <2>3. ASSUME NEW c \in Conns, Finish(c) PROVE CountInv'
    <3>1. Busy' = Busy \ {c} /\ c \in Busy /\ RpcType' /\ active' = active - 1
      BY <2>3 DEF Finish, Busy, RpcType
    <3> QED
      BY <3>1, <2>0, FS_RemoveElement
  <2>4. ASSUME NEW f \in Flow, LoopNext(f) \/ EnvNext(f) PROVE CountInv'
    <3>1. Busy' = Busy /\ RpcType' /\ active' = active
      BY <2>4, FlowSteps, RevFlow DEF Busy, RpcType
    <3> QED
      BY <3>1
  <2>5. CASE UNCHANGED vars
    BY <2>5 DEF vars, Busy, RpcType
  <2> QED
    BY <2>1, <2>2, <2>3, <2>4, <2>5 DEF Next
<1>3. CountInv => CounterExact
  BY DEF Busy, CounterExact
<1> QED
  BY <1>1, <1>2, <1>3, PTL DEF Spec

\* The counter never goes below zero.
LEMMA CounterNat == CounterExact => active \in Nat
  BY RelayAssumption, FS_Subset, FS_CardinalityType DEF CounterExact

\* Every step keeps the types.
LEMMA TypeStep == ASSUME TypeOK, CounterExact', [Next]_vars PROVE TypeOK'
<1> USE RelayAssumption DEF TypeOK, envVars
<1>0. active' \in Nat
  BY CounterNat, RelayAssumption, FS_Subset, FS_CardinalityType DEF CounterExact
<1>1. ASSUME NEW c \in Conns, Start(c) \/ Join(c) \/ Finish(c) PROVE TypeOK'
  <2>1. /\ rpc' \in [Conns -> {"idle", "run", "ended", "closed"}]
        /\ UNCHANGED <<task, inq, buf, outq, fin, timedOut, envVars>>
    BY <1>1 DEF Start, Join, Finish
  <2> QED
    BY <1>0, <2>1
<1>2. ASSUME NEW f \in Flow, ReadData(f) PROVE TypeOK'
  <2>1. <<Head(inq[f])>> \in Seq(1..MaxData) /\ Tail(inq[f]) \in Seq(1..MaxData)
    BY <1>2 DEF ReadData
  <2> QED
    BY <1>2, <2>1 DEF ReadData, Running
<1>3. ASSUME NEW f \in Flow, ReadEof(f) \/ ReadTimeout(f) \/ Shutdown(f) PROVE TypeOK'
  <2>1. CASE ReadEof(f)
    BY <2>1 DEF ReadEof, Running
  <2>2. CASE ReadTimeout(f)
    BY <2>2 DEF ReadTimeout, Running
  <2>3. CASE Shutdown(f)
    BY <2>3 DEF Shutdown, Running
  <2> QED
    BY <1>3, <2>1, <2>2, <2>3
<1>4. ASSUME NEW f \in Flow, ReadErr(f) \/ WriteErr(f) \/ ShutdownErr(f) PROVE TypeOK'
  <2>1. /\ Fail(f)
        /\ UNCHANGED <<active, inq, buf, outq, fin, timedOut, envVars>>
    BY <1>4 DEF ReadErr, WriteErr, ShutdownErr
  <2>2. /\ task' \in [Flow -> {"read", "write", "shut", "done", "err"}]
        /\ rpc' \in [Conns -> {"idle", "run", "ended", "closed"}]
    BY <2>1, RevFlow DEF Fail
  <2>3. \A h \in Flow : task'[h] \notin {"write", "err"} => buf'[h] = <<>>
    BY <2>1 DEF Fail
  <2> QED
    BY <2>1, <2>2, <2>3
<1>5. ASSUME NEW f \in Flow, WriteAll(f) PROVE TypeOK'
  <2>1. outq[f] \o buf[f] \in Seq(1..MaxData)
    OBVIOUS
  <2> QED
    BY <1>5, <2>1 DEF WriteAll, Running
<1>6. ASSUME NEW f \in Flow, Send(f) PROVE TypeOK'
  <2>1. Len(log[f]) + 1 \in 1..MaxData
    BY <1>6 DEF Send
  <2>2. /\ Append(log[f], Len(log[f]) + 1) \in Seq(1..MaxData)
        /\ Append(inq[f], Len(log[f]) + 1) \in Seq(1..MaxData)
    BY <2>1
  <2> QED
    BY <1>6, <2>2 DEF Send
<1>7. ASSUME NEW f \in Flow, HalfClose(f) \/ Break(f) PROVE TypeOK'
  <2>1. CASE HalfClose(f)
    BY <2>1 DEF HalfClose
  <2>2. CASE Break(f)
    BY <2>2 DEF Break
  <2> QED
    BY <1>7, <2>1, <2>2
<1>8. ASSUME NEW f \in Flow, Recv(f) PROVE TypeOK'
  <2>1. /\ Append(got[f], Head(outq[f])) \in Seq(1..MaxData)
        /\ Tail(outq[f]) \in Seq(1..MaxData)
    BY <1>8 DEF Recv
  <2> QED
    BY <1>8, <2>1 DEF Recv
<1>9. CASE UNCHANGED vars
  BY <1>9 DEF vars
<1> QED
  BY <1>1, <1>2, <1>3, <1>4, <1>5, <1>6, <1>7, <1>8, <1>9 DEF Next, LoopNext, EnvNext

\* Every step keeps the chain of queues of every flow equal to what the
\* source sent.
LEMMA ConservedStep == ASSUME TypeOK, Conserved, [Next]_vars PROVE Conserved'
<1> DEFINE S == 1..MaxData
           Chain(f) == got[f] \o outq[f] \o buf[f] \o inq[f]
<1> SUFFICES ASSUME NEW f \in Flow PROVE log'[f] = Chain(f)'
  BY DEF Conserved
<1>0. log[f] = Chain(f)
  BY DEF Conserved
<1>1. CASE UNCHANGED <<log[f], got[f], outq[f], buf[f], inq[f]>>
  BY <1>0, <1>1
<1>2. CASE ReadData(f)
  <2>1. /\ inq[f] # <<>> /\ buf[f] = <<>>
        /\ log'[f] = log[f] /\ got'[f] = got[f] /\ outq'[f] = outq[f]
        /\ buf'[f] = <<Head(inq[f])>> /\ inq'[f] = Tail(inq[f])
    BY <1>2 DEF ReadData, Running, TypeOK, envVars
  <2> DEFINE s == got[f] \o outq[f]
  <2>2. s \in Seq(S) /\ inq[f] \in Seq(S) /\ Head(inq[f]) \in S
    <3>1. s \in Seq(S) /\ inq[f] \in Seq(S)
      BY ChainType
    <3> HIDE DEF s, S
    <3> QED
      BY <2>1, <3>1
  <2>3. s \o <<Head(inq[f])>> = Append(s, Head(inq[f])) /\ s \o <<>> = s
    <3> HIDE DEF s, S
    <3> QED
      BY <2>2, ConcatShort
  <2>4. /\ Chain(f)' = Append(s, Head(inq[f])) \o Tail(inq[f])
        /\ Chain(f) = s \o inq[f]
    BY <2>1, <2>3, Zenon
  <2> HIDE DEF s
  <2> QED
    BY <1>0, <2>1, <2>2, <2>4, MoveHead
<1>3. CASE WriteAll(f)
  <2>1. /\ log'[f] = log[f] /\ got'[f] = got[f] /\ outq'[f] = outq[f] \o buf[f]
        /\ buf'[f] = <<>> /\ inq'[f] = inq[f]
    BY <1>3 DEF WriteAll, TypeOK, envVars
  <2>2. got[f] \in Seq(S) /\ outq[f] \in Seq(S) /\ buf[f] \in Seq(S)
    BY ChainType
  <2>3. got[f] \o outq'[f] \o buf'[f] = got[f] \o outq[f] \o buf[f]
    <3> DEFINE g == got[f]  o == outq[f]  b == buf[f]  oo == outq'[f]  bb == buf'[f]
    <3>1. g \in Seq(S) /\ o \in Seq(S) /\ b \in Seq(S) /\ oo = o \o b /\ bb = <<>>
      BY <2>1, <2>2
    <3> HIDE DEF g, o, b, oo, bb, S
    <3>2. g \o oo \o bb = g \o o \o b
      BY <3>1, MoveAll, SMTT(30)
    <3> QED
      BY <3>2 DEF g, o, b, oo, bb
  <2> QED
    BY <1>0, <2>1, <2>3
<1>4. CASE Send(f)
  <2> DEFINE d == Len(log[f]) + 1
             s == got[f] \o outq[f] \o buf[f]
  <2>1. /\ log'[f] = Append(log[f], d) /\ inq'[f] = Append(inq[f], d)
        /\ got'[f] = got[f] /\ outq'[f] = outq[f] /\ buf'[f] = buf[f]
    BY <1>4 DEF Send, TypeOK
  <2>2. d \in S
    BY <1>4, ChainType, RelayAssumption DEF Send
  <2>3. s \in Seq(S) /\ inq[f] \in Seq(S)
    BY ChainType
  <2>4. Chain(f)' = s \o Append(inq[f], d)
    BY <2>1
  <2>5. log[f] = s \o inq[f]
    BY <1>0
  <2>6. s \o Append(inq[f], d) = Append(s \o inq[f], d)
    <3> DEFINE q == inq[f]
    <3>1. d \in S /\ s \in Seq(S) /\ q \in Seq(S)
      BY <2>2, <2>3
    <3> HIDE DEF d, s, q, S
    <3>2. s \o Append(q, d) = Append(s \o q, d)
      BY <3>1, AppendLast
    <3> QED
      BY <3>2 DEF q
  <2> QED
    BY <2>1, <2>4, <2>5, <2>6
<1>5. CASE Recv(f)
  <2>1. /\ outq[f] # <<>> /\ log'[f] = log[f] /\ buf'[f] = buf[f] /\ inq'[f] = inq[f]
        /\ got'[f] = Append(got[f], Head(outq[f])) /\ outq'[f] = Tail(outq[f])
    BY <1>5 DEF Recv, TypeOK
  <2>2. Append(got[f], Head(outq[f])) \o Tail(outq[f]) = got[f] \o outq[f]
    BY <2>1, ChainType, MoveHead
  <2> QED
    BY <1>0, <2>1, <2>2
<1>6. ASSUME NEW c \in Conns, Start(c) \/ Join(c) \/ Finish(c)
      PROVE  UNCHANGED <<log[f], got[f], outq[f], buf[f], inq[f]>>
  BY <1>6 DEF Start, Join, Finish, envVars
<1>7. ASSUME NEW h \in Flow, LoopNext(h) \/ EnvNext(h),
             ~(h = f /\ (ReadData(f) \/ WriteAll(f) \/ Send(f) \/ Recv(f)))
      PROVE  UNCHANGED <<log[f], got[f], outq[f], buf[f], inq[f]>>
  BY <1>7 DEF LoopNext, EnvNext, ReadData, ReadEof, ReadErr, ReadTimeout, WriteAll, WriteErr,
              Shutdown, ShutdownErr, Fail, Send, HalfClose, Break, Recv, envVars, TypeOK
<1>8. UNCHANGED vars => UNCHANGED <<log[f], got[f], outq[f], buf[f], inq[f]>>
  BY DEF vars
<1> QED
  BY <1>1, <1>2, <1>3, <1>4, <1>5, <1>6, <1>7, <1>8 DEF Next

\* Every step keeps the account of how loops and relays end.
LEMMA EofStep == ASSUME TypeOK, EofInv, [Next]_vars PROVE EofInv'
<1> DEFINE LoopOK(f) ==
             /\ (task[f] = "shut" \/ (task[f] = "done" /\ ~timedOut[f]))
                   => inq[f] = <<>> /\ ~srcOpen[f]
             /\ fin[f] => task[f] = "done" /\ ~timedOut[f]
             /\ timedOut[f] => task[f] = "done"
             /\ task[f] = "err" => broken[f] \/ broken[Rev(f)]
           RelayOK(c) ==
             rpc[c] \in {"ended", "closed"} =>
                 \/ \A s \in Side : task[<<c, s>>] = "done"
                 \/ \E s \in Side : task[<<c, s>>] = "err"
<1>0. ASSUME NEW f \in Flow PROVE Rev(f) \in Flow /\ f[1] \in Conns
  BY RevFlow
<1>1. ASSUME NEW f \in Flow PROVE LoopOK(f)'
  <2>0. LoopOK(f) /\ Rev(f) \in Flow
    BY <1>0 DEF EofInv
  <2>1. ASSUME NEW c \in Conns, Start(c) \/ Join(c) \/ Finish(c) PROVE LoopOK(f)'
    BY <2>0, <2>1 DEF Start, Join, Finish, envVars
  <2>2. ASSUME NEW h \in Flow, LoopNext(h) PROVE LoopOK(f)'
    <3>1. CASE ReadData(h)
      BY <2>0, <3>1 DEF ReadData, Running, envVars, TypeOK
    <3>4. CASE ReadEof(h) \/ ReadTimeout(h)
      BY <2>0, <3>4 DEF ReadEof, ReadTimeout, Running, envVars, TypeOK
    <3>2. CASE WriteAll(h) \/ Shutdown(h)
      BY <2>0, <3>2 DEF WriteAll, Shutdown, Running, envVars, TypeOK
    <3>3. CASE ReadErr(h) \/ WriteErr(h) \/ ShutdownErr(h)
      BY <2>0, <3>3 DEF ReadErr, WriteErr, ShutdownErr, Fail, Running, envVars, TypeOK
    <3> QED
      BY <2>2, <3>1, <3>2, <3>3, <3>4 DEF LoopNext
  <2>3. ASSUME NEW h \in Flow, EnvNext(h) PROVE LoopOK(f)'
    BY <2>0, <2>3 DEF EnvNext, Send, HalfClose, Break, Recv, TypeOK
  <2>4. CASE UNCHANGED vars
    BY <2>0, <2>4 DEF vars
  <2> QED
    BY <2>1, <2>2, <2>3, <2>4 DEF Next
<1>2. ASSUME NEW c \in Conns PROVE RelayOK(c)'
  <2>0. RelayOK(c) /\ \A s \in Side : <<c, s>> \in Flow
    BY DEF EofInv, Flow
  <2>1. ASSUME NEW k \in Conns, Start(k) \/ Join(k) \/ Finish(k) PROVE RelayOK(c)'
    BY <2>0, <2>1 DEF Start, Join, Finish, TypeOK
  <2>2. ASSUME NEW h \in Flow, LoopNext(h) PROVE RelayOK(c)'
    <3>1. CASE UNCHANGED rpc
      <4>1. ASSUME NEW s \in Side, rpc[c] # "run" PROVE task'[<<c, s>>] = task[<<c, s>>]
        <5>1. rpc[h[1]] = "run" /\ \A x \in Flow : x # h => task'[x] = task[x]
          BY <2>2 DEF LoopNext, ReadData, ReadEof, ReadErr, ReadTimeout, WriteAll,
                      WriteErr, Shutdown, ShutdownErr, Fail, Running, TypeOK
        <5>2. <<c, s>> # h
          BY <4>1, <5>1
        <5> QED
          BY <2>0, <5>1, <5>2
      <4> QED
        BY <2>0, <3>1, <4>1
    <3>2. CASE Fail(h)
      <4>1. CASE h[1] = c
        <5>1. h[2] \in Side /\ h = <<c, h[2]>> /\ task'[h] = "err"
          BY <4>1, <3>2, RevFlow DEF Fail, TypeOK
        <5> QED
          BY <5>1
      <4>2. CASE h[1] # c
        <5>1. rpc'[c] = rpc[c] /\ \A s \in Side : <<c, s>> # h
          BY <4>2, <3>2 DEF Fail, TypeOK
        <5> QED
          BY <5>1, <3>2, <2>0 DEF Fail, TypeOK
      <4> QED
        BY <4>1, <4>2
    <3> QED
      BY <2>2, <3>1, <3>2 DEF LoopNext, ReadData, ReadEof, ReadErr, ReadTimeout, WriteAll,
                      WriteErr, Shutdown, ShutdownErr
  <2>3. ASSUME NEW h \in Flow, EnvNext(h) PROVE RelayOK(c)'
    BY <2>0, <2>3 DEF EnvNext, Send, HalfClose, Break, Recv
  <2>4. CASE UNCHANGED vars
    BY <2>0, <2>4 DEF vars
  <2> QED
    BY <2>1, <2>2, <2>3, <2>4 DEF Next
<1> QED
  BY <1>1, <1>2 DEF EofInv

\* The inductive invariant of the data path.
THEOREM DataInvariant == Spec => []DataInv
<1>1. DataInv /\ CounterExact' /\ [Next]_vars => DataInv'
  BY TypeStep, ConservedStep, EofStep DEF DataInv
<1> QED
  BY InitData, <1>1, CounterIsExact, PTL DEF Spec

\* Every variable of the relay keeps to its type; in particular the counter
\* never underflows.
THEOREM TypeCorrect == Spec => []TypeOK
<1>1. DataInv => TypeOK
  BY DEF DataInv
<1> QED
  BY <1>1, DataInvariant, PTL

\* No byte is lost, repeated or reordered inside a relay, however the two
\* loops, the endpoints and the timeouts interleave.
THEOREM NothingLost == Spec => []Conserved
<1>1. DataInv => Conserved
  BY DEF DataInv
<1> QED
  BY <1>1, DataInvariant, PTL

\* A chain whose last two queues are empty is what was sent.
LEMMA ChainEmpty ==
    ASSUME DataInv, NEW f \in Flow, inq[f] = <<>>, buf[f] = <<>>
    PROVE  log[f] = got[f] \o outq[f]
<1> DEFINE s == got[f] \o outq[f]  b == buf[f]  i == inq[f]
<1>1. s \in Seq(1..MaxData) /\ b = <<>> /\ i = <<>> /\ log[f] = s \o b \o i
  BY ChainType DEF DataInv, Conserved
<1> HIDE DEF s, b, i
<1>2. s \o b = s
  BY <1>1
<1> QED
  BY <1>1, <1>2 DEF s

\* The relay never signals a false end of file.
THEOREM FinIsHonest == Spec => []FinMeansComplete
<1>1. DataInv => FinMeansComplete
  <2> SUFFICES ASSUME DataInv, NEW f \in Flow, fin[f] PROVE log[f] = got[f] \o outq[f]
    BY DEF FinMeansComplete
  <2>1. inq[f] = <<>> /\ buf[f] = <<>>
    BY DEF DataInv, EofInv, TypeOK
  <2> QED
    BY <2>1, ChainEmpty
<1> QED
  BY <1>1, DataInvariant, PTL

\* Without a timeout and without a broken endpoint a relay that is over has
\* written everything, in both directions.
THEOREM LossIsExplained == Spec => []LossOnlyOnTimeoutOrError
<1>1. DataInv => LossOnlyOnTimeoutOrError
  <2> SUFFICES ASSUME DataInv, NEW c \in Conns, rpc[c] \in {"ended", "closed"},
                      \A s \in Side : ~timedOut[<<c, s>>] /\ ~broken[<<c, s>>],
                      NEW s \in Side
               PROVE  log[<<c, s>>] = got[<<c, s>>] \o outq[<<c, s>>]
    BY DEF LossOnlyOnTimeoutOrError
  <2>0. \A t \in Side : <<c, t>> \in Flow /\ Rev(<<c, t>>) \in {<<c, r>> : r \in Side}
    BY DEF Flow, Side, Rev
  <2>1. \A t \in Side : task[<<c, t>>] # "err"
    BY <2>0 DEF DataInv, EofInv
  <2>2. task[<<c, s>>] = "done"
    BY <2>1 DEF DataInv, EofInv
  <2>3. inq[<<c, s>>] = <<>> /\ buf[<<c, s>>] = <<>>
    BY <2>0, <2>2 DEF DataInv, EofInv, TypeOK
  <2> QED
    BY <2>0, <2>3, ChainEmpty
<1> QED
  BY <1>1, DataInvariant, PTL

\* A relay ends honestly (connection.rs:70-158): a FIN passed on means that
\* nothing is missing, and without a timeout or an error nothing is lost.
THEOREM RelayIsHonest == Spec => []EndsHonestly
  BY FinIsHonest, LossIsExplained, PTL DEF EndsHonestly

\* The relay implements one abstract pipe per direction: every step delivers
\* the next chunk of a flow, accepts one from its source, or stutters.
THEOREM RelayImplementsPipe == Spec => RelayIsPipe
<1>1. Init => RelayPipe!Init
  BY DEF Init, RelayPipe!Init
<1>2. DataInv /\ [Next]_vars => [RelayPipe!Next]_(RelayPipe!pipeVars)
  <2> SUFFICES ASSUME DataInv, [Next]_vars
               PROVE  RelayPipe!Next \/ UNCHANGED <<log, got>>
    BY DEF RelayPipe!pipeVars
  <2>1. ASSUME NEW f \in Flow, Send(f) PROVE RelayPipe!Next
    <3>1. Len(log[f]) + 1 \in 1..MaxData
      <4>1. Len(log[f]) \in Nat
        BY ChainType DEF DataInv
      <4>2. Len(log[f]) < MaxData
        BY <2>1 DEF Send
      <4> QED
        BY <4>1, <4>2, RelayAssumption
    <3>2. RelayPipe!Accept(f, Len(log[f]) + 1)
      BY <2>1 DEF Send, RelayPipe!Accept
    <3> QED
      BY <3>1, <3>2 DEF RelayPipe!Next
  <2>2. ASSUME NEW f \in Flow, Recv(f) PROVE RelayPipe!Next
    <3> DEFINE g == got[f]  o == outq[f]  b == buf[f]  i == inq[f]  l == log[f]
    <3>1. /\ g \in Seq(1..MaxData) /\ o \in Seq(1..MaxData) /\ b \in Seq(1..MaxData)
          /\ i \in Seq(1..MaxData) /\ l = g \o o \o b \o i /\ o # <<>>
      BY <2>2, ChainType DEF Recv, DataInv, Conserved
    <3>2. Len(g) < Len(l) /\ l[Len(g) + 1] = Head(o)
      <4> HIDE DEF g, o, b, i, l
      <4>1. /\ Len(g) < Len(g \o o \o b \o i)
            /\ (g \o o \o b \o i)[Len(g) + 1] = Head(o)
        BY <3>1, NextInChain, ZenonT(60)
      <4> QED
        BY <3>1, <4>1, Zenon
    <3>3. RelayPipe!Deliver(f)
      BY <2>2, <3>2 DEF Recv, RelayPipe!Deliver
    <3> QED
      BY <3>3 DEF RelayPipe!Next
  <2>3. ASSUME NEW c \in Conns, Start(c) \/ Join(c) \/ Finish(c) PROVE UNCHANGED <<log, got>>
    BY <2>3 DEF Start, Join, Finish, envVars
  <2>4. ASSUME NEW f \in Flow, LoopNext(f) \/ HalfClose(f) \/ Break(f)
        PROVE  UNCHANGED <<log, got>>
    BY <2>4 DEF LoopNext, ReadData, ReadEof, ReadErr, ReadTimeout, WriteAll, WriteErr,
                Shutdown, ShutdownErr, HalfClose, Break, envVars
  <2>5. CASE UNCHANGED vars
    BY <2>5 DEF vars
  <2> QED
    BY <2>1, <2>2, <2>3, <2>4, <2>5 DEF Next, EnvNext
<1> QED
  BY <1>1, <1>2, DataInvariant, PTL DEF Spec, RelayIsPipe, RelayPipe!Spec

-----------------------------------------------------------------------------
(* Listener and H2Connection: permits, and active streams.                 *)

\* The elements of a sequence are in its range.
LEMMA Elements ==
    ASSUME NEW S, NEW s \in Seq(S)
    PROVE  Len(s) \in Nat /\ \A k \in 1..Len(s) : s[k] \in S
  OBVIOUS

\* A queue that is not empty, and what is behind its head.
LEMMA HeadAndTail ==
    ASSUME NEW S, NEW s \in Seq(S), s # <<>>
    PROVE  /\ Len(s) \in Nat \ {0} /\ Head(s) = s[1] /\ Head(s) \in S
           /\ Tail(s) \in Seq(S) /\ Len(Tail(s)) = Len(s) - 1
           /\ \A k \in 1..Len(Tail(s)) : Tail(s)[k] = s[k + 1]
  OBVIOUS

\* A queue that one more joins.
LEMMA OneMoreWaits ==
    ASSUME NEW S, NEW s \in Seq(S), NEW e \in S
    PROVE  /\ Append(s, e) \in Seq(S) /\ Len(Append(s, e)) = Len(s) + 1
           /\ \A k \in 1..Len(s) : Append(s, e)[k] = s[k]
           /\ Append(s, e)[Len(s) + 1] = e
  OBVIOUS

\* What the accept loop relies on: everyone in a backlog is waiting, waits
\* for that inbound, and stands in it once.
QueueInv ==
    \A i \in Inbounds :
        /\ \A k \in 1..Len(backlog[i]) : /\ conn[backlog[i][k]] = "queued"
                                         /\ InboundOf[backlog[i][k]] = i
        /\ \A j, k \in 1..Len(backlog[i]) : backlog[i][j] = backlog[i][k] => j = k

PermitInv ==
    /\ ListenerTypeOK
    /\ QueueInv
    /\ \A i \in Inbounds : IsFiniteSet(ServedBy(i))
    /\ PermitsConserved

\* No connection is running when the server starts.
LEMMA InitPermit == ListenerInit => PermitInv
<1> SUFFICES ASSUME ListenerInit PROVE PermitInv
  OBVIOUS
<1>1. MaxConnections \in Nat
  BY ListenerAssumption
<1>2. ListenerTypeOK
  BY <1>1, ListenerAssumption DEF ListenerInit, ListenerTypeOK, SessionTypeOK
<1>3. QueueInv
  BY DEF ListenerInit, QueueInv
<1>4. ASSUME NEW i \in Inbounds
      PROVE  ServedBy(i) = {} /\ Holding(i) = 0 /\ permits[i] = MaxConnections
  BY DEF ListenerInit, ServedBy, Holding, Serving
<1> QED
  BY <1>1, <1>2, <1>3, <1>4, FS_EmptySet DEF PermitInv, PermitsConserved

\* A connection that starts adds one to the running ones of its inbound ...
LEMMA StartsRunning ==
    ASSUME PermitInv, NEW c \in Clients, conn[c] \notin Serving,
           NEW s \in Serving, conn' = [conn EXCEPT ![c] = s]
    PROVE  /\ \A i \in Inbounds \ {InboundOf[c]} : ServedBy(i)' = ServedBy(i)
           /\ IsFiniteSet(ServedBy(InboundOf[c])')
           /\ Cardinality(ServedBy(InboundOf[c])') = Cardinality(ServedBy(InboundOf[c])) + 1
<1> DEFINE i == InboundOf[c]
<1>0. i \in Inbounds /\ IsFiniteSet(ServedBy(i)) /\ conn \in [Clients -> {"out", "queued", "run", "dialled", "gone"}]
  BY ListenerAssumption DEF PermitInv, ListenerTypeOK
<1>1. ServedBy(i)' = ServedBy(i) \cup {c} /\ c \notin ServedBy(i)
  BY <1>0 DEF ServedBy
<1>2. \A j \in Inbounds \ {i} : ServedBy(j)' = ServedBy(j)
  BY <1>0 DEF ServedBy
<1> QED
  BY <1>0, <1>1, <1>2, FS_AddElement

\* ... and one that ends takes one away.
LEMMA StopsRunning ==
    ASSUME PermitInv, NEW c \in Clients, conn[c] \in Serving,
           conn' = [conn EXCEPT ![c] = "gone"]
    PROVE  /\ \A i \in Inbounds \ {InboundOf[c]} : ServedBy(i)' = ServedBy(i)
           /\ IsFiniteSet(ServedBy(InboundOf[c])')
           /\ Cardinality(ServedBy(InboundOf[c])') + 1 = Cardinality(ServedBy(InboundOf[c]))
<1> DEFINE i == InboundOf[c]
<1>0. i \in Inbounds /\ IsFiniteSet(ServedBy(i)) /\ conn \in [Clients -> {"out", "queued", "run", "dialled", "gone"}]
  BY ListenerAssumption DEF PermitInv, ListenerTypeOK
<1>1. ServedBy(i)' = ServedBy(i) \ {c} /\ c \in ServedBy(i)
  BY <1>0 DEF ServedBy, Serving
<1>2. \A j \in Inbounds \ {i} : ServedBy(j)' = ServedBy(j)
  BY <1>0 DEF ServedBy, Serving
<1>3. IsFiniteSet(ServedBy(i)') /\ Cardinality(ServedBy(i)') = Cardinality(ServedBy(i)) - 1
  BY <1>0, <1>1, FS_RemoveElement
<1>4. Cardinality(ServedBy(i)) \in Nat
  BY <1>0, FS_CardinalityType
<1> QED
  BY <1>2, <1>3, <1>4

\* A step that keeps who is running keeps the running sets.
LEMMA SameRunning ==
    ASSUME PermitInv, \A c \in Clients : conn'[c] \in Serving <=> conn[c] \in Serving
    PROVE  \A i \in Inbounds : ServedBy(i)' = ServedBy(i)
  BY DEF ServedBy

\* Taking the head of a backlog leaves the others where they were.
LEMMA PopQueue ==
    ASSUME PermitInv, NEW i \in Inbounds, backlog[i] # <<>>, NEW s,
           backlog' = [backlog EXCEPT ![i] = Tail(@)],
           conn' = [conn EXCEPT ![Head(backlog[i])] = s]
    PROVE  /\ Head(backlog[i]) \in Clients /\ InboundOf[Head(backlog[i])] = i
           /\ conn[Head(backlog[i])] = "queued"
           /\ backlog' \in [Inbounds -> Seq(Clients)]
           /\ QueueInv'
<1> DEFINE h == Head(backlog[i])
<1>0. backlog \in [Inbounds -> Seq(Clients)] /\ backlog[i] \in Seq(Clients)
      /\ conn \in [Clients -> {"out", "queued", "run", "dialled", "gone"}]
  BY DEF PermitInv, ListenerTypeOK
<1>1. Len(backlog[i]) \in Nat \ {0} /\ h = backlog[i][1] /\ h \in Clients
  BY <1>0, HeadAndTail
<1>2. InboundOf[h] = i /\ conn[h] = "queued"
  BY <1>1 DEF PermitInv, QueueInv
<1>3. /\ backlog'[i] = Tail(backlog[i]) /\ Tail(backlog[i]) \in Seq(Clients)
      /\ Len(Tail(backlog[i])) = Len(backlog[i]) - 1
      /\ \A k \in 1..Len(Tail(backlog[i])) : Tail(backlog[i])[k] = backlog[i][k + 1]
  BY <1>0, HeadAndTail
<1>4. backlog' \in [Inbounds -> Seq(Clients)]
  BY <1>0, <1>3
<1>5. ASSUME NEW j \in Inbounds
      PROVE  /\ \A k \in 1..Len(backlog'[j]) : conn'[backlog'[j][k]] = "queued" /\ InboundOf[backlog'[j][k]] = j
             /\ \A k, l \in 1..Len(backlog'[j]) : backlog'[j][k] = backlog'[j][l] => k = l
  <2>1. CASE j = i
    <3>1. ASSUME NEW k \in 1..Len(backlog'[i])
          PROVE  k + 1 \in 1..Len(backlog[i]) /\ backlog'[i][k] = backlog[i][k + 1] /\ k + 1 # 1
      <4>1. k \in 1..Len(Tail(backlog[i])) /\ backlog'[i][k] = Tail(backlog[i])[k]
        BY <1>3
      <4>2. k \in Nat \ {0} /\ k <= Len(backlog[i]) - 1
        BY <1>1, <1>3, <4>1
      <4> QED
        BY <1>1, <1>3, <4>1, <4>2
    <3>2. ASSUME NEW k \in 1..Len(backlog[i]), k # 1 PROVE backlog[i][k] # h /\ backlog[i][k] \in Clients
      BY <1>0, <1>1, <3>2, Elements DEF PermitInv, QueueInv
    <3>3. ASSUME NEW k \in 1..Len(backlog'[i])
          PROVE conn'[backlog'[i][k]] = "queued" /\ InboundOf[backlog'[i][k]] = i
      <4>1. conn[backlog[i][k + 1]] = "queued" /\ InboundOf[backlog[i][k + 1]] = i
        BY <3>1 DEF PermitInv, QueueInv
      <4> QED
        BY <1>0, <3>1, <3>2, <4>1
    <3>4. ASSUME NEW k \in 1..Len(backlog'[i]), NEW l \in 1..Len(backlog'[i]), backlog'[i][k] = backlog'[i][l]
          PROVE  k = l
      <4>1. k + 1 = l + 1
        BY <3>1, <3>4 DEF PermitInv, QueueInv
      <4> QED
        BY <1>3, <4>1
    <3> QED
      BY <2>1, <3>3, <3>4
  <2>2. CASE j # i
    <3>1. backlog'[j] = backlog[j]
      BY <1>0, <2>2
    <3>2. ASSUME NEW k \in 1..Len(backlog[j]) PROVE backlog[j][k] # h
      BY <1>2, <2>2 DEF PermitInv, QueueInv
    <3> QED
      BY <1>0, <3>1, <3>2 DEF PermitInv, QueueInv
  <2> QED
    BY <2>1, <2>2
<1> QED
  BY <1>1, <1>2, <1>4, <1>5 DEF QueueInv

\* The sessions of XHTTP connections and their dials keep to their types.
LEMMA SessionTypes == ASSUME SessionTypeOK, [ListenerNext]_listenerVars PROVE SessionTypeOK'
<1>0. MaxSessions \in Nat
  BY ListenerAssumption
<1>1. ASSUME NEW c \in Clients, SessionStart(c) PROVE SessionTypeOK'
  BY <1>0, <1>1 DEF SessionStart, SessionTypeOK
<1>2. ASSUME NEW c \in Clients, SessionDial(c) PROVE SessionTypeOK'
  BY <1>0, <1>2 DEF SessionDial, SessionTypeOK
<1>3. ASSUME NEW c \in Clients, SessionEnd(c) PROVE SessionTypeOK'
  BY <1>0, <1>3 DEF SessionEnd, SessionTypeOK
<1>4. CASE UNCHANGED sessionVars
  BY <1>4 DEF sessionVars, SessionTypeOK
<1>5. ASSUME NEW i \in Inbounds, AcceptNext(i) PROVE UNCHANGED sessionVars
  BY <1>5 DEF AcceptNext, Setup, Acquire, Accept, AcceptErr, AcceptEmfile, Wake
<1>6. ASSUME NEW c \in Clients, Connect(c) \/ Dial(c) \/ TaskEnd(c) PROVE UNCHANGED sessionVars
  BY <1>6 DEF Connect, Dial, TaskEnd
<1>7. CASE UNCHANGED listenerVars
  BY <1>4, <1>7 DEF listenerVars
<1> QED
  BY <1>1, <1>2, <1>3, <1>4, <1>5, <1>6, <1>7 DEF ListenerNext, SessionNext

\* Every step keeps the books of the semaphores.
LEMMA PermitStep == ASSUME PermitInv, [ListenerNext]_listenerVars PROVE PermitInv'
<1>0. /\ MaxConnections \in Nat /\ InboundOf \in [Clients -> Inbounds]
      /\ loop \in [Inbounds -> {"setup", "failed", "permit", "accept", "sleep"}]
      /\ permits \in [Inbounds -> 0..MaxConnections]
      /\ backlog \in [Inbounds -> Seq(Clients)]
      /\ conn \in [Clients -> {"out", "queued", "run", "dialled", "gone"}]
  BY ListenerAssumption DEF PermitInv, ListenerTypeOK
<1>e. SessionTypeOK'
  BY SessionTypes DEF PermitInv, ListenerTypeOK
<1>a. ASSUME NEW i \in Inbounds
      PROVE  /\ permits[i] + Holding(i) + Cardinality(ServedBy(i)) = MaxConnections
             /\ permits[i] \in Nat /\ Holding(i) \in {0, 1}
             /\ IsFiniteSet(ServedBy(i)) /\ Cardinality(ServedBy(i)) \in Nat
  BY <1>0, FS_CardinalityType DEF PermitInv, PermitsConserved, Holding
\* The books of one inbound change, those of the others do not.
<1>b. ASSUME NEW i \in Inbounds,
             loop' \in [Inbounds -> {"setup", "failed", "permit", "accept", "sleep"}],
             permits' \in [Inbounds -> Nat],
             backlog' \in [Inbounds -> Seq(Clients)],
             conn' \in [Clients -> {"out", "queued", "run", "dialled", "gone"}],
             QueueInv',
             \A j \in Inbounds \ {i} : loop'[j] = loop[j] /\ permits'[j] = permits[j] /\ ServedBy(j)' = ServedBy(j),
             IsFiniteSet(ServedBy(i)'),
             permits'[i] + Holding(i)' + Cardinality(ServedBy(i)') = MaxConnections
      PROVE  PermitInv'
  <2>1. ASSUME NEW j \in Inbounds
        PROVE  /\ permits'[j] + Holding(j)' + Cardinality(ServedBy(j)') = MaxConnections
               /\ IsFiniteSet(ServedBy(j)')
    <3>1. CASE j = i
      BY <1>b, <3>1
    <3>2. CASE j # i
      <4>1. Holding(j)' = Holding(j) /\ permits'[j] = permits[j] /\ ServedBy(j)' = ServedBy(j)
        BY <1>b, <3>2 DEF Holding
      <4> QED
        BY <1>a, <4>1
    <3> QED
      BY <3>1, <3>2
  <2>2. ASSUME NEW j \in Inbounds PROVE permits'[j] \in 0..MaxConnections
    <3>1. Holding(j)' \in {0, 1} /\ Cardinality(ServedBy(j)') \in Nat /\ permits'[j] \in Nat
      BY <1>b, <2>1, FS_CardinalityType DEF Holding
    <3> QED
      BY <1>0, <2>1, <3>1
  <2>3. ListenerTypeOK'
    BY <1>b, <1>e, <2>2 DEF ListenerTypeOK
  <2> QED
    BY <1>b, <2>1, <2>3 DEF PermitInv, PermitsConserved
<1>c. QueueInv /\ UNCHANGED <<backlog, conn>> => QueueInv'
  BY DEF QueueInv
<1>d. QueueInv
  BY DEF PermitInv
<1>1. ASSUME NEW i \in Inbounds, Setup(i) \/ Acquire(i) \/ AcceptEmfile(i) \/ Wake(i) PROVE PermitInv'
  <2>1. UNCHANGED <<backlog, conn>> /\ QueueInv' /\ \A j \in Inbounds : ServedBy(j)' = ServedBy(j)
    BY <1>1, <1>c, <1>d DEF Setup, Acquire, AcceptEmfile, Wake, ServedBy
  <2>2. /\ loop' \in [Inbounds -> {"setup", "failed", "permit", "accept", "sleep"}]
        /\ \A j \in Inbounds \ {i} : loop'[j] = loop[j]
    BY <1>0, <1>1 DEF Setup, Acquire, AcceptEmfile, Wake
  <2>3. /\ permits' \in [Inbounds -> Nat]
        /\ \A j \in Inbounds \ {i} : permits'[j] = permits[j]
    BY <1>0, <1>1 DEF Setup, Acquire, AcceptEmfile, Wake
  <2>4. permits'[i] + Holding(i)' = permits[i] + Holding(i)
    BY <1>0, <1>1 DEF Setup, Acquire, AcceptEmfile, Wake, Holding
  <2> QED
    BY <1>0, <1>a, <1>b, <2>1, <2>2, <2>3, <2>4
<1>2. ASSUME NEW i \in Inbounds, Accept(i) PROVE PermitInv'
  <2> DEFINE h == Head(backlog[i])
  <2>1. backlog[i] # <<>> /\ backlog' = [backlog EXCEPT ![i] = Tail(@)] /\ conn' = [conn EXCEPT ![h] = "run"]
    BY <1>2 DEF Accept
  <2>2. /\ h \in Clients /\ InboundOf[h] = i /\ conn[h] = "queued"
        /\ backlog' \in [Inbounds -> Seq(Clients)] /\ QueueInv'
    BY <2>1, PopQueue
  <2>3. "run" \in Serving /\ conn[h] \notin Serving
    BY <2>2 DEF Serving
  <2> HIDE DEF h
  <2>4. /\ \A j \in Inbounds \ {i} : ServedBy(j)' = ServedBy(j)
        /\ IsFiniteSet(ServedBy(i)')
        /\ Cardinality(ServedBy(i)') = Cardinality(ServedBy(i)) + 1
    BY <2>1, <2>2, <2>3, StartsRunning
  <2>5. /\ loop' \in [Inbounds -> {"setup", "failed", "permit", "accept", "sleep"}]
        /\ \A j \in Inbounds \ {i} : loop'[j] = loop[j]
        /\ permits' = permits /\ permits \in [Inbounds -> Nat] /\ Holding(i) = 1 /\ Holding(i)' = 0
    BY <1>0, <1>2 DEF Accept, Holding
  <2>6. conn' \in [Clients -> {"out", "queued", "run", "dialled", "gone"}]
    BY <1>0, <2>1
  <2>7. permits'[i] + Holding(i)' + Cardinality(ServedBy(i)') = MaxConnections
    BY <1>a, <2>4, <2>5
  <2> QED
    BY <1>b, <2>2, <2>4, <2>5, <2>6, <2>7
<1>3. ASSUME NEW i \in Inbounds, AcceptErr(i) PROVE PermitInv'
  <2> DEFINE h == Head(backlog[i])
  <2>1. backlog[i] # <<>> /\ backlog' = [backlog EXCEPT ![i] = Tail(@)] /\ conn' = [conn EXCEPT ![h] = "gone"]
    BY <1>3 DEF AcceptErr
  <2>2. /\ h \in Clients /\ InboundOf[h] = i /\ conn[h] = "queued"
        /\ backlog' \in [Inbounds -> Seq(Clients)] /\ QueueInv'
    BY <2>1, PopQueue
  <2> HIDE DEF h
  <2>3. \A c \in Clients : conn'[c] \in Serving <=> conn[c] \in Serving
    BY <1>0, <2>1, <2>2 DEF Serving
  <2>4. \A j \in Inbounds : ServedBy(j)' = ServedBy(j)
    BY <2>3, SameRunning
  <2>5. /\ loop' \in [Inbounds -> {"setup", "failed", "permit", "accept", "sleep"}]
        /\ \A j \in Inbounds \ {i} : loop'[j] = loop[j] /\ permits'[j] = permits[j]
        /\ permits' \in [Inbounds -> Nat] /\ permits'[i] = permits[i] + 1 /\ Holding(i) = 1 /\ Holding(i)' = 0
    BY <1>0, <1>3 DEF AcceptErr, Holding
  <2>6. conn' \in [Clients -> {"out", "queued", "run", "dialled", "gone"}]
    BY <1>0, <2>1
  <2>7. permits'[i] + Holding(i)' + Cardinality(ServedBy(i)') = MaxConnections
    BY <1>a, <2>4, <2>5
  <2> QED
    BY <1>a, <1>b, <2>2, <2>4, <2>5, <2>6, <2>7
<1>4. ASSUME NEW c \in Clients, Connect(c) PROVE PermitInv'
  <2> DEFINE i == InboundOf[c]
  <2>1. /\ i \in Inbounds /\ conn[c] = "out" /\ conn' = [conn EXCEPT ![c] = "queued"]
        /\ backlog' = [backlog EXCEPT ![i] = Append(@, c)] /\ UNCHANGED <<loop, permits>>
    BY <1>0, <1>4 DEF Connect
  <2>2. conn' \in [Clients -> {"out", "queued", "run", "dialled", "gone"}]
        /\ \A d \in Clients : conn'[d] \in Serving <=> conn[d] \in Serving
    BY <1>0, <2>1 DEF Serving
  <2>3. \A j \in Inbounds : ServedBy(j)' = ServedBy(j)
    BY <2>2, SameRunning
  <2> HIDE DEF i
  <2>4. /\ backlog[i] \in Seq(Clients) /\ Len(backlog[i]) \in Nat
        /\ Append(backlog[i], c) \in Seq(Clients) /\ Len(Append(backlog[i], c)) = Len(backlog[i]) + 1
        /\ \A k \in 1..Len(backlog[i]) : Append(backlog[i], c)[k] = backlog[i][k]
        /\ Append(backlog[i], c)[Len(backlog[i]) + 1] = c
    BY <1>0, <2>1, OneMoreWaits, Elements
  <2>5. backlog' \in [Inbounds -> Seq(Clients)] /\ backlog'[i] = Append(backlog[i], c)
        /\ \A j \in Inbounds \ {i} : backlog'[j] = backlog[j]
    BY <1>0, <2>1, <2>4
  <2>6. ASSUME NEW j \in Inbounds, NEW k \in 1..Len(backlog[j])
        PROVE  /\ backlog[j][k] # c /\ conn'[backlog[j][k]] = "queued" /\ InboundOf[backlog[j][k]] = j
               /\ \A l \in 1..Len(backlog[j]) : backlog[j][k] = backlog[j][l] => k = l
    <3>1. conn[backlog[j][k]] = "queued" /\ backlog[j][k] \in Clients
      <4>1. backlog[j] \in Seq(Clients)
        BY <1>0
      <4>2. backlog[j][k] \in Clients
        BY <4>1, Elements
      <4> QED
        BY <1>d, <4>2, Zenon DEF QueueInv
    <3> QED
      BY <1>0, <1>d, <2>1, <3>1, SMTT(30) DEF QueueInv
  <2>7. ASSUME NEW j \in Inbounds
        PROVE  /\ \A k \in 1..Len(backlog'[j]) : conn'[backlog'[j][k]] = "queued" /\ InboundOf[backlog'[j][k]] = j
               /\ \A k, l \in 1..Len(backlog'[j]) : backlog'[j][k] = backlog'[j][l] => k = l
    <3>1. CASE j = i
      <4>1. ASSUME NEW k \in 1..Len(backlog'[i])
            PROVE  \/ k \in 1..Len(backlog[i]) /\ backlog'[i][k] = backlog[i][k]
                   \/ k = Len(backlog[i]) + 1 /\ backlog'[i][k] = c
        BY <2>4, <2>5
      <4>2. conn'[c] = "queued" /\ InboundOf[c] = i
        BY <1>0, <2>1 DEF i
      <4>3. ASSUME NEW k \in 1..Len(backlog'[i])
            PROVE  conn'[backlog'[i][k]] = "queued" /\ InboundOf[backlog'[i][k]] = i
        BY <2>1, <2>6, <4>1, <4>2
      <4>4. ASSUME NEW k \in 1..Len(backlog'[i]), NEW l \in 1..Len(backlog'[i]), backlog'[i][k] = backlog'[i][l]
            PROVE  k = l
        BY <2>1, <2>6, <4>1, <4>4
      <4> QED
        BY <3>1, <4>3, <4>4
    <3>2. CASE j # i
      BY <2>5, <2>6, <3>2
    <3> QED
      BY <3>1, <3>2
  <2>8. QueueInv'
    BY <2>7 DEF QueueInv
  <2>9. permits'[i] + Holding(i)' + Cardinality(ServedBy(i)') = MaxConnections
    BY <1>a, <2>1, <2>3 DEF Holding
  <2>10. /\ loop' \in [Inbounds -> {"setup", "failed", "permit", "accept", "sleep"}]
         /\ permits' \in [Inbounds -> Nat] /\ IsFiniteSet(ServedBy(i)')
         /\ \A j \in Inbounds \ {i} : loop'[j] = loop[j] /\ permits'[j] = permits[j] /\ ServedBy(j)' = ServedBy(j)
    BY <1>0, <1>a, <2>1, <2>3
  <2>11. i \in Inbounds
    BY <2>1
  <2> QED
    BY <1>b, <2>2, <2>5, <2>8, <2>9, <2>10, <2>11
<1>5. ASSUME NEW c \in Clients, Dial(c) \/ TaskEnd(c) PROVE PermitInv'
  <2> DEFINE i == InboundOf[c]
  <2>1. PICK s \in {"dialled", "gone"} :
          conn' = [conn EXCEPT ![c] = s] /\ UNCHANGED <<loop, backlog>>
    BY <1>5 DEF Dial, TaskEnd
  <2>2. i \in Inbounds /\ conn[c] \in Serving
    BY <1>0, <1>5 DEF Dial, TaskEnd, Serving
  <2>3. conn' \in [Clients -> {"out", "queued", "run", "dialled", "gone"}]
    BY <1>0, <2>1
  <2>4. QueueInv'
    <3>1. ASSUME NEW j \in Inbounds, NEW k \in 1..Len(backlog[j])
          PROVE  conn'[backlog[j][k]] = "queued"
      <4>1. conn[backlog[j][k]] = "queued" /\ backlog[j][k] \in Clients
        <5>1. backlog[j] \in Seq(Clients)
          BY <1>0
        <5>2. backlog[j][k] \in Clients
          BY <5>1, Elements
        <5> QED
          BY <1>d, <5>2, Zenon DEF QueueInv
      <4>2. backlog[j][k] # c
        BY <2>2, <4>1 DEF Serving
      <4> QED
        BY <1>0, <2>1, <4>1, <4>2
    <3> QED
      BY <1>d, <2>1, <3>1 DEF QueueInv
  <2>5. CASE Dial(c)
    <3>1. permits' = permits /\ \A d \in Clients : conn'[d] \in Serving <=> conn[d] \in Serving
      BY <1>0, <2>2, <2>5 DEF Dial, Serving
    <3>2. \A j \in Inbounds : ServedBy(j)' = ServedBy(j)
      BY <3>1, SameRunning
    <3>3. permits'[i] + Holding(i)' + Cardinality(ServedBy(i)') = MaxConnections
      BY <1>a, <2>1, <2>2, <3>1, <3>2 DEF Holding
    <3>4. permits' \in [Inbounds -> Nat]
      BY <1>0, <3>1
    <3> QED
      BY <1>0, <1>a, <1>b, <2>1, <2>2, <2>3, <2>4, <3>1, <3>2, <3>3, <3>4
  <2>6. CASE TaskEnd(c)
    <3>1. conn' = [conn EXCEPT ![c] = "gone"] /\ permits' = [permits EXCEPT ![i] = @ + 1]
      BY <2>6 DEF TaskEnd
    <3>2. /\ \A j \in Inbounds \ {i} : ServedBy(j)' = ServedBy(j)
          /\ IsFiniteSet(ServedBy(i)')
          /\ Cardinality(ServedBy(i)') + 1 = Cardinality(ServedBy(i))
      BY <2>2, <3>1, StopsRunning
    <3>3. Cardinality(ServedBy(i)') \in Nat
      BY <3>2, FS_CardinalityType
    <3>4. permits' \in [Inbounds -> Nat] /\ permits'[i] = permits[i] + 1
          /\ \A j \in Inbounds \ {i} : permits'[j] = permits[j]
      BY <1>0, <2>2, <3>1
    <3>5. permits'[i] + Holding(i)' + Cardinality(ServedBy(i)') = MaxConnections
      <4>1. Holding(i)' = Holding(i)
        BY <2>1 DEF Holding
      <4>2. permits[i] + Holding(i) + Cardinality(ServedBy(i)) = MaxConnections
        BY <1>a, <2>2
      <4>3. permits[i] \in Nat /\ Holding(i) \in Nat
        BY <1>0, <2>2 DEF Holding
      <4> QED
        BY <3>2, <3>3, <3>4, <4>1, <4>2, <4>3
    <3> QED
      BY <1>0, <1>b, <2>1, <2>2, <2>3, <2>4, <3>2, <3>4, <3>5
  <2> QED
    BY <1>5, <2>5, <2>6
<1>6. ASSUME UNCHANGED <<loop, permits, backlog, conn>> PROVE PermitInv'
  BY <1>6, <1>c, <1>e DEF PermitInv, ListenerTypeOK, PermitsConserved, Holding, ServedBy
<1>7. ASSUME NEW c \in Clients, SessionNext(c) PROVE PermitInv'
  BY <1>6, <1>7 DEF SessionNext, SessionStart, SessionDial, SessionEnd
<1>8. CASE UNCHANGED listenerVars
  BY <1>6, <1>8 DEF listenerVars
<1> QED
  BY <1>1, <1>2, <1>3, <1>4, <1>5, <1>7, <1>8 DEF ListenerNext, AcceptNext

\* The inductive invariant of the accept loops.
THEOREM PermitInvariant == ListenerSpec => []PermitInv
  BY InitPermit, PermitStep, PTL DEF ListenerSpec

\* Type correctness: no semaphore ever has more permits than it was given.
THEOREM ListenerTypes == ListenerSpec => []ListenerTypeOK
<1>1. PermitInv => ListenerTypeOK
  BY DEF PermitInv
<1> QED
  BY <1>1, PermitInvariant, PTL

\* No permit of run_inbound's semaphore is lost or dropped twice.
THEOREM NoPermitLost == ListenerSpec => []PermitsConserved
<1>1. PermitInv => PermitsConserved
  BY DEF PermitInv
<1> QED
  BY <1>1, PermitInvariant, PTL

\* An inbound never serves more than MaxConnections connections at a time.
THEOREM ConnectionsBounded ==
    ListenerSpec => [](\A i \in Inbounds : Cardinality(ServedBy(i)) <= MaxConnections)
<1>1. PermitInv => \A i \in Inbounds : Cardinality(ServedBy(i)) <= MaxConnections
  <2> SUFFICES ASSUME PermitInv, NEW i \in Inbounds PROVE Cardinality(ServedBy(i)) <= MaxConnections
    OBVIOUS
  <2>1. permits[i] \in Nat /\ Holding(i) \in {0, 1} /\ Cardinality(ServedBy(i)) \in Nat
        /\ permits[i] + Holding(i) + Cardinality(ServedBy(i)) = MaxConnections
    BY FS_CardinalityType, ListenerAssumption DEF PermitInv, ListenerTypeOK, PermitsConserved, Holding
  <2> QED
    BY <2>1
<1> QED
  BY <1>1, PermitInvariant, PTL

-----------------------------------------------------------------------------
(* The loop of an HTTP/2 connection.                                       *)

\* The counter is exact, and a snapshot that says "idle" is still right for
\* as long as select! may act on it: only the loop itself starts requests.
LoopInv ==
    /\ H2TypeOK
    /\ IsFiniteSet(RunningRequests)
    /\ ActiveExact
    /\ hpc = "select" /\ isIdle => activeStreams = 0

\* A new connection has no requests.
LEMMA InitLoop == H2Init => LoopInv
<1> SUFFICES ASSUME H2Init PROVE LoopInv
  OBVIOUS
<1>1. H2TypeOK
  <2>1. isIdle \in BOOLEAN
    BY DEF H2Init
  <2> QED
    BY <2>1 DEF H2Init, H2TypeOK
<1>2. RunningRequests = {}
  BY DEF H2Init, RunningRequests
<1> QED
  BY <1>1, <1>2, FS_EmptySet DEF H2Init, LoopInv, ActiveExact

\* Every step keeps LoopInv.
LEMMA LoopStep == ASSUME LoopInv, [H2Next]_h2Vars PROVE LoopInv'
<1>0. /\ st \in [Requests -> {"none", "queued", "run", "done"}] /\ activeStreams \in Nat
      /\ IsFiniteSet(RunningRequests) /\ activeStreams = Cardinality(RunningRequests)
  BY DEF LoopInv, H2TypeOK, ActiveExact
<1>a. ASSUME st' = st, activeStreams' = activeStreams, isIdle' \in BOOLEAN,
             hpc' \in {"handshake", "load", "select", "closed"},
             peer' \in {"open", "gone"}, ping' \in {"off", "run", "over"},
             hpc' = "select" /\ isIdle' => activeStreams' = 0
      PROVE  LoopInv'
  <2>1. RunningRequests' = RunningRequests
    BY <1>a DEF RunningRequests
  <2> QED
    BY <1>a, <2>1 DEF LoopInv, H2TypeOK, ActiveExact
<1>1. CASE Load
  <2>1. st' = st /\ activeStreams' = activeStreams /\ isIdle' = (activeStreams = 0) /\ hpc' = "select" /\ peer' = peer /\ ping' = ping
    BY <1>1 DEF Load
  <2>2. isIdle' \in BOOLEAN
    BY <2>1
  <2>3. isIdle' => activeStreams' = 0
    BY <2>1
  <2>4. peer \in {"open", "gone"} /\ ping \in {"off", "run", "over"}
    BY DEF LoopInv, H2TypeOK
  <2> QED
    BY <1>a, <2>1, <2>2, <2>3, <2>4
<1>2. CASE Handshake \/ HandshakeFail \/ AcceptEnd \/ Watchdog \/ PingEnd \/ PeerGone \/ UNCHANGED h2Vars
  <2>1. /\ st' = st /\ activeStreams' = activeStreams /\ isIdle' = isIdle
        /\ hpc' \in {"load", "closed"} \cup {hpc} /\ peer' \in {"open", "gone"} \cup {peer}
        /\ ping' \in {"run", "over"} \cup {ping}
    BY <1>2 DEF Handshake, HandshakeFail, AcceptEnd, Watchdog, PingEnd, PeerGone, h2Vars
  <2>2. isIdle \in BOOLEAN
    BY DEF LoopInv, H2TypeOK
  <2>3. /\ hpc \in {"handshake", "load", "select", "closed"} /\ peer \in {"open", "gone"}
        /\ ping \in {"off", "run", "over"} /\ (hpc = "select" /\ isIdle => activeStreams = 0)
    BY DEF LoopInv, H2TypeOK
  <2> QED
    BY <1>a, <2>1, <2>2, <2>3
<1>3. ASSUME NEW r \in Requests, AcceptRequest(r) PROVE LoopInv'
  <2>1. RunningRequests' = RunningRequests \cup {r} /\ r \notin RunningRequests
    BY <1>0, <1>3 DEF AcceptRequest, RunningRequests
  <2>2. IsFiniteSet(RunningRequests') /\ Cardinality(RunningRequests') = Cardinality(RunningRequests) + 1
    BY <1>0, <2>1, FS_AddElement
  <2>3. activeStreams' = activeStreams + 1 /\ hpc' = "load"
    BY <1>3 DEF AcceptRequest
  <2>4. H2TypeOK'
    BY <1>0, <1>3 DEF AcceptRequest, LoopInv, H2TypeOK
  <2> QED
    BY <1>0, <2>2, <2>3, <2>4 DEF LoopInv, ActiveExact
<1>4. ASSUME NEW r \in Requests, RequestEnd(r) PROVE LoopInv'
  <2>1. RunningRequests' = RunningRequests \ {r} /\ r \in RunningRequests
    BY <1>0, <1>4 DEF RequestEnd, RunningRequests
  <2>2. /\ IsFiniteSet(RunningRequests') /\ Cardinality(RunningRequests') = Cardinality(RunningRequests) - 1
        /\ Cardinality(RunningRequests') \in Nat
    BY <1>0, <2>1, FS_RemoveElement, FS_CardinalityType
  <2>3. activeStreams' = activeStreams - 1 /\ hpc' = hpc /\ isIdle' = isIdle
    BY <1>4 DEF RequestEnd
  <2>4. activeStreams' \in Nat /\ activeStreams # 0
    BY <1>0, <2>2, <2>3
  <2>5. H2TypeOK'
    BY <1>0, <1>4, <2>4 DEF RequestEnd, LoopInv, H2TypeOK
  <2>6. hpc' = "select" /\ isIdle' => activeStreams' = 0
    BY <2>3, <2>4 DEF LoopInv
  <2> QED
    BY <1>0, <2>2, <2>3, <2>5, <2>6 DEF LoopInv, ActiveExact
<1>5. ASSUME NEW r \in Requests, Arrive(r) PROVE LoopInv'
  <2>1. RunningRequests' = RunningRequests
    BY <1>0, <1>5 DEF Arrive, RunningRequests
  <2>2. H2TypeOK'
    BY <1>0, <1>5 DEF Arrive, LoopInv, H2TypeOK
  <2>3. activeStreams' = activeStreams /\ hpc' = hpc /\ isIdle' = isIdle
    BY <1>5 DEF Arrive
  <2>4. hpc' = "select" /\ isIdle' => activeStreams' = 0
    BY <2>3 DEF LoopInv
  <2> QED
    BY <1>0, <2>1, <2>2, <2>3, <2>4 DEF LoopInv, ActiveExact
<1> QED
  BY <1>1, <1>2, <1>3, <1>4, <1>5 DEF H2Next, H2LoopNext

\* The inductive invariant of the accept loop.
THEOREM LoopInvariant == H2Spec => []LoopInv
  BY InitLoop, LoopStep, PTL DEF H2Spec

\* Type correctness; active_streams is never decremented below zero.
THEOREM H2Types == H2Spec => []H2TypeOK
<1>1. LoopInv => H2TypeOK
  BY DEF LoopInv
<1> QED
  BY <1>1, LoopInvariant, PTL

\* active_streams is the number of request tasks, whatever their number.
THEOREM StreamCounterExact == H2Spec => []ActiveExact
<1>1. LoopInv => ActiveExact
  BY DEF LoopInv
<1> QED
  BY <1>1, LoopInvariant, PTL

\* The snapshot is exact when it is taken, and the watchdog never closes a
\* connection that carries a stream.
THEOREM WatchdogIsSafe == H2Spec => WatchdogSpares
<1>1. ASSUME LoopInv PROVE activeStreams = 0 <=> RunningRequests = {}
  BY <1>1, FS_EmptySet DEF LoopInv, ActiveExact
<1>2. ASSUME LoopInv, H2Next, hpc = "load", hpc' = "select" PROVE isIdle' = (RunningRequests = {})
  <2>1. Load
    BY <1>2 DEF H2Next, H2LoopNext, Handshake, HandshakeFail, Watchdog, AcceptRequest, AcceptEnd, PingEnd,
           PeerGone, RequestEnd, Arrive
  <2>2. isIdle' = (activeStreams = 0)
    BY <2>1 DEF Load
  <2> QED
    BY <1>1, <1>2, <2>2
<1>3. ASSUME LoopInv, H2Next, hpc = "select", hpc' = "closed", peer = "open" PROVE RunningRequests = {}
  <2>1. Watchdog
    BY <1>3 DEF H2Next, H2LoopNext, Handshake, HandshakeFail, Load, AcceptRequest, AcceptEnd, PingEnd,
           PeerGone, RequestEnd, Arrive
  <2>2. activeStreams = 0
    BY <1>3, <2>1 DEF Watchdog, LoopInv
  <2> QED
    BY <1>1, <1>3, <2>2
<1>4. LoopInv /\ [H2Next]_h2Vars
        => [/\ hpc = "load" /\ hpc' = "select" => isIdle' = (RunningRequests = {})
            /\ hpc = "select" /\ hpc' = "closed" /\ peer = "open" => RunningRequests = {}]_h2Vars
  BY <1>2, <1>3
<1> QED
  BY <1>4, LoopInvariant, PTL DEF H2Spec, WatchdogSpares
=============================================================================
