------------------------- MODULE XhttpSessionProofs -------------------------
(* Proofs about XhttpSession, for every set of requests and every bound.   *)
EXTENDS XhttpSession, TLAPS

\* A length is a number.
LEMMA LenNat == ASSUME NEW S, NEW s \in Seq(S) PROVE Len(s) \in Nat
  OBVIOUS

\* Taking the head of a queue and appending it to the one in front of it
\* does not change the concatenation of the two.
LEMMA MoveHead ==
    ASSUME NEW S, NEW s \in Seq(S), NEW t \in Seq(S), t # <<>>
    PROVE  Append(s, Head(t)) \o Tail(t) = s \o t
  OBVIOUS

\* Appending to the last queue of a chain appends to the whole.
LEMMA AppendLast ==
    ASSUME NEW S, NEW s \in Seq(S), NEW t \in Seq(S), NEW e \in S
    PROVE  s \o Append(t, e) = Append(s \o t, e)
  OBVIOUS

\* The chunk after the first Len(s) ones of s \o t is the head of t.
LEMMA NextChunk ==
    ASSUME NEW S, NEW s \in Seq(S), NEW t \in Seq(S), t # <<>>
    PROVE  Len(s) < Len(s \o t) /\ (s \o t)[Len(s) + 1] = Head(t)
  OBVIOUS

\* A session entry of the initial state and of every later one has a live
\* owner; the owner is also of the right type.
SessionInv == /\ sessions \in [Paths -> Gets \cup {NoGet}]
              /\ gpc \in [Gets -> {"idle", "open", "stream", "ended", "joining", "closed"}]
              /\ SessionOwnerLive

\* The actions of the POST, upstream and VLESS tasks leave the map and the
\* GETs' program counters alone.
LEMMA OtherTasksKeepSessions ==
    ASSUME \/ \E g \in Gets : UpNext(g) \/ EnvNext(g)
           \/ \E p \in Posts : PostNext(p)
    PROVE  UNCHANGED <<sessions, gpc>>
  BY DEF UpNext, EnvNext, PostNext, UpRecv, UpWrite, UpEnd, UpWriteErr, UpClosed, UpTimeout,
         VlessRead, VlessWrite, VlessShut, VlessEnd, ClientReset, PostArrive, PostPoll, PostLookup,
         PostChunk, PostAck, PostFail, getVars

\* The map keeps its type and its owners.
LEMMA SessionInvariant == Spec => []SessionInv
<1>1. Init => SessionInv
  BY DEF Init, SessionInv, SessionOwnerLive
<1>2. SessionInv /\ [Next]_vars => SessionInv'
  <2> SUFFICES ASSUME SessionInv, [Next]_vars PROVE SessionInv'
    OBVIOUS
  <2> USE XhttpAssumption DEF SessionInv, SessionOwnerLive
  <2>1. ASSUME NEW g \in Gets, GetOpen(g) PROVE SessionInv'
    BY <2>1 DEF GetOpen
  <2>2. ASSUME NEW g \in Gets, GetRespond(g) PROVE SessionInv'
    BY <2>2 DEF GetRespond
  <2>3. ASSUME NEW g \in Gets, GetRespondErr(g) PROVE SessionInv'
    BY <2>3 DEF GetRespondErr, GuardDrop, Unregister
  <2>4. ASSUME NEW g \in Gets, DownForward(g) PROVE SessionInv'
    BY <2>4 DEF DownForward
  <2>5. ASSUME NEW g \in Gets, DownEof(g) \/ DownTimeout(g) PROVE SessionInv'
    BY <2>5 DEF DownEof, DownTimeout
  <2>6. ASSUME NEW g \in Gets, GetRemove(g) PROVE SessionInv'
    BY <2>6 DEF GetRemove, Unregister
  <2>7. ASSUME NEW g \in Gets, GetJoin(g) PROVE SessionInv'
    BY <2>7 DEF GetJoin, GuardDrop, Unregister
  <2>8. CASE UNCHANGED <<sessions, gpc>>
    BY <2>8
  <2>9. UNCHANGED vars => UNCHANGED <<sessions, gpc>>
    BY DEF vars
  <2> QED
    BY <2>1, <2>2, <2>3, <2>4, <2>5, <2>6, <2>7, <2>8, <2>9, OtherTasksKeepSessions
       DEF Next, GetNext
<1> QED
  BY <1>1, <1>2, PTL DEF Spec

\* No session leaks: [](SESSIONS only holds sessions of GETs that have not
\* passed their removal), for any number of requests and paths.
THEOREM SessionsNeverLeak == Spec => []SessionOwnerLive
<1>1. SessionInv => SessionOwnerLive
  BY DEF SessionInv
<1> QED
  BY <1>1, SessionInvariant, PTL

-----------------------------------------------------------------------------
\* Taking the head of a queue of chunks leaves a chunk and a shorter queue.
LEMMA QueueHead ==
    ASSUME NEW S, NEW q \in Seq(S), q # <<>>
    PROVE  Head(q) \in S /\ Tail(q) \in Seq(S) /\ Len(Tail(q)) = Len(q) - 1 /\ Len(q) \in Nat
  OBVIOUS

\* Replacing one value of a function by one of its range.
LEMMA Replace ==
    ASSUME NEW A, NEW B, NEW f \in [A -> B], NEW a \in A, NEW b \in B
    PROVE  [f EXCEPT ![a] = b] \in [A -> B]
  OBVIOUS

\* Every action of a GET keeps the types.
LEMMA GetKeepsTypes == ASSUME TypeOK, NEW g \in Gets, GetNext(g) PROVE TypeOK'
<1> USE XhttpAssumption DEF postVars
<1>1. CASE GetOpen(g)
  BY <1>1 DEF GetOpen, TypeOK
<1>2. CASE GetRespond(g)
  BY <1>2 DEF GetRespond, TypeOK
<1>3. CASE GetRespondErr(g)
  <2>1. chan' \in [Gets -> Seq(Chunk)]
    BY <1>3 DEF GetRespondErr, TypeOK
  <2>2. sessions' \in [Paths -> Gets \cup {NoGet}]
    BY <1>3 DEF GetRespondErr, GuardDrop, Unregister, TypeOK
  <2> QED
    BY <1>3, <2>1, <2>2 DEF GetRespondErr, TypeOK
<1>4. CASE DownForward(g)
  <2>1. /\ Head(down[g]) \in 1..MaxDown /\ Tail(down[g]) \in Seq(1..MaxDown)
        /\ Len(Tail(down[g])) <= DuplexCap
    <3>1. down[g] \in Seq(1..MaxDown) /\ down[g] # <<>> /\ Len(down[g]) <= DuplexCap
      BY <1>4 DEF DownForward, TypeOK
    <3>2. Head(down[g]) \in 1..MaxDown /\ Tail(down[g]) \in Seq(1..MaxDown)
          /\ Len(Tail(down[g])) = Len(down[g]) - 1 /\ Len(down[g]) \in Nat
      BY <3>1, QueueHead
    <3> QED
      BY <3>1, <3>2
  <2>2. down' \in [Gets -> Seq(1..MaxDown)] /\ \A k \in Gets : Len(down'[k]) <= DuplexCap
    BY <1>4, <2>1 DEF DownForward, TypeOK
  <2>3. shown' \in [Gets -> Seq(1..MaxDown)]
    <3>1. Append(shown[g], Head(down[g])) \in Seq(1..MaxDown)
      BY <2>1 DEF TypeOK
    <3>2. shown' = shown \/ shown' = [shown EXCEPT ![g] = Append(shown[g], Head(down[g]))]
      BY <1>4 DEF DownForward
    <3>3. shown \in [Gets -> Seq(1..MaxDown)]
      BY DEF TypeOK
    <3>4. [shown EXCEPT ![g] = Append(shown[g], Head(down[g]))] \in [Gets -> Seq(1..MaxDown)]
      BY <3>1, <3>3, Replace
    <3> QED
      BY <3>2, <3>3, <3>4, Zenon
  <2>4. gpc' \in [Gets -> {"idle", "open", "stream", "ended", "joining", "closed"}]
    <3>1. gpc' = gpc \/ gpc' = [gpc EXCEPT ![g] = "ended"]
      BY <1>4 DEF DownForward
    <3> QED
      BY <3>1 DEF TypeOK
  <2> QED
    BY <1>4, <2>2, <2>3, <2>4 DEF DownForward, TypeOK
<1>5. CASE DownEof(g) \/ DownTimeout(g)
  BY <1>5 DEF DownEof, DownTimeout, TypeOK
<1>6. CASE GetRemove(g)
  BY <1>6 DEF GetRemove, Unregister, TypeOK
<1>7. CASE GetJoin(g)
  BY <1>7 DEF GetJoin, GuardDrop, Unregister, TypeOK
<1> QED
  BY <1>1, <1>2, <1>3, <1>4, <1>5, <1>6, <1>7 DEF GetNext

\* So does every action of an upstream task; the duplex keeps to its capacity.
LEMMA UpKeepsTypes == ASSUME TypeOK, NEW g \in Gets, UpNext(g) PROVE TypeOK'
<1> USE XhttpAssumption DEF postVars
<1>0. chan[g] \in Seq(Chunk) /\ hand[g] \in Seq(Chunk) /\ up[g] \in Seq(Chunk) /\ Len(hand[g]) <= 1
  BY DEF TypeOK
<1>1. CASE UpRecv(g)
  <2>1. Head(chan[g]) \in Chunk /\ Tail(chan[g]) \in Seq(Chunk)
    BY <1>0, <1>1, QueueHead DEF UpRecv
  <2>2. <<Head(chan[g])>> \in Seq(Chunk) /\ Len(<<Head(chan[g])>>) <= 1
    BY <2>1
  <2>3. hand' \in [Gets -> Seq(Chunk)] /\ \A k \in Gets : Len(hand'[k]) <= 1
    BY <1>1, <2>2 DEF UpRecv, TypeOK
  <2>4. chan' \in [Gets -> Seq(Chunk)]
    BY <1>1, <2>1 DEF UpRecv, TypeOK
  <2> QED
    BY <1>1, <2>3, <2>4 DEF UpRecv, TypeOK
<1>2. CASE UpWrite(g)
  <2>1. up[g] \o hand[g] \in Seq(Chunk) /\ Len(up[g] \o hand[g]) <= DuplexCap
    <3>1. up[g] \o hand[g] \in Seq(Chunk) /\ Len(up[g] \o hand[g]) = Len(up[g]) + Len(hand[g])
      BY <1>0
    <3>2. Len(up[g]) \in Nat /\ Len(hand[g]) \in Nat /\ Len(up[g]) < DuplexCap
      <4>1. Len(up[g]) < DuplexCap
        BY <1>2, Zenon DEF UpWrite
      <4>2. Len(up[g]) \in Nat /\ Len(hand[g]) \in Nat
        BY <1>0, LenNat, Zenon
      <4> QED
        BY <4>1, <4>2, Zenon
    <3>3. DuplexCap \in Nat
      OBVIOUS
    <3>4. Len(hand[g]) <= 1
      BY <1>0, Zenon
    <3>5. Len(up[g]) + Len(hand[g]) <= DuplexCap
      <4> DEFINE a == Len(up[g])
                 b == Len(hand[g])
      <4>1. a \in Nat /\ b \in Nat /\ a < DuplexCap /\ b <= 1
        BY <3>2, <3>4
      <4> HIDE DEF a, b
      <4>2. a + b <= DuplexCap
        BY <3>3, <4>1
      <4> QED
        BY <4>2 DEF a, b
    <3> QED
      BY <3>1, <3>5, Zenon
  <2>2. up' \in [Gets -> Seq(Chunk)] /\ \A k \in Gets : Len(up'[k]) <= DuplexCap
    BY <1>2, <2>1 DEF UpWrite, TypeOK
  <2>3. hand' \in [Gets -> Seq(Chunk)] /\ \A k \in Gets : Len(hand'[k]) <= 1
    BY <1>2 DEF UpWrite, TypeOK
  <2> QED
    BY <1>2, <2>2, <2>3 DEF UpWrite, TypeOK
<1>3. CASE UpEnd(g)
  <2>1. hand' \in [Gets -> Seq(Chunk)] /\ \A k \in Gets : Len(hand'[k]) <= 1
    BY <1>3 DEF UpEnd, TypeOK
  <2>2. chan' \in [Gets -> Seq(Chunk)]
    BY <1>3, SMTT(30) DEF UpEnd, TypeOK
  <2>3. upc' \in [Gets -> {"off", "run", "done"}]
    BY <1>3, SMTT(30) DEF UpEnd, TypeOK
  <2> QED
    BY <1>3, <2>1, <2>2, <2>3 DEF UpEnd, TypeOK
<1> QED
  BY <1>1, <1>2, <1>3 DEF UpNext, UpWriteErr, UpClosed, UpTimeout

\* So does the VLESS handler behind the duplex.
LEMMA EnvKeepsTypes == ASSUME TypeOK, NEW g \in Gets, EnvNext(g) PROVE TypeOK'
<1> USE XhttpAssumption DEF postVars
<1>1. CASE VlessRead(g)
  <2>1. /\ Head(up[g]) \in Chunk /\ Tail(up[g]) \in Seq(Chunk) /\ Len(Tail(up[g])) <= DuplexCap
    <3>1. up[g] \in Seq(Chunk) /\ up[g] # <<>> /\ Len(up[g]) <= DuplexCap
      BY <1>1 DEF VlessRead, TypeOK
    <3>2. Head(up[g]) \in Chunk /\ Tail(up[g]) \in Seq(Chunk) /\ Len(Tail(up[g])) = Len(up[g]) - 1 /\ Len(up[g]) \in Nat
      BY <3>1, QueueHead
    <3> QED
      BY <3>1, <3>2
  <2>2. up' \in [Gets -> Seq(Chunk)] /\ \A k \in Gets : Len(up'[k]) <= DuplexCap
    BY <1>1, <2>1 DEF VlessRead, TypeOK
  <2>3. delivered' \in [Gets -> Seq(Chunk)]
    <3>1. Append(delivered[g], Head(up[g])) \in Seq(Chunk)
      BY <2>1 DEF TypeOK
    <3> QED
      BY <1>1, <3>1 DEF VlessRead, TypeOK
  <2> QED
    BY <1>1, <2>2, <2>3 DEF VlessRead, TypeOK
<1>2. CASE VlessWrite(g)
  <2>1. wrote[g] + 1 \in 1..MaxDown /\ down[g] \in Seq(1..MaxDown) /\ Len(down[g]) < DuplexCap
    BY <1>2 DEF VlessWrite, TypeOK
  <2>2. Append(down[g], wrote[g] + 1) \in Seq(1..MaxDown) /\ Len(Append(down[g], wrote[g] + 1)) <= DuplexCap
    BY <2>1
  <2>3. down' \in [Gets -> Seq(1..MaxDown)] /\ \A k \in Gets : Len(down'[k]) <= DuplexCap
    BY <1>2, <2>2 DEF VlessWrite, TypeOK
  <2>4. wrote' \in [Gets -> 0..MaxDown]
    BY <1>2, <2>1 DEF VlessWrite, TypeOK
  <2> QED
    BY <1>2, <2>3, <2>4 DEF VlessWrite, TypeOK
<1>3. CASE VlessShut(g) \/ VlessEnd(g) \/ ClientReset(g)
  BY <1>3 DEF VlessShut, VlessEnd, ClientReset, TypeOK
<1> QED
  BY <1>1, <1>2, <1>3 DEF EnvNext

\* What a POST is bound to: the lookups it still has before it gives up, and
\* a session it has found before it forwards.
PostRule(p) == /\ ppc[p] = "idle" => polls[p] = 0
               /\ ppc[p] = "poll" => polls[p] < MaxPolls
               /\ ppc[p] = "forward" => tx[p] \in Gets

\* So does every action of a POST; it makes at most MaxPolls lookups while it
\* waits, and forwards only into a session that it has found.
LEMMA PostKeepsTypes ==
    ASSUME TypeOK, NEW p \in Posts, PostRule(p), PostNext(p)
    PROVE  TypeOK'
<1> USE XhttpAssumption DEF getVars, PostRule
<1>1. CASE PostArrive(p)
  <2>1. before' \in [Posts -> SUBSET Posts]
    BY <1>1 DEF PostArrive, TypeOK
  <2> QED
    BY <1>1, <2>1 DEF PostArrive, TypeOK
<1>2. CASE PostPoll(p)
  <2>1. polls' = polls \/ polls' = [polls EXCEPT ![p] = polls[p] + 1]
    BY <1>2 DEF PostPoll
  <2>2. polls[p] + 1 \in 0..MaxPolls
    <3>1. polls[p] \in 0..MaxPolls
      BY DEF TypeOK
    <3>2. polls[p] < MaxPolls
      BY <1>2 DEF PostPoll
    <3> QED
      BY <3>1, <3>2
  <2>3. polls' \in [Posts -> 0..MaxPolls]
    <3>1. polls \in [Posts -> 0..MaxPolls]
      BY DEF TypeOK
    <3>2. [polls EXCEPT ![p] = polls[p] + 1] \in [Posts -> 0..MaxPolls]
      BY <2>2, <3>1, Replace
    <3> QED
      BY <2>1, <3>1, <3>2, Zenon
  <2>4. ppc' = [ppc EXCEPT ![p] = "lookup"] \/ ppc' = [ppc EXCEPT ![p] = "poll"]
    BY <1>2 DEF PostPoll
  <2> QED
    BY <1>2, <2>3, <2>4 DEF PostPoll, TypeOK
<1>3. CASE PostLookup(p)
  <2>1. sessions[PathOf[p]] \in Gets \cup {NoGet}
    BY DEF TypeOK
  <2>2. tx' \in [Posts -> Gets \cup {NoGet}]
    <3>1. tx' = tx \/ tx' = [tx EXCEPT ![p] = sessions[PathOf[p]]]
      BY <1>3 DEF PostLookup
    <3>2. tx \in [Posts -> Gets \cup {NoGet}]
      BY DEF TypeOK
    <3>3. [tx EXCEPT ![p] = sessions[PathOf[p]]] \in [Posts -> Gets \cup {NoGet}]
      BY <2>1, <3>2, Replace
    <3> QED
      BY <3>1, <3>2, <3>3, Zenon
  <2>3. ppc' = [ppc EXCEPT ![p] = "forward"] \/ ppc' = [ppc EXCEPT ![p] = "standalone"]
    BY <1>3 DEF PostLookup
  <2> QED
    BY <1>3, <2>2, <2>3 DEF PostLookup, TypeOK
<1>4. CASE PostChunk(p)
  <2> DEFINE c == [post |-> p, n |-> read[p] + 1]
             k == tx[p]
  <2>0. /\ ppc[p] = "forward" /\ read[p] < MaxChunks /\ read' = [read EXCEPT ![p] = read[p] + 1]
        /\ UNCHANGED <<sessions, getVars, ppc, polls, tx, before>>
    BY <1>4 DEF PostChunk
  <2>1. read \in [Posts -> 0..MaxChunks] /\ chan \in [Gets -> Seq(Chunk)] /\ log \in [Gets -> Seq(Chunk)]
    BY DEF TypeOK
  <2>2. k \in Gets /\ read[p] + 1 \in 1..MaxChunks
    <3>1. k \in Gets
      BY <2>0, Zenon
    <3>2. read[p] \in 0..MaxChunks /\ read[p] < MaxChunks /\ MaxChunks \in Nat
      BY <2>0, <2>1
    <3> HIDE DEF k
    <3>3. read[p] + 1 \in 1..MaxChunks
      BY <3>2
    <3> QED
      BY <3>1, <3>3
  <2>3. c \in Chunk
    BY <2>2 DEF Chunk
  <2>4. \/ chan' = chan /\ log' = log
        \/ chan' = [chan EXCEPT ![k] = Append(chan[k], c)] /\ log' = [log EXCEPT ![k] = Append(log[k], c)]
    BY <1>4 DEF PostChunk
  <2>5. read' \in [Posts -> 0..MaxChunks]
    BY <2>0, <2>1, <2>2
  <2> HIDE DEF c, k
  <2>6. Append(chan[k], c) \in Seq(Chunk) /\ Append(log[k], c) \in Seq(Chunk)
    BY <2>1, <2>2, <2>3
  <2>7. /\ [chan EXCEPT ![k] = Append(chan[k], c)] \in [Gets -> Seq(Chunk)]
        /\ [log EXCEPT ![k] = Append(log[k], c)] \in [Gets -> Seq(Chunk)]
    BY <2>1, <2>2, <2>6, Replace
  <2>8. chan' \in [Gets -> Seq(Chunk)] /\ log' \in [Gets -> Seq(Chunk)]
    BY <2>1, <2>4, <2>7, Zenon
  <2> QED
    BY <2>0, <2>5, <2>8 DEF TypeOK
<1>5. CASE PostAck(p) \/ PostFail(p)
  <2>1. \/ ppc' = [ppc EXCEPT ![p] = "acked"]
        \/ ppc' = [ppc EXCEPT ![p] = "failed"]
    BY <1>5 DEF PostAck, PostFail
  <2>2. UNCHANGED <<sessions, getVars, chan, log, polls, tx, read, before>>
    BY <1>5 DEF PostAck, PostFail
  <2> QED
    BY <2>1, <2>2 DEF TypeOK
<1> QED
  BY <1>1, <1>2, <1>3, <1>4, <1>5 DEF PostNext

\* The rules of the POSTs are kept by POSTs and by everybody else.
LEMMA PostRuleKept ==
    ASSUME TypeOK, \A p \in Posts : PostRule(p), [Next]_vars
    PROVE  (\A p \in Posts : PostRule(p))'
<1> USE XhttpAssumption DEF PostRule
<1>0. ppc \in [Posts -> {"idle", "poll", "lookup", "forward", "acked", "failed", "standalone"}]
      /\ polls \in [Posts -> 0..MaxPolls] /\ tx \in [Posts -> Gets \cup {NoGet}]
      /\ sessions \in [Paths -> Gets \cup {NoGet}]
  BY DEF TypeOK
<1>1. CASE UNCHANGED <<ppc, polls, tx>>
  BY <1>1
<1>2. ASSUME NEW p \in Posts, PostArrive(p) PROVE (\A q \in Posts : PostRule(q))'
  BY <1>0, <1>2 DEF PostArrive
<1>3. ASSUME NEW p \in Posts, PostPoll(p) PROVE (\A q \in Posts : PostRule(q))'
  <2>1. CASE sessions[PathOf[p]] # NoGet
    BY <1>0, <1>3, <2>1 DEF PostPoll
  <2>2. CASE sessions[PathOf[p]] = NoGet
    BY <1>0, <1>3, <2>2 DEF PostPoll
  <2> QED
    BY <2>1, <2>2
<1>4. ASSUME NEW p \in Posts, PostLookup(p) PROVE (\A q \in Posts : PostRule(q))'
  <2>1. CASE sessions[PathOf[p]] # NoGet
    BY <1>0, <1>4, <2>1 DEF PostLookup
  <2>2. CASE sessions[PathOf[p]] = NoGet
    BY <1>0, <1>4, <2>2 DEF PostLookup
  <2> QED
    BY <2>1, <2>2
<1>5. ASSUME NEW p \in Posts, PostAck(p) \/ PostFail(p) PROVE (\A q \in Posts : PostRule(q))'
  BY <1>0, <1>5 DEF PostAck, PostFail
<1>6. ASSUME NEW p \in Posts, PostChunk(p) PROVE UNCHANGED <<ppc, polls, tx>>
  BY <1>6 DEF PostChunk
<1>7. ASSUME NEW g \in Gets, GetNext(g) PROVE UNCHANGED <<ppc, polls, tx>>
  BY <1>7 DEF GetNext, GetOpen, GetRespond, GetRespondErr, DownForward, DownEof, DownTimeout, GetRemove,
              GetJoin, postVars
<1>8. ASSUME NEW g \in Gets, UpNext(g) PROVE UNCHANGED <<ppc, polls, tx>>
  BY <1>8 DEF UpNext, UpRecv, UpWrite, UpWriteErr, UpClosed, UpTimeout, UpEnd, postVars
<1>9. ASSUME NEW g \in Gets, EnvNext(g) PROVE UNCHANGED <<ppc, polls, tx>>
  BY <1>9 DEF EnvNext, VlessRead, VlessWrite, VlessShut, VlessEnd, ClientReset, postVars
<1>10. UNCHANGED vars => UNCHANGED <<ppc, polls, tx>>
  BY DEF vars
<1> QED
  BY <1>1, <1>2, <1>3, <1>4, <1>5, <1>6, <1>7, <1>8, <1>9, <1>10 DEF Next, PostNext

\* Types and rules together are inductive.
TypeInv == TypeOK /\ \A p \in Posts : PostRule(p)

\* In every reachable state the types hold and every POST is at a step its lookups allow.
LEMMA TypeInvariant == Spec => []TypeInv
<1>1. Init => TypeInv
  <2> SUFFICES ASSUME Init PROVE TypeInv
    OBVIOUS
  <2>1. TypeOK
    BY XhttpAssumption DEF Init, TypeOK
  <2>2. \A p \in Posts : PostRule(p)
    BY XhttpAssumption DEF Init, PostRule
  <2> QED
    BY <2>1, <2>2 DEF TypeInv
<1>2. TypeInv /\ [Next]_vars => TypeInv'
  <2> SUFFICES ASSUME TypeInv, [Next]_vars PROVE TypeInv'
    OBVIOUS
  <2>1. TypeOK /\ \A p \in Posts : PostRule(p)
    BY DEF TypeInv
  <2>2. UNCHANGED vars => TypeOK'
    BY <2>1 DEF vars, TypeOK
  <2>3. TypeOK'
    BY <2>1, <2>2, GetKeepsTypes, UpKeepsTypes, EnvKeepsTypes, PostKeepsTypes DEF Next
  <2>4. (\A p \in Posts : PostRule(p))'
    BY <2>1, PostRuleKept
  <2> QED
    BY <2>3, <2>4 DEF TypeInv
<1> QED
  BY <1>1, <1>2, PTL DEF Spec

\* Every variable of the split sessions keeps to its type: no POST looks more
\* than MaxPolls times, and neither direction of a duplex exceeds its
\* capacity, for any number of requests.
THEOREM XhttpTypes == Spec => []TypeOK
<1>1. TypeInv => TypeOK
  BY DEF TypeInv
<1> QED
  BY <1>1, TypeInvariant, PTL

\* A GET whose download runs is found by the POSTs of its path unless another
\* GET of that path has taken the entry or has removed it (h2.rs:38, 229, 480),
\* for any number of GETs and paths.
THEOREM LiveGetsAreFound == Spec => []LiveGetReachable
<1> USE XhttpAssumption
<1>1. Init => LiveGetReachable
  BY DEF Init, LiveGetReachable
<1>2. ASSUME SessionInv, LiveGetReachable, [Next]_vars PROVE LiveGetReachable'
  <2>0. /\ sessions \in [Paths -> Gets \cup {NoGet}]
        /\ gpc \in [Gets -> {"idle", "open", "stream", "ended", "joining", "closed"}]
    BY <1>2 DEF SessionInv
  <2>1. ASSUME NEW g \in Gets, GetOpen(g) PROVE LiveGetReachable'
    BY <1>2, <2>0, <2>1 DEF GetOpen, LiveGetReachable
  <2>2. ASSUME NEW g \in Gets, GetRespond(g) PROVE LiveGetReachable'
    BY <1>2, <2>0, <2>2 DEF GetRespond, LiveGetReachable
  <2>3. ASSUME NEW g \in Gets, GetRespondErr(g) \/ GetRemove(g) \/ GetJoin(g) PROVE LiveGetReachable'
    <3>1. /\ sessions' = [sessions EXCEPT ![PathOf[g]] = NoGet] /\ gpc[g] # "idle"
          /\ \/ gpc' = [gpc EXCEPT ![g] = "joining"]
             \/ gpc' = [gpc EXCEPT ![g] = "closed"]
      BY <2>3 DEF GetRespondErr, GetRemove, GetJoin, GuardDrop, Unregister
    <3> QED
      BY <1>2, <2>0, <3>1 DEF LiveGetReachable
  <2>4. ASSUME NEW g \in Gets, DownForward(g) \/ DownEof(g) \/ DownTimeout(g) PROVE LiveGetReachable'
    <3>1. /\ sessions' = sessions /\ gpc[g] = "stream"
          /\ gpc' = gpc \/ gpc' = [gpc EXCEPT ![g] = "ended"]
      BY <2>4 DEF DownForward, DownEof, DownTimeout
    <3> QED
      BY <1>2, <2>0, <3>1 DEF LiveGetReachable
  <2>5. CASE UNCHANGED <<sessions, gpc>>
    BY <1>2, <2>5 DEF LiveGetReachable
  <2>6. UNCHANGED vars => UNCHANGED <<sessions, gpc>>
    BY DEF vars
  <2> QED
    BY <1>2, <2>1, <2>2, <2>3, <2>4, <2>5, <2>6, OtherTasksKeepSessions DEF Next, GetNext
<1> QED
  BY <1>1, <1>2, SessionInvariant, PTL DEF Spec

-----------------------------------------------------------------------------
(* The upload path of a GET implements a pipe.                             *)

\* While the receiver or the handler lives, what the channel accepted is what
\* the handler has read, followed by the duplex, the chunk in hand and the
\* channel.  Once both are gone the last two are lost, but what was read and
\* what the duplex still holds remain a beginning of what was accepted.
Begins(s, t) == Len(s) <= Len(t) /\ \A i \in 1..Len(s) : s[i] = t[i]
Intact(g) == RxAlive(g) \/ ~Broken(g)
Whole(g) == Intact(g) => log[g] = Stream(g)
Fresh(g) == gpc[g] = "idle" => /\ upc[g] = "off" /\ log[g] = <<>> /\ delivered[g] = <<>>
                               /\ up[g] = <<>> /\ hand[g] = <<>> /\ chan[g] = <<>>
NotYet(g) == gpc[g] \in {"idle", "open"} => upc[g] = "off"
PathOk(g) == Whole(g) /\ Fresh(g) /\ NotYet(g) /\ Begins(delivered[g] \o up[g], log[g])
UploadInv == \A g \in Gets : PathOk(g)

\* The first part of a concatenation is a beginning of it.
LEMMA ConcatBegins ==
    ASSUME NEW S, NEW s \in Seq(S), NEW t \in Seq(S)
    PROVE  s \o t \in Seq(S) /\ Begins(s, s \o t)
<1>1. /\ s \o t \in Seq(S) /\ Len(s \o t) = Len(s) + Len(t) /\ Len(s) \in Nat /\ Len(t) \in Nat
      /\ \A i \in 1..Len(s) + Len(t) : (s \o t)[i] = IF i <= Len(s) THEN s[i] ELSE t[i - Len(s)]
  OBVIOUS
<1> QED
  BY <1>1 DEF Begins

\* A beginning stays one when the longer sequence grows.
LEMMA BeginsAppend ==
    ASSUME NEW S, NEW s \in Seq(S), NEW t \in Seq(S), NEW e \in S, Begins(s, t)
    PROVE  Begins(s, Append(t, e))
<1>1. Len(s) \in Nat /\ Len(t) \in Nat
  OBVIOUS
<1>2. Len(Append(t, e)) = Len(t) + 1 /\ \A i \in 1..Len(t) : Append(t, e)[i] = t[i]
  OBVIOUS
<1> QED
  BY <1>1, <1>2 DEF Begins

\* recv takes the oldest chunk of the channel into an empty hand.
LEMMA RecvKeepsStream ==
    ASSUME NEW S, NEW s \in Seq(S), NEW q \in Seq(S), q # <<>>
    PROVE  s \o <<Head(q)>> \o Tail(q) = s \o <<>> \o q
<1>1. Head(q) \in S
  BY QueueHead
<1>2. s \o <<Head(q)>> = Append(s, Head(q))
  BY <1>1
<1>3. Append(s, Head(q)) \o Tail(q) = s \o q
  BY MoveHead
<1>4. s \o <<>> = s
  OBVIOUS
<1> QED
  BY <1>2, <1>3, <1>4

\* write_all puts the chunk in hand at the end of the duplex.
LEMMA WriteKeepsStream ==
    ASSUME NEW S, NEW d \in Seq(S), NEW u \in Seq(S), NEW h \in Seq(S)
    PROVE  d \o (u \o h) = d \o u \o h /\ d \o (u \o h) \o <<>> = d \o u \o h
<1>1. d \o (u \o h) = d \o u \o h
  BY SMTT(30)
<1>2. d \o u \o h \in Seq(S)
  OBVIOUS
<1>3. (d \o u \o h) \o <<>> = d \o u \o h
  BY <1>2
<1> QED
  BY <1>1, <1>3, Zenon

\* A GET none of whose queues changes keeps its path.
LEMMA SamePath ==
    ASSUME NEW g, PathOk(g), gpc'[g] = gpc[g], upc'[g] = upc[g], log'[g] = log[g],
           delivered'[g] = delivered[g], up'[g] = up[g], hand'[g] = hand[g], chan'[g] = chan[g],
           vless[g] = "done" => vless'[g] = "done"
    PROVE  PathOk(g)'
<1>1. Intact(g)' => Intact(g)
  BY DEF Intact, RxAlive, Broken
<1> QED
  BY <1>1 DEF PathOk, Whole, Fresh, NotYet, Stream

\* So does one whose queues stay, or are dropped with receiver and handler.
LEMMA QuietPath ==
    ASSUME NEW g, PathOk(g), gpc'[g] # "idle", NotYet(g)', Intact(g)' => Intact(g),
           log'[g] = log[g], delivered'[g] = delivered[g], up'[g] = up[g],
           Intact(g)' => hand'[g] = hand[g] /\ chan'[g] = chan[g]
    PROVE  PathOk(g)'
  BY DEF PathOk, Whole, Fresh, Stream

\* The queues of a GET are sequences of chunks.
LEMMA QueueTypes ==
    ASSUME TypeOK, NEW g \in Gets
    PROVE  /\ log[g] \in Seq(Chunk) /\ delivered[g] \in Seq(Chunk) /\ up[g] \in Seq(Chunk)
           /\ hand[g] \in Seq(Chunk) /\ chan[g] \in Seq(Chunk)
           /\ delivered[g] \o up[g] \in Seq(Chunk)
           /\ delivered[g] \o up[g] \o hand[g] \in Seq(Chunk)
<1>1. /\ log[g] \in Seq(Chunk) /\ delivered[g] \in Seq(Chunk) /\ up[g] \in Seq(Chunk)
      /\ hand[g] \in Seq(Chunk) /\ chan[g] \in Seq(Chunk)
  BY DEF TypeOK
<1>2. delivered[g] \o up[g] \in Seq(Chunk)
  BY <1>1
<1>3. delivered[g] \o up[g] \o hand[g] \in Seq(Chunk)
  BY <1>1, <1>2
<1> QED
  BY <1>1, <1>2, <1>3

\* The actions of a GET move no chunk; opening makes its path, an early return
\* drops the receiver.
LEMMA GetKeepsPaths ==
    ASSUME TypeOK, UploadInv, NEW g \in Gets, GetNext(g), NEW k \in Gets
    PROVE  PathOk(k)'
<1>0. PathOk(k) /\ gpc \in [Gets -> {"idle", "open", "stream", "ended", "joining", "closed"}]
      /\ upc \in [Gets -> {"off", "run", "done"}] /\ chan \in [Gets -> Seq(Chunk)]
      /\ vless \in [Gets -> {"off", "run", "half", "done"}]
  BY DEF UploadInv, TypeOK
<1>1. log' = log /\ delivered' = delivered /\ up' = up /\ hand' = hand
  BY DEF GetNext, GetOpen, GetRespond, GetRespondErr, DownForward, DownEof, DownTimeout, GetRemove, GetJoin
<1>2. CASE k # g
  <2>1. gpc'[k] = gpc[k] /\ upc'[k] = upc[k] /\ chan'[k] = chan[k] /\ vless'[k] = vless[k]
    BY <1>0, <1>2 DEF GetNext, GetOpen, GetRespond, GetRespondErr, DownForward, DownEof, DownTimeout,
                      GetRemove, GetJoin
  <2> QED
    BY <1>0, <1>1, <2>1, SamePath
<1>3. CASE k = g /\ GetOpen(g)
  <2>1. /\ log'[g] = <<>> /\ delivered'[g] = <<>> /\ up'[g] = <<>> /\ hand'[g] = <<>> /\ chan'[g] = <<>>
        /\ gpc'[g] = "open"
    BY <1>0, <1>1, <1>3 DEF GetOpen, PathOk, Fresh
  <2>2. <<>> \o <<>> = <<>> /\ Begins(<<>>, <<>>)
    BY DEF Begins
  <2>3. Stream(g)' = <<>>
    BY <2>1, <2>2, Zenon DEF Stream
  <2>4. NotYet(g)'
    BY <1>0, <1>3 DEF NotYet, PathOk, Fresh, GetOpen
  <2> QED
    BY <1>3, <2>1, <2>2, <2>3, <2>4 DEF PathOk, Whole, Fresh
<1>4. CASE k = g /\ ~GetOpen(g)
  <2>1. gpc'[g] # "idle" /\ (gpc'[g] = "open" => FALSE)
    BY <1>0, <1>4 DEF GetNext, GetRespond, GetRespondErr, DownForward, DownEof, DownTimeout, GetRemove, GetJoin
  <2>2. NotYet(g)'
    BY <2>1 DEF NotYet
  <2>3. CASE GetRespondErr(g)
    <3>1. gpc'[g] = "closed" /\ upc' = upc /\ gpc[g] = "open"
      BY <1>0, <2>3 DEF GetRespondErr
    <3>2. upc[g] = "off"
      BY <1>0, <1>4, <3>1 DEF PathOk, NotYet
    <3>3. ~Intact(g)'
      BY <3>1, <3>2 DEF Intact, RxAlive, Broken
    <3> QED
      BY <1>0, <1>1, <1>4, <2>1, <2>2, <3>3, QuietPath
  <2>4. CASE ~GetRespondErr(g)
    <3>1. chan' = chan
      BY <1>4, <2>4 DEF GetNext, GetRespond, DownForward, DownEof, DownTimeout, GetRemove, GetJoin
    <3>2. upc' = upc \/ gpc[g] = "open"
      BY <1>4, <2>4 DEF GetNext, GetRespond, DownForward, DownEof, DownTimeout, GetRemove, GetJoin
    <3>4. vless' = vless /\ gpc[g] # "closed"
      BY <1>4, <2>4 DEF GetNext, GetRespond, DownForward, DownEof, DownTimeout, GetRemove, GetJoin
    <3>3. Intact(g)' => Intact(g)
      BY <2>1, <3>2, <3>4 DEF Intact, RxAlive, Broken
    <3> QED
      BY <1>0, <1>1, <1>4, <2>1, <2>2, <3>1, <3>3, QuietPath
  <2> QED
    BY <2>3, <2>4
<1> QED
  BY <1>2, <1>3, <1>4

\* The upstream task moves chunks forward while it runs, and drops what it
\* and the channel hold when it ends.
LEMMA UpKeepsPaths ==
    ASSUME TypeOK, UploadInv, NEW g \in Gets, UpNext(g), NEW k \in Gets
    PROVE  PathOk(k)'
<1>0. /\ PathOk(k) /\ PathOk(g) /\ upc \in [Gets -> {"off", "run", "done"}]
      /\ chan \in [Gets -> Seq(Chunk)] /\ hand \in [Gets -> Seq(Chunk)] /\ up \in [Gets -> Seq(Chunk)]
  BY DEF UploadInv, TypeOK
<1>1. log' = log /\ delivered' = delivered /\ gpc' = gpc /\ vless' = vless
  BY DEF UpNext, UpRecv, UpWrite, UpWriteErr, UpClosed, UpTimeout, UpEnd
<1>2. CASE k # g
  <2>1. upc'[k] = upc[k] /\ chan'[k] = chan[k] /\ hand'[k] = hand[k] /\ up'[k] = up[k]
    BY <1>0, <1>2 DEF UpNext, UpRecv, UpWrite, UpWriteErr, UpClosed, UpTimeout, UpEnd
  <2> QED
    BY <1>0, <1>1, <2>1, SamePath
<1>3. upc[g] = "run" /\ gpc[g] # "idle" /\ gpc[g] # "open" /\ RxAlive(g)
  <2>1. upc[g] = "run"
    BY DEF UpNext, UpRecv, UpWrite, UpWriteErr, UpClosed, UpTimeout
  <2> QED
    BY <1>0, <2>1 DEF PathOk, NotYet, RxAlive
<1>4. log[g] = Stream(g)
  BY <1>0, <1>3 DEF PathOk, Whole, Intact
<1>5. NotYet(g)' /\ Fresh(g)'
  BY <1>1, <1>3 DEF NotYet, Fresh
<1>6. CASE k = g /\ UpRecv(g)
  <2>1. /\ hand[g] = <<>> /\ chan[g] # <<>> /\ hand'[g] = <<Head(chan[g])>> /\ chan'[g] = Tail(chan[g])
        /\ up' = up
    BY <1>0, <1>6 DEF UpRecv
  <2>2. delivered[g] \o up[g] \o <<Head(chan[g])>> \o Tail(chan[g]) = delivered[g] \o up[g] \o <<>> \o chan[g]
    <3> DEFINE s == delivered[g] \o up[g]
               q == chan[g]
    <3>1. s \in Seq(Chunk) /\ q \in Seq(Chunk) /\ q # <<>>
      BY <2>1, QueueTypes
    <3> HIDE DEF s, q
    <3>2. s \o <<Head(q)>> \o Tail(q) = s \o <<>> \o q
      BY <3>1, RecvKeepsStream, Zenon
    <3> QED
      BY <3>2 DEF s, q
  <2>3. Stream(g)' = Stream(g)
    BY <1>1, <2>1, <2>2 DEF Stream
  <2> QED
    BY <1>0, <1>1, <1>4, <1>5, <1>6, <2>1, <2>3 DEF PathOk, Whole
<1>7. CASE k = g /\ UpWrite(g)
  <2>1. up'[g] = up[g] \o hand[g] /\ hand'[g] = <<>> /\ chan' = chan
    BY <1>0, <1>7 DEF UpWrite
  <2>2. /\ delivered[g] \o (up[g] \o hand[g]) = delivered[g] \o up[g] \o hand[g]
        /\ delivered[g] \o (up[g] \o hand[g]) \o <<>> = delivered[g] \o up[g] \o hand[g]
    <3> DEFINE d == delivered[g]
               u == up[g]
               h == hand[g]
    <3>1. d \in Seq(Chunk) /\ u \in Seq(Chunk) /\ h \in Seq(Chunk)
      BY QueueTypes
    <3> HIDE DEF d, u, h
    <3>2. d \o (u \o h) = d \o u \o h /\ d \o (u \o h) \o <<>> = d \o u \o h
      BY <3>1, WriteKeepsStream, SMTT(30)
    <3> QED
      BY <3>2, Zenon DEF d, u, h
  <2>3. Stream(g)' = Stream(g)
    BY <1>1, <2>1, <2>2 DEF Stream
  <2>4. delivered[g] \o up'[g] = delivered[g] \o up[g] \o hand[g]
    BY <2>1, <2>2, Zenon
  <2>5. Begins(delivered[g] \o up[g] \o hand[g], log[g])
    BY <1>4, QueueTypes, ConcatBegins DEF Stream
  <2>6. Begins(delivered[g] \o up[g], log[g])'
    BY <1>1, <2>4, <2>5
  <2> QED
    BY <1>1, <1>4, <1>5, <1>7, <2>3, <2>6 DEF PathOk, Whole
<1>8. CASE k = g /\ UpEnd(g) /\ (vless[g] = "done" \/ (hand[g] = <<>> /\ chan[g] = <<>>))
  <2>1. upc'[g] = "done" /\ up' = up /\ hand'[g] = <<>> /\ chan'[g] = <<>>
    BY <1>0, <1>8 DEF UpEnd
  <2>2. ~RxAlive(g)'
    BY <1>1, <1>3, <2>1 DEF RxAlive
  <2>3. Intact(g)' => hand'[g] = hand[g] /\ chan'[g] = chan[g]
    BY <1>1, <1>8, <2>1, <2>2 DEF Intact, Broken
  <2>4. Intact(g)' => Intact(g)
    BY <1>3 DEF Intact
  <2> QED
    BY <1>0, <1>1, <1>3, <1>5, <1>8, <2>1, <2>3, <2>4, QuietPath
<1> QED
  BY <1>2, <1>6, <1>7, <1>8 DEF UpNext, UpWriteErr, UpClosed, UpTimeout

\* The VLESS handler reads the oldest chunk of the duplex.
LEMMA EnvKeepsPaths ==
    ASSUME TypeOK, UploadInv, NEW g \in Gets, EnvNext(g), NEW k \in Gets
    PROVE  PathOk(k)'
<1>0. /\ PathOk(k) /\ PathOk(g)
      /\ delivered \in [Gets -> Seq(Chunk)] /\ up \in [Gets -> Seq(Chunk)]
      /\ vless \in [Gets -> {"off", "run", "half", "done"}]
  BY DEF UploadInv, TypeOK
<1>1. log' = log /\ gpc' = gpc /\ upc' = upc /\ hand' = hand /\ chan' = chan
  BY DEF EnvNext, VlessRead, VlessWrite, VlessShut, VlessEnd, ClientReset
<1>2. CASE k # g \/ ~VlessRead(g)
  <2>1. up'[k] = up[k] /\ delivered'[k] = delivered[k] /\ (vless[k] = "done" => vless'[k] = "done")
    BY <1>0, <1>2 DEF EnvNext, VlessRead, VlessWrite, VlessShut, VlessEnd, ClientReset, Reading
  <2> QED
    BY <1>0, <1>1, <2>1, SamePath
<1>3. CASE k = g /\ VlessRead(g)
  <2>1. up[g] # <<>> /\ up'[g] = Tail(up[g]) /\ delivered'[g] = Append(delivered[g], Head(up[g]))
    BY <1>0, <1>3 DEF VlessRead
  <2>2. delivered'[g] \o up'[g] = delivered[g] \o up[g]
    BY <2>1, QueueTypes, MoveHead
  <2>3. Stream(g)' = Stream(g) /\ Intact(g)' = Intact(g)
    BY <1>1, <1>3, <2>2 DEF Stream, Intact, RxAlive, Broken, VlessRead
  <2>4. gpc[g] # "idle"
    BY <1>0, <2>1 DEF PathOk, Fresh
  <2>5. Fresh(g)' /\ NotYet(g)'
    BY <1>0, <1>1, <2>4 DEF PathOk, Fresh, NotYet
  <2>6. Whole(g)' /\ Begins(delivered[g] \o up[g], log[g])'
    BY <1>0, <1>1, <2>2, <2>3 DEF PathOk, Whole
  <2> QED
    BY <1>3, <2>5, <2>6 DEF PathOk
<1> QED
  BY <1>2, <1>3

\* A POST appends to the channel of the GET it was routed to, while that GET
\* still holds the receiver.
LEMMA PostKeepsPaths ==
    ASSUME TypeOK, UploadInv, NEW p \in Posts, PostNext(p), NEW k \in Gets
    PROVE  PathOk(k)'
<1>0. /\ PathOk(k) /\ read \in [Posts -> 0..MaxChunks]
      /\ log \in [Gets -> Seq(Chunk)] /\ chan \in [Gets -> Seq(Chunk)]
  BY DEF UploadInv, TypeOK
<1>1. gpc' = gpc /\ upc' = upc /\ hand' = hand /\ up' = up /\ delivered' = delivered /\ vless' = vless
  BY DEF PostNext, PostArrive, PostPoll, PostLookup, PostChunk, PostAck, PostFail, getVars
<1>2. CASE log'[k] = log[k] /\ chan'[k] = chan[k]
  BY <1>0, <1>1, <1>2, SamePath
<1>3. CASE PostChunk(p) /\ tx[p] = k /\ RxAlive(k)
  <2> DEFINE c == [post |-> p, n |-> read[p] + 1]
  <2>1. c \in Chunk
    <3>1. read[p] < MaxChunks
      BY <1>3 DEF PostChunk
    <3>2. read[p] + 1 \in 1..MaxChunks
      BY <1>0, <3>1, XhttpAssumption
    <3> QED
      BY <3>2 DEF Chunk
  <2>2. chan'[k] = Append(chan[k], c) /\ log'[k] = Append(log[k], c)
    BY <1>0, <1>3 DEF PostChunk
  <2> HIDE DEF c
  <2>3. log[k] = Stream(k)
    BY <1>0, <1>3 DEF PathOk, Whole, Intact
  <2>4. (delivered[k] \o up[k] \o hand[k]) \o Append(chan[k], c)
          = Append((delivered[k] \o up[k] \o hand[k]) \o chan[k], c)
    <3> DEFINE l == delivered[k] \o up[k] \o hand[k]
               r == chan[k]
    <3>1. l \in Seq(Chunk) /\ r \in Seq(Chunk)
      BY QueueTypes
    <3> HIDE DEF l, r
    <3>2. l \o Append(r, c) = Append(l \o r, c)
      BY <2>1, <3>1, AppendLast
    <3> QED
      BY <3>2, Zenon DEF l, r
  <2>5. Whole(k)'
    BY <1>1, <2>2, <2>3, <2>4 DEF Whole, Stream
  <2>6. Begins(delivered[k] \o up[k], Append(log[k], c))
    BY <1>0, <2>1, QueueTypes, BeginsAppend DEF PathOk
  <2>7. Fresh(k)' /\ NotYet(k)'
    <3>1. gpc[k] # "idle"
      BY <1>0, <1>3 DEF PathOk, Fresh, RxAlive
    <3> QED
      BY <1>0, <1>1, <3>1 DEF PathOk, Fresh, NotYet
  <2> QED
    BY <1>1, <2>2, <2>5, <2>6, <2>7 DEF PathOk
<1>4. PostChunk(p) /\ ~(tx[p] = k /\ RxAlive(k)) => log'[k] = log[k] /\ chan'[k] = chan[k]
  BY <1>0 DEF PostChunk
<1>5. ~PostChunk(p) => log' = log /\ chan' = chan
  BY DEF PostNext, PostArrive, PostPoll, PostLookup, PostAck, PostFail
<1> QED
  BY <1>2, <1>3, <1>4, <1>5

\* The paths stay whole.
LEMMA UploadInvariant == Spec => []UploadInv
<1>1. Init => UploadInv
  <2> SUFFICES ASSUME Init, NEW g \in Gets PROVE PathOk(g)
    BY DEF UploadInv
  <2>1. /\ log[g] = <<>> /\ delivered[g] = <<>> /\ up[g] = <<>> /\ hand[g] = <<>> /\ chan[g] = <<>>
        /\ gpc[g] = "idle" /\ upc[g] = "off"
    BY DEF Init
  <2>2. <<>> \o <<>> = <<>> /\ Begins(<<>>, <<>>)
    BY DEF Begins
  <2> QED
    BY <2>1, <2>2 DEF PathOk, Whole, Fresh, NotYet, Stream
<1>2. TypeOK /\ UploadInv /\ [Next]_vars => UploadInv'
  <2> SUFFICES ASSUME TypeOK, UploadInv, [Next]_vars, NEW k \in Gets PROVE PathOk(k)'
    BY DEF UploadInv
  <2>1. UNCHANGED vars => PathOk(k)'
    <3>1. PathOk(k)
      BY DEF UploadInv
    <3> QED
      BY <3>1, SamePath DEF vars
  <2> QED
    BY <2>1, GetKeepsPaths, UpKeepsPaths, EnvKeepsPaths, PostKeepsPaths DEF Next
<1> QED
  BY <1>1, <1>2, XhttpTypes, PTL DEF Spec

\* The upload path of every GET is a pipe (h2.rs:458-474, 502-514): what the
\* VLESS handler reads is what the POSTs' chunks were accepted as, in order,
\* whatever the number of requests and the capacity of the duplex.
THEOREM UploadImplementsPipe == Spec => UploadIsPipe
<1>1. Init => Upload!Init
  BY DEF Init, Upload!Init
<1>2. TypeInv /\ UploadInv /\ [Next]_vars => [Upload!Next]_(Upload!pipeVars)
  <2> SUFFICES ASSUME TypeInv, UploadInv, [Next]_vars PROVE [Upload!Next]_(Upload!pipeVars)
    OBVIOUS
  <2>0. TypeOK /\ \A p \in Posts : PostRule(p)
    BY DEF TypeInv
  <2>1. ASSUME NEW p \in Posts, PostChunk(p), RxAlive(tx[p]) PROVE Upload!Next
    <3> DEFINE c == [post |-> p, n |-> read[p] + 1]
    <3>1. c \in Chunk
      <4>1. read[p] \in 0..MaxChunks /\ read[p] < MaxChunks
        BY <2>0, <2>1 DEF TypeOK, PostChunk
      <4> QED
        BY <4>1, XhttpAssumption DEF Chunk
    <3>2. tx[p] \in Gets
      BY <2>0, <2>1 DEF PostChunk, PostRule
    <3>3. Upload!Accept(tx[p], c)
      BY <2>1 DEF PostChunk, Upload!Accept, getVars
    <3> QED
      BY <3>1, <3>2, <3>3 DEF Upload!Next
  <2>2. ASSUME NEW g \in Gets, VlessRead(g) PROVE Upload!Next
    <3>1. /\ up[g] # <<>> /\ log' = log
          /\ delivered' = [delivered EXCEPT ![g] = Append(delivered[g], Head(up[g]))]
      BY <2>2 DEF VlessRead
    <3>2. Begins(delivered[g] \o up[g], log[g])
      BY DEF UploadInv, PathOk
    <3>3. Len(delivered[g]) < Len(delivered[g] \o up[g]) /\ (delivered[g] \o up[g])[Len(delivered[g]) + 1] = Head(up[g])
      <4>1. delivered[g] \in Seq(Chunk) /\ up[g] \in Seq(Chunk)
        BY <2>0, QueueTypes
      <4> QED
        BY <3>1, <4>1, NextChunk, Zenon
    <3>4. Len(delivered[g]) \in Nat /\ Len(delivered[g] \o up[g]) \in Nat /\ Len(log[g]) \in Nat
      <4>1. delivered[g] \in Seq(Chunk) /\ delivered[g] \o up[g] \in Seq(Chunk) /\ log[g] \in Seq(Chunk)
        BY <2>0, QueueTypes
      <4> QED
        BY <4>1, LenNat, Zenon
    <3>5. Len(delivered[g]) < Len(log[g]) /\ log[g][Len(delivered[g]) + 1] = Head(up[g])
      <4> DEFINE all == delivered[g] \o up[g]
                 n == Len(delivered[g])
      <4>1. /\ Len(all) <= Len(log[g]) /\ \A i \in 1..Len(all) : all[i] = log[g][i]
            /\ n < Len(all) /\ all[n + 1] = Head(up[g]) /\ n \in Nat /\ Len(all) \in Nat
        BY <3>2, <3>3, <3>4, Zenon DEF Begins
      <4> HIDE DEF all, n
      <4>2. n < Len(log[g]) /\ log[g][n + 1] = Head(up[g])
        BY <3>4, <4>1
      <4> QED
        BY <4>2 DEF n
    <3> QED
      BY <3>1, <3>5 DEF Upload!Next, Upload!Deliver
  <2>3. CASE log' = log /\ delivered' = delivered
    BY <2>3 DEF Upload!pipeVars
  <2>4. ASSUME NEW p \in Posts, PostNext(p), ~(PostChunk(p) /\ RxAlive(tx[p]))
        PROVE  log' = log /\ delivered' = delivered
    BY <2>4 DEF PostNext, PostArrive, PostPoll, PostLookup, PostChunk, PostAck, PostFail, getVars
  <2>5. ASSUME NEW g \in Gets, GetNext(g) \/ UpNext(g) \/ (EnvNext(g) /\ ~VlessRead(g))
        PROVE  log' = log /\ delivered' = delivered
    BY <2>5 DEF GetNext, GetOpen, GetRespond, GetRespondErr, DownForward, DownEof, DownTimeout, GetRemove,
                GetJoin, UpNext, UpRecv, UpWrite, UpWriteErr, UpClosed, UpTimeout, UpEnd,
                EnvNext, VlessWrite, VlessShut, VlessEnd, ClientReset
  <2>6. UNCHANGED vars => log' = log /\ delivered' = delivered
    BY DEF vars
  <2> QED
    BY <2>1, <2>2, <2>3, <2>4, <2>5, <2>6 DEF Next
<1> QED
  BY <1>1, <1>2, TypeInvariant, UploadInvariant, PTL DEF Spec, UploadIsPipe, Upload!Spec
=============================================================================
