-------------------------- MODULE XhttpBodyProofs --------------------------
(* Proofs about XhttpSession, for every set of requests and every bound:   *)
(* what the POSTs put into a session, what the handler reads of it, and    *)
(* what the client is shown of the handler's answer.                       *)
EXTENDS XhttpSessionProofs

\* A POST that has found a session has found one whose GET is under way; one
\* that has not has read nothing of its body.  The POSTs that were answered
\* before it came stay answered.
Routed(p) == ppc[p] \in {"forward", "acked", "failed"}
Progress(p) ==
    /\ ~Routed(p) => read[p] = 0
    /\ Routed(p) => tx[p] \in Gets /\ gpc[tx[p]] # "idle"
    /\ \A q \in before[p] : ppc[q] = "acked"

\* While the receiver lives, every chunk that was read has been accepted.
Entered(p) == Routed(p) /\ RxAlive(tx[p]) =>
    \A n \in 1..read[p] : \E i \in 1..Len(log[tx[p]]) : log[tx[p]][i] = [post |-> p, n |-> n]

\* A sequence of chunks that to routes to g, of each POST the next chunk or
\* none; how much of each body it holds, and the order of the POSTs.
Bodies(s, g, to) ==
    \A i \in 1..Len(s) :
       /\ to[s[i].post] = g
       /\ \A j \in 1..(i-1) : s[j].post = s[i].post => s[j].n < s[i].n
       /\ s[i].n > 1 => \E j \in 1..(i-1) : s[j] = [post |-> s[i].post, n |-> s[i].n - 1]
ReadOk(s, most) == \A i \in 1..Len(s) : s[i].n <= most[s[i].post]
Sequential(s, earlier) == \A i, j \in 1..Len(s) : s[i].post \in earlier[s[j].post] => i < j
LogOk(g) == Bodies(log[g], g, tx) /\ ReadOk(log[g], read) /\ Sequential(log[g], before)

BodyInv == /\ \A p \in Posts : Progress(p) /\ Entered(p)
           /\ \A g \in Gets : LogOk(g)

\* The response: what was sent counts from 1, and while the download runs what
\* the duplex holds goes on from there up to what the handler wrote.  It ends
\* with the handler only when everything was sent.
DownOk(g) ==
    /\ \A i \in 1..Len(shown[g]) : shown[g][i] = i
    /\ gpc[g] \in {"idle", "open", "stream"} =>
         /\ eos[g] = "none" /\ wrote[g] = Len(shown[g]) + Len(down[g])
         /\ \A i \in 1..Len(down[g]) : down[g][i] = Len(shown[g]) + i
    /\ eos[g] = "eof" => vless[g] \in {"half", "done"} /\ wrote[g] = Len(shown[g])
DownInv == \A g \in Gets : DownOk(g)

\* A beginning of a sequence of bodies is one, and is in order if the whole is.
LEMMA BeginningKeepsBodies ==
    ASSUME NEW s, Len(s) \in Nat, NEW t, Len(t) \in Nat, NEW g, NEW to, NEW earlier,
           Begins(s, t), Bodies(t, g, to), Sequential(t, earlier)
    PROVE  Bodies(s, g, to) /\ Sequential(s, earlier)
<1>1. Len(s) <= Len(t) /\ \A i \in 1..Len(s) : i \in 1..Len(t) /\ s[i] = t[i]
  BY DEF Begins
<1>2. ASSUME NEW i \in 1..Len(s)
      PROVE  /\ to[s[i].post] = g
             /\ \A j \in 1..(i-1) : s[j].post = s[i].post => s[j].n < s[i].n
             /\ s[i].n > 1 => \E j \in 1..(i-1) : s[j] = [post |-> s[i].post, n |-> s[i].n - 1]
  <2>1. i \in 1..Len(t) /\ s[i] = t[i] /\ \A j \in 1..(i-1) : j \in 1..Len(s) /\ s[j] = t[j]
    BY <1>1
  <2> QED
    BY <2>1, Zenon DEF Bodies
<1>3. Sequential(s, earlier)
  BY <1>1, Zenon DEF Sequential
<1> QED
  BY <1>2, <1>3, Zenon DEF Bodies

\* One more chunk, of which all before it are there.
LEMMA OneMoreChunk ==
    ASSUME NEW s, NEW t, NEW m \in Nat, Len(s) = m, Len(t) = m + 1, \A i \in 1..m : t[i] = s[i],
           NEW g, NEW to, Bodies(s, g, to), to[t[m + 1].post] = g,
           \A j \in 1..m : t[j].post = t[m + 1].post => t[j].n < t[m + 1].n,
           t[m + 1].n > 1 => \E j \in 1..m : t[j] = [post |-> t[m + 1].post, n |-> t[m + 1].n - 1]
    PROVE  Bodies(t, g, to)
<1> SUFFICES ASSUME NEW i \in 1..Len(t)
             PROVE  /\ to[t[i].post] = g
                    /\ \A j \in 1..(i-1) : t[j].post = t[i].post => t[j].n < t[i].n
                    /\ t[i].n > 1 => \E j \in 1..(i-1) : t[j] = [post |-> t[i].post, n |-> t[i].n - 1]
  BY Zenon DEF Bodies
<1>1. i \in 1..m \/ (i = m + 1 /\ i - 1 = m)
  OBVIOUS
<1>2. CASE i \in 1..m
  <2>1. t[i] = s[i] /\ \A j \in 1..(i-1) : t[j] = s[j]
    BY <1>2
  <2>2. i \in 1..Len(s)
    BY <1>2
  <2>3. /\ to[s[i].post] = g
        /\ \A j \in 1..(i-1) : s[j].post = s[i].post => s[j].n < s[i].n
        /\ s[i].n > 1 => \E j \in 1..(i-1) : s[j] = [post |-> s[i].post, n |-> s[i].n - 1]
    BY <2>2, Zenon DEF Bodies
  <2> QED
    BY <2>1, <2>3, Zenon
<1> QED
  BY <1>1, <1>2, Zenon

\* One more chunk, of a POST that came before none of the others.
LEMMA OneMoreInOrder ==
    ASSUME NEW s, NEW t, NEW m \in Nat, Len(s) = m, Len(t) = m + 1, \A i \in 1..m : t[i] = s[i],
           NEW earlier, Sequential(s, earlier), \A j \in 1..m + 1 : t[m + 1].post \notin earlier[t[j].post]
    PROVE  Sequential(t, earlier)
<1> SUFFICES ASSUME NEW i \in 1..m + 1, NEW j \in 1..m + 1, t[i].post \in earlier[t[j].post] PROVE i < j
  BY DEF Sequential
<1>1. (i \in 1..m \/ i = m + 1) /\ (j \in 1..m \/ (j = m + 1 /\ (i \in 1..m => i < j)))
  OBVIOUS
<1>2. CASE i \in 1..m /\ j \in 1..m
  BY <1>2, Zenon DEF Sequential
<1> QED
  BY <1>1, <1>2, Zenon

\* A session that accepts nothing, of whose POSTs more may have been read.
LEMMA QuietLog ==
    ASSUME TypeOK, NEW g \in Gets, LogOk(g), log'[g] = log[g], tx' = tx, before' = before,
           \A q \in Posts : read[q] \in Nat /\ read'[q] \in Nat /\ read[q] <= read'[q]
    PROVE  LogOk(g)'
<1>1. \A i \in 1..Len(log[g]) : log[g][i].post \in Posts /\ log[g][i].n \in Nat
  <2>1. \A i \in 1..Len(log[g]) : log[g][i] \in Chunk
    BY DEF TypeOK
  <2> QED
    BY <2>1 DEF Chunk
<1>2. ASSUME NEW i \in 1..Len(log[g]) PROVE log[g][i].n <= read'[log[g][i].post]
  <2>1. log[g][i].n <= read[log[g][i].post]
    BY DEF LogOk, ReadOk
  <2> QED
    BY <1>1, <2>1
<1>3. ReadOk(log[g], read')
  BY <1>2 DEF ReadOk
<1> QED
  BY <1>3, Zenon DEF LogOk

\* Tasks that leave the POSTs and the accepted chunks alone keep what is known
\* of them, since a receiver that is gone does not come back.
LEMMA OthersKeepBodies ==
    ASSUME BodyInv, UNCHANGED <<ppc, tx, read, before, log>>,
           \A g \in Gets : gpc[g] # "idle" => gpc'[g] # "idle" /\ (RxAlive(g)' => RxAlive(g))
    PROVE  BodyInv'
<1>1. \A p \in Posts : Progress(p)'
  BY DEF BodyInv, Progress, Routed
<1>2. ASSUME NEW p \in Posts PROVE Entered(p)'
  <2>1. Progress(p) /\ Entered(p)
    BY DEF BodyInv
  <2>2. Routed(p) => (RxAlive(tx[p])' => RxAlive(tx[p]))
    BY <2>1 DEF Progress
  <2> QED
    BY <2>1, <2>2 DEF Entered, Routed
<1>3. \A g \in Gets : LogOk(g)'
  BY Zenon DEF BodyInv, LogOk
<1> QED
  BY <1>1, <1>2, <1>3, Zenon DEF BodyInv

\* The tasks of a GET do so.
LEMMA GetsKeepBodies ==
    ASSUME TypeOK, BodyInv, NEW k \in Gets, GetNext(k) \/ UpNext(k) \/ EnvNext(k)
    PROVE  BodyInv'
<1>0. /\ gpc \in [Gets -> {"idle", "open", "stream", "ended", "joining", "closed"}]
      /\ upc \in [Gets -> {"off", "run", "done"}]
  BY DEF TypeOK
<1>1. CASE GetNext(k)
  <2>1. UNCHANGED <<ppc, tx, read, before, log>>
    BY <1>1 DEF GetNext, GetOpen, GetRespond, GetRespondErr, DownForward, DownEof, DownTimeout, GetRemove,
                GetJoin, postVars
  <2>2. ASSUME NEW g \in Gets, gpc[g] # "idle"
        PROVE  gpc'[g] # "idle" /\ (RxAlive(g)' => RxAlive(g))
    BY <1>0, <1>1, <2>2 DEF GetNext, GetOpen, GetRespond, GetRespondErr, DownForward, DownEof, DownTimeout,
                            GetRemove, GetJoin, RxAlive
  <2> QED
    BY <2>1, <2>2, OthersKeepBodies
<1>2. CASE UpNext(k)
  <2>1. UNCHANGED <<ppc, tx, read, before, log, gpc>>
    BY <1>2 DEF UpNext, UpRecv, UpWrite, UpWriteErr, UpClosed, UpTimeout, UpEnd, postVars
  <2>2. ASSUME NEW g \in Gets PROVE RxAlive(g)' => RxAlive(g)
    BY <1>0, <1>2, <2>1 DEF UpNext, UpRecv, UpWrite, UpWriteErr, UpClosed, UpTimeout, UpEnd, RxAlive
  <2> QED
    BY <2>1, <2>2, OthersKeepBodies
<1>3. CASE EnvNext(k)
  <2>1. UNCHANGED <<ppc, tx, read, before, log, gpc, upc>>
    BY <1>3 DEF EnvNext, VlessRead, VlessWrite, VlessShut, VlessEnd, ClientReset, postVars
  <2> QED
    BY <2>1, OthersKeepBodies DEF RxAlive
<1> QED
  BY <1>1, <1>2, <1>3

\* A POST that is not yet routed has put nothing into any session.
LEMMA NothingBeforeRouting ==
    ASSUME TypeOK, BodyInv, NEW p \in Posts, ~Routed(p), NEW g \in Gets, NEW i \in 1..Len(log[g])
    PROVE  log[g][i].post \in Posts \ {p}
<1>1. read[p] = 0
  BY DEF BodyInv, Progress
<1>2. log[g][i] \in Chunk
  BY DEF TypeOK
<1>3. log[g][i].post \in Posts /\ log[g][i].n \in 1..MaxChunks /\ log[g][i].n <= read[log[g][i].post]
  BY <1>2 DEF BodyInv, LogOk, ReadOk, Chunk
<1> QED
  BY <1>1, <1>3

\* A POST arrives, and waits for its session.
LEMMA WaitingKeepsBodies ==
    ASSUME TypeOK, BodyInv, NEW p \in Posts, PostArrive(p) \/ PostPoll(p)
    PROVE  BodyInv'
<1>0. /\ ppc \in [Posts -> {"idle", "poll", "lookup", "forward", "acked", "failed", "standalone"}]
      /\ before \in [Posts -> SUBSET Posts]
  BY DEF TypeOK
<1>1. UNCHANGED <<tx, read, log, gpc, upc>>
  BY DEF PostArrive, PostPoll, getVars
<1>2. /\ ~Routed(p) /\ ~Routed(p)' /\ ppc[p] # "acked"
      /\ \A q \in Posts \ {p} : ppc'[q] = ppc[q] /\ before'[q] = before[q]
      /\ before'[p] = before[p] \/ before'[p] = {q \in Posts : ppc[q] = "acked"}
  <2>1. CASE PostArrive(p)
    BY <1>0, <2>1 DEF PostArrive, Routed
  <2>2. CASE PostPoll(p)
    <3>1. before' = before /\ (ppc' = [ppc EXCEPT ![p] = "lookup"] \/ ppc' = [ppc EXCEPT ![p] = "poll"])
      BY <2>2 DEF PostPoll
    <3> QED
      BY <1>0, <2>2, <3>1 DEF PostPoll, Routed
  <2> QED
    BY <2>1, <2>2
<1>3. ASSUME NEW q \in Posts PROVE Progress(q)' /\ Entered(q)'
  <2>1. Progress(q) /\ Entered(q) /\ Progress(p)
    BY DEF BodyInv
  <2>2. Routed(q)' = Routed(q)
    BY <1>2 DEF Routed
  <2>3. \A r \in before'[q] : ppc'[r] = "acked"
    <3>1. ASSUME NEW r \in before'[q] PROVE r \in Posts /\ ppc[r] = "acked"
      BY <1>0, <1>2, <2>1, <3>1 DEF Progress
    <3> QED
      BY <1>2, <3>1
  <2>4. Progress(q)'
    BY <1>1, <2>1, <2>2, <2>3 DEF Progress
  <2>5. Entered(q)'
    BY <1>1, <2>1, <2>2 DEF Entered, RxAlive
  <2> QED
    BY <2>4, <2>5
<1>4. ASSUME NEW g \in Gets PROVE LogOk(g)'
  <2>1. LogOk(g)
    BY DEF BodyInv
  <2>2. \A i \in 1..Len(log[g]) : before'[log[g][i].post] = before[log[g][i].post]
    BY <1>2, NothingBeforeRouting
  <2>3. Sequential(log[g], before')
    BY <2>1, <2>2 DEF Sequential, LogOk
  <2> QED
    BY <1>1, <2>1, <2>3, Zenon DEF LogOk
<1> QED
  BY <1>3, <1>4, Zenon DEF BodyInv

\* A POST finds its session, whose GET is under way.
LEMMA LookupKeepsBodies ==
    ASSUME TypeOK, SessionInv, BodyInv, NEW p \in Posts, PostLookup(p)
    PROVE  BodyInv'
<1>0. /\ ppc \in [Posts -> {"idle", "poll", "lookup", "forward", "acked", "failed", "standalone"}]
      /\ tx \in [Posts -> Gets \cup {NoGet}] /\ sessions \in [Paths -> Gets \cup {NoGet}]
      /\ before \in [Posts -> SUBSET Posts] /\ PathOf[p] \in Paths
  BY XhttpAssumption DEF TypeOK
<1>1. UNCHANGED <<read, log, gpc, upc, before>> /\ ppc[p] = "lookup"
  BY DEF PostLookup, getVars
<1>2. /\ \A q \in Posts \ {p} : ppc'[q] = ppc[q] /\ tx'[q] = tx[q]
      /\ \/ ppc'[p] = "forward" /\ tx'[p] \in Gets /\ gpc[tx'[p]] # "idle"
         \/ ppc'[p] = "standalone" /\ tx'[p] = tx[p]
  <2>1. CASE sessions[PathOf[p]] # NoGet
    <3>1. ppc' = [ppc EXCEPT ![p] = "forward"] /\ tx' = [tx EXCEPT ![p] = sessions[PathOf[p]]]
      BY <2>1 DEF PostLookup
    <3>2. sessions[PathOf[p]] \in Gets /\ gpc[sessions[PathOf[p]]] # "idle"
      BY <1>0, <2>1 DEF SessionInv, SessionOwnerLive
    <3> QED
      BY <1>0, <3>1, <3>2
  <2>2. CASE sessions[PathOf[p]] = NoGet
    BY <1>0, <2>2 DEF PostLookup
  <2> QED
    BY <2>1, <2>2
<1>3. ~Routed(p) /\ read[p] = 0
  BY <1>1 DEF BodyInv, Progress, Routed
<1>4. ASSUME NEW q \in Posts PROVE Progress(q)' /\ Entered(q)'
  <2>1. Progress(q) /\ Entered(q)
    BY DEF BodyInv
  <2>2. \A r \in before'[q] : ppc'[r] = "acked"
    BY <1>0, <1>1, <1>2, <2>1 DEF Progress
  <2>3. CASE q = p
    BY <1>1, <1>2, <1>3, <2>2, <2>3 DEF Progress, Entered, Routed
  <2>4. CASE q # p
    <3>1. ppc'[q] = ppc[q] /\ tx'[q] = tx[q]
      BY <1>2, <2>4
    <3>2. Progress(q)'
      BY <1>1, <2>1, <2>2, <3>1 DEF Progress, Routed
    <3>3. Entered(q)'
      BY <1>1, <2>1, <3>1 DEF Entered, Routed, RxAlive
    <3> QED
      BY <3>2, <3>3
  <2> QED
    BY <2>3, <2>4
<1>5. ASSUME NEW g \in Gets PROVE LogOk(g)'
  <2>1. LogOk(g)
    BY DEF BodyInv
  <2>2. \A i \in 1..Len(log[g]) : tx'[log[g][i].post] = tx[log[g][i].post]
    BY <1>2, <1>3, NothingBeforeRouting
  <2>3. Bodies(log[g], g, tx')
    BY <2>1, <2>2, Zenon DEF Bodies, LogOk
  <2> QED
    BY <1>1, <2>1, <2>3, Zenon DEF LogOk
<1> QED
  BY <1>4, <1>5, Zenon DEF BodyInv

\* The reply, or its failure.
LEMMA ReplyKeepsBodies ==
    ASSUME TypeOK, BodyInv, NEW p \in Posts, PostAck(p) \/ PostFail(p)
    PROVE  BodyInv'
<1>0. /\ ppc \in [Posts -> {"idle", "poll", "lookup", "forward", "acked", "failed", "standalone"}]
      /\ before \in [Posts -> SUBSET Posts]
  BY DEF TypeOK
<1>1. UNCHANGED <<tx, read, log, gpc, upc, before>> /\ ppc[p] = "forward"
  BY DEF PostAck, PostFail, getVars
<1>2. ppc'[p] \in {"acked", "failed"} /\ \A q \in Posts \ {p} : ppc'[q] = ppc[q]
  BY <1>0 DEF PostAck, PostFail
<1>3. ASSUME NEW q \in Posts PROVE Progress(q)' /\ Entered(q)'
  <2>1. Progress(q) /\ Entered(q)
    BY DEF BodyInv
  <2>2. \A r \in before'[q] : ppc'[r] = "acked"
    BY <1>0, <1>1, <1>2, <2>1 DEF Progress
  <2>3. Routed(q)' = Routed(q)
    BY <1>1, <1>2 DEF Routed
  <2>4. Progress(q)'
    BY <1>1, <2>1, <2>2, <2>3 DEF Progress
  <2>5. Entered(q)'
    BY <1>1, <2>1, <2>3 DEF Entered, RxAlive
  <2> QED
    BY <2>4, <2>5
<1>4. \A g \in Gets : LogOk(g)'
  BY <1>1, Zenon DEF BodyInv, LogOk
<1> QED
  BY <1>3, <1>4, Zenon DEF BodyInv

\* A chunk that is accepted: it is the next one of its body, and all before it
\* were accepted.
LEMMA AcceptKeepsBodies ==
    ASSUME TypeOK, BodyInv, NEW p \in Posts, PostChunk(p), NEW g \in Gets, tx[p] = g, RxAlive(g)
    PROVE  BodyInv'
<1>1. /\ UNCHANGED <<ppc, tx, gpc, upc, before>> /\ ppc[p] = "forward" /\ Routed(p) /\ read[p] < MaxChunks
      /\ read' = [read EXCEPT ![p] = read[p] + 1]
      /\ log' = [log EXCEPT ![g] = Append(log[g], [post |-> p, n |-> read[p] + 1])]
  BY DEF PostChunk, getVars, Routed
<1>2. /\ \A q \in Posts \ {p} : read'[q] = read[q]
      /\ read'[p] = read[p] + 1 /\ \A q \in Posts : read[q] \in Nat /\ read'[q] \in Nat /\ read[q] <= read'[q]
  BY <1>1 DEF TypeOK
<1>3. PICK c \in Chunk : c = [post |-> p, n |-> read[p] + 1]
  <2>1. read[p] \in 0..MaxChunks /\ read[p] < MaxChunks /\ MaxChunks \in Nat
    BY <1>1, XhttpAssumption DEF TypeOK
  <2>2. read[p] + 1 \in 1..MaxChunks
    BY <2>1
  <2> QED
    BY <2>2 DEF Chunk
<1>4. PICK s \in Seq(Chunk) : s = log[g]
  BY DEF TypeOK
<1>5. PICK t \in Seq(Chunk), m \in Nat : /\ log'[g] = t /\ m = Len(s) /\ Len(t) = m + 1 /\ t[m + 1] = c
                                        /\ \A i \in 1..m : t[i] = s[i] /\ t[i] \in Chunk
  <2>1. log'[g] = Append(s, c)
    BY <1>1, <1>3, <1>4 DEF TypeOK
  <2>2. /\ Len(s) \in Nat /\ Len(Append(s, c)) = Len(s) + 1 /\ Append(s, c)[Len(s) + 1] = c
        /\ \A i \in 1..Len(s) : Append(s, c)[i] = s[i]
        /\ Append(s, c) \in Seq(Chunk)
    OBVIOUS
  <2>3. \A i \in 1..Len(s) : s[i] \in Chunk
    OBVIOUS
  <2> QED
    BY <2>1, <2>2, <2>3, Zenon
<1>6. \A k \in Gets \ {g} : log'[k] = log[k]
  BY <1>1 DEF TypeOK
<1>7. /\ Bodies(s, g, tx) /\ ReadOk(s, read) /\ Sequential(s, before)
      /\ \A n \in 1..read[p] : \E i \in 1..m : s[i] = [post |-> p, n |-> n]
  <2>1. Entered(p) /\ LogOk(g)
    BY DEF BodyInv
  <2>2. \A n \in 1..read[p] : \E i \in 1..Len(log[g]) : log[g][i] = [post |-> p, n |-> n]
    BY <1>1, <2>1, Zenon DEF Entered
  <2> QED
    BY <1>4, <1>5, <2>1, <2>2, Zenon DEF LogOk
<1>8. c.post = p /\ c.n = read[p] + 1 /\ c.n - 1 = read[p] /\ \A j \in 1..m : t[j].post \in Posts /\ t[j].n \in Nat
  BY <1>2, <1>3, <1>5 DEF Chunk
<1>9. \A q \in Posts : Progress(q)'
  BY <1>1, <1>2 DEF BodyInv, Progress, Routed
<1>10. ASSUME NEW q \in Posts, NEW n \in 1..read'[q], Routed(q), RxAlive(tx[q])
      PROVE  \E i \in 1..Len(log'[tx[q]]) : log'[tx[q]][i] = [post |-> q, n |-> n]
  <2>1. tx[q] \in Gets
    BY <1>10 DEF BodyInv, Progress
  <2>2. CASE n \in 1..read[q]
    <3>1. PICK i \in 1..Len(log[tx[q]]) : log[tx[q]][i] = [post |-> q, n |-> n]
      BY <1>10, <2>2 DEF BodyInv, Entered
    <3>2. i \in 1..Len(log'[tx[q]]) /\ log'[tx[q]][i] = log[tx[q]][i]
      <4>1. CASE tx[q] = g
        <5>1. i \in 1..m /\ i \in 1..m + 1
          BY <1>4, <1>5, <4>1
        <5> QED
          BY <1>4, <1>5, <4>1, <5>1, Zenon
      <4>2. CASE tx[q] # g
        BY <1>6, <2>1, <4>2
      <4> QED
        BY <4>1, <4>2
    <3> QED
      BY <3>1, <3>2
  <2>3. CASE n \notin 1..read[q]
    <3>1. q = p /\ n = read[p] + 1
      BY <1>2, <2>3
    <3>2. m + 1 \in 1..m + 1
      OBVIOUS
    <3> QED
      BY <1>3, <1>5, <3>1, <3>2, Zenon
  <2> QED
    BY <2>2, <2>3
<1>11. \A q \in Posts : Entered(q)'
  <2> SUFFICES ASSUME NEW q \in Posts, Routed(q)', RxAlive(tx[q])', NEW n \in 1..read'[q]
               PROVE  \E i \in 1..Len(log'[tx'[q]]) : log'[tx'[q]][i] = [post |-> q, n |-> n]
    BY DEF Entered
  <2>1. tx'[q] = tx[q] /\ Routed(q) /\ RxAlive(tx[q])
    BY <1>1 DEF Routed, RxAlive
  <2> QED
    BY <1>10, <2>1
<1>12. Bodies(t, g, tx)
  <2>1. ASSUME NEW j \in 1..m, t[j].post = t[m + 1].post PROVE t[j].n < t[m + 1].n
    <3>1. t[j].n <= read[p] /\ t[j].n \in Nat /\ t[m + 1].n = read[p] + 1
      BY <1>5, <1>7, <1>8, <2>1 DEF ReadOk
    <3> QED
      BY <1>2, <3>1
  <2>2. ASSUME t[m + 1].n > 1 PROVE \E j \in 1..m : t[j] = [post |-> t[m + 1].post, n |-> t[m + 1].n - 1]
    <3>1. read[p] \in 1..read[p]
      BY <1>2, <1>5, <1>8, <2>2
    <3> QED
      BY <1>5, <1>7, <1>8, <3>1, Zenon
  <2>3. tx[t[m + 1].post] = g
    BY <1>5, <1>8, Zenon
  <2>4. Len(s) = m /\ Len(t) = m + 1 /\ (\A i \in 1..m : t[i] = s[i]) /\ Bodies(s, g, tx)
    BY <1>5, <1>7
  <2> QED
    BY <2>1, <2>2, <2>3, <2>4, OneMoreChunk
<1>13. ReadOk(t, read')
  <2> SUFFICES ASSUME NEW i \in 1..m + 1 PROVE t[i].n <= read'[t[i].post]
    BY <1>5 DEF ReadOk
  <2>1. CASE i \in 1..m
    <3>1. t[i].post \in Posts /\ t[i].n \in Nat /\ t[i].n <= read[t[i].post]
      BY <1>5, <1>7, <1>8, <2>1, Zenon DEF ReadOk
    <3> QED
      BY <1>2, <3>1
  <2>2. CASE i = m + 1
    <3>1. t[i].n = read'[t[i].post]
      BY <1>2, <1>5, <1>8, <2>2, Zenon
    <3> QED
      BY <1>2, <1>5, <1>8, <2>2, <3>1
  <2> QED
    BY <2>1, <2>2
<1>14. Sequential(t, before)
  <2>1. ASSUME NEW j \in 1..m + 1, t[m + 1].post \in before[t[j].post] PROVE FALSE
    <3>1. t[j].post \in Posts
      BY <1>5, <1>8
    <3>2. ppc[t[m + 1].post] = "acked"
      BY <2>1, <3>1 DEF BodyInv, Progress
    <3> QED
      BY <1>1, <1>5, <1>8, <3>2
  <2>2. Len(s) = m /\ Len(t) = m + 1 /\ (\A i \in 1..m : t[i] = s[i]) /\ Sequential(s, before)
    BY <1>5, <1>7
  <2> QED
    BY <2>1, <2>2, OneMoreInOrder
<1>15. ASSUME NEW k \in Gets PROVE LogOk(k)'
  <2>1. CASE k = g
    BY <1>1, <1>5, <1>12, <1>13, <1>14, <2>1, Zenon DEF LogOk
  <2>2. CASE k # g
    <3>1. LogOk(k) /\ log'[k] = log[k]
      BY <1>6, <2>2 DEF BodyInv
    <3> QED
      BY <1>1, <1>2, <3>1, QuietLog
  <2> QED
    BY <2>1, <2>2
<1> QED
  BY <1>9, <1>11, <1>15, Zenon DEF BodyInv

\* A chunk that finds the receiver gone is read and discarded, and so is the
\* rest of its body.
LEMMA DiscardKeepsBodies ==
    ASSUME TypeOK, BodyInv, NEW p \in Posts, PostChunk(p), ~RxAlive(tx[p])
    PROVE  BodyInv'
<1>1. /\ UNCHANGED <<ppc, tx, gpc, upc, before, log>> /\ Routed(p)
      /\ read' = [read EXCEPT ![p] = read[p] + 1]
  BY DEF PostChunk, getVars, Routed
<1>2. /\ \A q \in Posts \ {p} : read'[q] = read[q]
      /\ \A q \in Posts : read[q] \in Nat /\ read'[q] \in Nat /\ read[q] <= read'[q]
  BY <1>1 DEF TypeOK
<1>3. ASSUME NEW q \in Posts PROVE Progress(q)' /\ Entered(q)'
  <2>1. Progress(q) /\ Entered(q)
    BY DEF BodyInv
  <2>2. Progress(q)'
    BY <1>1, <1>2, <2>1 DEF Progress, Routed
  <2>3. RxAlive(tx[q])' = RxAlive(tx[q])
    BY <1>1 DEF RxAlive
  <2>4. Entered(q)'
    BY <1>1, <1>2, <2>1, <2>3 DEF Entered, Routed
  <2> QED
    BY <2>2, <2>4
<1>4. ASSUME NEW k \in Gets PROVE LogOk(k)'
  <2>1. LogOk(k)
    BY DEF BodyInv
  <2> QED
    BY <1>1, <1>2, <2>1, QuietLog
<1> QED
  BY <1>3, <1>4, Zenon DEF BodyInv

\* What is known of the bodies is inductive, over the types and the sessions.
LEMMA BodyInvariant == Spec => []BodyInv
<1>1. Init => BodyInv
  <2> SUFFICES ASSUME Init PROVE BodyInv
    OBVIOUS
  <2>1. \A p \in Posts : Progress(p) /\ Entered(p)
    BY DEF Init, Progress, Entered, Routed
  <2>2. \A g \in Gets : LogOk(g)
    <3> TAKE g \in Gets
    <3>1. log[g] = <<>>
      BY DEF Init
    <3>2. \A i \in 1..Len(log[g]) : FALSE
      <4>1. Len(<<>>) = 0 /\ \A i \in 1..0 : FALSE
        OBVIOUS
      <4> QED
        BY <3>1, <4>1, Zenon
    <3> QED
      BY <3>2, Zenon DEF LogOk, Bodies, ReadOk, Sequential
  <2> QED
    BY <2>1, <2>2 DEF BodyInv
<1>2. TypeInv /\ SessionInv /\ BodyInv /\ [Next]_vars => BodyInv'
  <2> SUFFICES ASSUME TypeInv, SessionInv, BodyInv, [Next]_vars PROVE BodyInv'
    OBVIOUS
  <2>0. TypeOK /\ \A p \in Posts : PostRule(p)
    BY DEF TypeInv
  <2>1. ASSUME NEW p \in Posts, PostChunk(p) PROVE BodyInv'
    <3>1. tx[p] \in Gets
      BY <2>0, <2>1 DEF PostChunk, PostRule
    <3> QED
      BY <2>0, <2>1, <3>1, AcceptKeepsBodies, DiscardKeepsBodies
  <2>2. CASE UNCHANGED vars
    BY <2>2, OthersKeepBodies DEF vars, RxAlive
  <2> QED
    BY <2>0, <2>1, <2>2, GetsKeepBodies, WaitingKeepsBodies, LookupKeepsBodies, ReplyKeepsBodies DEF Next, PostNext
<1> QED
  BY <1>1, <1>2, TypeInvariant, SessionInvariant, PTL DEF Spec

\* What was delivered is a beginning of what was accepted.
LEMMA DeliveredBegins ==
    ASSUME TypeOK, UploadInv, NEW g \in Gets
    PROVE  Begins(delivered[g], log[g])
<1>1. delivered[g] \in Seq(Chunk) /\ up[g] \in Seq(Chunk) /\ log[g] \in Seq(Chunk)
  BY QueueTypes
<1>2. Begins(delivered[g], delivered[g] \o up[g]) /\ delivered[g] \o up[g] \in Seq(Chunk)
  BY <1>1, ConcatBegins
<1>3. Begins(delivered[g] \o up[g], log[g])
  BY DEF UploadInv, PathOk
<1>4. \A a, b \in Seq(Chunk) : Len(a) \in Nat /\ (Begins(a, b) /\ Begins(b, log[g]) => Begins(a, log[g]))
  <2> TAKE a, b \in Seq(Chunk)
  <2>1. Len(a) \in Nat /\ Len(b) \in Nat /\ Len(log[g]) \in Nat
    BY <1>1
  <2> QED
    BY <2>1 DEF Begins
<1> QED
  BY <1>1, <1>2, <1>3, <1>4, Zenon

\* The handler of a GET reads of each POST routed to it a gap-free beginning of
\* its body, each chunk once, for any number of requests (h2.rs:458-474).
THEOREM UploadsArePrefixes == Spec => []UploadPrefix
<1>1. TypeOK /\ UploadInv /\ BodyInv => UploadPrefix
  <2> SUFFICES ASSUME TypeOK, UploadInv, BodyInv, NEW g \in Gets PROVE Bodies(delivered[g], g, tx)
    BY DEF UploadPrefix, Bodies
  <2>1. Len(delivered[g]) \in Nat /\ Len(log[g]) \in Nat /\ Begins(delivered[g], log[g])
    BY QueueTypes, DeliveredBegins
  <2>2. Bodies(log[g], g, tx) /\ Sequential(log[g], before)
    BY DEF BodyInv, LogOk
  <2> QED
    BY <2>1, <2>2, BeginningKeepsBodies
<1> QED
  BY <1>1, XhttpTypes, UploadInvariant, BodyInvariant, PTL

\* A client that waits for one reply before the next POST has its POSTs read in
\* that order, for any number of requests (h2.rs:497-514).
THEOREM SequentialPostsInOrder == Spec => []SequentialPosts
<1>1. TypeOK /\ UploadInv /\ BodyInv => SequentialPosts
  <2> SUFFICES ASSUME TypeOK, UploadInv, BodyInv, NEW g \in Gets PROVE Sequential(delivered[g], before)
    BY DEF SequentialPosts, Sequential
  <2>1. Len(delivered[g]) \in Nat /\ Len(log[g]) \in Nat /\ Begins(delivered[g], log[g])
    BY QueueTypes, DeliveredBegins
  <2>2. Bodies(log[g], g, tx) /\ Sequential(log[g], before)
    BY DEF BodyInv, LogOk
  <2> QED
    BY <2>1, <2>2, BeginningKeepsBodies
<1> QED
  BY <1>1, XhttpTypes, UploadInvariant, BodyInvariant, PTL

\* The elements of a queue after its head is taken.
LEMMA QueueTail ==
    ASSUME NEW S, NEW q \in Seq(S), q # <<>>
    PROVE  /\ Head(q) = q[1] /\ Head(q) \in S /\ Len(q) \in Nat \ {0} /\ Len(Tail(q)) = Len(q) - 1
           /\ \A i \in 1..Len(Tail(q)) : Tail(q)[i] = q[i + 1]
  OBVIOUS

\* Every action keeps what is known of a response.
LEMMA NextKeepsDown ==
    ASSUME TypeOK, DownInv, [Next]_vars, NEW k \in Gets
    PROVE  DownOk(k)'
<1>0. /\ gpc \in [Gets -> {"idle", "open", "stream", "ended", "joining", "closed"}]
      /\ eos \in [Gets -> {"none", "eof", "idle"}] /\ vless \in [Gets -> {"off", "run", "half", "done"}]
      /\ wrote \in [Gets -> 0..MaxDown] /\ MaxDown \in Nat
      /\ down \in [Gets -> Seq(1..MaxDown)] /\ shown \in [Gets -> Seq(1..MaxDown)]
  BY XhttpAssumption DEF TypeOK
<1>1. DownOk(k)
  BY DEF DownInv
<1>2. CASE UNCHANGED <<shown, down, wrote, eos>>
      /\ (gpc'[k] = gpc[k] \/ gpc'[k] \in {"ended", "joining", "closed"} \/ gpc[k] \in {"idle", "open", "stream"})
      /\ (vless'[k] \in {vless[k], "done"} \/ vless[k] = "run" \/ gpc[k] = "idle")
  <2>1. gpc'[k] \in {"idle", "open", "stream"} => gpc[k] \in {"idle", "open", "stream"}
    BY <1>2
  <2>2. eos[k] = "eof" => vless'[k] \in {"half", "done"}
    BY <1>1, <1>2 DEF DownOk
  <2> QED
    BY <1>1, <1>2, <2>1, <2>2 DEF DownOk
<1>3. ASSUME NEW g \in Gets, DownForward(g) PROVE DownOk(k)'
  <2>1. CASE k # g
    <3>1. /\ gpc'[k] = gpc[k] /\ down'[k] = down[k] /\ shown'[k] = shown[k]
          /\ UNCHANGED <<wrote, eos, vless>>
      BY <1>0, <1>3, <2>1 DEF DownForward
    <3> QED
      BY <1>1, <3>1 DEF DownOk
  <2>2. CASE k = g
    <3> DEFINE s == shown[g]
               d == down[g]
    <3>1. /\ s \in Seq(1..MaxDown) /\ d \in Seq(1..MaxDown) /\ d # <<>> /\ gpc[g] = "stream"
          /\ UNCHANGED <<wrote, eos, vless>> /\ down'[g] = Tail(d)
          /\ \/ gpc'[g] = "ended" /\ shown'[g] = s
             \/ gpc'[g] = gpc[g] /\ shown'[g] = Append(s, Head(d))
      BY <1>0, <1>3 DEF DownForward
    <3>2. /\ Head(d) = d[1] /\ Head(d) \in 1..MaxDown /\ Len(d) \in Nat \ {0} /\ Len(Tail(d)) = Len(d) - 1
          /\ \A i \in 1..Len(Tail(d)) : Tail(d)[i] = d[i + 1]
      BY <3>1, QueueTail
    <3>3. /\ Len(s) \in Nat /\ Len(Append(s, Head(d))) = Len(s) + 1
          /\ \A i \in 1..Len(s) : Append(s, Head(d))[i] = s[i]
          /\ Append(s, Head(d))[Len(s) + 1] = Head(d)
      BY <3>1, <3>2
    <3>4. /\ eos[g] = "none" /\ wrote[g] = Len(s) + Len(d) /\ \A i \in 1..Len(s) : s[i] = i
          /\ \A i \in 1..Len(d) : d[i] = Len(s) + i
      BY <1>1, <2>2, <3>1 DEF DownOk
    <3> HIDE DEF s, d
    <3>5. CASE gpc'[g] = "ended" /\ shown'[g] = s
      BY <2>2, <3>1, <3>4, <3>5 DEF DownOk
    <3>6. CASE gpc'[g] = gpc[g] /\ shown'[g] = Append(s, Head(d))
      <4>1. Head(d) = Len(s) + 1
        BY <3>2, <3>4
      <4>2. \A i \in 1..Len(shown'[g]) : shown'[g][i] = i
        BY <3>3, <3>4, <3>6, <4>1
      <4>3. wrote'[g] = Len(shown'[g]) + Len(down'[g]) /\ eos'[g] = "none"
        BY <3>1, <3>2, <3>3, <3>4, <3>6
      <4>4. \A i \in 1..Len(down'[g]) : down'[g][i] = Len(shown'[g]) + i
        BY <3>1, <3>2, <3>3, <3>4, <3>6
      <4> QED
        BY <2>2, <4>2, <4>3, <4>4 DEF DownOk
    <3> QED
      BY <3>1, <3>5, <3>6
  <2> QED
    BY <2>1, <2>2
<1>4. ASSUME NEW g \in Gets, DownEof(g) \/ DownTimeout(g) PROVE DownOk(k)'
  <2>1. /\ UNCHANGED <<shown, down, wrote, vless>> /\ gpc[g] = "stream" /\ gpc' = [gpc EXCEPT ![g] = "ended"]
        /\ down[g] = <<>> /\ \A h \in Gets \ {g} : eos'[h] = eos[h]
        /\ eos'[g] = "eof" => vless[g] \in {"half", "done"}
    <3>1. CASE DownEof(g)
      BY <1>0, <3>1 DEF DownEof
    <3>2. CASE DownTimeout(g)
      <4>1. eos'[g] # "eof"
        BY <1>0, <3>2 DEF DownTimeout
      <4> QED
        BY <1>0, <3>2, <4>1 DEF DownTimeout
    <3> QED
      BY <1>4, <3>1, <3>2
  <2>2. CASE k # g
    BY <1>0, <1>1, <2>1, <2>2 DEF DownOk
  <2>3. CASE k = g
    <3>1. wrote[g] = Len(shown[g]) + Len(down[g]) /\ Len(down[g]) = 0 /\ Len(shown[g]) \in Nat
      BY <1>0, <1>1, <2>1, <2>3 DEF DownOk
    <3> QED
      BY <1>0, <1>1, <2>1, <2>3, <3>1 DEF DownOk
  <2> QED
    BY <2>2, <2>3
<1>5. ASSUME NEW g \in Gets, VlessWrite(g) PROVE DownOk(k)'
  <2>1. /\ UNCHANGED <<shown, gpc, vless, eos>> /\ vless[g] = "run"
        /\ wrote' = [wrote EXCEPT ![g] = wrote[g] + 1]
        /\ down' = [down EXCEPT ![g] = Append(down[g], wrote[g] + 1)] /\ wrote[g] < MaxDown
    BY <1>5 DEF VlessWrite
  <2>2. CASE k # g
    BY <1>0, <1>1, <2>1, <2>2 DEF DownOk
  <2>3. CASE k = g
    <3>1. /\ down[g] \in Seq(1..MaxDown) /\ wrote[g] + 1 \in 1..MaxDown
          /\ wrote'[g] = wrote[g] + 1 /\ down'[g] = Append(down[g], wrote[g] + 1)
          /\ Len(shown[g]) \in Nat
      BY <1>0, <2>1
    <3>2. /\ Len(down[g]) \in Nat /\ Len(down'[g]) = Len(down[g]) + 1
          /\ \A i \in 1..Len(down[g]) : down'[g][i] = down[g][i]
          /\ down'[g][Len(down[g]) + 1] = wrote[g] + 1
      BY <3>1
    <3>3. eos[g] # "eof"
      BY <1>1, <2>1, <2>3 DEF DownOk
    <3>4. ASSUME gpc[g] \in {"idle", "open", "stream"}
          PROVE  /\ wrote'[g] = Len(shown[g]) + Len(down'[g])
                 /\ \A i \in 1..Len(down'[g]) : down'[g][i] = Len(shown[g]) + i
      <4>1. wrote[g] = Len(shown[g]) + Len(down[g]) /\ \A i \in 1..Len(down[g]) : down[g][i] = Len(shown[g]) + i
        BY <1>1, <2>3, <3>4 DEF DownOk
      <4>2. wrote'[g] = Len(shown[g]) + Len(down'[g]) /\ wrote[g] + 1 = Len(shown[g]) + (Len(down[g]) + 1)
        <5>1. \A a, b, w \in Nat : w = a + b => w + 1 = a + (b + 1)
          OBVIOUS
        <5>2. wrote[g] \in Nat /\ Len(shown[g]) \in Nat /\ Len(down[g]) \in Nat
          BY <1>0, <3>1, <3>2
        <5>3. wrote[g] + 1 = Len(shown[g]) + (Len(down[g]) + 1)
          BY <4>1, <5>1, <5>2, Zenon
        <5> QED
          BY <3>1, <3>2, <5>3, Zenon
      <4>3. ASSUME NEW i \in 1..Len(down'[g]) PROVE down'[g][i] = Len(shown[g]) + i
        <5>1. i \in 1..Len(down[g]) \/ i = Len(down[g]) + 1
          BY <3>2
        <5> QED
          BY <3>2, <4>1, <4>2, <5>1, Zenon
      <4> QED
        BY <4>2, <4>3
    <3> QED
      BY <1>1, <2>1, <2>3, <3>3, <3>4 DEF DownOk
  <2> QED
    BY <2>2, <2>3
<1>6. ASSUME NEW g \in Gets, GetOpen(g) \/ GetRespond(g) \/ GetRespondErr(g) \/ GetRemove(g) \/ GetJoin(g)
      PROVE  DownOk(k)'
  <2>1. /\ UNCHANGED <<shown, down, wrote, eos>>
        /\ gpc'[k] = gpc[k] \/ gpc'[k] \in {"ended", "joining", "closed"} \/ gpc[k] \in {"idle", "open", "stream"}
        /\ vless'[k] = vless[k] \/ vless[k] = "run" \/ gpc[k] = "idle"
    BY <1>0, <1>6 DEF GetOpen, GetRespond, GetRespondErr, GetRemove, GetJoin
  <2> QED
    BY <1>2, <2>1
<1>7. ASSUME NEW g \in Gets, VlessShut(g) \/ VlessEnd(g) PROVE DownOk(k)'
  BY <1>0, <1>2, <1>7 DEF VlessShut, VlessEnd
<1>8. ASSUME NEW g \in Gets, UpNext(g) \/ VlessRead(g) \/ ClientReset(g)
      PROVE  UNCHANGED <<shown, down, wrote, eos, gpc, vless>>
  BY <1>8 DEF UpNext, UpRecv, UpWrite, UpWriteErr, UpClosed, UpTimeout, UpEnd, VlessRead, ClientReset
<1>9. ASSUME NEW p \in Posts, PostNext(p) PROVE UNCHANGED <<shown, down, wrote, eos, gpc, vless>>
  BY <1>9 DEF PostNext, PostArrive, PostPoll, PostLookup, PostChunk, PostAck, PostFail, getVars
<1>10. UNCHANGED vars => UNCHANGED <<shown, down, wrote, eos, gpc, vless>>
  BY DEF vars
<1>11. CASE UNCHANGED <<shown, down, wrote, eos, gpc, vless>>
  BY <1>1, <1>11 DEF DownOk
<1> QED
  BY <1>3, <1>4, <1>5, <1>6, <1>7, <1>8, <1>9, <1>10, <1>11 DEF Next, GetNext, EnvNext

\* What a 200 and an end of stream tell the client, for any number of requests
\* and chunks (h2.rs:437-456, 502-514): what a session accepted of a body that
\* was answered is lost only with the handler, what it did not accept came after
\* its upload had ended; and a response that the handler ended, or whose half it
\* shut down, shows all that the handler wrote.
THEOREM NothingLostSilently == Spec => []NoSilentLoss
<1>1. Init => DownInv
  <2> SUFFICES ASSUME Init, NEW g \in Gets PROVE DownOk(g)
    BY DEF DownInv
  <2>1. shown[g] = <<>> /\ down[g] = <<>> /\ wrote[g] = 0 /\ eos[g] = "none"
    BY DEF Init
  <2> QED
    BY <2>1 DEF DownOk
<1>2. TypeOK /\ DownInv /\ [Next]_vars => DownInv'
  BY NextKeepsDown DEF DownInv
<1>3. TypeOK /\ DownInv => DownloadComplete
  <2> SUFFICES ASSUME TypeOK, DownInv, NEW g \in Gets
               PROVE  /\ shown[g] = [i \in 1..Len(shown[g]) |-> i]
                      /\ eos[g] = "eof" => Len(shown[g]) = wrote[g]
    BY DEF DownloadComplete
  <2>1. DownOk(g) /\ shown[g] \in Seq(1..MaxDown)
    BY DEF DownInv, TypeOK
  <2>2. shown[g] = [i \in 1..Len(shown[g]) |-> shown[g][i]]
    BY <2>1
  <2> QED
    BY <2>1, <2>2 DEF DownOk
<1>4. TypeOK /\ UploadInv /\ BodyInv => AckedNotLost
  <2> SUFFICES ASSUME TypeOK, UploadInv, BodyInv, NEW p \in Posts, ppc[p] = "acked", NEW n \in 1..read[p]
               PROVE  LET c == [post |-> p, n |-> n]
                          g == tx[p]
                      IN \/ Holds(Stream(g), c)
                         \/ Holds(log[g], c) /\ Broken(g)
                         \/ ~Holds(log[g], c) /\ ~RxAlive(g)
    BY Zenon DEF AckedNotLost
  <2> DEFINE c == [post |-> p, n |-> n]
             g == tx[p]
  <2>1. Routed(p) /\ g \in Gets
    BY DEF BodyInv, Progress, Routed
  <2>2. RxAlive(g) => Holds(log[g], c)
    BY <2>1 DEF BodyInv, Entered, Holds
  <2>3. RxAlive(g) \/ ~Broken(g) => log[g] = Stream(g)
    BY <2>1 DEF UploadInv, PathOk, Whole, Intact
  <2> HIDE DEF c, g
  <2>4. Holds(Stream(g), c) \/ (Holds(log[g], c) /\ Broken(g)) \/ (~Holds(log[g], c) /\ ~RxAlive(g))
    BY <2>2, <2>3, Zenon
  <2> QED
    BY <2>4, Zenon DEF c, g
<1> QED
  BY <1>1, <1>2, <1>3, <1>4, XhttpTypes, UploadInvariant, BodyInvariant, PTL DEF Spec, NoSilentLoss
=============================================================================
