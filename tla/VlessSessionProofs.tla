------------------------- MODULE VlessSessionProofs -------------------------
(* Proofs about VlessSession, for every set of clients and all capacities. *)
EXTENDS VlessSession, Integers, TLAPS

\* Sequences are equal when their lengths and elements are.
LEMMA SeqEqual ==
    ASSUME NEW S, NEW s \in Seq(S), NEW t \in Seq(S), Len(s) = Len(t), \A i \in 1..Len(s) : s[i] = t[i]
    PROVE  s = t
  OBVIOUS

\* The empty sequence.
LEMMA EmptySeq ==
    ASSUME NEW S
    PROVE  <<>> \in Seq(S) /\ Len(<<>>) = 0
  OBVIOUS

\* The elements of a concatenation.
LEMMA ConcatProperties ==
    ASSUME NEW S, NEW s \in Seq(S), NEW t \in Seq(S)
    PROVE  /\ s \o t \in Seq(S) /\ Len(s \o t) = Len(s) + Len(t)
           /\ \A i \in 1..Len(s) + Len(t) : (s \o t)[i] = IF i <= Len(s) THEN s[i] ELSE t[i - Len(s)]
  OBVIOUS

\* A sequence is its first n elements followed by the others.
LEMMA SplitAt ==
    ASSUME NEW S, NEW s \in Seq(S), NEW n \in 0..Len(s)
    PROVE  /\ SubSeq(s, 1, n) \in Seq(S) /\ Len(SubSeq(s, 1, n)) = n
           /\ SubSeq(s, n + 1, Len(s)) \in Seq(S)
           /\ SubSeq(s, 1, n) \o SubSeq(s, n + 1, Len(s)) = s
<1>1. SubSeq(s, 1, n) \in Seq(S) /\ Len(SubSeq(s, 1, n)) = n
  OBVIOUS
<1>2. SubSeq(s, n + 1, Len(s)) \in Seq(S) /\ Len(SubSeq(s, n + 1, Len(s))) = Len(s) - n
  OBVIOUS
<1>3. SubSeq(s, 1, n) \o SubSeq(s, n + 1, Len(s)) = s
  <2> DEFINE a == SubSeq(s, 1, n)
             b == SubSeq(s, n + 1, Len(s))
  <2>1. /\ a \in Seq(S) /\ Len(a) = n /\ \A i \in 1..n : a[i] = s[i]
        /\ b \in Seq(S) /\ Len(b) = Len(s) - n /\ \A i \in 1..Len(s) - n : b[i] = s[n + i]
    BY <1>1, <1>2
  <2> HIDE DEF a, b
  <2>2. /\ a \o b \in Seq(S) /\ Len(a \o b) = Len(s)
        /\ \A i \in 1..Len(s) : (a \o b)[i] = s[i]
    <3>1. /\ a \o b \in Seq(S) /\ Len(a \o b) = Len(a) + Len(b)
          /\ \A i \in 1..Len(a) + Len(b) : (a \o b)[i] = IF i <= Len(a) THEN a[i] ELSE b[i - Len(a)]
      BY <2>1, ConcatProperties
    <3>2. Len(a) + Len(b) = Len(s)
      BY <2>1
    <3>3. ASSUME NEW i \in 1..Len(s) PROVE (a \o b)[i] = s[i]
      <4>1. (a \o b)[i] = IF i <= n THEN a[i] ELSE b[i - n]
        BY <2>1, <3>1, <3>2
      <4>2. CASE i <= n
        BY <2>1, <4>1, <4>2
      <4>3. CASE ~(i <= n)
        <5>1. i - n \in 1..Len(s) - n /\ n + (i - n) = i
          BY <4>3
        <5> QED
          BY <2>1, <4>1, <4>3, <5>1
      <4> QED
        BY <4>2, <4>3
    <3> QED
      BY <3>1, <3>2, <3>3
  <2>3. a \o b = s
    BY <2>2, SeqEqual
  <2> QED
    BY <2>3 DEF a, b
<1> QED
  BY <1>1, <1>2, <1>3

(* Concatenation under a name of its own.  The provers expand an equation  *)
(* between two concatenations element by element; through Cat they reason  *)
(* about it algebraically.                                                 *)

Cat(a, b) == a \o b

\* Cat is closed, adds the lengths, ...
LEMMA CatSeq ==
    ASSUME NEW S, NEW a \in Seq(S), NEW b \in Seq(S)
    PROVE  Cat(a, b) \in Seq(S) /\ Len(Cat(a, b)) = Len(a) + Len(b)
  BY DEF Cat

\* ... is associative ...
LEMMA CatAssoc ==
    ASSUME NEW S, NEW a \in Seq(S), NEW b \in Seq(S), NEW c \in Seq(S)
    PROVE  Cat(a, Cat(b, c)) = Cat(Cat(a, b), c)
<1>1. (a \o b) \o c = a \o (b \o c)
  OBVIOUS
<1> QED
  BY <1>1, Zenon DEF Cat

\* ... and has the empty sequence as its unit.
LEMMA CatEmpty ==
    ASSUME NEW S, NEW a \in Seq(S)
    PROVE  Cat(a, <<>>) = a /\ Cat(<<>>, a) = a
  BY DEF Cat

Bytes == Nat \ {0}
Chain(h, o, i, b, s) == Cat(Cat(Cat(Cat(h, o), i), b), s)
Positions(n) == [i \in 1..n |-> i]

\* What the constants' assumption says of the numbers used here.
LEMMA Numbers == ReadCap \in Nat \ {0} /\ \A p \in Plans : p.hdr \in Nat /\ p.sni \in Nat /\ p.len \in Nat
  BY VlessAssumption

\* Concatenation of byte sequences.
LEMMA ByteCat ==
    /\ <<>> \in Seq(Bytes)
    /\ \A a, b \in Seq(Bytes) : Cat(a, b) \in Seq(Bytes)
    /\ \A a, b, c \in Seq(Bytes) : Cat(a, Cat(b, c)) = Cat(Cat(a, b), c)
    /\ \A a \in Seq(Bytes) : Cat(a, <<>>) = a /\ Cat(<<>>, a) = a
  BY CatSeq, CatAssoc, CatEmpty

\* What the chain is while some of its parts are still, or again, empty.
LEMMA ShortChains ==
    ASSUME NEW h \in Seq(Bytes), NEW x \in Seq(Bytes), NEW s \in Seq(Bytes)
    PROVE  /\ Chain(<<>>, <<>>, <<>>, <<>>, s) = s
           /\ Chain(h, <<>>, <<>>, <<>>, s) = Cat(h, s)
           /\ Chain(h, x, <<>>, <<>>, s) = Cat(Cat(h, x), s)
           /\ Chain(h, <<>>, x, <<>>, s) = Cat(Cat(h, x), s)
           /\ Chain(h, <<>>, <<>>, x, s) = Cat(Cat(h, x), s)
<1>1. /\ Cat(h, <<>>) = h /\ Cat(<<>>, <<>>) = <<>> /\ Cat(<<>>, s) = s
      /\ Cat(h, x) \in Seq(Bytes)
  BY ByteCat
<1>2. Cat(Cat(h, x), <<>>) = Cat(h, x)
  BY <1>1, ByteCat
<1> QED
  BY <1>1, <1>2 DEF Chain

\* What the client sends is added at the end.
LEMMA Arrive ==
    ASSUME NEW h \in Seq(Bytes), NEW o \in Seq(Bytes), NEW i \in Seq(Bytes), NEW b \in Seq(Bytes),
           NEW s \in Seq(Bytes), NEW f \in Seq(Bytes)
    PROVE  Chain(h, o, i, b, Cat(s, f)) = Cat(Chain(h, o, i, b, s), f)
<1> DEFINE before == Cat(Cat(Cat(h, o), i), b)
<1>1. before \in Seq(Bytes)
  BY ByteCat
<1> HIDE DEF before
<1>2. Cat(before, Cat(s, f)) = Cat(Cat(before, s), f)
  BY <1>1, ByteCat
<1> QED
  BY <1>2 DEF Chain, before

\* The next n positions continue the first k.
LEMMA PositionsGrow ==
    ASSUME NEW k \in Nat, NEW n \in Nat
    PROVE  /\ [i \in 1..n |-> k + i] \in Seq(Bytes) /\ Positions(k) \in Seq(Bytes)
           /\ Cat(Positions(k), [i \in 1..n |-> k + i]) = Positions(k + n)
<1> DEFINE p == Positions(k)
           q == [i \in 1..n |-> k + i]
           r == Positions(k + n)
<1>1. /\ p \in Seq(Bytes) /\ Len(p) = k /\ q \in Seq(Bytes) /\ Len(q) = n
      /\ r \in Seq(Bytes) /\ Len(r) = k + n
      /\ \A i \in 1..k : p[i] = i
      /\ \A i \in 1..n : q[i] = k + i
      /\ \A i \in 1..k + n : r[i] = i
  BY DEF Positions, Bytes
<1> HIDE DEF p, q, r
<1>2. /\ p \o q \in Seq(Bytes) /\ Len(p \o q) = k + n
      /\ \A i \in 1..k + n : (p \o q)[i] = IF i <= k THEN p[i] ELSE q[i - k]
  <2>1. /\ p \o q \in Seq(Bytes) /\ Len(p \o q) = Len(p) + Len(q)
        /\ \A i \in 1..Len(p) + Len(q) : (p \o q)[i] = IF i <= Len(p) THEN p[i] ELSE q[i - Len(p)]
    BY <1>1, ConcatProperties
  <2> QED
    BY <1>1, <2>1
<1>3. \A i \in 1..k + n : (p \o q)[i] = r[i]
  BY <1>1, <1>2
<1> DEFINE c == p \o q
<1>4. c \in Seq(Bytes) /\ Len(c) = Len(r) /\ \A i \in 1..Len(c) : c[i] = r[i]
  BY <1>1, <1>2, <1>3
<1> HIDE DEF c
<1>5. c = r
  BY <1>1, <1>4, SeqEqual
<1> QED
  <2>1. Cat(p, q) = r
    BY <1>5 DEF c, Cat
  <2> QED
    BY <1>1, <2>1 DEF p, q, r

\* A prefix of a prefix is a prefix.
LEMMA FirstOfFirst ==
    ASSUME NEW s \in Seq(Bytes), NEW n \in 0..Len(s), NEW k \in 0..n
    PROVE  SubSeq(SubSeq(s, 1, n), 1, k) = SubSeq(s, 1, k)
<1> DEFINE f == SubSeq(s, 1, n)
           l == SubSeq(f, 1, k)
           r == SubSeq(s, 1, k)
<1>0. Len(s) \in Nat /\ n \in Nat /\ k \in Nat /\ k \in 0..Len(s)
  OBVIOUS
<1>1. f \in Seq(Bytes) /\ Len(f) = n /\ \A i \in 1..n : f[i] = s[i]
  BY <1>0, SplitAt
<1>2. r \in Seq(Bytes) /\ Len(r) = k /\ \A i \in 1..k : r[i] = s[i]
  BY <1>0, SplitAt
<1> HIDE DEF f
<1>3. l \in Seq(Bytes) /\ Len(l) = k /\ \A i \in 1..k : l[i] = f[i]
  BY <1>0, <1>1, SplitAt
<1> HIDE DEF l, r
<1>4. l = r
  <2>1. \A i \in 1..Len(l) : l[i] = r[i]
    BY <1>0, <1>1, <1>2, <1>3
  <2> QED
    BY <1>2, <1>3, <2>1, SeqEqual
<1> QED
  BY <1>4 DEF f, l, r

\* decode_request cuts the first read into request and rest.
LEMMA CutRequest ==
    ASSUME NEW s \in Seq(Bytes), NEW n \in 0..Len(s), NEW k \in 0..n
    PROVE  LET h == SubSeq(s, 1, k)
               b == SubSeq(SubSeq(s, 1, n), k + 1, n)
               r == SubSeq(s, n + 1, Len(s))
           IN /\ h \in Seq(Bytes) /\ b \in Seq(Bytes) /\ r \in Seq(Bytes)
              /\ Len(h) = k /\ Len(SubSeq(s, 1, n)) = n
              /\ Cat(Cat(h, b), r) = s
<1> DEFINE h == SubSeq(s, 1, k)
           f == SubSeq(s, 1, n)
           b == SubSeq(f, k + 1, n)
           r == SubSeq(s, n + 1, Len(s))
<1>0. Len(s) \in Nat /\ n \in Nat /\ k \in 0..Len(s)
  OBVIOUS
<1>1. f \in Seq(Bytes) /\ Len(f) = n /\ r \in Seq(Bytes) /\ Cat(f, r) = s
  BY SplitAt DEF Cat
<1>2. h \in Seq(Bytes) /\ Len(h) = k
  BY <1>0, SplitAt
<1>3. SubSeq(f, 1, k) = h
  BY FirstOfFirst
<1> HIDE DEF f, h
<1>4. b \in Seq(Bytes) /\ Cat(h, b) = f
  <2>1. k \in 0..Len(f)
    BY <1>1
  <2>2. SubSeq(f, k + 1, Len(f)) \in Seq(Bytes)
        /\ SubSeq(f, 1, k) \o SubSeq(f, k + 1, Len(f)) = f
    BY <1>1, <2>1, SplitAt
  <2> QED
    BY <1>1, <1>3, <2>2 DEF Cat
<1> QED
  BY <1>1, <1>2, <1>4 DEF f, h

-----------------------------------------------------------------------------
\* What a TCP session needs to keep its stream together: which of the places
\* a byte can be in are empty at each stage, so that the next move puts bytes
\* behind those already there; and a sniffed name is one of the initial data.
Conserving ==
    /\ sent \in Nat
    /\ head \in Seq(Bytes) /\ out \in Seq(Bytes) /\ initial \in Seq(Bytes)
    /\ buf \in Seq(Bytes) /\ sock \in Seq(Bytes)
    /\ Chain(head, out, initial, buf, sock) = Positions(sent)
    /\ pc \in {"read", "probe", "respond", "sniff", "dial", "send", "relay", "closed"}
    /\ pc = "read" => head = <<>>
    /\ pc \in {"read", "respond", "sniff", "dial", "send"} => out = <<>>
    /\ pc \in {"read", "respond", "sniff", "relay"} => initial = <<>>
    /\ pc \in {"read", "sniff", "dial", "send", "relay"} => buf = <<>>
    /\ pc = "send" /\ target = "sni" => Len(initial) >= plan.sni
    /\ pc = "relay" /\ target = "sni" => Len(out) >= plan.sni

TcpInv == plan \in Plans /\ (plan.cmd = "tcp" => Conserving)

\* A new session has read nothing.
LEMMA InitTcp == Init => TcpInv
<1> SUFFICES ASSUME Init PROVE TcpInv
  OBVIOUS
<1>1. Chain(<<>>, <<>>, <<>>, <<>>, <<>>) = Positions(0)
  <2>1. Positions(0) = <<>>
    BY DEF Positions
  <2> QED
    BY <2>1, ByteCat, ShortChains
<1> QED
  BY <1>1, ByteCat DEF Init, TcpInv, Conserving

\* The first read: request, rest and what did not fit into buf.
LEMMA ReadConserves ==
    ASSUME TcpInv, plan.cmd = "tcp", ReadRequest PROVE Conserving'
<1> DEFINE n == Upto(sock, ReadCap)
           k == IF Decodes(n) THEN plan.hdr ELSE 0
<1>0. /\ plan \in Plans /\ sock \in Seq(Bytes) /\ pc = "read" /\ sent \in Nat
      /\ head = <<>> /\ out = <<>> /\ initial = <<>> /\ buf = <<>>
      /\ Chain(head, out, initial, buf, sock) = Positions(sent)
  BY DEF TcpInv, Conserving, ReadRequest
<1>1. n \in 0..Len(sock) /\ n \in Nat
  BY <1>0, Numbers DEF Upto
<1>2. k \in 0..n
  BY <1>0, <1>1, Numbers DEF Decodes, AddressDecodes
<1>3. /\ head' = IF Decodes(n) THEN First(sock, plan.hdr) ELSE <<>>
      /\ buf' = Rest(First(sock, n), Len(head')) /\ sock' = Rest(sock, n)
      /\ pc' \in {"respond", "probe", "closed"}
      /\ UNCHANGED <<plan, sent, initial, target, out>>
  BY DEF ReadRequest, client, tcp
<1>4. head' = SubSeq(sock, 1, k)
  <2>1. SubSeq(sock, 1, 0) = <<>>
    <3>1. 0 \in 0..Len(sock)
      BY <1>0
    <3>2. SubSeq(sock, 1, 0) \in Seq(Bytes) /\ Len(SubSeq(sock, 1, 0)) = 0
      BY <1>0, <3>1, SplitAt
    <3> QED
      BY <3>2
  <2>2. CASE Decodes(n)
    BY <1>3, <2>2 DEF First
  <2>3. CASE ~Decodes(n)
    BY <1>3, <2>1, <2>3
  <2> QED
    BY <2>2, <2>3
<1> HIDE DEF n, k
<1>5. /\ head' \in Seq(Bytes) /\ Len(head') = k /\ Len(SubSeq(sock, 1, n)) = n
      /\ SubSeq(SubSeq(sock, 1, n), k + 1, n) \in Seq(Bytes)
      /\ SubSeq(sock, n + 1, Len(sock)) \in Seq(Bytes)
      /\ Cat(Cat(head', SubSeq(SubSeq(sock, 1, n), k + 1, n)), SubSeq(sock, n + 1, Len(sock))) = sock
  BY <1>0, <1>1, <1>2, <1>4, CutRequest
<1>6. buf' = SubSeq(SubSeq(sock, 1, n), k + 1, n) /\ sock' = SubSeq(sock, n + 1, Len(sock))
  BY <1>3, <1>5 DEF First, Rest
<1>7. buf' \in Seq(Bytes) /\ sock' \in Seq(Bytes) /\ Cat(Cat(head', buf'), sock') = sock
  BY <1>5, <1>6
<1>8. Chain(head', <<>>, <<>>, buf', sock') = Cat(Cat(head', buf'), sock')
  BY <1>5, <1>7, ShortChains
<1>9. Chain(<<>>, <<>>, <<>>, <<>>, sock) = sock
  BY <1>0, ByteCat, ShortChains
<1> QED
  BY <1>0, <1>3, <1>5, <1>7, <1>8, <1>9 DEF Conserving

\* Every step of the session and of the client keeps TcpInv.
LEMMA TcpStep == ASSUME TcpInv, [Next]_vars PROVE TcpInv'
<1>p. plan' = plan
  BY DEF Next, SetupNext, SendNext, ClientSend, ClientClose, ReadRequest, ReadNothing, Probe, Respond,
     SniffRead, SniffNothing, Dial, UdpStart, SetupErr, SendInitial, RelayForward, RelayEnd,
     SendLen, SendPacket, SendEnd, RecvPacket, RecvWritten, RecvEnd, RecvWriteErr, vars, client
<1> SUFFICES ASSUME plan.cmd = "tcp" PROVE Conserving'
  BY <1>p DEF TcpInv
<1>0. /\ plan \in Plans /\ Conserving /\ sent \in Nat
      /\ head \in Seq(Bytes) /\ out \in Seq(Bytes) /\ initial \in Seq(Bytes)
      /\ buf \in Seq(Bytes) /\ sock \in Seq(Bytes)
      /\ Chain(head, out, initial, buf, sock) = Positions(sent)
  BY DEF TcpInv, Conserving
<1>1. CASE UNCHANGED <<plan, sock, sent, head, buf, initial, target, out>>
           /\ pc' \in {pc, "closed"}
  BY <1>0, <1>1 DEF Conserving
<1>2. CASE ReadRequest
  BY <1>2, ReadConserves
<1>3. CASE Respond
  <2>1. /\ pc = "respond" /\ initial' = buf /\ buf' = <<>> /\ pc' \in {"sniff", "dial"}
        /\ pc' = "sniff" => buf = <<>>
        /\ UNCHANGED <<plan, sock, sent, head, target, out>>
    BY <1>3 DEF Respond, client
  <2>2. out = <<>> /\ initial = <<>>
    BY <1>0, <2>1 DEF Conserving
  <2>3. Chain(head, <<>>, buf, <<>>, sock) = Chain(head, <<>>, <<>>, buf, sock)
    BY <1>0, ShortChains
  <2> QED
    BY <1>0, <2>1, <2>2, <2>3, ByteCat DEF Conserving
<1>4. CASE SniffRead
  <2> DEFINE n == Upto(sock, ReadCap)
             f == SubSeq(sock, 1, n)
             r == SubSeq(sock, n + 1, Len(sock))
  <2>1. /\ pc = "sniff" /\ initial' = f /\ sock' = r /\ pc' = "dial"
        /\ UNCHANGED <<plan, sent, head, buf, target, out>>
    BY <1>4 DEF SniffRead, First, Rest, client, request
  <2>2. out = <<>> /\ initial = <<>> /\ buf = <<>>
    BY <1>0, <2>1 DEF Conserving
  <2>3. n \in 0..Len(sock)
    BY <1>0, Numbers DEF Upto
  <2> HIDE DEF n
  <2>4. f \in Seq(Bytes) /\ r \in Seq(Bytes) /\ Cat(f, r) = sock
    BY <1>0, <2>3, SplitAt DEF Cat
  <2> HIDE DEF f, r
  <2>5. Chain(head, <<>>, f, <<>>, r) = Cat(Cat(head, f), r)
    BY <1>0, <2>4, ShortChains
  <2>6. Chain(head, <<>>, <<>>, <<>>, sock) = Cat(head, sock)
    BY <1>0, ShortChains
  <2>7. Cat(Cat(head, f), r) = Cat(head, sock)
    BY <1>0, <2>4, ByteCat
  <2> QED
    BY <1>0, <2>1, <2>2, <2>4, <2>5, <2>6, <2>7 DEF Conserving
<1>5. CASE SniffNothing
  BY <1>0, <1>5 DEF SniffNothing, Conserving, client, request, tcp
<1>6. CASE Dial
  BY <1>0, <1>6 DEF Dial, Sniffs, Conserving, client, request
<1>7. CASE SendInitial
  <2>1. /\ pc = "send" /\ out' = Cat(out, initial) /\ initial' = <<>> /\ pc' = "relay"
        /\ UNCHANGED <<plan, sock, sent, head, buf, target>>
    BY <1>7 DEF SendInitial, Cat, client, request
  <2>2. out = <<>> /\ buf = <<>> /\ (target = "sni" => Len(initial) >= plan.sni)
    BY <1>0, <2>1 DEF Conserving
  <2>3. out' = initial
    BY <1>0, <2>1, <2>2, ByteCat
  <2>4. Chain(head, initial, <<>>, <<>>, sock) = Chain(head, <<>>, initial, <<>>, sock)
    BY <1>0, ShortChains
  <2> QED
    BY <1>0, <2>1, <2>2, <2>3, <2>4, ByteCat DEF Conserving
<1>8. CASE RelayForward
  <2>1. /\ pc = "relay" /\ out' = Cat(out, sock) /\ sock' = <<>> /\ pc' = pc
        /\ UNCHANGED <<plan, sent, head, buf, initial, target>>
    BY <1>8 DEF RelayForward, Cat, client, request
  <2>2. initial = <<>> /\ buf = <<>> /\ (target = "sni" => Len(out) >= plan.sni)
    BY <1>0, <2>1 DEF Conserving
  <2>3. out' \in Seq(Bytes) /\ Len(out') = Len(out) + Len(sock)
    BY <1>0, <2>1, CatSeq
  <2>4. Len(out) \in Nat /\ Len(sock) \in Nat /\ plan.sni \in Nat
    BY <1>0, Numbers
  <2>5. Chain(head, out, <<>>, <<>>, sock) = Cat(Cat(head, out), sock)
    BY <1>0, ShortChains
  <2>6. Chain(head, out', <<>>, <<>>, <<>>) = Cat(Cat(head, out'), <<>>)
    <3>1. head \in Seq(Bytes) /\ out' \in Seq(Bytes) /\ <<>> \in Seq(Bytes)
      BY <1>0, <2>3, ByteCat
    <3> QED
      BY <3>1, ShortChains
  <2>7. Cat(Cat(head, Cat(out, sock)), <<>>) = Cat(Cat(head, out), sock)
    <3>1. Cat(head, Cat(out, sock)) \in Seq(Bytes) /\ Cat(head, Cat(out, sock)) = Cat(Cat(head, out), sock)
      BY <1>0, ByteCat
    <3> QED
      BY <3>1, ByteCat
  <2>8. Chain(head', out', initial', buf', sock') = Positions(sent')
    BY <1>0, <2>1, <2>2, <2>5, <2>6, <2>7
  <2>9. target' = "sni" => Len(out') >= plan'.sni
    BY <2>1, <2>2, <2>3, <2>4
  <2> QED
    BY <1>0, <2>1, <2>2, <2>3, <2>8, <2>9, ByteCat DEF Conserving
<1>9. ASSUME NEW n \in 1..plan.len, ClientSend(n) PROVE Conserving'
  <2> DEFINE seg == [i \in 1..n |-> sent + i]
  <2>1. /\ sock' = Cat(sock, seg) /\ sent' = sent + n
        /\ UNCHANGED <<plan, pc, head, buf, initial, target, out>>
    BY <1>9 DEF ClientSend, Cat, request, tcp
  <2>2. n \in Nat
    BY <1>0, Numbers
  <2>3. seg \in Seq(Bytes) /\ Cat(Positions(sent), seg) = Positions(sent + n)
    BY <1>0, <2>2, PositionsGrow
  <2> HIDE DEF seg
  <2>4. Chain(head, out, initial, buf, Cat(sock, seg)) = Cat(Chain(head, out, initial, buf, sock), seg)
    BY <1>0, <2>3, Arrive
  <2>5. sock' \in Seq(Bytes) /\ sent' \in Nat
    BY <1>0, <2>1, <2>2, <2>3, ByteCat
  <2> QED
    BY <1>0, <2>1, <2>3, <2>4, <2>5 DEF Conserving
<1>10. CASE Probe
  BY <1>1, <1>10 DEF Probe, client, tcp
<1>11. ReadNothing \/ SetupErr \/ RelayEnd \/ ClientClose \/ UNCHANGED vars => Conserving'
  BY <1>1 DEF ReadNothing, SetupErr, RelayEnd, ClientClose, client, request, tcp, vars
<1>12. ~(UdpStart \/ SendNext \/ RecvPacket \/ RecvWritten \/ RecvEnd \/ RecvWriteErr)
  BY <1>0 DEF Conserving, UdpStart, SendNext, SendLen, SendPacket, SendEnd, RecvPacket, RecvWritten,
     RecvEnd, RecvWriteErr
<1> QED
  BY <1>2, <1>3, <1>4, <1>5, <1>6, <1>7, <1>8, <1>9, <1>10, <1>11, <1>12 DEF Next, SetupNext

\* TcpInv holds in every reachable state of serve_vless.
THEOREM TcpInvariant == Spec => []TcpInv
  BY InitTcp, TcpStep, PTL DEF Spec

\* Whatever the client sends and however it is cut into reads, serve_vless
\* hands all of a TCP session's stream to the target, in order, and dials a
\* sniffed name only for a target that gets the whole hello (handler.rs).
THEOREM TcpIsConserved == Spec => []TcpConserved
<1>1. TcpInv => TcpConserved
  BY DEF TcpInv, Conserving, TcpConserved, Chain, Cat, Positions
<1> QED
  BY <1>1, TcpInvariant, PTL

-----------------------------------------------------------------------------
(* UDP sessions.                                                           *)

\* s holds the last bytes of the first n.
Pending(s, n) ==
    /\ s \in Seq(Bytes) /\ n \in Nat /\ Len(s) <= n
    /\ \A i \in 1..Len(s) : s[i] = n - Len(s) + i

\* The k bytes behind the first b.
Segment(b, k) == [i \in 1..k |-> b + i]

\* The datagrams sent are the first packets.
Sent(p, d) ==
    /\ Len(d) <= Len(p.packets)
    /\ \A k \in 1..Len(d) : d[k] = Segment(p.packets[k][1] - 1, p.packets[k][2] - p.packets[k][1] + 1)

\* What a UDP session needs to find the packets in its stream: while nothing
\* was dropped, send_task's place in the stream is the end of the last packet
\* it sent, or behind the next length field, whose value it then waits for.
Framing ==
    /\ sent \in Nat /\ sent <= plan.len
    /\ Pending(sock, sent)
    /\ dgrams \in Seq(Seq(Bytes))
    /\ pc \in {"read", "probe", "respond", "bind", "udp", "closed"}
    /\ pc \in {"read", "respond", "bind"} => dgrams = <<>> /\ lost = <<>> /\ need = 0
    /\ pc = "read" => Len(sock) = sent
    /\ pc \in {"respond", "bind"} => /\ Pending(buf, plan.hdr + Len(buf))
                                     /\ sent - Len(sock) = plan.hdr + Len(buf)
    /\ lost = <<>> => Sent(plan, dgrams)
    /\ pc = "udp" /\ lost = <<>> =>
          LET e == PacketEnd(plan, Len(dgrams)) IN
            /\ sent - Len(sock) = e + (IF need = 0 THEN 0 ELSE LenHdr)
            /\ need > 0 => need = plan.plen[e + 1]

UdpInv ==
    /\ plan \in Plans
    /\ need \in Nat /\ need <= MaxPacket
    /\ plan.kind = "vless" /\ plan.cmd = "udp" => Framing

\* What the constants' assumption says of a UDP plan.
LEMMA UdpNumbers ==
    ASSUME NEW p \in Plans
    PROVE  /\ p.hdr \in Nat /\ p.len \in Nat /\ p.plen \in [1..p.len -> Nat]
           /\ p.kind = "vless" /\ p.cmd = "udp" => Framed(p)
           /\ MaxPacket \in Nat /\ ReadCap \in Nat \ {0}
  BY VlessAssumption

\* Taking k bytes leaves the later ones, and what was taken is the segment
\* behind what had been taken before.
LEMMA TakeBytes ==
    ASSUME NEW s, NEW n, Pending(s, n), NEW k \in 0..Len(s)
    PROVE  /\ Pending(Rest(s, k), n) /\ Len(Rest(s, k)) = Len(s) - k
           /\ First(s, k) \in Seq(Bytes) /\ First(s, k) = Segment(n - Len(s), k)
           /\ Pending(First(s, k), n - Len(s) + k) /\ Len(First(s, k)) = k
<1> DEFINE r == Rest(s, k)
           f == First(s, k)
           g == Segment(n - Len(s), k)
           b == n - Len(s)
<1>0. /\ s \in Seq(Bytes) /\ Len(s) \in Nat /\ n \in Nat /\ k \in Nat /\ k <= Len(s) /\ b \in Nat
      /\ \A i \in 1..Len(s) : s[i] = b + i
  BY DEF Pending
<1>1. /\ r \in Seq(Bytes) /\ Len(r) = Len(s) - k
      /\ \A i \in 1..Len(s) - k : r[i] = s[k + i]
  <2>1. /\ SubSeq(s, k + 1, Len(s)) \in Seq(Bytes) /\ Len(SubSeq(s, k + 1, Len(s))) = Len(s) - k
    BY <1>0, SplitAt
  <2>2. \A i \in 1..Len(s) - k : SubSeq(s, k + 1, Len(s))[i] = s[k + 1 + i - 1]
    BY <1>0
  <2>3. \A i \in 1..Len(s) - k : k + 1 + i - 1 = k + i
    BY <1>0
  <2> QED
    BY <2>1, <2>2, <2>3 DEF Rest
<1>2. f \in Seq(Bytes) /\ Len(f) = k /\ \A i \in 1..k : f[i] = s[i]
  BY <1>0, SplitAt DEF First
<1>3. g \in Seq(Bytes) /\ Len(g) = k /\ \A i \in 1..k : g[i] = b + i
  BY <1>0 DEF Segment, Bytes
<1> HIDE DEF r, f, g
<1>4. \A i \in 1..Len(r) : r[i] = n - Len(r) + i
  <2> SUFFICES ASSUME NEW i \in 1..Len(r) PROVE r[i] = n - Len(r) + i
    OBVIOUS
  <2>1. i \in 1..Len(s) - k /\ k + i \in 1..Len(s)
    BY <1>0, <1>1
  <2>2. r[i] = b + (k + i)
    BY <1>0, <1>1, <2>1
  <2> QED
    BY <1>0, <1>1, <2>1, <2>2
<1>5. Pending(r, n)
  BY <1>0, <1>1, <1>4 DEF Pending
<1>6. \A i \in 1..k : f[i] = b + i
  <2>1. \A i \in 1..k : i \in 1..Len(s)
    BY <1>0
  <2> QED
    BY <1>0, <1>2, <2>1
<1>7. f = g
  <2>1. Len(f) = Len(g) /\ \A i \in 1..Len(f) : f[i] = g[i]
    BY <1>2, <1>3, <1>6
  <2> QED
    BY <1>2, <1>3, <2>1, SeqEqual
<1>8. Pending(f, b + k)
  <2>1. b + k \in Nat /\ Len(f) <= b + k /\ b + k - Len(f) = b
    BY <1>0, <1>2
  <2> QED
    BY <1>2, <1>6, <2>1 DEF Pending
<1> QED
  BY <1>1, <1>2, <1>5, <1>7, <1>8 DEF r, f, g

\* The same for l bytes behind the first a.
LEMMA MiddleBytes ==
    ASSUME NEW s, NEW n, Pending(s, n), NEW a \in Nat, NEW l \in Nat, a + l <= Len(s)
    PROVE  SubSeq(s, a + 1, a + l) \in Seq(Bytes) /\ SubSeq(s, a + 1, a + l) = Segment(n - Len(s) + a, l)
<1> DEFINE x == SubSeq(s, a + 1, a + l)
           b == n - Len(s)
           g == Segment(b + a, l)
<1>0. /\ s \in Seq(Bytes) /\ Len(s) \in Nat /\ b \in Nat
      /\ \A i \in 1..Len(s) : s[i] = b + i /\ s[i] \in Bytes
  BY DEF Pending
<1> HIDE DEF b
<1>1. \A i \in (a + 1)..(a + l) : i \in 1..Len(s)
  BY <1>0
<1>2. /\ x \in Seq(Bytes) /\ Len(x) = IF a + 1 <= a + l THEN a + l - (a + 1) + 1 ELSE 0
      /\ \A i \in 1..a + l - (a + 1) + 1 : x[i] = s[a + 1 + i - 1]
  BY <1>0, <1>1
<1>3. g \in Seq(Bytes) /\ Len(g) = l /\ \A i \in 1..l : g[i] = b + a + i
  BY <1>0 DEF Segment, Bytes
<1> HIDE DEF x, g
<1>4. Len(x) = l
  BY <1>2
<1>5. \A i \in 1..Len(x) : x[i] = g[i]
  <2> SUFFICES ASSUME NEW i \in 1..Len(x) PROVE x[i] = g[i]
    OBVIOUS
  <2>1. /\ i \in 1..l /\ i \in 1..a + l - (a + 1) + 1 /\ a + 1 + i - 1 = a + i
        /\ a + i \in 1..Len(s) /\ b + (a + i) = b + a + i
    BY <1>0, <1>4
  <2>2. x[i] = s[a + i]
    BY <1>2, <2>1
  <2> QED
    BY <1>0, <1>3, <2>1, <2>2
<1>6. x = g
  BY <1>2, <1>3, <1>4, <1>5, SeqEqual
<1> QED
  BY <1>2, <1>6 DEF x, g, b

\* What arrives continues what has arrived.
LEMMA MoreBytes ==
    ASSUME NEW s, NEW n, Pending(s, n), NEW m \in Nat
    PROVE  /\ Pending(s \o Segment(n, m), n + m) /\ Len(s \o Segment(n, m)) = Len(s) + m
<1> DEFINE g == Segment(n, m)
           c == s \o g
           b == n - Len(s)
<1>0. /\ s \in Seq(Bytes) /\ Len(s) \in Nat /\ n \in Nat /\ b \in Nat /\ Len(s) <= n
      /\ \A i \in 1..Len(s) : s[i] = b + i
  BY DEF Pending
<1>1. g \in Seq(Bytes) /\ Len(g) = m /\ \A i \in 1..m : g[i] = n + i
  BY <1>0 DEF Segment, Bytes
<1> HIDE DEF g
<1>2. /\ c \in Seq(Bytes) /\ Len(c) = Len(s) + m
      /\ \A i \in 1..Len(s) + Len(g) : c[i] = IF i <= Len(s) THEN s[i] ELSE g[i - Len(s)]
  BY <1>0, <1>1, ConcatProperties
<1> HIDE DEF c
<1>3. \A i \in 1..Len(c) : c[i] = n + m - Len(c) + i
  <2> SUFFICES ASSUME NEW i \in 1..Len(c) PROVE c[i] = n + m - Len(c) + i
    OBVIOUS
  <2>1. i \in 1..Len(s) + Len(g) /\ i \in Nat
    BY <1>0, <1>1, <1>2
  <2>2. CASE i <= Len(s)
    <3>1. c[i] = b + i
      BY <1>0, <1>2, <2>1, <2>2
    <3> QED
      BY <1>0, <1>2, <2>1, <3>1
  <2>3. CASE ~(i <= Len(s))
    <3>1. i - Len(s) \in 1..m
      BY <1>0, <1>1, <2>1, <2>3
    <3>2. c[i] = n + (i - Len(s))
      BY <1>0, <1>1, <1>2, <2>1, <2>3, <3>1
    <3> QED
      BY <1>0, <1>2, <2>1, <3>2
  <2> QED
    BY <2>2, <2>3
<1>4. n + m \in Nat /\ Len(c) <= n + m
  BY <1>0, <1>2
<1> QED
  BY <1>2, <1>3, <1>4 DEF Pending, c, g

\* A packet that is all there is one of the plan's: the next one.
LEMMA NextPacket ==
    ASSUME NEW p \in Plans, p.kind = "vless", p.cmd = "udp",
           NEW k \in 0..Len(p.packets), PacketEnd(p, k) + LenHdr <= p.len
    PROVE  LET e == PacketEnd(p, k) IN
             /\ e \in Nat /\ e + 1 \in 1..p.len /\ p.plen[e + 1] \in Nat
             /\ e + LenHdr + p.plen[e + 1] <= p.len =>
                   /\ k + 1 <= Len(p.packets)
                   /\ p.packets[k + 1][1] = e + LenHdr + 1
                   /\ p.packets[k + 1][2] = e + LenHdr + p.plen[e + 1]
                   /\ PacketEnd(p, k + 1) = e + LenHdr + p.plen[e + 1]
<1> DEFINE e == PacketEnd(p, k)
<1>1. Framed(p) /\ p.hdr \in Nat /\ p.len \in Nat /\ p.plen \in [1..p.len -> Nat]
  BY UdpNumbers
<1>2. p.packets \in Seq(Nat \X Nat) /\ Len(p.packets) \in Nat
  BY <1>1 DEF Framed
<1>3. k \in Nat /\ k <= Len(p.packets)
  BY <1>2
<1>4. e \in Nat
  <2>1. CASE k = 0
    BY <1>1, <2>1 DEF PacketEnd
  <2>2. CASE k # 0
    <3>1. p.packets[k] \in Nat \X Nat
      BY <1>2, <1>3, <2>2
    <3> QED
      BY <2>2, <3>1 DEF PacketEnd
  <2> QED
    BY <2>1, <2>2
<1>5. e + 1 \in 1..p.len /\ p.plen[e + 1] \in Nat
  <2>1. e + 1 \in 1..p.len
    BY <1>1, <1>4 DEF LenHdr
  <2> QED
    BY <1>1, <2>1
<1>6. ASSUME e + LenHdr + p.plen[e + 1] <= p.len
      PROVE  /\ k + 1 <= Len(p.packets)
             /\ p.packets[k + 1][1] = e + LenHdr + 1
             /\ p.packets[k + 1][2] = e + LenHdr + p.plen[e + 1]
             /\ PacketEnd(p, k + 1) = e + LenHdr + p.plen[e + 1]
  <2>1. k # Len(p.packets)
    <3> SUFFICES ASSUME k = Len(p.packets) PROVE FALSE
      OBVIOUS
    <3>1. e + LenHdr + p.plen[e + 1] > p.len
      BY <1>1 DEF Framed
    <3> QED
      BY <1>1, <1>4, <1>5, <1>6, <3>1 DEF LenHdr
  <2>2. k + 1 \in 1..Len(p.packets) /\ (k + 1) - 1 = k /\ k + 1 # 0
    BY <1>2, <1>3, <2>1
  <2>3. /\ p.packets[k + 1][1] = e + LenHdr + 1
        /\ p.packets[k + 1][2] = e + LenHdr + p.plen[e + 1]
    BY <1>1, <2>2 DEF Framed
  <2> QED
    BY <1>2, <2>2, <2>3 DEF PacketEnd
<1> QED
  BY <1>4, <1>5, <1>6

\* A place before the last.
LEMMA EarlierPlace == ASSUME NEW n \in Nat, NEW k \in 1..n + 1, k # n + 1 PROVE k \in 1..n
  OBVIOUS

\* One more packet has been sent.
LEMMA OneMorePacket ==
    ASSUME NEW p \in Plans, NEW d \in Seq(Seq(Bytes)), Sent(p, d), NEW x \in Seq(Bytes),
           p.packets \in Seq(Nat \X Nat), Len(d) + 1 <= Len(p.packets), NEW b \in Nat, NEW l \in Nat,
           p.packets[Len(d) + 1][1] = b + 1, p.packets[Len(d) + 1][2] = b + l, x = Segment(b, l)
    PROVE  Append(d, x) \in Seq(Seq(Bytes)) /\ Len(Append(d, x)) = Len(d) + 1 /\ Sent(p, Append(d, x))
<1>1. /\ Append(d, x) \in Seq(Seq(Bytes)) /\ Len(Append(d, x)) = Len(d) + 1 /\ Len(d) \in Nat
      /\ \A i \in 1..Len(d) : Append(d, x)[i] = d[i]
      /\ Append(d, x)[Len(d) + 1] = x
  OBVIOUS
<1>2. p.packets[Len(d) + 1][1] - 1 = b /\ p.packets[Len(d) + 1][2] - p.packets[Len(d) + 1][1] + 1 = l
  OBVIOUS
<1>3. ASSUME NEW k \in 1..Len(d) + 1
      PROVE Append(d, x)[k] = Segment(p.packets[k][1] - 1, p.packets[k][2] - p.packets[k][1] + 1)
  <2>1. CASE k = Len(d) + 1
    BY <1>1, <1>2, <2>1
  <2>2. CASE k # Len(d) + 1
    <3>1. k \in 1..Len(d)
      BY <1>1, <1>3, <2>2, EarlierPlace, Zenon
    <3> QED
      BY <1>1, <3>1 DEF Sent
  <2> QED
    BY <2>1, <2>2
<1> QED
  BY <1>1, <1>3 DEF Sent

\* A new session has read and sent nothing.
LEMMA InitUdp == Init => UdpInv
<1> SUFFICES ASSUME Init PROVE UdpInv
  OBVIOUS
<1>1. plan \in Plans /\ plan.len \in Nat /\ MaxPacket \in Nat
  BY UdpNumbers DEF Init
<1>2. <<>> \in Seq(Bytes) /\ <<>> \in Seq(Seq(Bytes)) /\ Len(<<>>) = 0
  OBVIOUS
<1>3. Pending(<<>>, 0)
  BY <1>2 DEF Pending
<1>4. ASSUME plan.kind = "vless", plan.cmd = "udp" PROVE Sent(plan, <<>>)
  <2>1. plan.packets \in Seq(Nat \X Nat)
    BY <1>1, <1>4, UdpNumbers DEF Framed
  <2> QED
    BY <1>2, <2>1 DEF Sent
<1> QED
  BY <1>1, <1>2, <1>3, <1>4 DEF Init, UdpInv, Framing

\* The first read: behind the request buf holds the next bytes of the stream.
LEMMA ReadFrames ==
    ASSUME UdpInv, plan.kind = "vless", plan.cmd = "udp", ReadRequest PROVE Framing'
<1> DEFINE n == Upto(sock, ReadCap)
<1>0. /\ plan \in Plans /\ sent \in Nat /\ sent <= plan.len /\ Pending(sock, sent) /\ Len(sock) = sent
      /\ dgrams = <<>> /\ dgrams \in Seq(Seq(Bytes)) /\ lost = <<>> /\ need = 0 /\ Sent(plan, dgrams)
      /\ pc = "read"
  BY DEF UdpInv, Framing, ReadRequest
<1>1. n \in 0..Len(sock) /\ n \in Nat /\ plan.hdr \in Nat
  BY <1>0, UdpNumbers DEF Upto
<1>2. /\ head' = IF Decodes(n) THEN First(sock, plan.hdr) ELSE <<>>
      /\ buf' = Rest(First(sock, n), Len(head')) /\ sock' = Rest(sock, n)
      /\ pc' = IF Decodes(n) THEN "respond" ELSE IF IsHttpProbe(n) THEN "probe" ELSE "closed"
      /\ UNCHANGED <<plan, sent, need, lost, dgrams>>
  BY DEF ReadRequest, client, udp
<1> HIDE DEF n
<1>3. /\ Pending(Rest(sock, n), sent) /\ Len(Rest(sock, n)) = Len(sock) - n
      /\ Pending(First(sock, n), sent - Len(sock) + n) /\ Len(First(sock, n)) = n
  BY <1>0, <1>1, TakeBytes
<1>4. Pending(First(sock, n), n)
  <2>1. sent - Len(sock) + n = n
    BY <1>0, <1>1
  <2> QED
    BY <1>3, <2>1
<1>5. CASE Decodes(n)
  <2>1. plan.hdr \in 0..Len(sock) /\ plan.hdr <= n
    BY <1>0, <1>1, <1>5 DEF Decodes, AddressDecodes
  <2>2. Len(head') = plan.hdr
    BY <1>0, <1>2, <1>5, <2>1, TakeBytes
  <2>3. plan.hdr \in 0..Len(First(sock, n))
    BY <1>1, <1>3, <2>1
  <2>4. Pending(Rest(First(sock, n), plan.hdr), n) /\ Len(Rest(First(sock, n), plan.hdr)) = n - plan.hdr
    BY <1>3, <1>4, <2>3, TakeBytes
  <2>5. Pending(buf', n) /\ Len(buf') = n - plan.hdr
    BY <1>2, <2>2, <2>4
  <2>6. plan.hdr + Len(buf') = n /\ sent - Len(sock') = n
    BY <1>0, <1>1, <1>2, <1>3, <2>1, <2>5
  <2> QED
    BY <1>0, <1>2, <1>3, <1>5, <2>5, <2>6 DEF Framing
<1>6. CASE ~Decodes(n)
  BY <1>0, <1>2, <1>3, <1>6 DEF Framing
<1> QED
  BY <1>5, <1>6

\* The packet that came with the request is the first one.
LEMMA StartFrames ==
    ASSUME UdpInv, plan.kind = "vless", plan.cmd = "udp", UdpStart PROVE Framing'
<1> DEFINE l == LengthOf(buf)
<1>0. /\ plan \in Plans /\ sent \in Nat /\ sent <= plan.len /\ Pending(sock, sent)
      /\ dgrams = <<>> /\ dgrams \in Seq(Seq(Bytes)) /\ lost = <<>> /\ need = 0 /\ Sent(plan, dgrams)
      /\ Pending(buf, plan.hdr + Len(buf)) /\ sent - Len(sock) = plan.hdr + Len(buf)
      /\ plan.hdr \in Nat /\ plan.len \in Nat /\ plan.packets \in Seq(Nat \X Nat)
  BY UdpNumbers DEF UdpInv, Framing, UdpStart, Framed
<1>1. /\ Len(buf) \in Nat /\ Len(sock) \in Nat /\ plan.hdr + Len(buf) <= plan.len
      /\ Len(plan.packets) \in Nat /\ Len(dgrams) = 0
      /\ \A i \in 1..Len(buf) : buf[i] = (plan.hdr + Len(buf)) - Len(buf) + i
      /\ (plan.hdr + Len(buf)) - Len(buf) = plan.hdr
  <2>1. /\ Len(buf) \in Nat /\ Len(sock) \in Nat /\ Len(plan.packets) \in Nat /\ Len(dgrams) = 0
        /\ \A i \in 1..Len(buf) : buf[i] = (plan.hdr + Len(buf)) - Len(buf) + i
    BY <1>0 DEF Pending
  <2> QED
    BY <1>0, <2>1
<1>2. pc' = "udp" /\ UNCHANGED <<plan, sock, sent, need>>
  BY DEF UdpStart, client
<1>3. CASE Len(buf) >= LenHdr /\ Len(buf) >= LenHdr + l
  <2> DEFINE x == SubSeq(buf, LenHdr + 1, LenHdr + l)
             d == Append(dgrams, x)
  <2>1. dgrams' = d /\ lost' = Rest(buf, LenHdr + l)
    BY <1>3 DEF UdpStart
  <2>2. 1 \in 1..Len(buf) /\ buf[1] = plan.hdr + 1 /\ PacketEnd(plan, 0) = plan.hdr
        /\ 0 \in 0..Len(plan.packets) /\ plan.hdr + LenHdr <= plan.len
    <3>1. 1 \in 1..Len(buf) /\ PacketEnd(plan, 0) = plan.hdr /\ 0 \in 0..Len(plan.packets)
      BY <1>1, <1>3 DEF LenHdr, PacketEnd
    <3>2. buf[1] = plan.hdr + 1
      BY <1>1, <3>1
    <3>3. /\ plan.hdr \in Nat /\ plan.len \in Nat /\ Len(buf) \in Nat
          /\ plan.hdr + Len(buf) <= plan.len /\ Len(buf) >= LenHdr
      BY <1>0, <1>1, <1>3
    <3>4. plan.hdr + LenHdr <= plan.len
      BY <3>3 DEF LenHdr
    <3> QED
      BY <3>1, <3>2, <3>4
  <2>3. l = plan.plen[plan.hdr + 1]
    BY <2>2 DEF LengthOf
  <2>4. /\ l \in Nat
        /\ plan.hdr + LenHdr + l <= plan.len =>
              /\ 0 + 1 <= Len(plan.packets)
              /\ plan.packets[0 + 1][1] = plan.hdr + LenHdr + 1
              /\ plan.packets[0 + 1][2] = plan.hdr + LenHdr + l
              /\ PacketEnd(plan, 0 + 1) = plan.hdr + LenHdr + l
    BY <1>0, <2>2, <2>3, NextPacket
  <2> HIDE DEF l
  <2>5. /\ 1 <= Len(plan.packets) /\ plan.packets[1][1] = plan.hdr + LenHdr + 1
        /\ plan.packets[1][2] = plan.hdr + LenHdr + l /\ PacketEnd(plan, 1) = plan.hdr + LenHdr + l
    <3>1. plan.hdr + LenHdr + l <= plan.len
      <4>1. /\ plan.hdr \in Nat /\ plan.len \in Nat /\ Len(buf) \in Nat /\ l \in Nat
            /\ plan.hdr + Len(buf) <= plan.len /\ Len(buf) >= LenHdr + l
        BY <1>0, <1>1, <1>3, <2>4
      <4> QED
        BY <4>1 DEF LenHdr
    <3> QED
      BY <2>4, <3>1
  <2>6. x \in Seq(Bytes) /\ x = Segment(plan.hdr + LenHdr, l)
    <3>1. LenHdr \in Nat /\ LenHdr + l <= Len(buf)
      BY <1>1, <1>3, <2>4 DEF LenHdr
    <3>2. x \in Seq(Bytes) /\ x = Segment((plan.hdr + Len(buf)) - Len(buf) + LenHdr, l)
      <4>1. Pending(buf, plan.hdr + Len(buf)) /\ l \in Nat
        BY <1>0, <2>4
      <4> QED
        BY <3>1, <4>1, MiddleBytes, Zenon
    <3> QED
      BY <1>1, <3>2
  <2> HIDE DEF x
  <2>7. d \in Seq(Seq(Bytes)) /\ Len(d) = Len(dgrams) + 1 /\ Sent(plan, d)
    <3> DEFINE b == plan.hdr + LenHdr
    <3>1. b \in Nat /\ Len(dgrams) + 1 = 1
      BY <1>0, <1>1 DEF LenHdr
    <3>2. /\ Len(dgrams) + 1 <= Len(plan.packets) /\ plan.packets[Len(dgrams) + 1][1] = b + 1
          /\ plan.packets[Len(dgrams) + 1][2] = b + l /\ x = Segment(b, l)
      BY <2>5, <2>6, <3>1
    <3> HIDE DEF b
    <3> QED
      BY <1>0, <2>4, <2>6, <3>1, <3>2, OneMorePacket
  <2>8. Len(d) = 1
    BY <1>1, <2>7
  <2> HIDE DEF d
  <2>9. lost' = <<>> => sent - Len(sock) = PacketEnd(plan, 1)
    <3>1. LenHdr + l \in 0..Len(buf)
      BY <1>1, <1>3, <2>4 DEF LenHdr
    <3>2. Len(Rest(buf, LenHdr + l)) = Len(buf) - (LenHdr + l)
      BY <1>0, <3>1, TakeBytes
    <3>3. lost' = <<>> => Len(lost') = 0
      OBVIOUS
    <3> QED
      BY <1>0, <1>1, <2>1, <2>4, <2>5, <3>2, <3>3 DEF LenHdr
  <2>10. sent - Len(sock) = sent - Len(sock) + 0
    BY <1>0, <1>1
  <2> QED
    BY <1>0, <1>1, <1>2, <2>1, <2>5, <2>7, <2>8, <2>9, <2>10 DEF Framing
<1>4. CASE ~(Len(buf) >= LenHdr /\ Len(buf) >= LenHdr + l)
  <2>1. lost' = buf /\ dgrams' = dgrams
    BY <1>4 DEF UdpStart
  <2>2. lost' = <<>> => sent - Len(sock) = PacketEnd(plan, 0)
    BY <1>0, <1>1, <2>1 DEF PacketEnd
  <2> QED
    BY <1>0, <1>1, <1>2, <2>1, <2>2 DEF Framing, PacketEnd
<1> QED
  BY <1>3, <1>4

\* A length field: the next packet's, and a packet of that length.
LEMMA LengthFrames ==
    ASSUME UdpInv, plan.kind = "vless", plan.cmd = "udp", SendLen PROVE Framing'
<1> DEFINE e == PacketEnd(plan, Len(dgrams))
<1>0. /\ plan \in Plans /\ sent \in Nat /\ sent <= plan.len /\ Pending(sock, sent)
      /\ dgrams \in Seq(Seq(Bytes)) /\ need = 0 /\ pc = "udp"
      /\ lost = <<>> => Sent(plan, dgrams) /\ sent - Len(sock) = e + 0
      /\ plan.len \in Nat
  BY UdpNumbers DEF UdpInv, Framing, SendLen
<1>1. /\ LenHdr \in 0..Len(sock) /\ Len(sock) \in Nat /\ Len(sock) <= sent
      /\ \A i \in 1..Len(sock) : sock[i] = sent - Len(sock) + i
  <2>1. Len(sock) >= LenHdr /\ Len(sock) \in Nat
    BY <1>0 DEF SendLen, Pending
  <2> QED
    BY <1>0, <2>1 DEF Pending, LenHdr
<1>2. /\ sock' = Rest(sock, LenHdr) /\ pc' \in {"udp", "closed"}
      /\ pc' = "udp" => need' = LengthOf(sock) /\ need' \in 1..MaxPacket
      /\ UNCHANGED <<plan, sent, lost, dgrams>>
  BY <1>0 DEF SendLen, client
<1>3. Pending(sock', sent) /\ Len(sock') = Len(sock) - LenHdr
  BY <1>0, <1>1, <1>2, TakeBytes
<1>4. ASSUME lost = <<>>, pc' = "udp"
      PROVE  need' > 0 /\ sent - Len(sock') = e + LenHdr /\ need' = plan.plen[e + 1]
  <2>1. 1 \in 1..Len(sock) /\ sock[1] = sent - Len(sock) + 1
    BY <1>1 DEF LenHdr
  <2>2. Len(dgrams) \in 0..Len(plan.packets) /\ plan.packets \in Seq(Nat \X Nat)
    <3>1. plan.packets \in Seq(Nat \X Nat) /\ Len(dgrams) <= Len(plan.packets)
      BY <1>0, <1>4, UdpNumbers DEF Framed, Sent
    <3> QED
      BY <1>0, <3>1
  <2>3. e \in Nat
    <3>1. CASE Len(dgrams) = 0
      BY <1>0, <3>1, UdpNumbers DEF PacketEnd
    <3>2. CASE Len(dgrams) # 0
      <4>1. plan.packets[Len(dgrams)] \in Nat \X Nat
        BY <2>2, <3>2
      <4> QED
        BY <3>2, <4>1 DEF PacketEnd
    <3> QED
      BY <3>1, <3>2
  <2> HIDE DEF e
  <2>4. sock[1] = e + 1 /\ sent - Len(sock') = e + LenHdr
    BY <1>0, <1>1, <1>3, <1>4, <2>1, <2>3 DEF LenHdr
  <2>5. MaxPacket \in Nat
    BY VlessAssumption
  <2> QED
    BY <1>2, <1>4, <2>4, <2>5 DEF LengthOf
<1> QED
  BY <1>0, <1>2, <1>3, <1>4 DEF Framing

\* The payload send_task waits for is the next packet's.
LEMMA PayloadFrames ==
    ASSUME UdpInv, plan.kind = "vless", plan.cmd = "udp", SendPacket PROVE Framing'
<1> DEFINE e == PacketEnd(plan, Len(dgrams))
           x == First(sock, need)
<1>0. /\ plan \in Plans /\ sent \in Nat /\ sent <= plan.len /\ Pending(sock, sent)
      /\ dgrams \in Seq(Seq(Bytes)) /\ need \in Nat /\ need > 0 /\ need <= Len(sock) /\ pc = "udp"
      /\ lost = <<>> => Sent(plan, dgrams) /\ sent - Len(sock) = e + LenHdr /\ need = plan.plen[e + 1]
      /\ plan.len \in Nat /\ plan.packets \in Seq(Nat \X Nat)
  BY UdpNumbers DEF UdpInv, Framing, SendPacket, Framed
<1>1. /\ need \in 0..Len(sock) /\ Len(sock) \in Nat /\ Len(sock) <= sent /\ Len(dgrams) \in Nat
  BY <1>0 DEF Pending
<1>2. /\ dgrams' = Append(dgrams, x) /\ sock' = Rest(sock, need) /\ need' = 0 /\ pc' \in {"udp", "closed"}
      /\ UNCHANGED <<plan, sent, lost>>
  BY DEF SendPacket, client
<1>3. /\ Pending(sock', sent) /\ Len(sock') = Len(sock) - need
      /\ x \in Seq(Bytes) /\ x = Segment(sent - Len(sock), need)
  BY <1>0, <1>1, <1>2, TakeBytes
<1> HIDE DEF x
<1>4. dgrams' \in Seq(Seq(Bytes)) /\ Len(dgrams') = Len(dgrams) + 1
  BY <1>0, <1>2, <1>3
<1>5. ASSUME lost = <<>>
      PROVE  Sent(plan, dgrams') /\ sent - Len(sock') = PacketEnd(plan, Len(dgrams'))
  <2>1. Len(dgrams) \in 0..Len(plan.packets)
    BY <1>0, <1>1, <1>5 DEF Sent
  <2>2. sent - Len(sock) <= plan.len /\ sent - Len(sock) + need <= plan.len /\ sent - Len(sock) \in Nat
    BY <1>0, <1>1
  <2>3. PacketEnd(plan, Len(dgrams)) + LenHdr <= plan.len
    BY <1>0, <1>5, <2>2
  <2>4. /\ e \in Nat
        /\ e + LenHdr + plan.plen[e + 1] <= plan.len =>
              /\ Len(dgrams) + 1 <= Len(plan.packets)
              /\ plan.packets[Len(dgrams) + 1][1] = e + LenHdr + 1
              /\ plan.packets[Len(dgrams) + 1][2] = e + LenHdr + plan.plen[e + 1]
              /\ PacketEnd(plan, Len(dgrams) + 1) = e + LenHdr + plan.plen[e + 1]
    BY <1>0, <2>1, <2>3, NextPacket
  <2> HIDE DEF e
  <2> DEFINE b == e + LenHdr
  <2>5. b \in Nat /\ b = sent - Len(sock) /\ need = plan.plen[e + 1]
    BY <1>0, <1>5, <2>4 DEF LenHdr
  <2>6. /\ Len(dgrams) + 1 <= Len(plan.packets)
        /\ plan.packets[Len(dgrams) + 1][1] = b + 1
        /\ plan.packets[Len(dgrams) + 1][2] = b + need
        /\ PacketEnd(plan, Len(dgrams) + 1) = b + need
    BY <2>2, <2>4, <2>5
  <2> HIDE DEF b
  <2>7. Sent(plan, Append(dgrams, x))
    <3>1. x = Segment(b, need) /\ Sent(plan, dgrams)
      BY <1>0, <1>3, <1>5, <2>5
    <3> QED
      BY <1>0, <1>3, <2>5, <2>6, <3>1, OneMorePacket
  <2>8. sent - Len(sock') = b + need
    BY <1>0, <1>1, <1>3, <2>5
  <2> QED
    BY <1>2, <1>4, <2>6, <2>7, <2>8
<1>6. sent - Len(sock') = sent - Len(sock') + 0 /\ lost = <<>> => PacketEnd(plan, Len(dgrams')) + 0 = PacketEnd(plan, Len(dgrams'))
  <2>1. sent - Len(sock') \in Int
    BY <1>0, <1>1, <1>3
  <2> QED
    BY <1>5, <2>1
<1> QED
  BY <1>0, <1>2, <1>3, <1>4, <1>5, <1>6 DEF Framing

\* Every step of the session, the client and the target keeps UdpInv.
LEMMA UdpStep == ASSUME UdpInv, [Next]_vars PROVE UdpInv'
<1>p. plan' = plan
  BY DEF Next, SetupNext, SendNext, ClientSend, ClientClose, ReadRequest, ReadNothing, Probe, Respond,
     SniffRead, SniffNothing, Dial, UdpStart, SetupErr, SendInitial, RelayForward, RelayEnd,
     SendLen, SendPacket, SendEnd, RecvPacket, RecvWritten, RecvEnd, RecvWriteErr, vars, client
<1>n. need' \in Nat /\ need' <= MaxPacket
  <2>0. MaxPacket \in Nat /\ need \in Nat /\ need <= MaxPacket
    BY VlessAssumption DEF UdpInv
  <2>1. need' = need \/ need' = 0 \/ need' \in 1..MaxPacket
    BY DEF Next, SetupNext, SendNext, ClientSend, ClientClose, ReadRequest, ReadNothing, Probe, Respond,
       SniffRead, SniffNothing, Dial, UdpStart, SetupErr, SendInitial, RelayForward, RelayEnd,
       SendLen, SendPacket, SendEnd, RecvPacket, RecvWritten, RecvEnd, RecvWriteErr, vars, udp
  <2> QED
    BY <2>0, <2>1
<1> SUFFICES ASSUME plan.kind = "vless", plan.cmd = "udp" PROVE Framing'
  BY <1>p, <1>n DEF UdpInv
<1>0. plan \in Plans /\ Framing
  BY DEF UdpInv
<1>1. CASE UNCHANGED <<plan, sock, sent, buf, need, lost, dgrams>> /\ pc' \in {pc, "closed"}
  BY <1>0, <1>1 DEF Framing
<1>2. CASE ReadRequest
  BY <1>2, ReadFrames
<1>3. CASE Respond
  BY <1>0, <1>3 DEF Framing, Respond, client, udp
<1>4. CASE UdpStart
  BY <1>4, StartFrames
<1>5. CASE SendLen
  BY <1>5, LengthFrames
<1>6. CASE SendPacket
  BY <1>6, PayloadFrames
<1>7. ASSUME NEW n \in 1..plan.len, ClientSend(n) PROVE Framing'
  <2>1. /\ sock' = sock \o Segment(sent, n) /\ sent' = sent + n /\ sent + n <= plan.len
        /\ UNCHANGED <<plan, pc, buf, need, lost, dgrams>>
    BY <1>7 DEF ClientSend, Segment, request, udp
  <2>2. n \in Nat /\ sent \in Nat /\ Pending(sock, sent) /\ Len(sock) \in Nat
    BY <1>0, UdpNumbers DEF Framing, Pending
  <2>3. Pending(sock', sent + n) /\ Len(sock') = Len(sock) + n
    BY <2>1, <2>2, MoreBytes
  <2>4. sent' \in Nat /\ sent' - Len(sock') = sent - Len(sock) /\ (Len(sock) = sent => Len(sock') = sent')
    <3>1. n \in Nat /\ sent \in Nat /\ Len(sock) \in Nat /\ Len(sock') = Len(sock) + n /\ sent' = sent + n
      BY <2>1, <2>2, <2>3
    <3> QED
      BY <3>1
  <2> QED
    BY <1>0, <2>1, <2>3, <2>4 DEF Framing
<1>8. Probe \/ ReadNothing \/ SetupErr \/ RelayEnd \/ ClientClose \/ SendEnd \/ RecvPacket \/ RecvWritten
      \/ RecvEnd \/ RecvWriteErr \/ UNCHANGED vars => Framing'
  BY <1>1 DEF Probe, ReadNothing, SetupErr, RelayEnd, ClientClose, SendEnd, RecvPacket, RecvWritten,
     RecvEnd, RecvWriteErr, client, request, tcp, udp, vars
<1>9. ~(SniffRead \/ SniffNothing \/ Dial \/ SendInitial \/ RelayForward)
  BY <1>0 DEF Framing, SniffRead, SniffNothing, Dial, SendInitial, RelayForward
<1> QED
  BY <1>2, <1>3, <1>4, <1>5, <1>6, <1>7, <1>8, <1>9 DEF Next, SetupNext, SendNext

\* UdpInv holds in every reachable state of serve_vless.
THEOREM UdpInvariant == Spec => []UdpInv
  BY InitUdp, UdpStep, PTL DEF Spec

\* Whatever packets the client sends, however the stream is cut into reads
\* and whatever the capacities, a UDP session that dropped nothing of the
\* first read sends the client's packets one by one and in order, and never
\* waits for a payload larger than read_buf (handler.rs:189-230).
THEOREM PacketsBecomeDatagrams == Spec => []Datagrams
<1>1. UdpInv => Datagrams
  <2> SUFFICES ASSUME UdpInv PROVE Datagrams
    OBVIOUS
  <2>1. ASSUME plan.kind = "vless", plan.cmd = "udp", lost = <<>>
        PROVE  Len(dgrams) <= Len(plan.packets) /\ \A k \in 1..Len(dgrams) : dgrams[k] = Packet(k)
    <3>1. Sent(plan, dgrams) /\ plan \in Plans /\ dgrams \in Seq(Seq(Bytes))
      BY <2>1 DEF UdpInv, Framing
    <3>2. plan.packets \in Seq(Nat \X Nat)
      BY <2>1, <3>1, UdpNumbers DEF Framed
    <3>3. ASSUME NEW k \in 1..Len(dgrams) PROVE dgrams[k] = Packet(k)
      <4>1. k \in 1..Len(plan.packets)
        BY <3>1, <3>2, <3>3 DEF Sent
      <4>2. plan.packets[k] \in Nat \X Nat
        BY <3>2, <4>1
      <4> DEFINE f == plan.packets[k][1]
                 l == plan.packets[k][2] - plan.packets[k][1] + 1
      <4>3. f \in Nat /\ l \in Int
        BY <4>2
      <4>4. dgrams[k] = [i \in 1..l |-> f - 1 + i]
        BY <3>1, <3>3 DEF Sent, Segment
      <4> HIDE DEF f, l
      <4>5. [i \in 1..l |-> f - 1 + i] = [i \in 1..l |-> f + i - 1]
        BY <4>3
      <4> QED
        BY <4>4, <4>5 DEF Packet, f, l
    <3> QED
      BY <3>1, <3>3 DEF Sent
  <2> QED
    BY <2>1 DEF UdpInv, Datagrams
<1> QED
  BY <1>1, UdpInvariant, PTL
=============================================================================
