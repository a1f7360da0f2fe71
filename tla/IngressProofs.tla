---------------------------- MODULE IngressProofs ----------------------------
(* Proofs about Ingress, for every set of clients and all buffer sizes.    *)
EXTENDS Ingress, TLAPS

\* Sequences are equal when their lengths and elements are.
LEMMA SeqEqual ==
    ASSUME NEW S, NEW s \in Seq(S), NEW t \in Seq(S), Len(s) = Len(t), \A i \in 1..Len(s) : s[i] = t[i]
    PROVE  s = t
  OBVIOUS

\* The empty sequence.
LEMMA EmptySeq ==
    ASSUME NEW S
    PROVE  <<>> \in Seq(S) /\ Len(<<>>) = 0
  OBVIOUS

\* The elements of a concatenation.
LEMMA ConcatProperties ==
    ASSUME NEW S, NEW s \in Seq(S), NEW t \in Seq(S)
    PROVE  /\ s \o t \in Seq(S) /\ Len(s \o t) = Len(s) + Len(t)
           /\ \A i \in 1..Len(s) + Len(t) : (s \o t)[i] = IF i <= Len(s) THEN s[i] ELSE t[i - Len(s)]
  OBVIOUS

\* A sequence is its first n elements followed by the others.
LEMMA SplitAt ==
    ASSUME NEW S, NEW s \in Seq(S), NEW n \in 0..Len(s)
    PROVE  /\ SubSeq(s, 1, n) \in Seq(S) /\ Len(SubSeq(s, 1, n)) = n
           /\ SubSeq(s, n + 1, Len(s)) \in Seq(S)
           /\ SubSeq(s, 1, n) \o SubSeq(s, n + 1, Len(s)) = s
<1>1. SubSeq(s, 1, n) \in Seq(S) /\ Len(SubSeq(s, 1, n)) = n
  OBVIOUS
<1>2. SubSeq(s, n + 1, Len(s)) \in Seq(S) /\ Len(SubSeq(s, n + 1, Len(s))) = Len(s) - n
  OBVIOUS
<1>3. SubSeq(s, 1, n) \o SubSeq(s, n + 1, Len(s)) = s
  <2> DEFINE a == SubSeq(s, 1, n)
             b == SubSeq(s, n + 1, Len(s))
  <2>1. /\ a \in Seq(S) /\ Len(a) = n /\ \A i \in 1..n : a[i] = s[i]
        /\ b \in Seq(S) /\ Len(b) = Len(s) - n /\ \A i \in 1..Len(s) - n : b[i] = s[n + i]
    BY <1>1, <1>2
  <2> HIDE DEF a, b
  <2>2. /\ a \o b \in Seq(S) /\ Len(a \o b) = Len(s)
        /\ \A i \in 1..Len(s) : (a \o b)[i] = s[i]
    <3>1. /\ a \o b \in Seq(S) /\ Len(a \o b) = Len(a) + Len(b)
          /\ \A i \in 1..Len(a) + Len(b) : (a \o b)[i] = IF i <= Len(a) THEN a[i] ELSE b[i - Len(a)]
      BY <2>1, ConcatProperties
    <3>2. Len(a) + Len(b) = Len(s)
      BY <2>1
    <3>3. ASSUME NEW i \in 1..Len(s) PROVE (a \o b)[i] = s[i]
      <4>1. (a \o b)[i] = IF i <= n THEN a[i] ELSE b[i - n]
        BY <2>1, <3>1, <3>2
      <4>2. CASE i <= n
        BY <2>1, <4>1, <4>2
      <4>3. CASE ~(i <= n)
        <5>1. i - n \in 1..Len(s) - n /\ n + (i - n) = i
          BY <4>3
        <5> QED
          BY <2>1, <4>1, <4>3, <5>1
      <4> QED
        BY <4>2, <4>3
    <3> QED
      BY <3>1, <3>2, <3>3
  <2>3. a \o b = s
    BY <2>2, SeqEqual
  <2> QED
    BY <2>3 DEF a, b
<1> QED
  BY <1>1, <1>2, <1>3

\* The same with two cuts.
LEMMA SplitTwice ==
    ASSUME NEW S, NEW s \in Seq(S), NEW p \in 0..Len(s), NEW n \in 0..p
    PROVE  /\ SubSeq(s, n + 1, p) \in Seq(S)
           /\ SubSeq(s, 1, n) \o SubSeq(s, n + 1, p) \o SubSeq(s, p + 1, Len(s)) = s
<1>1. SubSeq(s, n + 1, p) \in Seq(S)
  OBVIOUS
<1>2. SubSeq(s, 1, n) \o SubSeq(s, n + 1, p) = SubSeq(s, 1, p)
  OBVIOUS
<1> QED
  BY <1>1, <1>2, SplitAt

(* Concatenation under a name of its own.  The provers expand an equation  *)
(* between two concatenations element by element; through Cat they reason  *)
(* about it algebraically.                                                 *)

Cat(a, b) == a \o b

\* Cat is closed, adds the lengths, ...
LEMMA CatSeq ==
    ASSUME NEW S, NEW a \in Seq(S), NEW b \in Seq(S)
    PROVE  Cat(a, b) \in Seq(S) /\ Len(Cat(a, b)) = Len(a) + Len(b)
  BY DEF Cat

\* ... is associative ...
LEMMA CatAssoc ==
    ASSUME NEW S, NEW a \in Seq(S), NEW b \in Seq(S), NEW c \in Seq(S)
    PROVE  Cat(a, Cat(b, c)) = Cat(Cat(a, b), c)
<1>1. (a \o b) \o c = a \o (b \o c)
  OBVIOUS
<1> QED
  BY <1>1, Zenon DEF Cat

\* ... and has the empty sequence as its unit.
LEMMA CatEmpty ==
    ASSUME NEW S, NEW a \in Seq(S)
    PROVE  Cat(a, <<>>) = a /\ Cat(<<>>, a) = a
  BY DEF Cat

\* SplitAt and SplitTwice in these terms.
LEMMA CatSplit ==
    ASSUME NEW S, NEW s \in Seq(S), NEW p \in 0..Len(s), NEW n \in 0..p
    PROVE  /\ Cat(SubSeq(s, 1, p), SubSeq(s, p + 1, Len(s))) = s
           /\ Cat(Cat(SubSeq(s, 1, n), SubSeq(s, n + 1, p)), SubSeq(s, p + 1, Len(s))) = s
<1>1. Cat(SubSeq(s, 1, p), SubSeq(s, p + 1, Len(s))) = s
  BY SplitAt DEF Cat
<1>2. Cat(Cat(SubSeq(s, 1, n), SubSeq(s, n + 1, p)), SubSeq(s, p + 1, Len(s))) = s
  BY SplitTwice DEF Cat
<1> QED
  BY <1>1, <1>2

\* What the constants' assumption says, field by field.
LEMMA Caps == /\ PeekCap \in Nat \ {0} /\ ReadCap \in Nat \ {0}
              /\ \A p \in Plans : p.hdr \in Nat /\ p.sig \in Nat /\ p.len \in Nat
  BY IngressAssumption

Chain5(k, o, b, p, s) == Cat(Cat(Cat(Cat(k, o), b), p), s)

\* Concatenation of byte sequences.
LEMMA ByteCat ==
    /\ \A a, b \in Seq(Bytes) : Cat(a, b) \in Seq(Bytes)
    /\ \A a, b, c \in Seq(Bytes) : Cat(a, Cat(b, c)) = Cat(Cat(a, b), c)
    /\ \A a \in Seq(Bytes) : Cat(a, <<>>) = a
  BY CatSeq, CatAssoc, CatEmpty

\* The ways in which the stages move bytes leave the chain as it is: accept
\* collects from the prefix or, when it is used up, from the socket ...
LEMMA CollectFromPrefix ==
    ASSUME NEW k \in Seq(Bytes), NEW o \in Seq(Bytes), NEW b \in Seq(Bytes), NEW s \in Seq(Bytes),
           NEW f \in Seq(Bytes), NEW r \in Seq(Bytes)
    PROVE  Chain5(k, o, Cat(b, f), r, s) = Chain5(k, o, b, Cat(f, r), s)
<1> DEFINE ko == Cat(k, o)
<1>1. ko \in Seq(Bytes)
  BY ByteCat
<1> HIDE DEF ko
<1>2. Cat(Cat(ko, Cat(b, f)), r) = Cat(Cat(ko, b), Cat(f, r))
  BY <1>1, ByteCat
<1> QED
  BY <1>2 DEF Chain5, ko

\* (from the socket)
LEMMA CollectFromSocket ==
    ASSUME NEW k \in Seq(Bytes), NEW o \in Seq(Bytes), NEW b \in Seq(Bytes),
           NEW f \in Seq(Bytes), NEW r \in Seq(Bytes)
    PROVE  Chain5(k, o, Cat(b, f), <<>>, r) = Chain5(k, o, b, <<>>, Cat(f, r))
<1> DEFINE ko == Cat(k, o)
<1>1. ko \in Seq(Bytes)
  BY ByteCat
<1> HIDE DEF ko
<1>2. Cat(Cat(ko, Cat(b, f)), r) = Cat(Cat(ko, b), Cat(f, r))
  BY <1>1, ByteCat
<1>3. Cat(ko, Cat(b, f)) \in Seq(Bytes) /\ Cat(ko, b) \in Seq(Bytes)
  BY <1>1, ByteCat
<1>4. Cat(Cat(ko, Cat(b, f)), <<>>) = Cat(ko, Cat(b, f)) /\ Cat(Cat(ko, b), <<>>) = Cat(ko, b)
  BY <1>3, ByteCat
<1> QED
  BY <1>2, <1>4 DEF Chain5, ko

\* ... the consumer reads what was collected, then the prefix, then the socket ...
LEMMA ConsumeBuffer ==
    ASSUME NEW k \in Seq(Bytes), NEW o \in Seq(Bytes),
           NEW p \in Seq(Bytes), NEW s \in Seq(Bytes), NEW f \in Seq(Bytes), NEW r \in Seq(Bytes)
    PROVE  Chain5(k, Cat(o, f), r, p, s) = Chain5(k, o, Cat(f, r), p, s)
<1>1. Cat(Cat(k, Cat(o, f)), r) = Cat(Cat(k, o), Cat(f, r))
  BY ByteCat
<1> QED
  BY <1>1 DEF Chain5

\* (the prefix, the collected bytes being used up)
LEMMA ConsumePrefix ==
    ASSUME NEW k \in Seq(Bytes), NEW o \in Seq(Bytes), NEW s \in Seq(Bytes),
           NEW f \in Seq(Bytes), NEW r \in Seq(Bytes)
    PROVE  Chain5(k, Cat(o, f), <<>>, r, s) = Chain5(k, o, <<>>, Cat(f, r), s)
<1>1. Cat(Cat(k, Cat(o, f)), r) = Cat(Cat(k, o), Cat(f, r))
  BY ByteCat
<1>2. Cat(k, Cat(o, f)) \in Seq(Bytes) /\ Cat(k, o) \in Seq(Bytes)
  BY ByteCat
<1>3. Cat(Cat(k, Cat(o, f)), <<>>) = Cat(k, Cat(o, f)) /\ Cat(Cat(k, o), <<>>) = Cat(k, o)
  BY <1>2, ByteCat
<1> QED
  BY <1>1, <1>3 DEF Chain5

\* (the socket, both being used up)
LEMMA ConsumeSocket ==
    ASSUME NEW k \in Seq(Bytes), NEW o \in Seq(Bytes),
           NEW f \in Seq(Bytes), NEW r \in Seq(Bytes)
    PROVE  Chain5(k, Cat(o, f), <<>>, <<>>, r) = Chain5(k, o, <<>>, <<>>, Cat(f, r))
<1>1. Cat(Cat(k, Cat(o, f)), r) = Cat(Cat(k, o), Cat(f, r))
  BY ByteCat
<1>2. Cat(k, Cat(o, f)) \in Seq(Bytes) /\ Cat(k, o) \in Seq(Bytes)
  BY ByteCat
<1>3. Cat(Cat(k, Cat(o, f)), <<>>) = Cat(k, Cat(o, f)) /\ Cat(Cat(k, o), <<>>) = Cat(k, o)
  BY <1>2, ByteCat
<1> QED
  BY <1>1, <1>3 DEF Chain5

\* ... and the fallback writes all that was collected.
LEMMA ConsumeAll ==
    ASSUME NEW k \in Seq(Bytes), NEW o \in Seq(Bytes), NEW b \in Seq(Bytes),
           NEW p \in Seq(Bytes), NEW s \in Seq(Bytes)
    PROVE  Chain5(k, Cat(o, b), <<>>, p, s) = Chain5(k, o, b, p, s)
<1>1. Cat(k, Cat(o, b)) = Cat(Cat(k, o), b) /\ Cat(k, Cat(o, b)) \in Seq(Bytes)
  BY ByteCat
<1>2. Cat(Cat(k, Cat(o, b)), <<>>) = Cat(k, Cat(o, b))
  BY <1>1, ByteCat
<1> QED
  BY <1>1, <1>2 DEF Chain5

\* The first byte the consumer got follows the skipped ones.
LEMMA FirstOut ==
    ASSUME NEW k \in Seq(Bytes), NEW o \in Seq(Bytes), NEW r \in Seq(Bytes), o # <<>>
    PROVE  /\ Len(k) \in Nat /\ Len(k) < Len(Cat(Cat(k, o), r))
           /\ Cat(Cat(k, o), r)[Len(k) + 1] = o[1]
<1> DEFINE ko == k \o o
<1>0. Len(k) \in Nat /\ Len(o) \in Nat \ {0}
  OBVIOUS
<1>1. /\ ko \in Seq(Bytes) /\ Len(k) < Len(ko) /\ ko[Len(k) + 1] = o[1]
  BY <1>0
<1> HIDE DEF ko
<1>2. Len(k) < Len(ko \o r) /\ (ko \o r)[Len(k) + 1] = ko[Len(k) + 1]
  BY <1>0, <1>1
<1> QED
  BY <1>0, <1>1, <1>2 DEF Cat, ko

\* TypeOK, conservation, and what they need: a byte is its position in the
\* stream, a header is removed whole, and nothing collected is left behind
\* when copying starts.
StreamInv ==
    /\ TypeOK
    /\ sent = Chain5(skipped, out, buffer, prefix, sock)
    /\ \A i \in 1..Len(sent) : sent[i] = i
    /\ skipped # <<>> => Len(skipped) = plan.hdr
    /\ pc = "copy" => buffer = <<>>

\* A new connection has received nothing, so the chain is empty.
LEMMA InitStream == Init => StreamInv
<1> SUFFICES ASSUME Init PROVE StreamInv
  OBVIOUS
<1>1. TypeOK
  <2>1. <<>> \in Seq(Bytes)
    OBVIOUS
  <2> QED
    <3>1. pc \in {"peek", "hello", "serve"} /\ plan \in Plans
      BY DEF Init
    <3>2. peeked \in 0..PeekCap
      BY Caps DEF Init
    <3>3. closed \in BOOLEAN /\ shut \in BOOLEAN /\ destDone \in BOOLEAN
      BY DEF Init
    <3>4. sock = <<>> /\ prefix = <<>> /\ buffer = <<>> /\ out = <<>> /\ skipped = <<>> /\ sent = <<>>
      BY DEF Init
    <3> QED
      BY <2>1, <3>1, <3>2, <3>3, <3>4 DEF TypeOK
<1>2. Chain5(<<>>, <<>>, <<>>, <<>>, <<>>) = <<>>
  <2>1. <<>> \in Seq(Bytes) /\ Cat(<<>>, <<>>) = <<>>
    BY EmptySeq, CatEmpty
  <2> QED
    BY <2>1 DEF Chain5
<1> QED
  BY <1>1, <1>2 DEF Init, StreamInv

\* What one read of the stream behind server.rs's PrefixedStream does.
LEMMA StreamRead ==
    ASSUME TypeOK, NEW n \in 1..ReadCap, StreamReady(n), StreamAdvance(n)
    PROVE  /\ StreamTake(n) \in Seq(Bytes)
           /\ prefix' \in Seq(Bytes) /\ sock' \in Seq(Bytes)
           /\ \/ Cat(StreamTake(n), prefix') = prefix /\ sock' = sock
              \/ prefix = <<>> /\ prefix' = <<>> /\ Cat(StreamTake(n), sock') = sock
<1>0. sock \in Seq(Bytes) /\ prefix \in Seq(Bytes) /\ n \in Nat
  BY Caps DEF TypeOK
<1>1. CASE prefix # <<>>
  <2>1. n \in 0..Len(prefix) /\ StreamTake(n) = SubSeq(prefix, 1, n)
        /\ prefix' = SubSeq(prefix, n + 1, Len(prefix)) /\ sock' = sock
    BY <1>0, <1>1 DEF StreamReady, StreamTake, StreamAdvance, First, Rest
  <2> QED
    BY <1>0, <2>1, SplitAt DEF Cat
<1>2. CASE prefix = <<>>
  <2>1. n \in 0..Len(sock) /\ StreamTake(n) = SubSeq(sock, 1, n)
        /\ sock' = SubSeq(sock, n + 1, Len(sock)) /\ prefix' = prefix
    BY <1>0, <1>2 DEF StreamReady, StreamTake, StreamAdvance, First, Rest
  <2> QED
    BY <1>0, <1>2, <2>1, SplitAt DEF Cat
<1> QED
  BY <1>1, <1>2

\* Every step of the task and of the client keeps StreamInv.
LEMMA StreamStep == ASSUME StreamInv, [Next]_vars PROVE StreamInv'
<1>0. /\ plan \in Plans /\ sock \in Seq(Bytes) /\ prefix \in Seq(Bytes) /\ buffer \in Seq(Bytes)
      /\ out \in Seq(Bytes) /\ skipped \in Seq(Bytes) /\ sent \in Seq(Bytes)
      /\ sent = Chain5(skipped, out, buffer, prefix, sock)
  BY DEF StreamInv, TypeOK
<1>1. CASE UNCHANGED <<plan, sock, prefix, buffer, out, skipped, sent, peeked>>
           /\ pc' \in {"hello", "tls", "serve", "connect", "write", "closed"} \cup {pc}
           /\ closed' \in BOOLEAN /\ shut' \in BOOLEAN /\ destDone' \in BOOLEAN
  BY <1>1 DEF StreamInv, TypeOK, IsProxyProtocol
<1>2. CASE Peek
  BY <1>2, Caps DEF Peek, StreamInv, TypeOK, MinOf, AfterPP, ends, IsProxyProtocol
<1>3. CASE ReadExact
  <2> DEFINE n == IF ParseProxyProtocol(peeked) THEN plan.hdr ELSE 0
  <2>1. /\ peeked \in 0..Len(sock) /\ n \in 0..peeked /\ n \in {0, plan.hdr}
        /\ prefix = <<>> /\ buffer = <<>> /\ out = <<>> /\ skipped = <<>>
    BY <1>3, Caps DEF ReadExact, StreamInv, TypeOK, ParseProxyProtocol
  <2>2. /\ skipped' = SubSeq(sock, 1, n) /\ prefix' = SubSeq(sock, n + 1, peeked)
        /\ sock' = SubSeq(sock, peeked + 1, Len(sock)) /\ pc' \in {"hello", "serve"}
        /\ UNCHANGED <<plan, peeked, buffer, out, sent, closed, shut, destDone>>
    BY <1>3 DEF ReadExact, First, Rest, AfterPP, ends
  <2> HIDE DEF n
  <2>3. n \in 0..Len(sock) /\ n \in Nat /\ peeked \in Nat
    BY <1>0, <2>1
  <2>4. /\ skipped' \in Seq(Bytes) /\ Len(skipped') = n /\ sock' \in Seq(Bytes)
    BY <1>0, <2>1, <2>2, <2>3, SplitAt
  <2>5. prefix' \in Seq(Bytes)
    BY <1>0, <2>1, <2>2, SplitTwice
  <2>6. Cat(Cat(skipped', prefix'), sock') = sock
    BY <1>0, <2>1, <2>2, CatSplit
  <2>7. TypeOK'
    BY <2>1, <2>2, <2>4, <2>5 DEF StreamInv, TypeOK
  <2>8. Chain5(skipped', out', buffer', prefix', sock') = sock
    <3>1. Cat(skipped', <<>>) = skipped'
      BY <2>4, CatEmpty
    <3> QED
      BY <2>1, <2>2, <2>6, <3>1 DEF Chain5
  <2>9. sent = sock
    <3>1. Cat(<<>>, sock) = sock /\ Cat(<<>>, <<>>) = <<>>
      BY <1>0, EmptySeq, CatEmpty
    <3> QED
      BY <1>0, <2>1, <3>1 DEF Chain5
  <2>10. skipped' # <<>> => Len(skipped') = plan.hdr
    BY <2>1, <2>4
  <2> QED
    BY <2>2, <2>7, <2>8, <2>9, <2>10 DEF StreamInv
<1>4. ASSUME NEW n \in 1..ReadCap, HelloRead(n) PROVE StreamInv'
  <2>1. /\ pc' = "hello" /\ pc = "hello" /\ buffer' = Cat(buffer, StreamTake(n))
        /\ StreamReady(n) /\ StreamAdvance(n)
        /\ UNCHANGED <<plan, peeked, out, skipped, sent, closed, shut, destDone>>
    BY <1>4 DEF HelloRead, Cat, ends
  <2>2. /\ StreamTake(n) \in Seq(Bytes) /\ prefix' \in Seq(Bytes) /\ sock' \in Seq(Bytes)
        /\ \/ Cat(StreamTake(n), prefix') = prefix /\ sock' = sock
           \/ prefix = <<>> /\ prefix' = <<>> /\ Cat(StreamTake(n), sock') = sock
    BY <2>1, StreamRead DEF StreamInv
  <2>3. TypeOK'
    BY <1>0, <2>1, <2>2, CatSeq DEF StreamInv, TypeOK
  <2>4. Chain5(skipped', out', buffer', prefix', sock') = Chain5(skipped, out, buffer, prefix, sock)
    <3>1. CASE Cat(StreamTake(n), prefix') = prefix /\ sock' = sock
      <4>1. Chain5(skipped, out, Cat(buffer, StreamTake(n)), prefix', sock)
              = Chain5(skipped, out, buffer, Cat(StreamTake(n), prefix'), sock)
        <5>1. /\ skipped \in Seq(Bytes) /\ out \in Seq(Bytes) /\ buffer \in Seq(Bytes) /\ sock \in Seq(Bytes)
              /\ StreamTake(n) \in Seq(Bytes) /\ prefix' \in Seq(Bytes)
          BY <1>0, <2>2
        <5> QED
          BY <5>1, CollectFromPrefix
      <4> QED
        BY <2>1, <3>1, <4>1
    <3>2. CASE prefix = <<>> /\ prefix' = <<>> /\ Cat(StreamTake(n), sock') = sock
      <4>1. Chain5(skipped, out, Cat(buffer, StreamTake(n)), prefix, sock') = Chain5(skipped, out, buffer, prefix, sock)
        BY <1>0, <2>2, <3>2, CollectFromSocket
      <4> QED
        BY <2>1, <3>2, <4>1
    <3> QED
      BY <2>2, <3>1, <3>2
  <2> QED
    BY <1>0, <2>1, <2>3, <2>4 DEF StreamInv
<1>5. ASSUME NEW n \in 1..ReadCap, TlsRead(n) \/ Copy(n) PROVE StreamInv'
  <2>1. /\ pc' = pc /\ pc \in {"tls", "serve", "copy"}
        /\ UNCHANGED <<plan, peeked, skipped, sent, closed, shut, destDone>>
    BY <1>5 DEF TlsRead, Copy, ends
  <2>2. CASE TlsRead(n) /\ buffer # <<>>
    <3> DEFINE t == SubSeq(buffer, 1, n)
    <3>1. /\ n \in 0..Len(buffer) /\ out' = Cat(out, t)
          /\ buffer' = SubSeq(buffer, n + 1, Len(buffer)) /\ UNCHANGED <<sock, prefix>>
      BY <2>2, <1>0, Caps DEF TlsRead, Cat, First, Rest
    <3>2. t \in Seq(Bytes) /\ buffer' \in Seq(Bytes) /\ Cat(t, buffer') = buffer
      BY <1>0, <3>1, SplitAt DEF Cat
    <3> HIDE DEF t
    <3>3. TypeOK'
      BY <1>0, <2>1, <3>1, <3>2, CatSeq DEF StreamInv, TypeOK
    <3>4. Chain5(skipped', out', buffer', prefix', sock') = Chain5(skipped, out, buffer, prefix, sock)
      <4>1. Chain5(skipped, Cat(out, t), buffer', prefix, sock) = Chain5(skipped, out, Cat(t, buffer'), prefix, sock)
        <5>1. /\ skipped \in Seq(Bytes) /\ out \in Seq(Bytes) /\ prefix \in Seq(Bytes) /\ sock \in Seq(Bytes)
              /\ t \in Seq(Bytes) /\ buffer' \in Seq(Bytes)
          BY <1>0, <3>2
        <5> QED
          BY <5>1, ConsumeBuffer
      <4> QED
        BY <2>1, <3>1, <3>2, <4>1
    <3> QED
      BY <1>0, <2>1, <2>2, <3>3, <3>4 DEF StreamInv
  <2>3. CASE ~(TlsRead(n) /\ buffer # <<>>)
    <3>1. /\ buffer = <<>> /\ buffer' = buffer /\ out' = Cat(out, StreamTake(n))
          /\ StreamReady(n) /\ StreamAdvance(n)
      BY <1>5, <2>3 DEF TlsRead, Copy, Cat, StreamInv
    <3>2. /\ StreamTake(n) \in Seq(Bytes) /\ prefix' \in Seq(Bytes) /\ sock' \in Seq(Bytes)
          /\ \/ Cat(StreamTake(n), prefix') = prefix /\ sock' = sock
             \/ prefix = <<>> /\ prefix' = <<>> /\ Cat(StreamTake(n), sock') = sock
      BY <3>1, StreamRead DEF StreamInv
    <3>3. TypeOK'
      BY <1>0, <2>1, <3>1, <3>2, CatSeq DEF StreamInv, TypeOK
    <3>4. Chain5(skipped', out', buffer', prefix', sock') = Chain5(skipped, out, buffer, prefix, sock)
      <4>1. CASE Cat(StreamTake(n), prefix') = prefix /\ sock' = sock
        <5>1. Chain5(skipped, Cat(out, StreamTake(n)), buffer, prefix', sock) = Chain5(skipped, out, buffer, prefix, sock)
          BY <1>0, <3>1, <3>2, <4>1, ConsumePrefix
        <5> QED
          BY <2>1, <3>1, <4>1, <5>1
      <4>2. CASE prefix = <<>> /\ prefix' = <<>> /\ Cat(StreamTake(n), sock') = sock
        <5>1. Chain5(skipped, Cat(out, StreamTake(n)), buffer, prefix, sock') = Chain5(skipped, out, buffer, prefix, sock)
          BY <1>0, <3>1, <3>2, <4>2, ConsumeSocket
        <5> QED
          BY <2>1, <3>1, <4>2, <5>1
      <4> QED
        BY <3>1, <3>2, <4>1, <4>2
    <3> QED
      BY <1>0, <2>1, <3>1, <3>3, <3>4 DEF StreamInv
  <2> QED
    BY <2>2, <2>3
<1>6. CASE FallbackWrite
  <2>1. CASE pc' = "copy" /\ out' = Cat(out, buffer) /\ buffer' = <<>>
             /\ UNCHANGED <<plan, peeked, sock, prefix, skipped, sent, closed, shut, destDone>>
    <3>1. TypeOK'
      BY <1>0, <2>1, CatSeq DEF StreamInv, TypeOK
    <3>2. Chain5(skipped', out', buffer', prefix', sock') = Chain5(skipped, out, buffer, prefix, sock)
      BY <1>0, <2>1, ConsumeAll
    <3> QED
      BY <1>0, <2>1, <3>1, <3>2 DEF StreamInv
  <2> QED
    BY <1>1, <1>6, <2>1 DEF FallbackWrite, Cat, ends, StreamInv, TypeOK
<1>7. ASSUME NEW n \in 1..plan.len, ClientSend(n) PROVE StreamInv'
  <2> DEFINE seg == [i \in 1..n |-> Len(sent) + i]
  <2>1. /\ sock' = Cat(sock, seg) /\ sent' = Cat(sent, seg)
        /\ UNCHANGED <<plan, pc, peeked, closed, prefix, buffer, out, skipped, shut, destDone>>
    BY <1>7 DEF ClientSend, Cat
  <2>2. seg \in Seq(Bytes) /\ Len(seg) = n /\ Len(sent) \in Nat /\ n \in Nat
        /\ \A i \in 1..n : seg[i] = Len(sent) + i
    BY <1>0, Caps DEF Bytes
  <2> HIDE DEF seg
  <2>3. sock' \in Seq(Bytes) /\ sent' \in Seq(Bytes) /\ Len(sock') = Len(sock) + n
        /\ Len(sent') = Len(sent) + n
    BY <1>0, <2>1, <2>2, CatSeq
  <2>4. TypeOK'
    BY <1>0, <2>1, <2>2, <2>3, SMTT(30) DEF StreamInv, TypeOK, IsProxyProtocol
  <2>5. sent' = Chain5(skipped', out', buffer', prefix', sock')
    <3>1. Chain5(skipped, out, buffer, prefix, Cat(sock, seg)) = Cat(Chain5(skipped, out, buffer, prefix, sock), seg)
      <4>1. /\ skipped \in Seq(Bytes) /\ out \in Seq(Bytes) /\ buffer \in Seq(Bytes)
            /\ prefix \in Seq(Bytes) /\ sock \in Seq(Bytes) /\ seg \in Seq(Bytes)
        BY <1>0, <2>2
      <4> DEFINE front == Cat(Cat(Cat(skipped, out), buffer), prefix)
      <4>2. front \in Seq(Bytes)
        BY <4>1, ByteCat
      <4> HIDE DEF front
      <4>3. Cat(front, Cat(sock, seg)) = Cat(Cat(front, sock), seg)
        BY <4>1, <4>2, CatAssoc
      <4> QED
        BY <4>3 DEF Chain5, front
    <3> QED
      BY <1>0, <2>1, <3>1
  <2>6. \A i \in 1..Len(sent') : sent'[i] = i
    <3>1. \A i \in 1..Len(sent) : sent[i] = i
      BY DEF StreamInv
    <3>2. \A i \in 1..Len(sent) + n : sent'[i] = IF i <= Len(sent) THEN sent[i] ELSE seg[i - Len(sent)]
      BY <1>0, <2>1, <2>2, SMTT(30) DEF Cat
    <3> QED
      BY <2>2, <2>3, <3>1, <3>2
  <2> QED
    BY <2>1, <2>4, <2>5, <2>6 DEF StreamInv
<1>8. PeekNothing \/ ReadErr \/ HelloEof \/ HelloTimeout \/ CertFail \/ HelloDispatch \/ TlsDone \/ TlsFail
      \/ FallbackConnect \/ CopyEof \/ CopyEnd \/ CopyErr \/ DestClose \/ ClientClose
      \/ UNCHANGED vars => StreamInv'
  BY <1>1 DEF PeekNothing, ReadErr, HelloEof, HelloTimeout, CertFail, HelloDispatch, TlsDone, TlsFail,
     FallbackConnect, CopyEof, CopyEnd, CopyErr, DestClose, ClientClose, vars, ends, AfterPP,
     StreamInv, TypeOK
<1> QED
  BY <1>2, <1>3, <1>4, <1>5, <1>6, <1>7, <1>8
     DEF Next, HandleNext, HelloNext, TlsNext, FallbackNext

\* StreamInv holds in every reachable state of handle_client and accept.
THEOREM StreamInvariant == Spec => []StreamInv
  BY InitStream, StreamStep, PTL DEF Spec

\* Every variable keeps to its type, and read_exact never waits for bytes
\* that peek did not see.
THEOREM IngressTypes == Spec => []TypeOK
<1>1. StreamInv => TypeOK
  BY DEF StreamInv
<1> QED
  BY <1>1, StreamInvariant, PTL

\* Whatever the clients send and however it is cut into segments, the two
\* replaying streams lose, repeat and reorder nothing.
THEOREM NoByteLost == Spec => []StreamConserved
<1>1. StreamInv => StreamConserved
  BY DEF StreamInv, StreamConserved, Chain5, Cat
<1> QED
  BY <1>1, StreamInvariant, PTL

\* Nobody ever sees the tail of a proxy-protocol header.
THEOREM HeaderWhole == Spec => []HeaderAllOrNothing
<1>1. StreamInv => HeaderAllOrNothing
  <2> SUFFICES ASSUME StreamInv, out # <<>>
               PROVE  \/ skipped = <<>> /\ out[1] = 1
                      \/ Len(skipped) = plan.hdr /\ out[1] = plan.hdr + 1
    BY DEF HeaderAllOrNothing
  <2>1. /\ skipped \in Seq(Bytes) /\ out \in Seq(Bytes) /\ sent \in Seq(Bytes)
        /\ buffer \in Seq(Bytes) /\ prefix \in Seq(Bytes) /\ sock \in Seq(Bytes)
        /\ \A i \in 1..Len(sent) : sent[i] = i
    BY DEF StreamInv, TypeOK
  <2>2. PICK rest \in Seq(Bytes) : rest = Cat(Cat(buffer, prefix), sock)
    BY <2>1, ByteCat
  <2>3. sent = Cat(Cat(skipped, out), rest)
    <3>1. Cat(skipped, out) \in Seq(Bytes)
      BY <2>1, ByteCat
    <3>2. Cat(Cat(Cat(Cat(skipped, out), buffer), prefix), sock)
            = Cat(Cat(skipped, out), Cat(Cat(buffer, prefix), sock))
      BY <2>1, <3>1, ByteCat
    <3> QED
      BY <2>2, <3>2 DEF StreamInv, Chain5
  <2>4. Len(skipped) \in Nat /\ Len(skipped) < Len(sent) /\ sent[Len(skipped) + 1] = out[1]
    <3>1. /\ Len(skipped) \in Nat /\ Len(skipped) < Len(Cat(Cat(skipped, out), rest))
          /\ Cat(Cat(skipped, out), rest)[Len(skipped) + 1] = out[1]
      BY <2>1, <2>2, FirstOut
    <3> QED
      BY <2>3, <3>1
  <2>5. Len(sent) \in Nat
    BY <2>1
  <2>6. out[1] = Len(skipped) + 1
    BY <2>1, <2>4, <2>5
  <2> QED
    BY <2>6 DEF StreamInv
<1> QED
  BY <1>1, StreamInvariant, PTL

\* The stream the VLESS server or the fallback site is given (server.rs, the
\* PrefixedStream and the record reader) is what the client sent, with a
\* proxy-protocol header whole or stripped whole.
THEOREM StreamIsIntact == Spec => []StreamIntact
  BY NoByteLost, HeaderWhole, PTL DEF StreamIntact

-----------------------------------------------------------------------------
(* Who is sent to the fallback destination.                                *)

\* Nothing is consumed while the ClientHello is collected, so that the bytes
\* collected are those behind the header.
ServedInv == (pc \in {"peek", "exact", "hello"} => out = <<>>) /\ GenuineClientServed

\* What is collected starts behind the header, and is no more than was sent.
LEMMA CollectedBehindHeader ==
    ASSUME StreamInv, out = <<>>, buffer # <<>>
    PROVE  /\ Len(skipped) \in Nat /\ Len(buffer) \in Nat /\ Len(sent) \in Nat
           /\ buffer[1] = Len(skipped) + 1 /\ Len(skipped) + Len(buffer) <= Len(sent)
<1>1. /\ skipped \in Seq(Bytes) /\ out \in Seq(Bytes) /\ sent \in Seq(Bytes)
      /\ buffer \in Seq(Bytes) /\ prefix \in Seq(Bytes) /\ sock \in Seq(Bytes)
      /\ \A i \in 1..Len(sent) : sent[i] = i
      /\ sent = Chain5(skipped, out, buffer, prefix, sock)
  BY DEF StreamInv, TypeOK
<1>2. PICK rest \in Seq(Bytes) : rest = Cat(prefix, sock)
  BY <1>1, ByteCat
<1>3. sent = Cat(Cat(skipped, buffer), rest)
  <2>1. Cat(skipped, <<>>) = skipped /\ Cat(skipped, buffer) \in Seq(Bytes)
    BY <1>1, ByteCat
  <2>2. Cat(Cat(Cat(skipped, buffer), prefix), sock) = Cat(Cat(skipped, buffer), Cat(prefix, sock))
    BY <1>1, <2>1, ByteCat
  <2> QED
    BY <1>1, <1>2, <2>1, <2>2 DEF Chain5
<1>4. Len(skipped) \in Nat /\ Len(buffer) \in Nat /\ Len(sent) \in Nat /\ Len(rest) \in Nat
  BY <1>1, <1>2
<1>5. Len(sent) = Len(skipped) + Len(buffer) + Len(rest)
  <2>1. Cat(skipped, buffer) \in Seq(Bytes) /\ Len(Cat(skipped, buffer)) = Len(skipped) + Len(buffer)
    BY <1>1, CatSeq
  <2>2. Len(Cat(Cat(skipped, buffer), rest)) = Len(Cat(skipped, buffer)) + Len(rest)
    BY <1>2, <2>1, CatSeq
  <2> QED
    BY <1>3, <2>1, <2>2
<1>6. Len(skipped) < Len(sent) /\ sent[Len(skipped) + 1] = buffer[1]
  <2>1. /\ Len(skipped) < Len(Cat(Cat(skipped, buffer), rest))
        /\ Cat(Cat(skipped, buffer), rest)[Len(skipped) + 1] = buffer[1]
    BY <1>1, <1>2, FirstOut
  <2> QED
    BY <1>3, <2>1
<1>7. Len(skipped) + 1 \in 1..Len(sent)
  BY <1>4, <1>6
<1> QED
  BY <1>1, <1>4, <1>5, <1>6, <1>7

\* When accept stops collecting from a client that authenticates and waits,
\* it has exactly that client's record.
LEMMA GenuineIsVerified ==
    ASSUME StreamInv, out = <<>>, ~HelloWants,
           plan.auth, plan.tls, RecHdr <= plan.rec, plan.rec <= MaxHello,
           Len(skipped) = plan.hdr, Len(sent) <= plan.hdr + plan.rec
    PROVE  Verified
<1>0. /\ RecHdr \in Nat \ {0} /\ MaxHello \in Nat /\ plan.rec \in Nat /\ plan.hdr \in Nat
      /\ buffer \in Seq(Bytes)
  BY IngressAssumption DEF StreamInv, TypeOK
<1>1. Len(buffer) \in Nat /\ Len(buffer) >= RecHdr /\ ~(Len(buffer) < Needed /\ Len(buffer) < MaxHello)
  BY <1>0 DEF HelloWants
<1>2. buffer # <<>>
  BY <1>0, <1>1
<1>3. buffer[1] = plan.hdr + 1 /\ plan.hdr + Len(buffer) <= Len(sent) /\ Len(sent) \in Nat
  BY <1>2, CollectedBehindHeader
<1>4. IsHello /\ Needed = plan.rec
  BY <1>3 DEF IsHello, Needed
<1>5. Len(buffer) = plan.rec
  BY <1>0, <1>1, <1>3, <1>4
<1> QED
  BY <1>0, <1>4, <1>5 DEF Verified, ParsesHello

\* Every step keeps ServedInv: only HelloDispatch leads an open connection to
\* the fallback, and the client cannot unsend anything.
LEMMA ServedStep == ASSUME StreamInv, ServedInv, [Next]_vars PROVE ServedInv'
<1>0. /\ plan \in Plans /\ plan.hdr \in Nat /\ plan.rec \in Nat
      /\ sent \in Seq(Bytes) /\ Len(sent) \in Nat
  BY IngressAssumption DEF StreamInv, TypeOK
<1>1. ASSUME UNCHANGED <<plan, skipped, sent>>, closed => closed',
             pc' \in {"connect", "write", "copy"} => pc \in {"connect", "write", "copy"} \/ closed,
             pc' \in {"peek", "exact", "hello"} => out' = <<>>
      PROVE  ServedInv'
  BY <1>1 DEF ServedInv, GenuineClientServed
<1>2. ASSUME NEW n \in 1..plan.len, ClientSend(n) PROVE ServedInv'
  <2>1. /\ UNCHANGED <<plan, pc, closed, out, skipped>>
        /\ sent' = Cat(sent, [i \in 1..n |-> Len(sent) + i])
    BY <1>2 DEF ClientSend, Cat
  <2> DEFINE seg == [i \in 1..n |-> Len(sent) + i]
  <2>2. n \in Nat /\ seg \in Seq(Bytes) /\ Len(seg) = n
    BY <1>0, Caps DEF Bytes
  <2> HIDE DEF seg
  <2>3. Len(Cat(sent, seg)) = Len(sent) + n
    BY <1>0, <2>2, CatSeq
  <2>4. Len(sent) <= Len(sent')
    BY <1>0, <2>1, <2>2, <2>3 DEF seg
  <2>5. Len(sent') \in Nat
    BY <1>0, <2>1, <2>2, <2>3 DEF seg
  <2> QED
    BY <1>0, <2>1, <2>4, <2>5 DEF ServedInv, GenuineClientServed
<1>3. CASE HelloDispatch
  <2>1. /\ pc = "hello" /\ ~HelloWants /\ out = <<>>
        /\ UNCHANGED <<plan, closed, out, skipped, sent>>
        /\ pc' = IF Verified THEN "tls" ELSE "connect"
    BY <1>3 DEF HelloDispatch, ends, ServedInv
  <2>2. GenuineClientServed'
    BY <2>1, GenuineIsVerified DEF GenuineClientServed
  <2> QED
    BY <2>1, <2>2 DEF ServedInv
<1>4. CASE Peek \/ PeekNothing \/ ReadExact
  <2>1. pc' \in {"exact", "hello", "serve"} /\ out' = out /\ pc \in {"peek", "exact"}
    BY <1>4 DEF Peek, PeekNothing, ReadExact, AfterPP
  <2> QED
    BY <2>1 DEF ServedInv, GenuineClientServed
<1>5. ASSUME NEW n \in 1..ReadCap, HelloRead(n) \/ TlsRead(n) \/ Copy(n) PROVE ServedInv'
  BY <1>1, <1>5 DEF HelloRead, TlsRead, Copy, ends, ServedInv
<1>6. CASE ReadErr \/ CopyErr \/ HelloEof \/ HelloTimeout \/ CertFail \/ TlsDone \/ TlsFail
           \/ FallbackConnect \/ FallbackWrite \/ CopyEof \/ CopyEnd \/ DestClose \/ ClientClose
           \/ UNCHANGED vars
  BY <1>1, <1>6 DEF ReadErr, CopyErr, HelloEof, HelloTimeout, CertFail, TlsDone, TlsFail, FallbackConnect,
     FallbackWrite, CopyEof, CopyEnd, DestClose, ClientClose, vars, ends, ServedInv
<1> QED
  BY <1>2, <1>3, <1>4, <1>5, <1>6 DEF Next, HandleNext, HelloNext, TlsNext, FallbackNext

\* A client that authenticates and waits for its answer is never sent to the
\* fallback destination, for every client, every way its bytes are cut and all
\* buffer sizes (server_rustls.rs:76-177).
THEOREM GenuineClientsAreServed == Spec => []GenuineClientServed
<1>1. Init => ServedInv
  BY DEF Init, ServedInv, GenuineClientServed
<1>2. ServedInv => GenuineClientServed
  BY DEF ServedInv
<1> QED
  BY <1>1, <1>2, StreamInvariant, ServedStep, PTL DEF Spec
=============================================================================
