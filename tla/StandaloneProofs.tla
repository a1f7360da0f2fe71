-------------------------- MODULE StandaloneProofs --------------------------
EXTENDS Standalone, Integers, TLAPS

-----------------------------------------------------------------------------
(* Pieces of the body.                                                     *)

\* The positions behind a up to b.
LEMMA RangeFacts ==
    ASSUME NEW a \in Nat, NEW b \in Nat, a <= b
    PROVE  /\ Range1(a, b) \in Seq(Nat) /\ Len(Range1(a, b)) = b - a
           /\ \A i \in 1..(b - a) : Range1(a, b)[i] = a + i
           /\ a = b => Range1(a, b) = <<>>
  BY DEF Range1

\* Sequences are equal when their lengths and elements are.
LEMMA SeqEqual ==
    ASSUME NEW S, NEW s \in Seq(S), NEW t \in Seq(S), Len(s) = Len(t), \A i \in 1..Len(s) : s[i] = t[i]
    PROVE  s = t
  OBVIOUS

\* A sequence that holds the elements of s and then those of t.
LEMMA ConcatIs ==
    ASSUME NEW S, NEW s \in Seq(S), NEW t \in Seq(S), NEW u \in Seq(S), Len(u) = Len(s) + Len(t),
           \A i \in 1..Len(s) : u[i] = s[i], \A i \in 1..Len(t) : u[Len(s) + i] = t[i]
    PROVE  s \o t = u
<1>1. /\ s \o t \in Seq(S) /\ Len(s \o t) = Len(s) + Len(t)
      /\ \A i \in 1..Len(s) + Len(t) : (s \o t)[i] = IF i <= Len(s) THEN s[i] ELSE t[i - Len(s)]
  OBVIOUS
<1>2. ASSUME NEW i \in 1..Len(u) PROVE (s \o t)[i] = u[i]
  <2>1. CASE i <= Len(s)
    BY <1>1, <2>1
  <2>2. CASE ~(i <= Len(s))
    <3>1. i - Len(s) \in 1..Len(t) /\ Len(s) + (i - Len(s)) = i
      BY <2>2
    <3> QED
      BY <1>1, <2>2, <3>1
  <2> QED
    BY <2>1, <2>2
<1> QED
  BY <1>1, <1>2, SeqEqual

\* Adjacent pieces make one.
LEMMA RangeConcat ==
    ASSUME NEW a \in Nat, NEW b \in Nat, NEW c \in Nat, a <= b, b <= c
    PROVE  Range1(a, b) \o Range1(b, c) = Range1(a, c)
<1> DEFINE s == Range1(a, b)
           t == Range1(b, c)
           u == Range1(a, c)
<1>1. /\ s \in Seq(Nat) /\ Len(s) = b - a /\ \A i \in 1..(b - a) : s[i] = a + i
      /\ t \in Seq(Nat) /\ Len(t) = c - b /\ \A i \in 1..(c - b) : t[i] = b + i
      /\ u \in Seq(Nat) /\ Len(u) = c - a /\ \A i \in 1..(c - a) : u[i] = a + i
  <2>1. a <= c
    OBVIOUS
  <2> QED
    BY <2>1, RangeFacts, Zenon
<1> HIDE DEF s, t, u
<1>2. Len(u) = Len(s) + Len(t)
  BY <1>1
<1>5. ASSUME NEW i \in 1..Len(s) PROVE u[i] = s[i]
  <2>1. i \in 1..(b - a) /\ i \in 1..(c - a)
    BY <1>1
  <2> QED
    BY <1>1, <2>1
<1>3. ASSUME NEW i \in 1..Len(t) PROVE u[Len(s) + i] = t[i]
  <2>1. i \in 1..(c - b) /\ Len(s) + i \in 1..(c - a) /\ a + (Len(s) + i) = b + i
    BY <1>1
  <2> QED
    BY <1>1, <2>1
<1>4. s \o t = u
  BY <1>1, <1>2, <1>3, <1>5, ConcatIs
<1> QED
  BY <1>4 DEF s, t, u

\* The elements of a piece of a sequence.
LEMMA PieceFacts ==
    ASSUME NEW S, NEW s \in Seq(S), NEW i \in Nat, NEW j \in Nat, i <= j, j <= Len(s)
    PROVE  /\ SubSeq(s, i + 1, j) \in Seq(S) /\ Len(SubSeq(s, i + 1, j)) = j - i
           /\ \A k \in 1..(j - i) : SubSeq(s, i + 1, j)[k] = s[i + k]
  OBVIOUS

\* Behind i up to j, of the positions behind a up to b.
PieceOf(a, b, i, j) == SubSeq(Range1(a, b), i + 1, j) = Range1(a + i, a + j)

\* A piece of a piece.
LEMMA RangeSub ==
    ASSUME NEW a \in Nat, NEW b \in Nat, NEW i \in Nat, NEW j \in Nat, i <= j, a + j <= b
    PROVE  PieceOf(a, b, i, j)
<1> DEFINE s == Range1(a, b)
           u == Range1(a + i, a + j)
           v == SubSeq(s, i + 1, j)
<1>1. /\ s \in Seq(Nat) /\ Len(s) = b - a /\ \A k \in 1..(b - a) : s[k] = a + k
      /\ u \in Seq(Nat) /\ Len(u) = j - i /\ \A k \in 1..(j - i) : u[k] = (a + i) + k
  <2>1. a + i \in Nat /\ a + j \in Nat /\ a + i <= a + j /\ (a + j) - (a + i) = j - i /\ a <= b
    OBVIOUS
  <2>2. s \in Seq(Nat) /\ Len(s) = b - a /\ \A k \in 1..(b - a) : s[k] = a + k
    BY <2>1, RangeFacts, Zenon
  <2>3. /\ u \in Seq(Nat) /\ Len(u) = (a + j) - (a + i)
        /\ \A k \in 1..((a + j) - (a + i)) : u[k] = (a + i) + k
    BY <2>1, RangeFacts, Zenon
  <2> QED
    BY <2>1, <2>2, <2>3, Zenon
<1> HIDE DEF s, u
<1>2. v \in Seq(Nat) /\ Len(v) = j - i /\ \A k \in 1..(j - i) : v[k] = s[i + k]
  <2>1. s \in Seq(Nat) /\ j <= Len(s)
    BY <1>1
  <2> QED
    BY <2>1, PieceFacts, Zenon
<1> HIDE DEF v
<1>3. v = u
  <2>1. \A k \in 1..(j - i) : v[k] = u[k]
    BY <1>1, <1>2
  <2> QED
    BY <1>1, <1>2, <2>1, SeqEqual
<1> QED
  BY <1>3, Zenon DEF s, u, v, PieceOf

\* What is in front of a piece of a sequence, and the piece.
LEMMA PrefixGrows ==
    ASSUME NEW S, NEW s \in Seq(S), NEW i \in Nat, NEW j \in Nat, i <= j, j <= Len(s)
    PROVE  SubSeq(s, 1, i) \o SubSeq(s, i + 1, j) = SubSeq(s, 1, j)
<1> DEFINE p == SubSeq(s, 1, i)
           q == SubSeq(s, i + 1, j)
           r == SubSeq(s, 1, j)
<1>1. p \in Seq(S) /\ Len(p) = i /\ \A k \in 1..i : p[k] = s[k]
  OBVIOUS
<1>2. q \in Seq(S) /\ Len(q) = j - i /\ \A k \in 1..(j - i) : q[k] = s[i + k]
  OBVIOUS
<1>3. r \in Seq(S) /\ Len(r) = j /\ \A k \in 1..j : r[k] = s[k]
  OBVIOUS
<1> HIDE DEF p, q, r
<1>4. ASSUME NEW k \in 1..Len(q) PROVE r[Len(p) + k] = q[k]
  <2>1. k \in 1..(j - i) /\ i + k \in 1..j /\ Len(p) = i
    BY <1>1, <1>2
  <2> QED
    BY <1>2, <1>3, <2>1
<1>5. /\ Len(r) = Len(p) + Len(q)
      /\ \A k \in 1..Len(p) : r[k] = p[k]
  BY <1>1, <1>2, <1>3
<1>6. p \o q = r
  BY <1>1, <1>2, <1>3, <1>4, <1>5, ConcatIs
<1> QED
  BY <1>6 DEF p, q, r

-----------------------------------------------------------------------------
(* Standalone: what reaches the handler, and how it is answered.           *)

\* Type correctness of a stand-alone stream.
FlagTypes == /\ framing \in BOOLEAN /\ first \in BOOLEAN /\ blind \in BOOLEAN
             /\ bodyEnd \in BOOLEAN /\ reset \in BOOLEAN
             /\ shown \in Seq(BOOLEAN)
PlaceTypes ==
    /\ plan \in Plans /\ read \in 0..plan.n
    /\ upc \in {"off", "body", "parse", "write", "done"}
    /\ dpc \in {"start", "run", "done", "err"} /\ handler \in {"off", "run", "half", "over"}
    /\ leftover \in Seq(1..plan.n) /\ hand \in Seq(Nat) /\ up \in Seq(Nat) /\ taken \in Seq(Nat)
    /\ dpc = "start" => upc = "off"
    /\ Len(up) <= DuplexCap /\ eos \in {"none", "trailers", "data"}
    /\ down \in Nat /\ wrote \in Nat /\ told \in Nat
StandaloneTypes == FlagTypes /\ PlaceTypes

\* The bytes that the upload has released.
Released == (taken \o up) \o hand

\* Between a framed body's messages: the first k have been released and what
\* was read behind them is waiting.  Behind a message that is too long all is
\* released as it stands.  A raw body waits as long as it may be framed, and is
\* released whole afterwards.
FramedAt(k) ==
    /\ MsgEnd(plan, k) <= read /\ leftover = Range1(MsgEnd(plan, k), read)
    /\ Released = SubSeq(plan.payload, 1, Upto(plan, k))
PastLimit ==
    /\ Exceeded /\ leftover = <<>>
    /\ Released = SubSeq(plan.payload, 1, Upto(plan, Len(plan.msgs))) \o Range1(LastEnd(plan), read)
RawSoFar == IF framing THEN Released = <<>> /\ leftover = Range1(0, read)
                       ELSE leftover = <<>> /\ Released = Range1(0, read)

UploadInv ==
    /\ first => read = 0
    /\ framing => plan.grpc /\ (first \/ plan.flag \/ blind)
    /\ upc \in {"off", "body", "parse"} => hand = <<>>
    /\ plan.framed /\ framing => \E k \in 0..Len(plan.msgs) : FramedAt(k)
    /\ plan.framed /\ ~framing => PastLimit
    /\ ~plan.framed /\ ~Misjudged => RawSoFar

ResponseInv ==
    /\ taken = <<>> => wrote = 0
    /\ told + down = wrote
    /\ shown # <<>> => wrote > 0
    /\ eos # "none" => dpc = "done" /\ handler \in Silent /\ down = 0
    /\ framing => \A i \in 1..Len(shown) : shown[i]
    /\ ResponseExact

StandaloneInv == StandaloneTypes /\ UploadInv /\ ResponseInv

\* A piece of a sequence that holds the positions behind e.
LEMMA PieceIsRange ==
    ASSUME NEW q \in Seq(Nat), NEW u \in Nat, NEW m \in Nat, NEW e \in Nat, u + m <= Len(q),
           \A j \in 1..m : q[u + j] = e + j
    PROVE  SubSeq(q, u + 1, u + m) = Range1(e, e + m)
<1> DEFINE x == SubSeq(q, u + 1, u + m)
           y == Range1(e, e + m)
<1>1. x \in Seq(Nat) /\ Len(x) = m /\ \A j \in 1..m : x[j] = q[u + j]
  <2>1. u + m \in Nat /\ u <= u + m /\ (u + m) - u = m
    OBVIOUS
  <2> QED
    BY <2>1, PieceFacts
<1>2. y \in Seq(Nat) /\ Len(y) = m /\ \A j \in 1..m : y[j] = e + j
  <2>1. e + m \in Nat /\ e <= e + m /\ (e + m) - e = m
    OBVIOUS
  <2> QED
    BY <2>1, RangeFacts
<1> HIDE DEF x, y
<1>3. x = y
  BY <1>1, <1>2, SeqEqual
<1> QED
  BY <1>3 DEF x, y

\* An element of a sequence.
LEMMA ElementType ==
    ASSUME NEW S, NEW s \in Seq(S), NEW k \in 1..Len(s)
    PROVE  s[k] \in S
  OBVIOUS

\* An entry of a plan's messages.
LEMMA EntryType ==
    ASSUME NEW m \in Seq([end : Nat, upto : Nat]), NEW k \in 0..Len(m), k # 0
    PROVE  k \in 1..Len(m) /\ m[k].end \in Nat /\ m[k].upto \in Nat
<1>1. k \in 1..Len(m)
  OBVIOUS
<1>2. m[k] \in [end : Nat, upto : Nat]
  BY <1>1, ElementType
<1> QED
  BY <1>1, <1>2

\* Positions are numbers.
LEMMA NatSeq ==
    ASSUME NEW n \in Nat, NEW q \in Seq(1..n)
    PROVE  q \in Seq(Nat)
  OBVIOUS

\* What is assumed of a plan.
LEMMA PlanFacts ==
    ASSUME NEW p \in Plans
    PROVE  /\ HdrLen \in Nat \ {0} /\ DuplexCap \in Nat \ {0} /\ MaxMsg \in Nat /\ MaxDown \in Nat
           /\ p.n \in Nat /\ p.grpc \in BOOLEAN /\ p.flag \in BOOLEAN /\ p.framed \in BOOLEAN
           /\ p.len \in [1..p.n -> Nat] /\ p.payload \in Seq(1..p.n) /\ p.payload \in Seq(Nat)
           /\ p.framed => Framed(p)
           /\ ~p.framed => p.payload = Range1(0, p.n)
  BY StandaloneAssumption, NatSeq

\* The ends of messages, and the payload up to them.
LEMMA MsgFacts ==
    ASSUME NEW p \in Plans, Framed(p), NEW k \in 0..Len(p.msgs)
    PROVE  /\ MsgEnd(p, k) \in 0..p.n /\ Upto(p, k) \in 0..Len(p.payload) /\ Upto(p, k) <= Upto(p, Len(p.msgs))
           /\ MsgEnd(p, k) + HdrLen <= p.n /\ p.len[MsgEnd(p, k) + 1] > MaxMsg => k = Len(p.msgs)
<1> DEFINE m == p.msgs
           l == p.len
           E(i) == MsgEnd(p, i)
           U(i) == Upto(p, i)
<1>1. /\ m \in Seq([end : Nat, upto : Nat]) /\ l \in [1..p.n -> Nat] /\ p.payload \in Seq(Nat)
      /\ HdrLen \in Nat \ {0} /\ MaxMsg \in Nat /\ p.n \in Nat
  BY PlanFacts DEF Framed
<1>4. U(Len(m)) \in Nat /\ U(Len(m)) <= Len(p.payload) /\ Len(p.payload) \in Nat
  <2>1. Len(m) \in 0..Len(m)
    BY <1>1
  <2>2. CASE Len(m) = 0
    BY <1>1, <2>2 DEF Upto
  <2>3. CASE Len(m) # 0
    <3>1. m[Len(m)].upto \in Nat
      BY <1>1, <2>1, <2>3, EntryType
    <3> QED
      BY <1>1, <2>3, <3>1 DEF Upto, Framed
  <2> QED
    BY <2>2, <2>3
<1>2. E(k) \in 0..p.n /\ U(k) \in 0..Len(p.payload) /\ U(k) <= U(Len(m))
  <2>1. CASE k = 0
    <3>1. E(k) = 0 /\ U(k) = 0
      BY <2>1 DEF MsgEnd, Upto
    <3> HIDE DEF U
    <3> QED
      BY <1>1, <1>4, <3>1
  <2>2. CASE k # 0
    <3>1. k \in 1..Len(m) /\ m[k].end \in Nat /\ m[k].upto \in Nat
      BY <1>1, <2>2, EntryType
    <3>2. m[k].end <= p.n /\ m[k].upto <= U(Len(m))
      BY <3>1 DEF Framed
    <3>3. E(k) = m[k].end /\ U(k) = m[k].upto
      BY <2>2 DEF MsgEnd, Upto
    <3> HIDE DEF U
    <3> QED
      BY <1>1, <1>4, <3>1, <3>2, <3>3
  <2> QED
    BY <2>1, <2>2
<1>3. ASSUME E(k) + HdrLen <= p.n, l[E(k) + 1] > MaxMsg, k # Len(m) PROVE FALSE
  <2>1. E(k) + 1 \in 1..p.n
    BY <1>1, <1>2, <1>3
  <2>2. l[E(k) + 1] \in Nat
    BY <1>1, <2>1
  <2>3. k + 1 \in 1..Len(m) /\ (k + 1) - 1 = k
    BY <1>1, <1>3
  <2>4. l[E(k) + 1] <= MaxMsg
    BY <2>3, Zenon DEF Framed
  <2> QED
    BY <1>1, <1>3, <2>2, <2>4
<1> QED
  BY <1>2, <1>3

\* The message behind the first k ones, when all of it is there.
LEMMA NextMessage ==
    ASSUME NEW p \in Plans, NEW k \in 0..Len(p.msgs), NEW m \in Nat
    PROVE  Framed(p) /\ m = p.len[MsgEnd(p, k) + 1] /\ m <= MaxMsg /\ MsgEnd(p, k) + HdrLen + m <= p.n =>
           /\ k + 1 \in 0..Len(p.msgs) /\ MsgEnd(p, k + 1) = MsgEnd(p, k) + HdrLen + m
           /\ Upto(p, k + 1) = Upto(p, k) + m
           /\ SubSeq(p.payload, Upto(p, k) + 1, Upto(p, k) + m)
                = Range1(MsgEnd(p, k) + HdrLen, MsgEnd(p, k) + HdrLen + m)
<1> DEFINE e == MsgEnd(p, k)
           u == Upto(p, k)
           f == e + HdrLen
           q == p.payload
<1>0. ASSUME Framed(p), m = p.len[e + 1], m <= MaxMsg, e + HdrLen + m <= p.n
      PROVE  /\ k + 1 \in 0..Len(p.msgs) /\ MsgEnd(p, k + 1) = f + m /\ Upto(p, k + 1) = u + m
             /\ SubSeq(q, u + 1, u + m) = Range1(f, f + m)
  <2>1. /\ e \in 0..p.n /\ u \in 0..Len(q) /\ q \in Seq(Nat) /\ HdrLen \in Nat \ {0}
        /\ p.n \in Nat /\ Len(p.msgs) \in Nat /\ MaxMsg \in Nat
    <3>1. p.msgs \in Seq([end : Nat, upto : Nat])
      BY <1>0 DEF Framed
    <3>2. Len(p.msgs) \in Nat
      BY <3>1
    <3> QED
      BY <1>0, <3>2, MsgFacts, PlanFacts, Zenon
  <2>2. k # Len(p.msgs)
    <3>2. m \in Nat
      OBVIOUS
    <3>3. e + HdrLen + m <= p.n /\ m <= MaxMsg /\ e \in Nat
      BY <1>0, <2>1
    <3>1. e + HdrLen <= p.n /\ ~(e + HdrLen + m > p.n) /\ ~(m > MaxMsg)
      <4> HIDE DEF e
      <4> QED
        BY <2>1, <3>2, <3>3
    <3> QED
      BY <1>0, <3>1, Zenon DEF Framed, LastEnd
  <2>3. k + 1 \in 1..Len(p.msgs) /\ k + 1 \in 0..Len(p.msgs) /\ (k + 1) - 1 = k /\ k + 1 # 0
    BY <2>1, <2>2
  <2>4. /\ p.msgs[k + 1].end = f + m /\ p.msgs[k + 1].upto = u + m
        /\ \A j \in 1..m : q[u + j] = f + j
    BY <1>0, <2>3, Zenon DEF Framed
  <2>5. MsgEnd(p, k + 1) = f + m /\ Upto(p, k + 1) = u + m
    BY <2>3, <2>4, Zenon DEF MsgEnd, Upto
  <2>6. u \in Nat /\ f \in Nat
    BY <2>1
  <2>9. u + m <= Len(q)
    <3>1. Upto(p, k + 1) \in 0..Len(q)
      BY <1>0, <2>3, MsgFacts, Zenon
    <3>2. Len(q) \in Nat
      BY <2>1
    <3> QED
      BY <2>5, <3>1, <3>2
  <2>8. q \in Seq(Nat) /\ u + m <= Len(q) /\ \A j \in 1..m : q[u + j] = f + j
    BY <2>1, <2>4, <2>9, Zenon
  <2> HIDE DEF e, u, q, f
  <2>7. SubSeq(q, u + 1, u + m) = Range1(f, f + m)
    BY <2>6, <2>8, PieceIsRange, Zenon
  <2> QED
    BY <2>3, <2>5, <2>7, Zenon
<1> QED
  BY <1>0

\* The handler reads the duplex.
LEMMA ReadCat ==
    ASSUME NEW t \in Seq(Nat), NEW u \in Seq(Nat), NEW h \in Seq(Nat)
    PROVE  ((t \o u) \o <<>>) \o h = (t \o u) \o h
  OBVIOUS

\* Concatenation is associative.
Associate(t, u, v) == (t \o u) \o v = t \o (u \o v)

\* It does not matter which two of three sequences are joined first.
LEMMA CatAssoc ==
    ASSUME NEW t \in Seq(Nat), NEW u \in Seq(Nat), NEW v \in Seq(Nat)
    PROVE  Associate(t, u, v)
  BY DEF Associate

\* Part of what is being written enters the duplex: nothing is lost or moved.
PassesOn(t, u, h, k) == (t \o (u \o SubSeq(h, 1, k))) \o SubSeq(h, k + 1, Len(h)) = (t \o u) \o h

\* The first k bytes in hand may go behind those that wait.
LEMMA WriteCat ==
    ASSUME NEW t \in Seq(Nat), NEW u \in Seq(Nat), NEW h \in Seq(Nat), NEW k \in 0..Len(h)
    PROVE  PassesOn(t, u, h, k)
<1> DEFINE a == SubSeq(h, 1, k)
           c == SubSeq(h, k + 1, Len(h))
<1>1. a \in Seq(Nat) /\ c \in Seq(Nat)
  OBVIOUS
<1>2. a \o c = h
  <2>1. k \in Nat /\ Len(h) \in Nat /\ k <= Len(h) /\ Len(h) <= Len(h) /\ SubSeq(h, 1, Len(h)) = h
    OBVIOUS
  <2>2. \A j \in Nat : k <= j /\ j <= Len(h) => SubSeq(h, 1, k) \o SubSeq(h, k + 1, j) = SubSeq(h, 1, j)
    <3>1. k \in Nat
      OBVIOUS
    <3> QED
      BY <3>1, PrefixGrows, Zenon
  <2> QED
    BY <2>1, <2>2
<1> HIDE DEF a, c
<1>3. (t \o (u \o a)) \o c = (t \o u) \o (a \o c)
  <2>1. Associate(t, u, a)
    BY <1>1, CatAssoc, Zenon
  <2> DEFINE x == t \o u
  <2>2. x \in Seq(Nat)
    OBVIOUS
  <2> HIDE DEF x
  <2>3. Associate(x, a, c)
    BY <1>1, <2>2, CatAssoc, Zenon
  <2> QED
    BY <2>1, <2>3, Zenon DEF x, Associate
<1> QED
  BY <1>2, <1>3, Zenon DEF a, c, PassesOn

\* What is empty has empty parts.
LEMMA CatEmpty ==
    ASSUME NEW t \in Seq(Nat), NEW u \in Seq(Nat), t \o u = <<>>
    PROVE  t = <<>>
<1>1. Len(t \o u) = Len(t) + Len(u) /\ Len(t) \in Nat /\ Len(u) \in Nat /\ Len(<<>>) = 0
  OBVIOUS
<1>2. Len(t) = 0
  BY <1>1
<1> QED
  BY <1>2

\* A beginning of a sequence is determined by its length.
LEMMA Beginning ==
    ASSUME NEW q \in Seq(Nat), NEW n \in 0..Len(q), NEW s, s = SubSeq(q, 1, n)
    PROVE  Len(s) <= Len(q) /\ s = SubSeq(q, 1, Len(s))
  OBVIOUS

\* Every element of t is e or an element of s.
OneMore(t, s, e) == \A i \in 1..Len(t) : t[i] = e \/ \E j \in 1..Len(s) : t[i] = s[j]

\* The elements after one is appended.
LEMMA AppendAll ==
    ASSUME NEW S, NEW s \in Seq(S), NEW e \in S
    PROVE  OneMore(Append(s, e), s, e)
<1>1. \A i \in 1..Len(Append(s, e)) : \/ Append(s, e)[i] = e
                                      \/ i \in 1..Len(s) /\ Append(s, e)[i] = s[i]
  OBVIOUS
<1> QED
  BY <1>1 DEF OneMore

\* Appending keeps the type.
LEMMA AppendType ==
    ASSUME NEW S, NEW s \in Seq(S), NEW e \in S
    PROVE  Append(s, e) \in Seq(S)
  OBVIOUS

\* The empty sequence.
LEMMA EmptyType ==
    ASSUME NEW S
    PROVE  <<>> \in Seq(S)
  OBVIOUS

\* Concatenation keeps the type.
LEMMA ConcatType ==
    ASSUME NEW S, NEW s \in Seq(S), NEW t \in Seq(S)
    PROVE  s \o t \in Seq(S)
  OBVIOUS

\* A DATA frame is a piece of the body.
LEMMA RangeType ==
    ASSUME NEW n \in Nat, NEW a \in Nat, NEW b \in 0..n, a <= b
    PROVE  Range1(a, b) \in Seq(1..n)
  BY DEF Range1

\* The length field of what is waiting.
LEMMA LengthField ==
    ASSUME NEW n \in Nat, NEW l \in Seq(1..n), NEW f \in [1..n -> Nat], NEW h \in Nat \ {0}, Len(l) >= h
    PROVE  f[l[1]] \in Nat
<1>1. 1 \in 1..Len(l)
  OBVIOUS
<1>2. l[1] \in 1..n
  BY <1>1, ElementType
<1> QED
  BY <1>2

\* A message is cut off.
LEMMA CutType ==
    ASSUME NEW S, NEW l \in Seq(S), NEW h \in Nat \ {0}, NEW m \in Nat, Len(l) >= h + m
    PROVE  SubSeq(l, h + 1, h + m) \in Seq(S) /\ SubSeq(l, h + m + 1, Len(l)) \in Seq(S)
  OBVIOUS

\* How much of what is being written the duplex takes.
Room == DuplexCap - Len(up)
Taken == IF Len(hand) <= Room THEN Len(hand) ELSE Room

\* A write moves the beginning of what is being written into the duplex.
LEMMA WriteFacts ==
    ASSUME PlaceTypes, UpWrite
    PROVE  /\ Taken \in 0..Len(hand) /\ up' = up \o SubSeq(hand, 1, Taken)
           /\ hand' = SubSeq(hand, Taken + 1, Len(hand)) /\ up' \in Seq(Nat) /\ hand' \in Seq(Nat)
           /\ Len(up') <= DuplexCap /\ Released' = Released
<1>1. up' = up \o SubSeq(hand, 1, Taken) /\ hand' = SubSeq(hand, Taken + 1, Len(hand)) /\ taken' = taken
  BY DEF UpWrite, DropFirst, Taken, Room
<1>2. hand \in Seq(Nat) /\ up \in Seq(Nat) /\ taken \in Seq(Nat) /\ plan \in Plans
  BY DEF PlaceTypes
<1>3. Taken \in 0..Len(hand)
  <2>1. Len(hand) \in Nat /\ Len(up) \in Nat /\ DuplexCap \in Nat /\ Len(up) <= DuplexCap
    BY <1>2, PlanFacts DEF PlaceTypes
  <2> QED
    BY <2>1 DEF Taken, Room
<1>4. SubSeq(hand, 1, Taken) \in Seq(Nat) /\ SubSeq(hand, Taken + 1, Len(hand)) \in Seq(Nat)
  BY <1>2, <1>3
<1>6. Len(up') <= DuplexCap
  <2>1. Len(SubSeq(hand, 1, Taken)) = Taken
    BY <1>2, <1>3
  <2>2. Len(up') = Len(up) + Taken
    BY <1>1, <1>2, <1>4, <2>1
  <2>3. Len(up) \in Nat /\ DuplexCap \in Nat /\ Len(up) <= DuplexCap /\ Len(hand) \in Nat
    BY <1>2, PlanFacts DEF PlaceTypes
  <2> QED
    BY <2>2, <2>3 DEF Taken, Room
<1>5. Released' = Released
  <2>1. PassesOn(taken, up, hand, Taken)
    BY <1>2, <1>3, WriteCat, Zenon
  <2>2. Released = (taken \o up) \o hand /\ Released' = (taken' \o up') \o hand'
    BY Zenon DEF Released
  <2> QED
    BY <1>1, <2>1, <2>2 DEF PassesOn
<1> QED
  BY <1>1, <1>2, <1>3, <1>4, <1>5, <1>6, ConcatType, Zenon

\* Type correctness is kept.
LEMMA StandaloneTypesStep == StandaloneTypes /\ [StandaloneNext]_standaloneVars => StandaloneTypes'
<1> SUFFICES ASSUME FlagTypes, PlaceTypes, [StandaloneNext]_standaloneVars PROVE FlagTypes' /\ PlaceTypes'
  BY DEF StandaloneTypes
<1>0. /\ HdrLen \in Nat \ {0} /\ DuplexCap \in Nat \ {0} /\ plan.n \in Nat
      /\ plan.len \in [1..plan.n -> Nat] /\ MaxMsg \in Nat
  BY PlanFacts DEF PlaceTypes
<1>1. FlagTypes'
  BY AppendType, Zenon DEF StandaloneNext, UpNext, UpChunk, UpMessage, UpRaw, UpMore, UpWrite, UpEnd,
        DownNext, Respond, RespondErr, DownForward, DownErr, DownEnd, HandlerRead,
        HandlerWrite, HandlerShut, HandlerEnd, ClientEnd, ClientReset, upVars, standaloneVars, FlagTypes
<1> SUFFICES PlaceTypes'
  BY <1>1
<1>2. ASSUME NEW k \in 0..plan.n, UpChunk(k) PROVE PlaceTypes'
  <2>1. read + k \in 0..plan.n /\ read \in Nat /\ read + k \in Nat /\ read <= read + k
    BY <1>0, <1>2 DEF UpChunk, PlaceTypes
  <2>2. Range1(read, read + k) \in Seq(Nat) /\ Range1(read, read + k) \in Seq(1..plan.n)
    BY <1>0, <2>1, RangeFacts, RangeType, Zenon
  <2>3. leftover \o Range1(read, read + k) \in Seq(1..plan.n)
    BY <2>2, ConcatType, Zenon DEF PlaceTypes
  <2> QED
    BY <1>2, <2>1, <2>2, <2>3 DEF UpChunk, PlaceTypes
<1>3. CASE UpMessage
  <2> DEFINE m == plan.len[leftover[1]]
  <2>0. m \in Nat
    BY <1>0, <1>3, LengthField, Zenon DEF UpMessage, PlaceTypes
  <2> HIDE DEF m
  <2>1. /\ hand' = SubSeq(leftover, HdrLen + 1, HdrLen + m) /\ Len(leftover) >= HdrLen + m
        /\ leftover' = SubSeq(leftover, HdrLen + m + 1, Len(leftover))
    BY <1>3 DEF UpMessage, DropFirst, m
  <2>2. leftover \in Seq(1..plan.n)
    BY DEF PlaceTypes
  <2>3. hand' \in Seq(1..plan.n) /\ leftover' \in Seq(1..plan.n)
    BY <1>0, <2>0, <2>1, <2>2, CutType, Zenon
  <2>4. hand' \in Seq(Nat)
    BY <1>0, <2>3, NatSeq, Zenon
  <2> QED
    BY <1>3, <2>3, <2>4 DEF UpMessage, PlaceTypes
<1>4. CASE UpRaw
  <2>1. leftover \in Seq(Nat) /\ <<>> \in Seq(1..plan.n)
    BY <1>0, NatSeq, EmptyType, Zenon DEF PlaceTypes
  <2> QED
    BY <1>4, <2>1 DEF UpRaw, PlaceTypes
<1>5. CASE UpMore
  BY <1>5 DEF UpMore, PlaceTypes
<1>6. CASE UpWrite
  <2>1. up' \in Seq(Nat) /\ hand' \in Seq(Nat) /\ Len(up') <= DuplexCap
    BY <1>6, WriteFacts
  <2> QED
    BY <1>6, <2>1 DEF UpWrite, PlaceTypes
<1>7. CASE UpEnd
  BY <1>7 DEF UpEnd, PlaceTypes
<1>8. CASE Respond \/ RespondErr \/ DownErr
  BY <1>8 DEF Respond, RespondErr, DownErr, upVars, PlaceTypes
<1>9. CASE DownForward
  BY <1>9 DEF DownForward, upVars, PlaceTypes, FlagTypes
<1>10. CASE DownEnd
  BY <1>10 DEF DownEnd, upVars, PlaceTypes
<1>11. CASE HandlerRead
  BY <1>0, <1>11 DEF HandlerRead, upVars, PlaceTypes
<1>12. CASE HandlerWrite
  BY <1>12 DEF HandlerWrite, upVars, PlaceTypes
<1>13. CASE HandlerShut \/ HandlerEnd \/ ClientEnd \/ ClientReset
  BY <1>13 DEF HandlerShut, HandlerEnd, ClientEnd, ClientReset, upVars, PlaceTypes
<1>14. CASE UNCHANGED standaloneVars
  BY <1>14 DEF standaloneVars, PlaceTypes
<1> QED
  BY <1>2, <1>3, <1>4, <1>5, <1>6, <1>7, <1>8, <1>9, <1>10, <1>11, <1>12, <1>13, <1>14, Zenon
     DEF StandaloneNext, UpNext, DownNext

-----------------------------------------------------------------------------
\* What is released stays so as long as nothing is taken off the body.
LEMMA KeepsUpload ==
    ASSUME UploadInv, plan' = plan, framing' = framing, first' = first, blind' = blind,
           read' = read, leftover' = leftover, Released' = Released,
           upc' \in {"off", "body", "parse"} => hand' = <<>>
    PROVE  UploadInv'
<1>1. Misjudged' = Misjudged
  BY DEF Misjudged
<1>2. \A k : FramedAt(k)' = FramedAt(k)
  BY DEF FramedAt
<1>3. RawSoFar' = RawSoFar
  BY DEF RawSoFar
<1>4. PastLimit' = PastLimit
  BY DEF PastLimit, Exceeded
<1> HIDE DEF FramedAt, RawSoFar, PastLimit, Misjudged
<1> QED
  BY <1>1, <1>2, <1>3, <1>4, Zenon DEF UploadInv

\* A DATA frame arrives.
LEMMA ChunkUpload ==
    ASSUME StandaloneTypes, UploadInv, NEW k \in 0..plan.n, UpChunk(k)
    PROVE  UploadInv'
<1> DEFINE chunk == Range1(read, read + k)
           rest == (taken \o up) \o <<>>
<1>1. /\ plan \in Plans /\ plan.n \in Nat /\ read \in Nat /\ read + k \in Nat /\ read <= read + k
      /\ 0 \in Nat /\ 0 <= read
  BY PlanFacts DEF StandaloneTypes, PlaceTypes
<1>2. /\ plan' = plan /\ read' = read + k /\ first' = FALSE /\ taken' = taken /\ up' = up
      /\ framing' = (framing /\ (first /\ k > 0 => plan.flag)) /\ blind' = (blind \/ (first /\ k = 0))
  BY DEF UpChunk
<1>3. IF framing' THEN leftover' = leftover \o chunk /\ upc' = "parse" /\ hand' = hand
                  ELSE hand' = chunk /\ upc' = "write" /\ leftover' = leftover
  BY DEF UpChunk
<1>4. hand = <<>>
  BY DEF UpChunk, UploadInv
<1>5. Released = taken \o up /\ taken \o up \in Seq(Nat)
  BY <1>4 DEF Released, StandaloneTypes, PlaceTypes
<1>6. Misjudged => Misjudged'
  BY <1>2, Zenon DEF Misjudged
<1>7. framing' => framing /\ plan'.grpc /\ (plan'.flag \/ blind')
  <2> SUFFICES ASSUME framing' PROVE framing /\ plan.grpc /\ (plan.flag \/ blind')
    BY <1>2
  <2>1. framing /\ plan.grpc /\ (first /\ k > 0 => plan.flag) /\ (first \/ plan.flag \/ blind)
    BY <1>2, Zenon DEF UploadInv
  <2>2. k > 0 \/ k = 0
    OBVIOUS
  <2> QED
    BY <1>2, <2>1, <2>2, Zenon
<1>8. ASSUME plan.framed, framing' PROVE \E j \in 0..Len(plan.msgs) : FramedAt(j)'
  <2>2. leftover' = leftover \o chunk /\ Released' = Released
    BY <1>2, <1>3, <1>8 DEF Released
  <2>3. PICK j \in 0..Len(plan.msgs) : FramedAt(j)
    BY <1>7, <1>8 DEF UploadInv
  <2>4. MsgEnd(plan, j) \in Nat
    <3>1. plan \in Plans /\ Framed(plan)
      BY <1>1, <1>8, PlanFacts
    <3>2. MsgEnd(plan, j) \in 0..plan.n
      BY <3>1, MsgFacts, Zenon
    <3> QED
      BY <3>2
  <2>5. MsgEnd(plan, j) <= read /\ leftover = Range1(MsgEnd(plan, j), read)
    BY <2>3 DEF FramedAt
  <2>6. MsgEnd(plan, j) <= read + k /\ leftover' = Range1(MsgEnd(plan, j), read + k)
    <3>1. MsgEnd(plan, j) <= read + k
      BY <1>1, <2>4, <2>5
    <3> QED
      BY <1>1, <2>2, <2>4, <2>5, <3>1, RangeConcat, Zenon
  <2>7. FramedAt(j)'
    BY <1>2, <2>2, <2>3, <2>6, Zenon DEF FramedAt
  <2> QED
    BY <2>7
<1>11. ASSUME plan.framed, ~framing' PROVE PastLimit'
  <2> DEFINE e == LastEnd(plan)
             q == SubSeq(plan.payload, 1, Upto(plan, Len(plan.msgs)))
  <2>1. ~framing
    <3>1. plan.flag
      BY <1>1, <1>11, PlanFacts, Zenon DEF Framed
    <3> QED
      BY <1>2, <1>11, <3>1
  <2>2. PastLimit
    BY <1>11, <2>1 DEF UploadInv
  <2>3. Exceeded /\ leftover = <<>> /\ Released = q \o Range1(e, read)
    BY <2>2, Zenon DEF PastLimit
  <2>4. e \in Nat /\ e <= read /\ HdrLen \in Nat /\ plan.payload \in Seq(Nat)
        /\ Upto(plan, Len(plan.msgs)) \in 0..Len(plan.payload)
    <3>1. Framed(plan) /\ HdrLen \in Nat /\ plan.payload \in Seq(Nat)
      BY <1>1, <1>11, PlanFacts
    <3>2. Len(plan.msgs) \in 0..Len(plan.msgs)
      <4>1. plan.msgs \in Seq([end : Nat, upto : Nat])
        BY <3>1 DEF Framed
      <4> QED
        BY <4>1
    <3>3. e \in 0..plan.n /\ Upto(plan, Len(plan.msgs)) \in 0..Len(plan.payload)
      BY <1>1, <3>1, <3>2, MsgFacts, Zenon DEF LastEnd
    <3>4. read >= e + HdrLen
      BY <2>3 DEF Exceeded
    <3> QED
      BY <1>1, <3>1, <3>3, <3>4
  <2>5. q \in Seq(Nat)
    BY <2>4
  <2>6. Range1(e, read) \o chunk = Range1(e, read + k)
    BY <1>1, <2>4, RangeConcat, Zenon
  <2>7. Released' = Released \o chunk /\ leftover' = leftover
    BY <1>2, <1>3, <1>5, <1>11 DEF Released
  <2>8. (q \o Range1(e, read)) \o chunk = q \o (Range1(e, read) \o chunk)
    <3>1. Range1(e, read) \in Seq(Nat) /\ chunk \in Seq(Nat)
      BY <1>1, <2>4, RangeFacts, Zenon
    <3>2. Associate(q, Range1(e, read), chunk)
      BY <2>5, <3>1, CatAssoc, Zenon
    <3> QED
      BY <3>2, Zenon DEF Associate
  <2>9. Exceeded'
    BY <1>1, <1>2, <2>3, <2>4 DEF Exceeded
  <2> QED
    BY <1>2, <2>3, <2>6, <2>7, <2>8, <2>9, Zenon DEF PastLimit
<1>9. ASSUME ~plan.framed, ~Misjudged' PROVE RawSoFar'
  <2>1. RawSoFar
    BY <1>6, <1>9 DEF UploadInv
  <2>2. CASE framing'
    <3>1. Released' = Released /\ leftover' = leftover \o chunk
      BY <1>2, <1>3, <2>2 DEF Released
    <3>2. Released = <<>> /\ leftover = Range1(0, read)
      BY <1>7, <2>1, <2>2 DEF RawSoFar
    <3>3. leftover' = Range1(0, read + k)
      BY <1>1, <3>1, <3>2, RangeConcat, Zenon
    <3> QED
      BY <1>2, <2>2, <3>1, <3>2, <3>3 DEF RawSoFar
  <2>3. CASE ~framing'
    <3>1. hand' = chunk /\ leftover' = leftover /\ Released' = Released \o chunk
      BY <1>2, <1>3, <1>5, <2>3 DEF Released
    <3>2. leftover = <<>> /\ Released = Range1(0, read)
      <4>1. CASE framing
        <5>1. first
          BY <1>2, <2>3, <4>1
        <5>2. read = 0 /\ Released = <<>> /\ leftover = Range1(0, 0)
          BY <2>1, <4>1, <5>1 DEF UploadInv, RawSoFar
        <5> QED
          BY <1>1, <5>2, RangeFacts, Zenon
      <4>2. CASE ~framing
        BY <2>1, <4>2 DEF RawSoFar
      <4> QED
        BY <4>1, <4>2
    <3>3. Released' = Range1(0, read + k)
      BY <1>1, <3>1, <3>2, RangeConcat, Zenon
    <3> QED
      BY <1>2, <2>3, <3>1, <3>2, <3>3 DEF RawSoFar
  <2> QED
    BY <2>2, <2>3
<1>10. upc' \in {"off", "body", "parse"} => hand' = <<>>
  BY <1>3, <1>4
<1> HIDE DEF FramedAt, RawSoFar, PastLimit, Misjudged, chunk
<1> QED
  BY <1>2, <1>7, <1>8, <1>9, <1>10, <1>11, Zenon DEF UploadInv

\* What waits of a raw body that is not misjudged has no length in front.
LEMMA RawWaits ==
    ASSUME StandaloneTypes, UploadInv, ~plan.framed, ~Misjudged, Len(leftover) >= HdrLen
    PROVE  /\ framing /\ leftover = Range1(0, read) /\ Released = <<>> /\ leftover[1] = 1
           /\ ~(plan.len[1] <= MaxMsg)
<1>1. plan \in Plans /\ plan.n \in Nat /\ read \in 0..plan.n /\ HdrLen \in Nat \ {0}
  BY PlanFacts DEF StandaloneTypes, PlaceTypes
<1>2. RawSoFar
  BY DEF UploadInv
<1>3. leftover # <<>>
  <2>1. Len(<<>>) = 0
    OBVIOUS
  <2> QED
    BY <1>1, <2>1
<1>4. framing /\ Released = <<>> /\ leftover = Range1(0, read)
  BY <1>2, <1>3 DEF RawSoFar
<1>5. Len(leftover) = read /\ \A i \in 1..read : leftover[i] = i
  BY <1>1, <1>4 DEF Range1
<1>6. read >= HdrLen /\ plan.n >= HdrLen /\ read # 0 /\ leftover[1] = 1
  BY <1>1, <1>5
<1>7. plan.grpc /\ (plan.flag \/ blind)
  BY <1>4, <1>6 DEF UploadInv
<1>8. ~(plan.len[1] <= MaxMsg)
  BY <1>6, <1>7, Zenon DEF Misjudged
<1> QED
  BY <1>4, <1>6, <1>8

\* As long as something of a framed body waits, its framing stands.
LEMMA Waiting ==
    ASSUME StandaloneTypes, UploadInv, plan.framed, Len(leftover) >= HdrLen
    PROVE  framing
<1>1. HdrLen \in Nat \ {0} /\ Len(<<>>) = 0
  BY PlanFacts DEF StandaloneTypes, PlaceTypes
<1>2. leftover # <<>>
  BY <1>1
<1> QED
  BY <1>2, Zenon DEF UploadInv, PastLimit

\* A message is cut off in front of what waits.
LEMMA MessageUpload ==
    ASSUME StandaloneTypes, UploadInv, UpMessage
    PROVE  UploadInv'
<1> DEFINE m == plan.len[leftover[1]]
<1>1. plan \in Plans /\ plan.n \in Nat /\ read \in 0..plan.n /\ HdrLen \in Nat \ {0} /\ read \in Nat
  BY PlanFacts DEF StandaloneTypes, PlaceTypes
<1>2. /\ hand' = SubSeq(leftover, HdrLen + 1, HdrLen + m) /\ Len(leftover) >= HdrLen + m
      /\ leftover' = SubSeq(leftover, HdrLen + m + 1, Len(leftover)) /\ Len(leftover) >= HdrLen
      /\ m <= MaxMsg /\ upc' = "write" /\ upc = "parse"
      /\ plan' = plan /\ framing' = framing /\ first' = first /\ blind' = blind /\ read' = read
      /\ up' = up /\ taken' = taken
  BY DEF UpMessage, DropFirst
<1>3. m \in Nat
  <2>1. leftover \in Seq(1..plan.n) /\ plan.len \in [1..plan.n -> Nat]
    BY <1>1, PlanFacts DEF StandaloneTypes, PlaceTypes
  <2> QED
    BY <1>1, <1>2, <2>1, LengthField, Zenon
<1>4. Misjudged' = Misjudged
  BY <1>2 DEF Misjudged
<1>5. hand = <<>>
  BY <1>2 DEF UploadInv
<1>6. plan.framed \/ Misjudged
  <2> SUFFICES ASSUME ~plan.framed, ~Misjudged PROVE FALSE
    OBVIOUS
  <2> QED
    BY <1>2, RawWaits, Zenon
<1>8. plan.framed => framing
  BY <1>2, Waiting, Zenon
<1>7. ASSUME plan.framed PROVE \E j \in 0..Len(plan.msgs) : FramedAt(j)'
  <2>1. PICK j \in 0..Len(plan.msgs) : FramedAt(j)
    BY <1>7, <1>8 DEF UploadInv
  <2> DEFINE e == MsgEnd(plan, j)
             u == Upto(plan, j)
             q == plan.payload
  <2>2. Framed(plan) /\ e \in Nat /\ u \in Nat /\ u <= Len(q) /\ q \in Seq(Nat)
    BY <1>1, <1>7, MsgFacts, PlanFacts
  <2>3. e <= read /\ leftover = Range1(e, read) /\ Released = SubSeq(q, 1, u)
    BY <2>1 DEF FramedAt
  <2>4. Len(leftover) = read - e /\ leftover[1] = e + 1
    <3>1. Len(leftover) = read - e /\ \A i \in 1..(read - e) : leftover[i] = e + i
      BY <1>1, <2>2, <2>3, RangeFacts
    <3>2. 1 \in 1..(read - e)
      BY <1>1, <1>2, <2>2, <3>1
    <3> QED
      BY <3>1, <3>2
  <2> HIDE DEF e, u, q, m
  <2>5. e + HdrLen + m <= plan.n /\ e + (HdrLen + m) <= read
    BY <1>1, <1>2, <1>3, <2>2, <2>4
  <2>6. m = plan.len[MsgEnd(plan, j) + 1]
    BY <2>4 DEF e, m
  <2>7. /\ j + 1 \in 0..Len(plan.msgs) /\ MsgEnd(plan, j + 1) = e + HdrLen + m
        /\ Upto(plan, j + 1) = u + m
        /\ SubSeq(q, u + 1, u + m) = Range1(e + HdrLen, e + HdrLen + m)
    BY <1>1, <1>2, <1>3, <2>2, <2>5, <2>6, NextMessage, Zenon DEF e, u, q
  <2>12. e \in Nat /\ read \in Nat
    BY <1>1, <2>2
  <2>8. hand' = Range1(e + HdrLen, e + HdrLen + m)
    <3>1. HdrLen + m \in Nat /\ HdrLen \in Nat /\ HdrLen <= HdrLen + m /\ e + (HdrLen + m) = e + HdrLen + m
      BY <1>1, <1>3, <2>2
    <3> DEFINE h == HdrLen + m
    <3>2. e \in Nat /\ read \in Nat /\ h \in Nat /\ HdrLen \in Nat /\ HdrLen <= h /\ e + h <= read
      BY <1>1, <2>2, <2>5, <3>1
    <3> HIDE DEF h
    <3>3. PieceOf(e, read, HdrLen, h)
      BY <3>2, RangeSub, Zenon
    <3> QED
      BY <1>2, <2>3, <3>1, <3>3, Zenon DEF h, PieceOf
  <2>9. leftover' = Range1(e + HdrLen + m, read) /\ e + HdrLen + m <= read
    <3> DEFINE h == HdrLen + m
               t == read - e
    <3>1. h \in Nat /\ t \in Nat /\ h <= t /\ e + t <= read /\ e + t = read /\ e + h = e + HdrLen + m /\ Len(leftover) = t
      BY <1>1, <1>2, <1>3, <2>2, <2>3, <2>4
    <3> HIDE DEF h, t
    <3>2. SubSeq(Range1(e, read), h + 1, t) = Range1(e + h, e + t)
      <4>1. PieceOf(e, read, h, t)
        BY <2>12, <3>1, RangeSub, Zenon
      <4> QED
        BY <4>1, Zenon DEF PieceOf
    <3>3. leftover' = SubSeq(Range1(e, read), h + 1, t)
      BY <1>2, <2>3, <3>1, Zenon DEF h
    <3>4. e + HdrLen + m <= read
      BY <1>1, <1>3, <2>2, <2>5
    <3> QED
      BY <3>1, <3>2, <3>3, <3>4, Zenon
  <2>10. Released' = SubSeq(q, 1, u + m)
    <3>1. u + m \in Nat /\ u <= u + m /\ u + m <= Len(q)
      <4>1. Upto(plan, j + 1) \in 0..Len(plan.payload)
        BY <1>1, <2>2, <2>7, MsgFacts, Zenon
      <4>2. Len(q) \in Nat
        BY <2>2
      <4> QED
        BY <1>3, <2>2, <2>7, <4>1, <4>2 DEF q
    <3>2. SubSeq(q, 1, u) \o SubSeq(q, u + 1, u + m) = SubSeq(q, 1, u + m)
      BY <2>2, <3>1, PrefixGrows, Zenon
    <3>3. Released' = Released \o hand'
      <4>1. taken \o up \in Seq(Nat)
        BY DEF StandaloneTypes, PlaceTypes
      <4>2. Released = taken \o up
        BY <1>5, <4>1 DEF Released
      <4> QED
        BY <1>2, <4>2 DEF Released
    <3> QED
      BY <2>3, <2>7, <2>8, <3>2, <3>3, Zenon
  <2>11. FramedAt(j + 1)'
    BY <1>2, <2>7, <2>9, <2>10, Zenon DEF FramedAt, q
  <2> QED
    BY <2>7, <2>11
<1> HIDE DEF FramedAt, RawSoFar, PastLimit, Misjudged, m
<1> QED
  BY <1>2, <1>4, <1>6, <1>7, <1>8, Zenon DEF UploadInv

\* Too great a length is the sign of a raw body, or of a message that is too long.
LEMMA RawUpload ==
    ASSUME StandaloneTypes, UploadInv, UpRaw
    PROVE  UploadInv'
<1>1. plan \in Plans /\ plan.n \in Nat /\ read \in 0..plan.n /\ HdrLen \in Nat \ {0} /\ read \in Nat
  BY PlanFacts DEF StandaloneTypes, PlaceTypes
<1>2. /\ hand' = leftover /\ leftover' = <<>> /\ framing' = FALSE /\ Len(leftover) >= HdrLen
      /\ plan.len[leftover[1]] > MaxMsg /\ upc' = "write" /\ upc = "parse"
      /\ plan' = plan /\ first' = first /\ blind' = blind /\ read' = read /\ up' = up /\ taken' = taken
  BY DEF UpRaw
<1>5. hand = <<>> /\ Released = taken \o up /\ taken \o up \in Seq(Nat) /\ Released' = Released \o leftover
  <2>1. hand = <<>>
    BY <1>2 DEF UploadInv
  <2>2. taken \in Seq(Nat) /\ up \in Seq(Nat)
    BY DEF StandaloneTypes, PlaceTypes
  <2> QED
    BY <1>2, <2>1, <2>2 DEF Released
<1>3. ASSUME plan.framed PROVE PastLimit'
  <2>1. PICK j \in 0..Len(plan.msgs) : FramedAt(j)
    <3>1. framing
      BY <1>2, <1>3, Waiting, Zenon
    <3> QED
      BY <1>3, <3>1 DEF UploadInv
  <2> DEFINE e == MsgEnd(plan, j)
  <2>2. /\ Framed(plan) /\ e \in Nat /\ MaxMsg \in Nat
        /\ e + HdrLen <= plan.n /\ plan.len[e + 1] > MaxMsg => j = Len(plan.msgs)
    BY <1>1, <1>3, MsgFacts, PlanFacts
  <2> HIDE DEF e
  <2>3. e <= read /\ leftover = Range1(e, read) /\ Released = SubSeq(plan.payload, 1, Upto(plan, j))
    BY <2>1 DEF FramedAt, e
  <2>4. Len(leftover) = read - e /\ \A i \in 1..(read - e) : leftover[i] = e + i
    BY <1>1, <2>2, <2>3, RangeFacts
  <2>5. 1 \in 1..(read - e) /\ e + HdrLen <= plan.n /\ read >= e + HdrLen
    BY <1>1, <1>2, <2>2, <2>4
  <2>6. leftover[1] = e + 1
    BY <2>4, <2>5
  <2>7. plan.len[e + 1] > MaxMsg /\ j = Len(plan.msgs) /\ e = LastEnd(plan)
    BY <1>2, <2>2, <2>5, <2>6, Zenon DEF e, LastEnd
  <2>8. Exceeded
    BY <1>3, <2>5, <2>7, Zenon DEF Exceeded, Overlong
  <2> QED
    BY <1>2, <1>5, <2>3, <2>7, <2>8, Zenon DEF PastLimit, Exceeded
<1>4. ASSUME ~plan.framed, ~Misjudged' PROVE RawSoFar'
  <2>1. ~Misjudged
    BY <1>2, <1>4 DEF Misjudged
  <2>2. leftover = Range1(0, read) /\ Released = <<>>
    BY <1>2, <1>4, <2>1, RawWaits, Zenon
  <2>3. hand = <<>>
    BY <1>2 DEF UploadInv
  <2>4. Released' = leftover
    <3>1. taken \in Seq(Nat) /\ up \in Seq(Nat) /\ leftover \in Seq(Nat)
      BY <1>1, NatSeq, Zenon DEF StandaloneTypes, PlaceTypes
    <3>2. taken \o up = <<>>
      BY <2>2, <2>3, <3>1 DEF Released
    <3>3. <<>> \o leftover = leftover
      BY <3>1
    <3> QED
      BY <1>2, <3>2, <3>3 DEF Released
  <2> QED
    BY <1>2, <2>2, <2>4 DEF RawSoFar
<1> HIDE DEF FramedAt, RawSoFar, PastLimit, Misjudged
<1> QED
  BY <1>2, <1>3, <1>4, Zenon DEF UploadInv

\* The upload is exact at every step.
LEMMA UploadStep == StandaloneTypes /\ UploadInv /\ [StandaloneNext]_standaloneVars => UploadInv'
<1> SUFFICES ASSUME StandaloneTypes, UploadInv, [StandaloneNext]_standaloneVars PROVE UploadInv'
  OBVIOUS
<1> DEFINE Same == /\ plan' = plan /\ framing' = framing /\ first' = first /\ blind' = blind
                   /\ read' = read /\ leftover' = leftover
           Empty == upc \in {"off", "body", "parse"} => hand = <<>>
<1>0. Empty
  BY DEF UploadInv
<1>1. ASSUME NEW k \in 0..plan.n, UpChunk(k) PROVE UploadInv'
  BY <1>1, ChunkUpload
<1>2. CASE UpMessage
  BY <1>2, MessageUpload
<1>3. CASE UpRaw
  BY <1>3, RawUpload
<1>4. CASE UpWrite
  <2>1. Same /\ Released' = Released
    BY <1>4, WriteFacts DEF UpWrite, StandaloneTypes
  <2>2. upc' \in {"off", "body", "parse"} => hand' = <<>>
    <3> SUFFICES ASSUME upc' # "write" PROVE hand' = <<>>
      OBVIOUS
    <3>1. ~(Taken < Len(hand)) /\ Taken \in 0..Len(hand) /\ hand' = SubSeq(hand, Taken + 1, Len(hand))
      BY <1>4, WriteFacts DEF UpWrite, StandaloneTypes, Taken, Room
    <3>2. hand \in Seq(Nat) /\ Len(hand) \in Nat
      BY DEF StandaloneTypes, PlaceTypes
    <3>3. Taken = Len(hand)
      BY <3>1, <3>2
    <3>4. SubSeq(hand, Len(hand) + 1, Len(hand)) = <<>>
      BY <3>2
    <3> QED
      BY <3>1, <3>3, <3>4, Zenon
  <2> QED
    BY <2>1, <2>2, KeepsUpload
<1>5. CASE HandlerRead
  <2>1. Same /\ upc' = upc /\ hand' = hand /\ taken' = taken \o up /\ up' = <<>>
    BY <1>5 DEF HandlerRead, upVars
  <2>2. Released' = Released
    <3>1. taken \in Seq(Nat) /\ up \in Seq(Nat) /\ hand \in Seq(Nat)
      BY DEF StandaloneTypes, PlaceTypes
    <3> QED
      BY <2>1, <3>1, ReadCat, Zenon DEF Released
  <2> QED
    BY <1>0, <2>1, <2>2, KeepsUpload
<1>6. CASE \/ UpMore \/ UpEnd \/ DownNext \/ HandlerWrite \/ HandlerShut \/ HandlerEnd \/ ClientEnd \/ ClientReset
           \/ UNCHANGED standaloneVars
  <2>1. Same /\ hand' = hand /\ taken' = taken /\ up' = up
    BY <1>6, Zenon DEF UpMore, UpEnd, DownNext, Respond, RespondErr, DownForward, DownErr, DownEnd,
              HandlerWrite, HandlerShut, HandlerEnd, ClientEnd, ClientReset, upVars, standaloneVars
  <2>2. upc' = upc \/ upc' = "done" \/ upc \in {"off", "parse"}
    BY <1>6 DEF StandaloneTypes, PlaceTypes, UpMore, UpEnd, DownNext, Respond, RespondErr, DownForward, DownErr, DownEnd,
              HandlerWrite, HandlerShut, HandlerEnd, ClientEnd, ClientReset, upVars, standaloneVars
  <2>3. Released' = Released
    BY <2>1 DEF Released
  <2> QED
    BY <1>0, <2>1, <2>2, <2>3, KeepsUpload
<1> QED
  BY <1>1, <1>2, <1>3, <1>4, <1>5, <1>6, Zenon DEF StandaloneNext, UpNext

-----------------------------------------------------------------------------
\* A message that was too long stays so.
LEMMA StaysExceeded ==
    ASSUME StandaloneTypes, plan' = plan, read' \in Nat, read <= read', Exceeded
    PROVE  Exceeded'
<1>1. plan \in Plans /\ Framed(plan) /\ HdrLen \in Nat /\ plan.n \in Nat /\ read \in Nat
  BY PlanFacts DEF StandaloneTypes, PlaceTypes, Exceeded, Overlong
<1>2. LastEnd(plan) \in Nat
  <2>1. plan.msgs \in Seq([end : Nat, upto : Nat])
    BY <1>1 DEF Framed
  <2>2. Len(plan.msgs) \in 0..Len(plan.msgs)
    BY <2>1
  <2>3. LastEnd(plan) \in 0..plan.n
    BY <1>1, <2>2, MsgFacts, Zenon DEF LastEnd
  <2> QED
    BY <1>1, <2>3
<1>3. Overlong(plan') /\ read' >= LastEnd(plan') + HdrLen
  BY <1>1, <1>2 DEF Exceeded
<1> QED
  BY <1>3 DEF Exceeded

\* The handler has something to answer only after the framing is settled.
LEMMA Settled ==
    ASSUME StandaloneTypes, UploadInv, ~Misjudged, ~Exceeded, taken # <<>>
    PROVE  framing = plan.framed
<1>1. plan.framed \in BOOLEAN /\ framing \in BOOLEAN
  BY PlanFacts, Zenon DEF StandaloneTypes, PlaceTypes, FlagTypes
<1>2. CASE plan.framed
  BY <1>1, <1>2, Zenon DEF UploadInv, PastLimit
<1>3. CASE ~plan.framed
  <2>1. Released # <<>>
    BY DEF Released, StandaloneTypes, PlaceTypes
  <2> QED
    BY <1>1, <1>3, <2>1, Zenon DEF UploadInv, RawSoFar
<1> QED
  BY <1>2, <1>3

\* What is framed is all in front of what is not.
AllFramed(s) == \A i \in 1..Len(s) : s[i]
ChangesOnce(s) == \A i, j \in 1..Len(s) : i <= j /\ s[j] => s[i]

\* A frame goes out as the flag says, and the flag is never set again.
LEMMA OneChange ==
    ASSUME NEW s \in Seq(BOOLEAN), NEW b \in BOOLEAN, ChangesOnce(s), b => AllFramed(s)
    PROVE  ChangesOnce(Append(s, b)) /\ (b => AllFramed(Append(s, b)))
<1> DEFINE t == Append(s, b)
<1>1. /\ Len(t) = Len(s) + 1 /\ Len(s) \in Nat /\ t[Len(s) + 1] = b
      /\ \A i \in 1..Len(s) : t[i] = s[i]
  OBVIOUS
<1> HIDE DEF t
<1>2. b => AllFramed(t)
  <2> SUFFICES ASSUME b, NEW i \in 1..Len(t) PROVE t[i]
    BY DEF AllFramed
  <2>1. i \in 1..Len(s) \/ i = Len(s) + 1
    BY <1>1
  <2> QED
    BY <1>1, <2>1, Zenon DEF AllFramed
<1>3. ASSUME NEW i \in 1..Len(t), NEW j \in 1..Len(t), i <= j, t[j] PROVE t[i]
  <2>1. CASE j = Len(s) + 1
    BY <1>1, <1>2, <1>3, <2>1, Zenon DEF AllFramed
  <2>2. CASE j # Len(s) + 1
    <3>1. i \in 1..Len(s) /\ j \in 1..Len(s)
      BY <1>1, <1>3, <2>2
    <3> QED
      BY <1>1, <1>3, <3>1, Zenon DEF ChangesOnce
  <2> QED
    BY <2>1, <2>2
<1>4. ChangesOnce(t)
  BY <1>3, Zenon DEF ChangesOnce
<1> QED
  BY <1>2, <1>4 DEF t

\* A step that sends nothing.
LEMMA KeepsResponse ==
    ASSUME ResponseInv, Misjudged => Misjudged', Exceeded => Exceeded', plan' = plan, shown' = shown,
           told' = told, down' = down, wrote' = wrote, eos' = eos, taken' = <<>> => taken = <<>>,
           framing' => framing, eos # "none" => dpc' = dpc /\ handler' \in Silent
    PROVE  ResponseInv'
<1> HIDE DEF Misjudged, Exceeded
<1> QED
  BY Zenon DEF ResponseInv, ResponseExact

\* A response is framed as the request and complete at its end.
LEMMA ResponseStep ==
    StandaloneTypes /\ UploadInv /\ ResponseInv /\ [StandaloneNext]_standaloneVars => ResponseInv'
<1> SUFFICES ASSUME StandaloneTypes, UploadInv, ResponseInv, [StandaloneNext]_standaloneVars
             PROVE  ResponseInv'
  OBVIOUS
<1> DEFINE Quiet == /\ plan' = plan /\ shown' = shown /\ told' = told /\ down' = down
                    /\ wrote' = wrote /\ eos' = eos
           Keeps == (Misjudged => Misjudged') /\ (Exceeded => Exceeded')
<1>0. /\ down \in Nat /\ wrote \in Nat /\ told \in Nat /\ shown \in Seq(BOOLEAN)
      /\ taken \in Seq(Nat) /\ up \in Seq(Nat) /\ read \in Nat /\ plan.n \in Nat
      /\ eos # "none" => dpc = "done" /\ handler \in Silent
  BY PlanFacts DEF StandaloneTypes, PlaceTypes, FlagTypes, ResponseInv
<1>8. ASSUME plan' = plan, blind' = blind, read' = read PROVE Keeps
  <2>1. Misjudged' = Misjudged /\ Exceeded' = Exceeded
    BY <1>8 DEF Misjudged, Exceeded
  <2> HIDE DEF Misjudged, Exceeded
  <2> QED
    BY <2>1, Zenon
<1>1. ASSUME NEW k \in 0..plan.n, UpChunk(k) PROVE ResponseInv'
  <2>1. Quiet /\ taken' = taken /\ dpc' = dpc /\ handler' = handler /\ (Misjudged => Misjudged')
    BY <1>1, Zenon DEF UpChunk, Misjudged
  <2>2. (framing' => framing) /\ read' = read + k
    BY <1>1, Zenon DEF UpChunk
  <2>3. read' \in Nat /\ read <= read'
    BY <1>0, <2>2
  <2>4. Exceeded => Exceeded'
    BY <2>1, <2>3, StaysExceeded, Zenon
  <2> HIDE DEF Misjudged, Exceeded
  <2> QED
    BY <1>0, <2>1, <2>2, <2>4, KeepsResponse, Zenon
<1>2. CASE UpNext \/ ClientEnd \/ ClientReset \/ UNCHANGED standaloneVars
  <2>1. /\ Quiet /\ taken' = taken /\ dpc' = dpc /\ handler' = handler /\ blind' = blind /\ read' = read
        /\ framing' = framing \/ framing' = FALSE
    BY <1>2, Zenon DEF UpNext, UpMessage, UpRaw, UpMore, UpWrite, UpEnd, ClientEnd, ClientReset,
              upVars, standaloneVars
  <2>2. Keeps
    BY <1>8, <2>1, Zenon
  <2>3. framing' => framing
    BY <2>1
  <2> HIDE DEF Misjudged, Exceeded
  <2> QED
    BY <1>0, <2>1, <2>2, <2>3, KeepsResponse, Zenon
<1>3. CASE Respond \/ RespondErr \/ DownErr \/ HandlerShut
  <2>1. /\ Quiet /\ taken' = taken /\ blind' = blind /\ read' = read /\ framing' = framing
        /\ dpc \in {"start", "run"} \/ handler = "run"
    BY <1>3, Zenon DEF Respond, RespondErr, DownErr, HandlerShut, upVars
  <2>2. Keeps
    BY <1>8, <2>1, Zenon
  <2>3. eos = "none"
    BY <1>0, <2>1 DEF Silent
  <2> HIDE DEF Misjudged, Exceeded
  <2> QED
    BY <2>1, <2>2, <2>3, KeepsResponse, Zenon
<1>9. CASE HandlerEnd
  <2>1. /\ Quiet /\ taken' = taken /\ blind' = blind /\ read' = read /\ framing' = framing
        /\ dpc' = dpc /\ handler' \in Silent
    BY <1>9, Zenon DEF HandlerEnd, upVars, Silent
  <2>2. Keeps
    BY <1>8, <2>1, Zenon
  <2> HIDE DEF Misjudged, Exceeded
  <2> QED
    BY <2>1, <2>2, KeepsResponse, Zenon
<1>4. CASE HandlerRead
  <2>1. /\ Quiet /\ taken' = taken \o up /\ blind' = blind /\ read' = read /\ framing' = framing
        /\ dpc' = dpc /\ handler' = handler
    BY <1>4, Zenon DEF HandlerRead, upVars
  <2>2. Keeps
    BY <1>8, <2>1, Zenon
  <2>3. taken' = <<>> => taken = <<>>
    <3>1. taken \in Seq(Nat) /\ up \in Seq(Nat)
      BY <1>0
    <3> QED
      BY <2>1, <3>1, CatEmpty
  <2> HIDE DEF Misjudged, Exceeded
  <2> QED
    BY <1>0, <2>1, <2>2, <2>3, KeepsResponse, Zenon
<1>5. CASE HandlerWrite
  <2>1. /\ plan' = plan /\ blind' = blind /\ read' = read /\ framing' = framing
        /\ shown' = shown /\ told' = told /\ eos' = eos /\ handler' = handler
        /\ taken' = taken /\ taken # <<>> /\ handler = "run" /\ wrote' = wrote + 1 /\ down' = down + 1
    BY <1>5 DEF HandlerWrite, upVars
  <2>2. eos = "none"
    BY <1>0, <2>1 DEF Silent
  <2>3. told' + down' = wrote' /\ wrote' > 0
    <3>1. told + down = wrote
      BY DEF ResponseInv
    <3> QED
      BY <1>0, <2>1, <3>1
  <2>5. Keeps
    BY <1>8, <2>1, Zenon
  <2> HIDE DEF Misjudged, Exceeded
  <2>4. ResponseExact'
    BY <2>1, <2>2, <2>5, Zenon DEF ResponseExact, ResponseInv
  <2> QED
    BY <2>1, <2>2, <2>3, <2>4, Zenon DEF ResponseInv
<1>6. CASE DownForward
  <2>1. /\ plan' = plan /\ blind' = blind /\ read' = read /\ framing' = framing
        /\ shown' = Append(shown, framing) /\ told' = told + down
        /\ down' = 0 /\ taken' = taken /\ wrote' = wrote /\ eos' = eos /\ dpc = "run" /\ down > 0
    BY <1>6 DEF DownForward, upVars
  <2>2. eos = "none"
    BY <1>0, <2>1
  <2>3. told' + down' = wrote' /\ wrote' > 0 /\ taken # <<>>
    BY <1>0, <2>1 DEF ResponseInv
  <2>7. framing \in BOOLEAN /\ shown \in Seq(BOOLEAN)
    BY Zenon DEF StandaloneTypes, FlagTypes
  <2>4. ASSUME ~Misjudged', ~Exceeded' PROVE \A i \in 1..Len(shown') : shown'[i] = plan.framed
    <3>1. ~Misjudged /\ ~Exceeded
      BY <2>1, <2>4, Zenon DEF Misjudged, Exceeded
    <3>2. framing = plan.framed
      BY <2>3, <3>1, Settled
    <3>3. \A i \in 1..Len(shown) : shown[i] = plan.framed
      BY <3>1, Zenon DEF ResponseInv, ResponseExact
    <3>5. \A i \in 1..Len(Append(shown, framing)) : Append(shown, framing)[i] = plan.framed
      <4>2. OneMore(Append(shown, framing), shown, framing)
        BY <2>7, AppendAll, Zenon
      <4> QED
        BY <3>2, <3>3, <4>2, Zenon DEF OneMore
    <3> QED
      BY <2>1, <3>5, Zenon
  <2>6. ChangesOnce(shown') /\ (framing => AllFramed(shown'))
    <3>1. ChangesOnce(shown) /\ (framing => AllFramed(shown))
      BY Zenon DEF ResponseInv, ResponseExact, ChangesOnce, AllFramed
    <3> QED
      BY <2>1, <2>7, <3>1, OneChange, Zenon
  <2> HIDE DEF Misjudged, Exceeded
  <2>5. ResponseExact'
    BY <2>1, <2>2, <2>4, <2>6, Zenon DEF ResponseExact, ChangesOnce
  <2> QED
    BY <2>1, <2>2, <2>3, <2>5, <2>6, Zenon DEF ResponseInv, AllFramed
<1>7. CASE DownEnd
  <2>1. /\ plan' = plan /\ blind' = blind /\ read' = read /\ framing' = framing
        /\ shown' = shown /\ told' = told /\ down' = down /\ taken' = taken
        /\ wrote' = wrote /\ dpc' = "done" /\ down = 0 /\ handler \in Silent /\ handler' = handler
        /\ eos' = IF framing THEN "trailers" ELSE "data"
    BY <1>7, Zenon DEF DownEnd, upVars
  <2>2. told + 0 = wrote /\ told = wrote
    BY <1>0, <2>1 DEF ResponseInv
  <2>5. Keeps
    BY <1>8, <2>1, Zenon
  <2>6. framing \in BOOLEAN
    BY Zenon DEF StandaloneTypes, FlagTypes
  <2>7. (eos' = "trailers") = framing
    <3>1. CASE framing
      BY <2>1, <2>6, <3>1
    <3>2. CASE ~framing
      BY <2>1, <2>6, <3>2
    <3> QED
      BY <3>1, <3>2
  <2>3. ASSUME ~Misjudged', ~Exceeded', shown # <<>> PROVE (eos' = "trailers") = plan.framed
    <3>1. ~Misjudged /\ ~Exceeded
      BY <2>3, <2>5, Zenon
    <3>2. taken # <<>>
      BY <1>0, <2>3 DEF ResponseInv
    <3>3. framing = plan.framed
      BY <3>1, <3>2, Settled, Zenon
    <3> QED
      BY <2>7, <3>3, Zenon
  <2> HIDE DEF Misjudged, Exceeded
  <2>4. ResponseExact'
    BY <2>1, <2>2, <2>3, <2>5, <2>7, Zenon DEF ResponseExact, ResponseInv
  <2> QED
    BY <2>1, <2>2, <2>4, Zenon DEF ResponseInv
<1> QED
  BY <1>1, <1>2, <1>3, <1>4, <1>5, <1>6, <1>7, <1>9, Zenon DEF StandaloneNext, DownNext

\* The invariant holds at the start.
LEMMA StandaloneInitInv == StandaloneInit => StandaloneInv
<1> SUFFICES ASSUME StandaloneInit PROVE StandaloneTypes /\ UploadInv /\ ResponseInv
  BY DEF StandaloneInv
<1>1. /\ plan \in Plans /\ plan.n \in Nat /\ plan.grpc \in BOOLEAN /\ DuplexCap \in Nat
      /\ plan.payload \in Seq(Nat)
      /\ plan.framed => Framed(plan)
  BY PlanFacts DEF StandaloneInit
<1>2. Len(<<>>) = 0 /\ <<>> \o <<>> = <<>> /\ \A S : <<>> \in Seq(S)
  OBVIOUS
<1>3. StandaloneTypes
  <2>1. FlagTypes
    BY <1>1, EmptyType, Zenon DEF StandaloneInit, FlagTypes
  <2>2. PlaceTypes
    BY <1>1, <1>2 DEF StandaloneInit, PlaceTypes
  <2> QED
    BY <2>1, <2>2 DEF StandaloneTypes
<1>4. Released = <<>> /\ Range1(0, 0) = <<>>
  BY <1>2, RangeFacts DEF StandaloneInit, Released
<1>5. ASSUME plan.framed PROVE framing /\ FramedAt(0) /\ 0 \in 0..Len(plan.msgs)
  <2>1. plan.grpc /\ plan.msgs \in Seq([end : Nat, upto : Nat])
    BY <1>1, <1>5, Zenon DEF Framed
  <2>2. 0 \in 0..Len(plan.msgs)
    BY <2>1
  <2>3. SubSeq(plan.payload, 1, 0) = <<>>
    BY <1>1
  <2>4. MsgEnd(plan, 0) = 0 /\ Upto(plan, 0) = 0 /\ read = 0 /\ leftover = <<>>
    BY DEF MsgEnd, Upto, StandaloneInit
  <2>5. FramedAt(0)
    BY <1>4, <2>3, <2>4 DEF FramedAt
  <2> QED
    BY <2>1, <2>2, <2>5, Zenon DEF StandaloneInit
<1>6. UploadInv
  <2>1. read = 0 /\ first /\ (framing => plan.grpc) /\ hand = <<>> /\ leftover = <<>>
    BY Zenon DEF StandaloneInit
  <2>2. RawSoFar
    BY <1>4, <2>1, Zenon DEF RawSoFar
  <2> QED
    BY <1>5, <2>1, <2>2, Zenon DEF UploadInv
<1>7. ResponseInv
  BY <1>2 DEF StandaloneInit, ResponseInv, ResponseExact
<1> QED
  BY <1>3, <1>6, <1>7

\* What holds of a stand-alone stream at all times.
LEMMA StandaloneInvariant == StandaloneSpec => []StandaloneInv
<1>1. StandaloneInit => StandaloneInv
  BY StandaloneInitInv
<1>2. StandaloneInv /\ [StandaloneNext]_standaloneVars => StandaloneInv'
  BY StandaloneTypesStep, UploadStep, ResponseStep DEF StandaloneInv
<1> QED
  BY <1>1, <1>2, PTL DEF StandaloneSpec

\* A part of the first of two sequences is one of both.
InFront(s, t, d) == d \in 0..Len(s \o t) /\ SubSeq(s \o t, 1, d) = SubSeq(s, 1, d)

\* What is behind a sequence does not change its beginnings.
LEMMA FrontPart ==
    ASSUME NEW s \in Seq(Nat), NEW t \in Seq(Nat), NEW d \in 0..Len(s)
    PROVE  InFront(s, t, d)
<1> DEFINE x == SubSeq(s \o t, 1, d)
           y == SubSeq(s, 1, d)
<1>1. /\ s \o t \in Seq(Nat) /\ Len(s \o t) = Len(s) + Len(t) /\ Len(s) \in Nat /\ Len(t) \in Nat
      /\ \A i \in 1..Len(s) : (s \o t)[i] = s[i]
  OBVIOUS
<1>2. d \in 0..Len(s \o t)
  BY <1>1
<1>3. x \in Seq(Nat) /\ Len(x) = d /\ \A i \in 1..d : x[i] = (s \o t)[i]
  BY <1>1, <1>2
<1>4. y \in Seq(Nat) /\ Len(y) = d /\ \A i \in 1..d : y[i] = s[i]
  BY <1>1
<1> HIDE DEF x, y
<1>5. ASSUME NEW i \in 1..Len(x) PROVE x[i] = y[i]
  <2>1. i \in 1..d /\ i \in 1..Len(s)
    BY <1>1, <1>3
  <2> QED
    BY <1>1, <1>3, <1>4, <2>1, Zenon
<1>6. x = y
  BY <1>3, <1>4, <1>5, SeqEqual
<1> QED
  BY <1>2, <1>6 DEF x, y, InFront

\* The body behind e up to b, behind s, is the beginning of that up to n.
Extends(s, e, b, n) == \E i \in 0..Len(s \o Range1(e, n)) : s \o Range1(e, b) = SubSeq(s \o Range1(e, n), 1, i)

\* A longer piece of the body begins with a shorter one.
LEMMA RangeExtends ==
    ASSUME NEW s \in Seq(Nat), NEW e \in Nat, NEW b \in Nat, NEW n \in Nat, e <= b, b <= n
    PROVE  Extends(s, e, b, n)
<1> DEFINE x == s \o Range1(e, b)
           y == Range1(b, n)
<1>1. Range1(e, b) \in Seq(Nat) /\ y \in Seq(Nat)
  BY RangeFacts, Zenon
<1>2. x \in Seq(Nat) /\ Len(x) \in 0..Len(x) /\ SubSeq(x, 1, Len(x)) = x
  BY <1>1
<1>3. x \o y = s \o Range1(e, n)
  <2>1. Associate(s, Range1(e, b), y)
    BY <1>1, CatAssoc, Zenon
  <2>2. Range1(e, b) \o y = Range1(e, n)
    BY RangeConcat, Zenon
  <2> QED
    BY <2>1, <2>2, Zenon DEF Associate
<1> HIDE DEF x, y
<1>4. InFront(x, y, Len(x))
  BY <1>1, <1>2, FrontPart, Zenon
<1>5. Len(x) \in 0..Len(x \o y) /\ SubSeq(x \o y, 1, Len(x)) = x
  BY <1>2, <1>4, Zenon DEF InFront
<1>6. Len(x) \in 0..Len(s \o Range1(e, n)) /\ x = SubSeq(s \o Range1(e, n), 1, Len(x))
  BY <1>3, <1>5, Zenon
<1> QED
  BY <1>6, Zenon DEF x, Extends

\* However the body is cut into DATA frames and wherever its framing is given
\* up, the handler gets exactly the payload up to a message that is too long and
\* exactly the body from there on (h2.rs:299-330), for every client.
THEOREM PayloadIsExact == StandaloneSpec => []Deframed
<1>1. StandaloneInv => Deframed
  <2> SUFFICES ASSUME StandaloneTypes, UploadInv, ~Misjudged
               PROVE  Len(Released) <= Len(Handed(plan)) /\ Released = SubSeq(Handed(plan), 1, Len(Released))
    BY Zenon DEF StandaloneInv, Deframed, Released
  <2> DEFINE q == plan.payload
             w == Handed(plan)
  <2>1. plan \in Plans /\ plan.n \in Nat /\ read \in 0..plan.n /\ q \in Seq(Nat) /\ read \in Nat
    BY PlanFacts DEF StandaloneTypes, PlaceTypes
  <2>2. ASSUME plan.framed
        PROVE  w \in Seq(Nat) /\ \E i \in 0..Len(w) : Released = SubSeq(w, 1, i)
    <3> DEFINE c == Upto(plan, Len(plan.msgs))
               e == LastEnd(plan)
               a == SubSeq(q, 1, c)
    <3>1. Framed(plan) /\ Len(plan.msgs) \in 0..Len(plan.msgs)
      <4>1. Framed(plan) /\ plan.msgs \in Seq([end : Nat, upto : Nat])
        BY <2>1, <2>2, PlanFacts DEF Framed
      <4> QED
        BY <4>1
    <3>2. c \in 0..Len(q) /\ e \in 0..plan.n
      BY <2>1, <3>1, MsgFacts, Zenon DEF LastEnd
    <3>3. a \in Seq(Nat) /\ Len(a) = c /\ e \in Nat /\ e <= plan.n /\ Len(q) \in Nat
      <4> HIDE DEF c, e, q
      <4>1. e \in Nat /\ e <= plan.n
        BY <2>1, <3>2
      <4>2. SubSeq(q, 1, c) \in Seq(Nat) /\ Len(SubSeq(q, 1, c)) = c /\ Len(q) \in Nat
        BY <2>1, <3>2
      <4> QED
        BY <4>1, <4>2
    <3>4. Range1(e, plan.n) \in Seq(Nat) /\ Len(Range1(e, plan.n)) = plan.n - e
      BY <2>1, <3>3, RangeFacts, Zenon
    <3>5. w = IF Overlong(plan) THEN a \o Range1(e, plan.n) ELSE q
      BY DEF Handed
    <3>6. w \in Seq(Nat)
      BY <2>1, <3>3, <3>4, <3>5, ConcatType, Zenon
    <3>7. CASE framing
      <4>1. PICK j \in 0..Len(plan.msgs) : FramedAt(j)
        BY <2>2, <3>7 DEF UploadInv
      <4> DEFINE d == Upto(plan, j)
      <4>2. d \in 0..Len(q) /\ Released = SubSeq(q, 1, d) /\ d <= c
        <5>1. d \in 0..Len(q) /\ Released = SubSeq(q, 1, d)
          BY <2>1, <3>1, <4>1, MsgFacts, Zenon DEF FramedAt
        <5>2. d <= c
          BY <2>1, <3>1, MsgFacts, Zenon
        <5> QED
          BY <5>1, <5>2
      <4> HIDE DEF d
      <4>3. CASE Overlong(plan)
        <5>1. w = a \o Range1(e, plan.n)
          BY <3>5, <4>3
        <5>2. SubSeq(a \o Range1(e, plan.n), 1, d) = SubSeq(q, 1, d) /\ d \in 0..Len(a \o Range1(e, plan.n))
          <6>1. d \in 0..Len(a)
            BY <3>2, <3>3, <4>2
          <6>2. SubSeq(a, 1, d) = SubSeq(q, 1, d)
            BY <2>1, <3>2, <3>3, <4>2
          <6>3. InFront(a, Range1(e, plan.n), d)
            BY <3>3, <3>4, <6>1, FrontPart, Zenon
          <6> QED
            BY <6>2, <6>3, Zenon DEF InFront
        <5> QED
          BY <3>6, <4>2, <5>1, <5>2, Zenon
      <4>4. CASE ~Overlong(plan)
        BY <3>5, <3>6, <4>2, <4>4, Zenon
      <4> QED
        BY <4>3, <4>4
    <3>8. CASE ~framing
      <4>1. Overlong(plan) /\ read >= e + HdrLen /\ Released = a \o Range1(e, read)
        BY <2>2, <3>8, Zenon DEF UploadInv, PastLimit, Exceeded
      <4>2. w = a \o Range1(e, plan.n)
        BY <3>5, <4>1
      <4>3. e <= read /\ read <= plan.n
        <5>1. HdrLen \in Nat
          BY <2>1, PlanFacts
        <5> QED
          BY <2>1, <3>3, <4>1, <5>1
      <4>4. Extends(a, e, read, plan.n)
        BY <2>1, <3>3, <4>3, RangeExtends, Zenon
      <4> QED
        BY <3>6, <4>1, <4>2, <4>4, Zenon DEF Extends
    <3> QED
      BY <3>6, <3>7, <3>8
  <2>3. ASSUME ~plan.framed
        PROVE  w \in Seq(Nat) /\ \E i \in 0..Len(w) : Released = SubSeq(w, 1, i)
    <3>0. w = q
      BY <2>3, Zenon DEF Handed, Overlong
    <3>1. q = Range1(0, plan.n)
      BY <2>1, <2>3, PlanFacts
    <3>2. Len(q) = plan.n
      <4>1. 0 <= plan.n /\ plan.n - 0 = plan.n
        BY <2>1
      <4>2. Len(Range1(0, plan.n)) = plan.n - 0
        BY <2>1, <4>1, RangeFacts
      <4> QED
        BY <3>1, <4>1, <4>2, Zenon
    <3>3. Released = <<>> \/ Released = Range1(0, read)
      BY <2>3, Zenon DEF UploadInv, RawSoFar
    <3>4. Released = SubSeq(q, 1, 0) \/ Released = SubSeq(q, 1, read)
      <4>1. SubSeq(q, 1, 0) = <<>>
        BY <2>1
      <4>2. SubSeq(Range1(0, plan.n), 0 + 1, read) = Range1(0 + 0, 0 + read)
        <5>1. 0 \in Nat /\ read \in Nat /\ 0 <= read /\ 0 + read <= plan.n
          BY <2>1
        <5>2. PieceOf(0, plan.n, 0, read)
          BY <2>1, <5>1, RangeSub, Zenon
        <5> QED
          BY <5>2, Zenon DEF PieceOf
      <4>3. 0 + 1 = 1 /\ 0 + 0 = 0 /\ 0 + read = read
        BY <2>1
      <4> QED
        BY <3>1, <3>3, <4>1, <4>2, <4>3, Zenon
    <3>5. 0 \in 0..Len(q) /\ read \in 0..Len(q)
      BY <2>1, <3>2
    <3> QED
      BY <2>1, <3>0, <3>4, <3>5, Zenon
  <2>4. w \in Seq(Nat) /\ \E i \in 0..Len(w) : Released = SubSeq(w, 1, i)
    BY <2>2, <2>3
  <2>5. PICK i \in 0..Len(w) : Released = SubSeq(w, 1, i)
    BY <2>4
  <2> HIDE DEF w
  <2>6. Len(Released) <= Len(w) /\ Released = SubSeq(w, 1, Len(Released))
    BY <2>4, <2>5, Beginning, Zenon
  <2> QED
    BY <2>6 DEF w
<1> QED
  BY <1>1, StandaloneInvariant, PTL

\* The response is framed as the request was and ends after everything the
\* handler wrote (h2.rs:355-376), for every client and any amount of data.
THEOREM ResponseIsExact == StandaloneSpec => []ResponseExact
<1>1. StandaloneInv => ResponseExact
  BY DEF StandaloneInv, ResponseInv
<1> QED
  BY <1>1, StandaloneInvariant, PTL

=============================================================================
