----------------------------- MODULE CacheProofs -----------------------------
(***************************************************************************)
(* The stores that connections share, each by itself, for any number of    *)
(* connections and any capacity and lifetime: the bounded cache behind the *)
(* session stores, the ticket keys, and the certificate cache.             *)
(***************************************************************************)
EXTENDS LimitedCache, Ticketer, CertCache, TLAPS

(***************************************************************************)
(* Sequences: the facts about their operators that the proofs cite.        *)
(***************************************************************************)
\* Len, DOMAIN and the elements.
LEMMA LenProperties ==
    ASSUME NEW S, NEW s \in Seq(S)
    PROVE  Len(s) \in Nat /\ DOMAIN s = 1 .. Len(s) /\ s \in [1 .. Len(s) -> S]
  OBVIOUS

\* An element at a place of the sequence.
LEMMA ElementOfSeq ==
    ASSUME NEW S, NEW s \in Seq(S), NEW i \in 1 .. Len(s)
    PROVE  s[i] \in S
  OBVIOUS

\* The empty sequence.
LEMMA EmptySeq ==
    ASSUME NEW S
    PROVE  <<>> \in Seq(S) /\ \A s \in Seq(S) : s = <<>> <=> Len(s) = 0
  OBVIOUS

\* Head and Tail.
LEMMA HeadTailProperties ==
    ASSUME NEW S, NEW s \in Seq(S), s # <<>>
    PROVE  /\ Head(s) = s[1] /\ Head(s) \in S /\ Tail(s) \in Seq(S) /\ Len(Tail(s)) = Len(s) - 1
           /\ \A i \in 1 .. Len(Tail(s)) : Tail(s)[i] = s[i + 1]
  OBVIOUS

\* Append.
LEMMA AppendProperties ==
    ASSUME NEW S, NEW s \in Seq(S), NEW e \in S
    PROVE  /\ Append(s, e) \in Seq(S) /\ Len(Append(s, e)) = Len(s) + 1 /\ Append(s, e)[Len(s) + 1] = e
           /\ \A i \in 1 .. Len(s) : Append(s, e)[i] = s[i]
  OBVIOUS

\* Concatenation.
LEMMA ConcatProperties ==
    ASSUME NEW S, NEW s \in Seq(S), NEW t \in Seq(S)
    PROVE  /\ s \o t \in Seq(S) /\ Len(s \o t) = Len(s) + Len(t)
           /\ \A i \in 1 .. Len(s) + Len(t) : (s \o t)[i] = IF i <= Len(s) THEN s[i] ELSE t[i - Len(s)]
  OBVIOUS

\* The part from m to n.
LEMMA SubSeqProperties ==
    ASSUME NEW S, NEW s, NEW m \in Int, NEW n \in Int, \A i \in m .. n : s[i] \in S
    PROVE  /\ SubSeq(s, m, n) \in Seq(S) /\ Len(SubSeq(s, m, n)) = (IF m <= n THEN n - m + 1 ELSE 0)
           /\ \A i \in 1 .. n - m + 1 : SubSeq(s, m, n)[i] = s[m + i - 1]
  OBVIOUS

\* A sequence with the element at one place removed.
Removed(s, i) == SubSeq(s, 1, i - 1) \o SubSeq(s, i + 1, Len(s))

\* What is left of the sequence keeps its order.
LEMMA RemoveOne ==
    ASSUME NEW S, NEW s \in Seq(S), NEW i \in 1 .. Len(s)
    PROVE  /\ Removed(s, i) \in Seq(S) /\ Len(Removed(s, i)) = Len(s) - 1
           /\ \A j \in 1 .. Len(s) - 1 : Removed(s, i)[j] = s[IF j < i THEN j ELSE j + 1]
<1> DEFINE a == SubSeq(s, 1, i - 1)
           b == SubSeq(s, i + 1, Len(s))
<1>1. Len(s) \in Nat /\ \A j \in 1 .. Len(s) : s[j] \in S
  BY LenProperties, ElementOfSeq
<1>2. a \in Seq(S) /\ Len(a) = i - 1 /\ \A j \in 1 .. i - 1 : a[j] = s[j]
  <2>1. \A j \in 1 .. i - 1 : s[j] \in S
    BY <1>1
  <2> QED
    BY <1>1, <2>1, SubSeqProperties
<1>3. b \in Seq(S) /\ Len(b) = Len(s) - i /\ \A j \in 1 .. Len(s) - i : b[j] = s[i + j]
  <2>1. \A j \in i + 1 .. Len(s) : s[j] \in S
    BY <1>1
  <2>2. i + 1 \in 1 .. Len(s) + 1
    BY <1>1
  <2> QED
    BY <1>1, <2>1, <2>2, SubSeqProperties
<1>4. Removed(s, i) = a \o b
  BY DEF Removed
<1> HIDE DEF a, b
<1>5. /\ a \o b \in Seq(S) /\ Len(a \o b) = Len(a) + Len(b)
      /\ \A j \in 1 .. Len(a) + Len(b) : (a \o b)[j] = IF j <= Len(a) THEN a[j] ELSE b[j - Len(a)]
  BY <1>2, <1>3, ConcatProperties
<1>6. ASSUME NEW j \in 1 .. Len(s) - 1
      PROVE  (a \o b)[j] = s[IF j < i THEN j ELSE j + 1]
  <2>1. CASE j < i
    BY <1>1, <1>2, <1>3, <1>5, <2>1
  <2>2. CASE ~(j < i)
    <3>1. j - (i - 1) \in 1 .. Len(s) - i /\ i + (j - (i - 1)) = j + 1
      BY <1>1, <2>2
    <3>2. (a \o b)[j] = b[j - (i - 1)]
      BY <1>1, <1>2, <1>3, <1>5, <2>2
    <3> QED
      BY <1>3, <2>2, <3>1, <3>2
  <2> QED
    BY <2>1, <2>2
<1>7. Len(a) + Len(b) = Len(s) - 1
  BY <1>1, <1>2, <1>3
<1> QED
  BY <1>4, <1>5, <1>6, <1>7

(***************************************************************************)
(* The bounded caches.                                                     *)
(***************************************************************************)
\* A cache with these keys, items and capacity.
CacheOf(c, K, V, capacity) ==
    /\ c = Cache(c.map, c.oldest, c.capacity) /\ c.capacity = capacity
    /\ c.oldest \in Seq(K) /\ c.map \in [DOMAIN c.map -> V]
    /\ Exact(c)

\* The order of a cache, in terms of its places: each holds a key ...
Places(s, n, D) ==
    /\ \A i \in 1 .. n : s[i] \in D
    /\ \A x \in D : \E i \in 1 .. n : s[i] = x
    /\ \A i, j \in 1 .. n : s[i] = s[j] => i = j

\* ... and this is what Exact says of it.
LEMMA ExactPlaces ==
    ASSUME NEW K, NEW s \in Seq(K), NEW D
    PROVE  (Range(s) = D /\ IsInjective(s)) <=> Places(s, Len(s), D)
<1>1. DOMAIN s = 1 .. Len(s)
  BY LenProperties
<1>2. Range(s) = {s[i] : i \in 1 .. Len(s)}
  BY <1>1 DEF Range
<1>3. IsInjective(s) <=> \A i, j \in 1 .. Len(s) : s[i] = s[j] => i = j
  BY <1>1 DEF IsInjective
<1>4. ASSUME Range(s) = D, IsInjective(s) PROVE Places(s, Len(s), D)
  BY <1>2, <1>3, <1>4 DEF Places
<1>5. ASSUME Places(s, Len(s), D) PROVE Range(s) = D /\ IsInjective(s)
  <2>1. Range(s) \subseteq D
    BY <1>2, <1>5 DEF Places
  <2>2. D \subseteq Range(s)
    BY <1>2, <1>5 DEF Places
  <2>3. IsInjective(s)
    BY <1>3, <1>5 DEF Places
  <2> QED
    BY <2>1, <2>2, <2>3
<1> QED
  BY <1>4, <1>5

\* A new cache has no item.
LEMMA NewCacheOf ==
    ASSUME NEW K, NEW V, NEW capacity \in Nat \ {0}
    PROVE  CacheOf(NewCache(capacity), K, V, capacity) /\ DOMAIN NewCache(capacity).map = {}
<1> DEFINE c == NewCache(capacity)
<1>1. /\ c.map = [k \in {} |-> 0] /\ c.oldest = <<>> /\ c.capacity = capacity
      /\ c = Cache(c.map, c.oldest, c.capacity)
  BY DEF NewCache, Cache
<1>2. DOMAIN c.map = {} /\ c.map \in [DOMAIN c.map -> V]
  BY <1>1
<1>3. c.oldest \in Seq(K) /\ Len(c.oldest) = 0
  BY <1>1
<1> HIDE DEF c
<1>4. Range(c.oldest) = DOMAIN c.map /\ IsInjective(c.oldest)
  <2>1. Places(c.oldest, Len(c.oldest), DOMAIN c.map)
    BY <1>2, <1>3 DEF Places
  <2> QED
    BY <1>3, <2>1, ExactPlaces
<1> QED
  BY <1>1, <1>2, <1>3, <1>4 DEF CacheOf, Exact, c

\* The items of m are those of f, or some of them, with v under the key k.
Updated(m, f, k, v) ==
    \A x \in DOMAIN m : (x = k /\ m[x] = v) \/ (x # k /\ x \in DOMAIN f /\ m[x] = f[x])

\* An item that is there is replaced.
LEMMA ReplaceKeeps ==
    ASSUME NEW K, NEW V, NEW capacity, NEW c, CacheOf(c, K, V, capacity), NEW k, Has(c, k), NEW v \in V
    PROVE  LET d == Cache(With(c.map, k, v), c.oldest, c.capacity)
           IN /\ CacheOf(d, K, V, capacity)
              /\ Updated(d.map, c.map, k, v)
<1> DEFINE d == Cache(With(c.map, k, v), c.oldest, c.capacity)
<1>1. d = Cache(d.map, d.oldest, d.capacity) /\ d.map = With(c.map, k, v) /\ d.oldest = c.oldest /\ d.capacity = c.capacity
  BY DEF Cache
<1> HIDE DEF d
<1>2. /\ DOMAIN d.map = DOMAIN c.map /\ d.map = [x \in DOMAIN d.map |-> IF x = k THEN v ELSE c.map[x]]
      /\ \A x \in DOMAIN c.map : c.map[x] \in V
  BY <1>1 DEF With, Has, CacheOf
<1>3. d.map \in [DOMAIN d.map -> V] /\ \A x \in DOMAIN d.map : d.map[x] = IF x = k THEN v ELSE c.map[x]
  BY <1>2
<1>4. CacheOf(d, K, V, capacity)
  BY <1>1, <1>2, <1>3 DEF CacheOf, Exact
<1> QED
  BY <1>2, <1>3, <1>4 DEF d, Updated

\* An item is inserted: it is there afterwards, unless the only slot is the
\* one kept free, and of the others none is changed.
LEMMA InsertKeeps ==
    ASSUME NEW K, NEW V, NEW capacity \in Nat \ {0}, NEW c, CacheOf(c, K, V, capacity), NEW k \in K, NEW v \in V
    PROVE  LET d == CacheInsert(c, k, v)
           IN /\ CacheOf(d, K, V, capacity)
              /\ Updated(d.map, c.map, k, v)
<1> DEFINE d == CacheInsert(c, k, v)
<1>1. CASE Has(c, k)
  <2>1. d = Cache(With(c.map, k, v), c.oldest, c.capacity)
    BY <1>1 DEF CacheInsert
  <2> DEFINE e == Cache(With(c.map, k, v), c.oldest, c.capacity)
  <2>2. CacheOf(e, K, V, capacity) /\ Updated(e.map, c.map, k, v)
    BY <1>1, ReplaceKeeps
  <2>3. CacheInsert(c, k, v) = e
    BY <2>1
  <2> HIDE DEF d, e
  <2> QED
    BY <2>2, <2>3
<1>2. CASE ~Has(c, k)
  <2> DEFINE s == Append(c.oldest, k)
             map == With(c.map, k, v)
             n == Len(c.oldest)
  <2>1. /\ c.oldest \in Seq(K) /\ n \in Nat /\ n < capacity /\ c.capacity = capacity
        /\ \A i \in 1 .. n : c.oldest[i] \in DOMAIN c.map
        /\ \A x \in DOMAIN c.map : \E i \in 1 .. n : c.oldest[i] = x
        /\ \A i, j \in 1 .. n : c.oldest[i] = c.oldest[j] => i = j
    <3>1. c.oldest \in Seq(K) /\ Range(c.oldest) = DOMAIN c.map /\ IsInjective(c.oldest)
      BY DEF CacheOf, Exact
    <3>2. Places(c.oldest, n, DOMAIN c.map)
      BY <3>1, ExactPlaces
    <3>3. n < capacity /\ c.capacity = capacity
      BY DEF CacheOf, Exact
    <3> QED
      BY <3>1, <3>2, <3>3, LenProperties DEF Places
  <2>2. /\ s \in Seq(K) /\ Len(s) = n + 1 /\ s[n + 1] = k
        /\ \A i \in 1 .. n : s[i] = c.oldest[i]
    BY <2>1, AppendProperties
  <2>3. /\ DOMAIN map = DOMAIN c.map \cup {k} /\ map \in [DOMAIN map -> V]
        /\ \A x \in DOMAIN map : map[x] = IF x = k THEN v ELSE c.map[x]
    BY <1>2 DEF With, Has, CacheOf
  <2> HIDE DEF s, map, n
  <2>4. \A i \in 1 .. n + 1 : i = n + 1 \/ i \in 1 .. n
    BY <2>1
  <2>5. \A i \in 1 .. n + 1 : s[i] \in DOMAIN map
    BY <2>1, <2>2, <2>3, <2>4
  <2>6. \A x \in DOMAIN map : \E i \in 1 .. n + 1 : s[i] = x
    <3> TAKE x \in DOMAIN map
    <3>1. CASE x = k
      BY <2>1, <2>2, <3>1
    <3>2. CASE x \in DOMAIN c.map
      <4>1. PICK i \in 1 .. n : c.oldest[i] = x
        BY <2>1, <3>2
      <4>2. i \in 1 .. n + 1
        BY <2>1
      <4> QED
        BY <2>2, <4>1, <4>2
    <3> QED
      BY <2>3, <3>1, <3>2
  <2>7. ASSUME NEW i \in 1 .. n + 1, NEW j \in 1 .. n + 1, s[i] = s[j]
        PROVE  i = j
    <3>1. \A u \in 1 .. n : s[u] # k
      BY <1>2, <2>1, <2>2 DEF Has
    <3> QED
      BY <2>1, <2>2, <2>4, <2>7, <3>1
  <2>8. d = Evict(Cache(map, s, capacity))
    BY <1>2, <2>1 DEF CacheInsert, map, s
  <2> DEFINE e == Cache(map, s, capacity)
  <2>9. e.map = map /\ e.oldest = s /\ e.capacity = capacity /\ e = Cache(e.map, e.oldest, e.capacity)
    BY DEF Cache
  <2> HIDE DEF d, e
  <2>10. CASE n + 1 # capacity
    <3>1. d = e
      BY <2>2, <2>8, <2>9, <2>10 DEF Evict, e
    <3>2. Exact(e)
      <4>1. Range(s) = DOMAIN map /\ IsInjective(s)
        <5>1. Places(s, n + 1, DOMAIN map)
          BY <2>5, <2>6, <2>7 DEF Places
        <5> QED
          BY <2>2, <5>1, ExactPlaces
      <4> QED
        BY <2>1, <2>2, <2>9, <2>10, <4>1 DEF Exact
    <3>3. CacheOf(e, K, V, capacity)
      BY <2>2, <2>3, <2>9, <3>2 DEF CacheOf
    <3> QED
      BY <2>3, <2>9, <3>1, <3>3 DEF d, Updated
  <2>11. CASE n + 1 = capacity
    <3> DEFINE h == Head(s)
               r == Tail(s)
               m == Without(map, h)
    <3>1. d = Cache(m, r, capacity)
      BY <2>2, <2>8, <2>9, <2>11 DEF Evict, e
    <3>2. h = s[1] /\ r \in Seq(K) /\ Len(r) = n /\ \A i \in 1 .. n : r[i] = s[i + 1]
      <4>1. s # <<>>
        BY <2>1, <2>2
      <4> QED
        BY <2>1, <2>2, <4>1, HeadTailProperties
    <3>3. DOMAIN m = DOMAIN map \ {h} /\ m \in [DOMAIN m -> V] /\ \A x \in DOMAIN m : m[x] = map[x]
      BY <2>3 DEF Without, Restrict
    <3> HIDE DEF h, r, m
    <3>4. \A i \in 1 .. n : i + 1 \in 1 .. n + 1 /\ i + 1 # 1 /\ 1 \in 1 .. n + 1
      BY <2>1
    <3>5. \A i \in 1 .. n : r[i] \in DOMAIN m
      BY <2>5, <2>7, <3>2, <3>3, <3>4
    <3>6. \A x \in DOMAIN m : \E i \in 1 .. n : r[i] = x
      <4> TAKE x \in DOMAIN m
      <4>1. PICK i \in 1 .. n + 1 : s[i] = x
        BY <2>6, <3>3
      <4>2. i # 1
        BY <3>2, <3>3, <4>1
      <4>3. i - 1 \in 1 .. n /\ (i - 1) + 1 = i
        BY <2>1, <4>2
      <4> QED
        BY <3>2, <4>1, <4>3
    <3>7. ASSUME NEW i \in 1 .. n, NEW j \in 1 .. n, r[i] = r[j]
          PROVE  i = j
      <4>1. i + 1 = j + 1
        BY <2>7, <3>2, <3>4, <3>7
      <4> QED
        BY <4>1
    <3>8. Range(r) = DOMAIN m /\ IsInjective(r)
      <4>1. Places(r, n, DOMAIN m)
        BY <3>5, <3>6, <3>7 DEF Places
      <4> QED
        BY <3>2, <4>1, ExactPlaces
    <3>9. d.map = m /\ d.oldest = r /\ d.capacity = capacity /\ d = Cache(d.map, d.oldest, d.capacity)
      BY <3>1 DEF Cache
    <3>10. CacheOf(d, K, V, capacity)
      BY <2>1, <3>2, <3>3, <3>8, <3>9 DEF CacheOf, Exact
    <3> QED
      BY <2>3, <3>3, <3>9, <3>10 DEF d, Updated
  <2> QED
    BY <2>10, <2>11
<1> QED
  BY <1>1, <1>2

\* An item that is there is edited; nothing is added.
LEMMA EditKeeps ==
    ASSUME NEW K, NEW V, NEW capacity, NEW c, CacheOf(c, K, V, capacity), NEW k, NEW v, Has(c, k) => v \in V
    PROVE  LET d == GetMut(c, k, v)
           IN /\ CacheOf(d, K, V, capacity)
              /\ Updated(d.map, c.map, k, v)
<1>1. CASE Has(c, k)
  <2> DEFINE d == Cache(With(c.map, k, v), c.oldest, c.capacity)
  <2>1. GetMut(c, k, v) = d
    BY <1>1 DEF GetMut
  <2>2. v \in V
    BY <1>1
  <2>3. CacheOf(d, K, V, capacity) /\ Updated(d.map, c.map, k, v)
    BY <1>1, <2>2, ReplaceKeeps
  <2> HIDE DEF d
  <2> QED
    BY <2>1, <2>3, Zenon
<1>2. CASE ~Has(c, k)
  <2>1. GetMut(c, k, v) = c
    BY <1>2 DEF GetMut
  <2> QED
    BY <1>2, <2>1 DEF Has, Updated
<1> QED
  BY <1>1, <1>2

\* The items of m are those of f but for the key k.
Deleted(m, f, k) == DOMAIN m = DOMAIN f \ {k} /\ \A x \in DOMAIN m : m[x] = f[x]

\* An item is removed, from its place in the order as well.
LEMMA RemoveKeeps ==
    ASSUME NEW K, NEW V, NEW capacity \in Nat, NEW c, CacheOf(c, K, V, capacity), NEW k, Has(c, k)
    PROVE  LET d == CacheRemove(c, k)
           IN /\ CacheOf(d, K, V, capacity)
              /\ Deleted(d.map, c.map, k)
<1> DEFINE s == c.oldest
           n == Len(s)
           map == Without(c.map, k)
           found(i) == i \in DOMAIN s /\ s[i] = k /\ \A j \in 1 .. i - 1 : s[j] # k
           p == CHOOSE i \in DOMAIN s : s[i] = k /\ \A j \in 1 .. i - 1 : s[j] # k
           r == Removed(s, p)
           d == CacheRemove(c, k)
<1>1. s \in Seq(K) /\ n \in Nat /\ DOMAIN s = 1 .. n /\ n < capacity /\ c.capacity = capacity /\ Range(s) = DOMAIN c.map
  BY LenProperties DEF CacheOf, Exact
<1>2. Places(s, n, DOMAIN c.map)
  <2>1. Range(s) = DOMAIN c.map /\ IsInjective(s)
    BY DEF CacheOf, Exact
  <2> HIDE DEF s
  <2> QED
    BY <1>1, <2>1, ExactPlaces
<1>3. PICK q \in 1 .. n : s[q] = k
  BY <1>2 DEF Places, Has
<1>4. \A j \in 1 .. q - 1 : s[j] # k
  <2> SUFFICES ASSUME NEW j \in 1 .. q - 1, s[j] = k PROVE FALSE
    OBVIOUS
  <2>1. j \in 1 .. n /\ j # q
    BY <1>1
  <2> QED
    BY <1>2, <1>3, <2>1 DEF Places
<1>5. p \in 1 .. n /\ s[p] = k
  BY <1>1, <1>3, <1>4
<1>6. d = Cache(map, r, capacity)
  BY <1>1 DEF CacheRemove, Dropped, Removed, Has
<1> HIDE DEF p
<1>7. /\ r \in Seq(K) /\ Len(r) = n - 1
      /\ \A j \in 1 .. n - 1 : r[j] = s[IF j < p THEN j ELSE j + 1]
  BY <1>1, <1>5, RemoveOne
<1>8. DOMAIN map = DOMAIN c.map \ {k} /\ map \in [DOMAIN map -> V] /\ \A x \in DOMAIN map : map[x] = c.map[x]
  BY DEF Without, Restrict, CacheOf
<1> DEFINE from(j) == IF j < p THEN j ELSE j + 1
<1>9. \A j \in 1 .. n - 1 : from(j) \in 1 .. n /\ from(j) # p /\ r[j] = s[from(j)]
  BY <1>1, <1>5, <1>7
<1>10. \A i, j \in 1 .. n - 1 : from(i) = from(j) => i = j
  BY <1>1, <1>5
<1>11. \A i \in 1 .. n : i # p => \E j \in 1 .. n - 1 : from(j) = i
  <2> TAKE i \in 1 .. n
  <2> HAVE i # p
  <2>1. CASE i < p
    <3>1. i \in 1 .. n - 1 /\ from(i) = i
      BY <1>1, <1>5, <2>1
    <3> QED
      BY <3>1
  <2>2. CASE ~(i < p)
    <3>1. i - 1 \in 1 .. n - 1 /\ from(i - 1) = i
      BY <1>1, <1>5, <2>2
    <3> QED
      BY <3>1
  <2> QED
    BY <2>1, <2>2
<1> HIDE DEF from, r, map, s, n, d
<1>12. Places(r, n - 1, DOMAIN map)
  <2>1. ASSUME NEW j \in 1 .. n - 1 PROVE r[j] \in DOMAIN map
    <3>1. from(j) \in 1 .. n /\ from(j) # p /\ r[j] = s[from(j)]
      BY <1>9
    <3>2. s[from(j)] \in DOMAIN c.map /\ s[from(j)] # s[p]
      BY <1>2, <1>5, <3>1 DEF Places
    <3> QED
      BY <1>5, <1>8, <3>1, <3>2
  <2>2. ASSUME NEW x \in DOMAIN map PROVE \E j \in 1 .. n - 1 : r[j] = x
    <3>1. x \in DOMAIN c.map /\ x # k
      BY <1>8
    <3>2. PICK i \in 1 .. n : s[i] = x
      BY <1>2, <3>1 DEF Places
    <3>3. PICK j \in 1 .. n - 1 : from(j) = i
      BY <1>5, <1>11, <3>1, <3>2
    <3> QED
      BY <1>9, <3>2, <3>3
  <2>3. ASSUME NEW i \in 1 .. n - 1, NEW j \in 1 .. n - 1, r[i] = r[j] PROVE i = j
    <3>1. from(i) \in 1 .. n /\ from(j) \in 1 .. n /\ s[from(i)] = s[from(j)]
      BY <1>9, <2>3
    <3>2. from(i) = from(j)
      BY <1>2, <3>1 DEF Places
    <3> QED
      BY <1>10, <3>2
  <2> QED
    BY <2>1, <2>2, <2>3 DEF Places
<1>13. Range(r) = DOMAIN map /\ IsInjective(r)
  BY <1>7, <1>12, ExactPlaces
<1>14. d.map = map /\ d.oldest = r /\ d.capacity = capacity /\ d = Cache(d.map, d.oldest, d.capacity)
  BY <1>6 DEF Cache
<1>15. n - 1 < capacity
  BY <1>1
<1>16. CacheOf(d, K, V, capacity)
  BY <1>7, <1>8, <1>13, <1>14, <1>15 DEF CacheOf, Exact
<1> QED
  BY <1>8, <1>14, <1>16 DEF d, Deleted

(***************************************************************************)
(* The ticket keys.                                                        *)
(***************************************************************************)
Steps == {"none", "roll", "generate", "recover", "relock"}
Types ==
    /\ clock \in Nat
    /\ switcher \in [next : {<<>>} \cup {<<k>> : k \in Nat}, current : Nat,
                     previous : {<<>>} \cup {<<k>> : k \in Nat}, nextSwitch : Nat]
    /\ keys \in Nat
    /\ call \in [Conns -> [step : Steps, seals : BOOLEAN, now : Nat, fresh : Seq(Nat)]]
    /\ sealed \subseteq [key : Nat, at : Nat]

\* Where a call is tells how much it has generated.  The time it read has
\* come; once it switched the keys, the next switch is due no earlier.
CallOk(c) ==
    /\ c.now <= clock
    /\ c.step \in {"roll", "generate"} => Len(c.fresh) = 0
    /\ c.step = "recover" => Len(c.fresh) <= 1
    /\ c.step = "relock" => Len(c.fresh) \in {1, 2}
    /\ c.step = "generate" \/ (c.step = "relock" /\ Len(c.fresh) = 1) => c.now <= switcher.nextSwitch

\* Every ticket was sealed by the time of the next switch; one that the
\* current key did not seal, more than a lifetime before it; one that neither
\* key sealed, more than a lifetime ago.
SealedOk(x) ==
    /\ x.at <= switcher.nextSwitch
    /\ x.key # switcher.current => x.at + Lifetime < switcher.nextSwitch
    /\ ~Opens(switcher, x) => x.at + Lifetime < clock

TInv ==
    /\ Types
    /\ \A t \in Conns : CallOk(call[t])
    /\ \A x \in sealed : SealedOk(x)

\* A switch at a time that has come, and after which it was due, keeps what is
\* known of the tickets, and only moves the next switch away.
LEMMA SwitchKeeps ==
    ASSUME TInv, NEW now \in Nat, NEW key \in Nat, now <= clock, now > switcher.nextSwitch,
           NEW st, st \in [next : {<<>>} \cup {<<k>> : k \in Nat}, current : Nat,
                     previous : {<<>>} \cup {<<k>> : k \in Nat}, nextSwitch : Nat],
           st.current = key, st.previous = Some(switcher.current), st.nextSwitch = now + Lifetime
    PROVE  /\ switcher.nextSwitch <= st.nextSwitch
           /\ \A x \in sealed : /\ x.at + Lifetime < st.nextSwitch
                                /\ ~Opens(st, x) => x.at + Lifetime < clock
<1>1. Lifetime \in Nat
  BY LifetimeAssumption
<1>2. switcher.nextSwitch \in Nat /\ clock \in Nat
  BY DEF TInv, Types
<1>3. ASSUME NEW x \in sealed
      PROVE  x.at + Lifetime < st.nextSwitch /\ (~Opens(st, x) => x.at + Lifetime < clock)
  <2>1. x.at \in Nat
    BY DEF TInv, Types
  <2>2. x.at <= switcher.nextSwitch
    BY DEF TInv, SealedOk
  <2>3. x.at + Lifetime < st.nextSwitch
    BY <1>1, <1>2, <2>1, <2>2
  <2>4. ASSUME ~Opens(st, x) PROVE x.at + Lifetime < clock
    <3>1. x.key # switcher.current
      BY <2>4 DEF Opens, Some
    <3>2. x.at + Lifetime < switcher.nextSwitch
      BY <3>1 DEF TInv, SealedOk
    <3> QED
      BY <1>1, <1>2, <2>1, <3>2
  <2> QED
    BY <2>3, <2>4
<1>4. switcher.nextSwitch <= st.nextSwitch
  BY <1>1, <1>2
<1> QED
  BY <1>3, <1>4

\* The initial states.
LEMMA InitTInv == TicketerInit => TInv
<1> SUFFICES ASSUME TicketerInit PROVE TInv
  OBVIOUS
<1> USE LifetimeAssumption DEF TicketerInit
<1>1. NoCall \in [step : Steps, seals : BOOLEAN, now : Nat, fresh : Seq(Nat)]
  BY DEF NoCall, Steps
<1>2. Types
  BY <1>1 DEF Types, Some, None
<1>3. \A t \in Conns : call[t] = NoCall
  OBVIOUS
<1>4. CallOk(NoCall)
  BY DEF CallOk, NoCall
<1>5. \A t \in Conns : CallOk(call[t])
  BY <1>3, <1>4, Zenon
<1> QED
  BY <1>2, <1>5 DEF TInv

\* Reading the clock at the start of a call.
LEMMA CallTInv ==
    ASSUME TInv, NEW t \in Conns, NEW seals \in BOOLEAN, Call(t, seals)
    PROVE  TInv'
<1> USE DEF Call
<1>1. Types'
  BY DEF TInv, Types, Steps
<1>2. \A u \in Conns : CallOk(call[u])'
  <2> TAKE u \in Conns
  <2>1. CASE u = t
    BY <2>1 DEF TInv, Types, CallOk
  <2>2. CASE u # t
    <3>1. call'[u] = call[u] /\ CallOk(call[u])
      BY <2>2 DEF TInv, Types
    <3> QED
      BY <3>1 DEF CallOk
  <2> QED
    BY <2>1, <2>2
<1>3. \A x \in sealed' : SealedOk(x)'
  BY DEF TInv, SealedOk, Opens
<1> QED
  BY <1>1, <1>2, <1>3 DEF TInv

\* Sealing under the current key, by a call whose time is not past the next
\* switch, in a state st of the keys that keeps the tickets sealed so far.
LEMMA UseKeeps ==
    ASSUME TInv, NEW t \in Conns, NEW st, Use(t, st), Types', switcher' = st, clock' = clock,
           switcher.nextSwitch <= st.nextSwitch, call[t].now <= st.nextSwitch,
           \A x \in sealed : SealedOk(x)'
    PROVE  TInv'
<1>1. \A u \in Conns : CallOk(call[u])'
  <2> TAKE u \in Conns
  <2>1. CASE u = t
    <3>1. call'[u] = NoCall
      BY <2>1 DEF TInv, Types, Use
    <3> QED
      BY <3>1 DEF CallOk, NoCall, Types
  <2>2. CASE u # t
    <3>1. call'[u] = call[u] /\ CallOk(call[u]) /\ call[u].now \in Nat
      BY <2>2 DEF TInv, Types, Use
    <3>2. switcher.nextSwitch \in Nat /\ switcher'.nextSwitch \in Nat
      BY DEF TInv, Types
    <3> QED
      BY <3>1, <3>2 DEF CallOk
  <2> QED
    BY <2>1, <2>2
<1>2. \A x \in sealed' : SealedOk(x)'
  <2> TAKE x \in sealed'
  <2>1. CASE x \in sealed
    BY <2>1
  <2>2. CASE x \notin sealed
    <3>1. x = [key |-> st.current, at |-> call[t].now]
      BY <2>2 DEF Use
    <3> QED
      BY <3>1 DEF SealedOk, Opens
  <2> QED
    BY <2>1, <2>2
<1> QED
  BY <1>1, <1>2 DEF TInv

\* maybe_roll, first time under the lock.
LEMMA RollTInv ==
    ASSUME TInv, NEW t \in Conns, MaybeRoll(t)
    PROVE  TInv'
<1>1. /\ call[t] \in [step : Steps, seals : BOOLEAN, now : Nat, fresh : Seq(Nat)]
      /\ CallOk(call[t]) /\ call[t].step = "roll" /\ clock' = clock /\ keys' = keys
  BY DEF TInv, Types, MaybeRoll
<1>2. CASE call[t].now <= switcher.nextSwitch
  <2>1. Use(t, switcher) /\ switcher' = switcher
    BY <1>2 DEF MaybeRoll
  <2>2. Types'
    <3>1. NoCall \in [step : Steps, seals : BOOLEAN, now : Nat, fresh : Seq(Nat)]
      BY DEF NoCall, Steps
    <3>2. sealed' \subseteq [key : Nat, at : Nat]
      BY <1>1, <2>1 DEF Use, TInv, Types
    <3> QED
      BY <1>1, <2>1, <3>1, <3>2 DEF Use, TInv, Types
  <2>3. \A x \in sealed : SealedOk(x)'
    BY <1>1, <2>1 DEF TInv, SealedOk, Opens
  <2>4. switcher.nextSwitch <= switcher.nextSwitch
    BY DEF TInv, Types
  <2> QED
    BY <1>1, <1>2, <2>1, <2>2, <2>3, <2>4, UseKeeps
<1>3. CASE call[t].now > switcher.nextSwitch /\ switcher.next = None
  <2>1. /\ switcher' = switcher /\ sealed' = sealed
        /\ call' = [call EXCEPT ![t].step = "recover"]
    BY <1>1, <1>3 DEF MaybeRoll, TInv, Types
  <2>2. Types'
    BY <1>1, <2>1 DEF TInv, Types, Steps
  <2>3. \A u \in Conns : CallOk(call[u])'
    BY <1>1, <2>1 DEF TInv, Types, CallOk
  <2>4. \A x \in sealed' : SealedOk(x)'
    BY <1>1, <2>1 DEF TInv, SealedOk, Opens
  <2> QED
    BY <2>2, <2>3, <2>4 DEF TInv
<1>4. CASE call[t].now > switcher.nextSwitch /\ switcher.next # None
  <2> DEFINE st == Switch(switcher, None, switcher.next[1], call[t].now)
  <2>1. /\ switcher' = st /\ sealed' = sealed
        /\ call' = [call EXCEPT ![t].step = "generate"]
    BY <1>1, <1>4 DEF MaybeRoll, TInv, Types
  <2>2. switcher.next[1] \in Nat
    BY <1>4 DEF TInv, Types, None
  <2>3. /\ st \in [next : {<<>>} \cup {<<k>> : k \in Nat}, current : Nat,
                   previous : {<<>>} \cup {<<k>> : k \in Nat}, nextSwitch : Nat]
        /\ st.current = switcher.next[1] /\ st.previous = Some(switcher.current)
        /\ st.nextSwitch = call[t].now + Lifetime
    <3>1. st = [next |-> <<>>, current |-> switcher.next[1], previous |-> <<switcher.current>>,
                nextSwitch |-> call[t].now + Lifetime]
      BY DEF Switch, None, Some
    <3>2. call[t].now + Lifetime \in Nat /\ switcher.current \in Nat
      BY <1>1, LifetimeAssumption DEF TInv, Types
    <3> HIDE DEF st
    <3> QED
      BY <2>2, <3>1, <3>2 DEF Some
  <2> HIDE DEF st
  <2>4. /\ switcher.nextSwitch <= st.nextSwitch
        /\ \A x \in sealed : x.at + Lifetime < st.nextSwitch /\ (~Opens(st, x) => x.at + Lifetime < clock)
    BY <1>1, <1>4, <2>2, <2>3, SwitchKeeps DEF CallOk
  <2>5. Types'
    BY <1>1, <2>1, <2>3 DEF TInv, Types, Steps
  <2>6. \A u \in Conns : CallOk(call[u])'
    <3> TAKE u \in Conns
    <3>1. switcher.nextSwitch \in Nat /\ st.nextSwitch \in Nat /\ call[u].now \in Nat /\ Lifetime \in Nat
      BY <2>3, LifetimeAssumption DEF TInv, Types
    <3>2. CASE u = t
      BY <1>1, <2>1, <2>3, <3>1, <3>2 DEF TInv, Types, CallOk
    <3>3. CASE u # t
      <4>1. call'[u] = call[u] /\ CallOk(call[u])
        BY <2>1, <3>3 DEF TInv, Types
      <4> QED
        BY <1>1, <2>1, <2>4, <3>1, <4>1 DEF CallOk
    <3> QED
      BY <3>2, <3>3
  <2>7. \A x \in sealed' : SealedOk(x)'
    <3> TAKE x \in sealed'
    <3>1. x.at \in Nat /\ Lifetime \in Nat /\ st.nextSwitch \in Nat
      BY <2>1, <2>3, LifetimeAssumption DEF TInv, Types
    <3> QED
      BY <1>1, <2>1, <2>4, <3>1 DEF SealedOk, Opens
  <2> QED
    BY <2>5, <2>6, <2>7 DEF TInv
<1> QED
  BY <1>1, <1>2, <1>3, <1>4 DEF TInv, Types

\* A key is generated, or the generator fails.
LEMMA GenerateTInv ==
    ASSUME TInv, NEW t \in Conns, Generate(t) \/ GeneratorFails(t)
    PROVE  TInv'
<1>1. /\ call[t] \in [step : Steps, seals : BOOLEAN, now : Nat, fresh : Seq(Nat)] /\ CallOk(call[t])
      /\ call[t].step \in {"generate", "recover"}
      /\ clock' = clock /\ switcher' = switcher /\ sealed' = sealed
  BY DEF TInv, Types, Generate, GeneratorFails
<1>2. \A x \in sealed' : SealedOk(x)'
  BY <1>1 DEF TInv, SealedOk, Opens
<1>3. CASE Generate(t)
  <2> DEFINE fresh == Append(call[t].fresh, keys + 1)
             step == IF call[t].step = "generate" \/ Len(fresh) = 2 THEN "relock" ELSE call[t].step
  <2>1. keys \in Nat /\ keys' = keys + 1 /\ call' = [call EXCEPT ![t] = [step |-> step, seals |-> call[t].seals, now |-> call[t].now, fresh |-> fresh]]
    BY <1>1, <1>3 DEF Generate, TInv, Types
  <2>2. fresh \in Seq(Nat) /\ Len(fresh) = Len(call[t].fresh) + 1 /\ Len(call[t].fresh) \in Nat
    BY <1>1, <2>1
  <2> HIDE DEF fresh
  <2>3. step \in Steps
    BY <1>1 DEF Steps
  <2> HIDE DEF step
  <2>4. Types'
    <3>2. [step |-> step, seals |-> call[t].seals, now |-> call[t].now, fresh |-> fresh]
            \in [step : Steps, seals : BOOLEAN, now : Nat, fresh : Seq(Nat)]
      BY <1>1, <2>2, <2>3
    <3>3. call' \in [Conns -> [step : Steps, seals : BOOLEAN, now : Nat, fresh : Seq(Nat)]]
      BY <2>1, <3>2 DEF TInv, Types
    <3> QED
      BY <1>1, <2>1, <3>3 DEF TInv, Types
  <2>5. \A u \in Conns : CallOk(call[u])'
    <3> TAKE u \in Conns
    <3>1. CASE u = t
      <4>1. call'[u].now = call[t].now /\ call'[u].fresh = fresh /\ call'[u].step = step
        BY <1>1, <2>1, <3>1 DEF TInv, Types
      <4>2. call[t].now <= clock /\ (call[t].step = "generate" => call[t].now <= switcher.nextSwitch)
        BY <1>1 DEF CallOk
      <4>3. step = "relock" /\ Len(fresh) = 1 => call[t].step = "generate"
        <5>1. call[t].step \in {"generate", "recover"}
          BY <1>1, Zenon
        <5>2. Len(fresh) = 1 => Len(fresh) # 2
          OBVIOUS
        <5> QED
          BY <5>1, <5>2, Zenon DEF step
      <4>4. step \in {"relock", "recover"} /\ (step = "relock" => Len(fresh) \in {1, 2})
            /\ (step = "recover" => Len(fresh) <= 1)
        BY <1>1, <2>2 DEF step, CallOk
      <4> QED
        BY <1>1, <4>1, <4>2, <4>3, <4>4 DEF CallOk
    <3>2. CASE u # t
      <4>1. call'[u] = call[u] /\ CallOk(call[u])
        BY <2>1, <3>2 DEF TInv, Types
      <4> QED
        BY <1>1, <4>1 DEF CallOk
    <3> QED
      BY <3>1, <3>2
  <2> QED
    BY <1>2, <2>4, <2>5 DEF TInv
<1>4. CASE GeneratorFails(t)
  <2>1. call' = [call EXCEPT ![t] = NoCall] /\ keys' = keys
    BY <1>4 DEF GeneratorFails
  <2>2. NoCall \in [step : Steps, seals : BOOLEAN, now : Nat, fresh : Seq(Nat)] /\ CallOk(NoCall)'
    BY <1>1 DEF NoCall, Steps, CallOk, TInv, Types
  <2>3. Types'
    BY <1>1, <2>1, <2>2 DEF TInv, Types
  <2>4. \A u \in Conns : CallOk(call[u])'
    <3> TAKE u \in Conns
    <3>1. CASE u = t
      BY <2>1, <2>2, <3>1 DEF TInv, Types, CallOk
    <3>2. CASE u # t
      <4>1. call'[u] = call[u] /\ CallOk(call[u])
        BY <2>1, <3>2 DEF TInv, Types
      <4> QED
        BY <1>1, <4>1 DEF CallOk
    <3> QED
      BY <3>1, <3>2
  <2> QED
    BY <1>2, <2>3, <2>4 DEF TInv
<1> QED
  BY <1>3, <1>4

\* maybe_roll, second time under the lock.
LEMMA RelockTInv ==
    ASSUME TInv, NEW t \in Conns, Relock(t)
    PROVE  TInv'
<1> DEFINE c == call[t]
           st == Relocked(c)
           States == [next : {<<>>} \cup {<<k>> : k \in Nat}, current : Nat,
                      previous : {<<>>} \cup {<<k>> : k \in Nat}, nextSwitch : Nat]
<1>1. /\ c \in [step : Steps, seals : BOOLEAN, now : Nat, fresh : Seq(Nat)] /\ CallOk(c)
      /\ c.step = "relock" /\ switcher' = st /\ Use(t, st) /\ clock' = clock /\ keys' = keys
      /\ switcher \in States /\ clock \in Nat
  BY DEF TInv, Types, Relock
<1>2. c.fresh[1] \in Nat /\ (Len(c.fresh) = 2 => c.fresh[2] \in Nat)
  BY <1>1 DEF CallOk
<1>3. /\ st \in States /\ switcher.nextSwitch <= st.nextSwitch /\ c.now <= st.nextSwitch
      /\ \A x \in sealed : SealedOk(x)'
  <2>1. CASE Len(c.fresh) = 2 /\ c.now > switcher.nextSwitch
    <3>1. st = [next |-> <<c.fresh[1]>>, current |-> c.fresh[2], previous |-> <<switcher.current>>,
                nextSwitch |-> c.now + Lifetime]
      BY <1>1, <2>1 DEF Relocked, Switch, Some
    <3>2. c.now + Lifetime \in Nat /\ switcher.current \in Nat /\ c.now \in Nat /\ c.now <= clock /\ Lifetime \in Nat
      BY <1>1, LifetimeAssumption DEF CallOk
    <3> HIDE DEF st
    <3>3. /\ st \in States /\ st.current = c.fresh[2] /\ st.previous = Some(switcher.current)
          /\ st.nextSwitch = c.now + Lifetime
      BY <1>2, <2>1, <3>1, <3>2 DEF Some
    <3> HIDE DEF c
    <3>4. /\ switcher.nextSwitch <= st.nextSwitch
          /\ \A x \in sealed : x.at + Lifetime < st.nextSwitch /\ (~Opens(st, x) => x.at + Lifetime < clock)
      BY <1>2, <2>1, <3>2, <3>3, SwitchKeeps
    <3>5. \A x \in sealed : SealedOk(x)'
      <4> TAKE x \in sealed
      <4>1. x.at \in Nat
        BY DEF TInv, Types
      <4> QED
        BY <1>1, <3>2, <3>3, <3>4, <4>1 DEF SealedOk, Opens
    <3> QED
      BY <3>2, <3>3, <3>4, <3>5
  <2>2. CASE ~(Len(c.fresh) = 2 /\ c.now > switcher.nextSwitch)
    <3>1. st = [switcher EXCEPT !.next = <<c.fresh[1]>>]
      BY <2>2 DEF Relocked, Some
    <3>2. /\ st \in States /\ st.current = switcher.current /\ st.previous = switcher.previous
          /\ st.nextSwitch = switcher.nextSwitch
      <4> DEFINE k == <<c.fresh[1]>>
      <4>1. k \in {<<>>} \cup {<<j>> : j \in Nat} /\ st = [switcher EXCEPT !.next = k]
        BY <1>2, <3>1
      <4>2. switcher \in States
        BY <1>1
      <4> HIDE DEF k, st, c
      <4> QED
        BY <4>1, <4>2
    <3>3. c.now <= switcher.nextSwitch
      BY <1>1, <2>2 DEF CallOk
    <3> HIDE DEF st
    <3>4. \A x \in sealed : SealedOk(x)'
      BY <1>1, <3>2 DEF TInv, SealedOk, Opens
    <3> QED
      BY <1>1, <3>2, <3>3, <3>4
  <2> QED
    BY <2>1, <2>2
<1> HIDE DEF st
<1>4. Types'
  <2>1. NoCall \in [step : Steps, seals : BOOLEAN, now : Nat, fresh : Seq(Nat)]
    BY DEF NoCall, Steps
  <2>2. sealed' \subseteq [key : Nat, at : Nat]
    BY <1>1, <1>3 DEF Use, TInv, Types
  <2> QED
    BY <1>1, <1>3, <2>1, <2>2 DEF Use, TInv, Types
<1> QED
  BY <1>1, <1>3, <1>4, UseKeeps

\* Time passes, and tickets older than a lifetime are forgotten.
LEMMA TickTInv ==
    ASSUME TInv, Tick
    PROVE  TInv'
<1>1. /\ clock \in Nat /\ clock' = clock + 1 /\ switcher' = switcher /\ call' = call /\ keys' = keys
      /\ sealed' \subseteq sealed
  BY DEF TInv, Types, Tick
<1>2. Types'
  BY <1>1 DEF TInv, Types
<1>3. \A u \in Conns : CallOk(call[u])'
  <2> TAKE u \in Conns
  <2>1. CallOk(call[u]) /\ call[u].now \in Nat
    BY DEF TInv, Types
  <2> QED
    BY <1>1, <2>1 DEF CallOk
<1>4. \A x \in sealed' : SealedOk(x)'
  <2> TAKE x \in sealed'
  <2>1. SealedOk(x) /\ x.at \in Nat /\ Lifetime \in Nat
    BY <1>1, LifetimeAssumption DEF TInv, Types
  <2> QED
    BY <1>1, <2>1 DEF SealedOk, Opens
<1> QED
  BY <1>2, <1>3, <1>4 DEF TInv

\* The steps of the ticketer.
LEMMA TicketerTInv ==
    ASSUME TInv, [TicketerNext]_ticketerVars
    PROVE  TInv'
<1>1. CASE TicketerNext
  BY <1>1, CallTInv, RollTInv, GenerateTInv, RelockTInv, TickTInv DEF TicketerNext
<1>2. CASE UNCHANGED ticketerVars
  BY <1>2 DEF ticketerVars, TInv, Types, CallOk, SealedOk, Opens
<1> QED
  BY <1>1, <1>2

\* Every ticket handed out can be opened for a lifetime, for any number of
\* connections that call the ticketer and any lifetime (ticketer.rs 65-134).
THEOREM TicketsLive == TicketerSpec => []TicketsOutlive
<1>1. TInv /\ [TicketerNext]_ticketerVars => TInv'
  BY TicketerTInv
<1>2. TInv => TicketsOutlive
  <2> SUFFICES ASSUME TInv, NEW x \in sealed, clock <= x.at + Lifetime PROVE Opens(switcher, x)
    BY DEF TicketsOutlive
  <2>1. SealedOk(x) /\ x.at \in Nat /\ clock \in Nat /\ Lifetime \in Nat
    BY LifetimeAssumption DEF TInv, Types
  <2> QED
    BY <2>1 DEF SealedOk
<1> QED
  BY <1>1, <1>2, InitTInv, PTL DEF TicketerSpec

(***************************************************************************)
(* The certificate cache.                                                  *)
(***************************************************************************)
\* Templates in a cache: one for a host at most, and each with its own key.
TemplateSet == [host : Hosts, pub : Nat, priv : Nat]
Templates(s) ==
    /\ s \in Seq(TemplateSet)
    /\ \A i, j \in 1 .. Len(s) : s[i].host = s[j].host => i = j
    /\ \A i \in 1 .. Len(s) : s[i].pub = s[i].priv

\* What a request has in hand is for its host, and its two keys belong together.
RequestOk(r, c) ==
    /\ c.pc \in {"generate", "sign"} => c.host \in Hosts
    /\ c.pc = "sign" => c.template.host = c.host /\ c.template.pub = c.template.priv
    /\ c.pc = "done" => c.cert = c.host /\ c.priv = c.pub /\ c.sig = <<r, c.pub>>

CertInv ==
    /\ Templates(certs) /\ Len(certs) <= CertCapacity
    /\ generated \in Nat
    /\ request = [r \in Requests |-> request[r]]
    /\ \A r \in Requests : RequestOk(r, request[r])

\* The templates for other hosts.
LEMMA OthersKept ==
    ASSUME Templates(certs), NEW host
    PROVE  /\ Templates(Others(host)) /\ Len(Others(host)) <= Len(certs)
           /\ \A j \in 1 .. Len(Others(host)) : Others(host)[j].host # host
<1>1. certs \in Seq(TemplateSet) /\ Len(certs) \in Nat /\ DOMAIN certs = 1 .. Len(certs)
  BY LenProperties DEF Templates
<1>2. CASE At(host) = {}
  <2>1. Others(host) = certs
    BY <1>2 DEF Others
  <2>2. \A j \in 1 .. Len(certs) : certs[j].host # host
    BY <1>1, <1>2 DEF At
  <2> QED
    BY <1>1, <2>1, <2>2
<1>3. CASE At(host) # {}
  <2> DEFINE i == CHOOSE i \in At(host) : TRUE
             o == Removed(certs, i)
  <2>1. i \in 1 .. Len(certs) /\ certs[i].host = host
    BY <1>1, <1>3 DEF At
  <2>2. Others(host) = o
    BY <1>3 DEF Others, Removed
  <2> HIDE DEF i
  <2>3. /\ o \in Seq(TemplateSet) /\ Len(o) = Len(certs) - 1
        /\ \A j \in 1 .. Len(certs) - 1 : o[j] = certs[IF j < i THEN j ELSE j + 1]
    BY <1>1, <2>1, RemoveOne
  <2> HIDE DEF o
  <2> DEFINE from(j) == IF j < i THEN j ELSE j + 1
  <2>4. \A j \in 1 .. Len(o) : /\ from(j) \in 1 .. Len(certs) /\ from(j) # i /\ o[j] = certs[from(j)]
    BY <1>1, <2>1, <2>3
  <2>5. \A j, k \in 1 .. Len(o) : from(j) = from(k) => j = k
    BY <1>1, <2>1, <2>3
  <2> HIDE DEF from
  <2>6. Templates(o)
    <3>1. ASSUME NEW j \in 1 .. Len(o), NEW k \in 1 .. Len(o), o[j].host = o[k].host
          PROVE  j = k
      <4>1. /\ from(j) \in 1 .. Len(certs) /\ from(k) \in 1 .. Len(certs)
            /\ certs[from(j)].host = certs[from(k)].host
        BY <2>4, <3>1
      <4>2. from(j) = from(k)
        BY <4>1 DEF Templates
      <4> QED
        BY <2>5, <4>2
    <3>2. \A j \in 1 .. Len(o) : o[j].pub = o[j].priv
      BY <2>4 DEF Templates
    <3> QED
      BY <2>3, <3>1, <3>2 DEF Templates
  <2>7. ASSUME NEW j \in 1 .. Len(o), o[j].host = host
        PROVE  FALSE
    <3>1. from(j) \in 1 .. Len(certs) /\ from(j) # i /\ certs[from(j)].host = certs[i].host
      BY <2>1, <2>4, <2>7
    <3> QED
      BY <2>1, <3>1 DEF Templates
  <2> QED
    BY <1>1, <2>2, <2>3, <2>6, <2>7
<1> QED
  BY <1>2, <1>3

\* A template that is moved or put to the front.
LEMMA TouchKeeps ==
    ASSUME Templates(certs), NEW e \in TemplateSet, e.pub = e.priv
    PROVE  /\ Templates(Touch(e))
           /\ Len(Touch(e)) = Len(Others(e.host)) + 1
<1> DEFINE o == Others(e.host)
           s == Touch(e)
<1>1. /\ o \in Seq(TemplateSet) /\ Len(o) \in Nat /\ Templates(o)
      /\ \A j \in 1 .. Len(o) : o[j].host # e.host
  BY OthersKept, LenProperties DEF Templates
<1>2. s = <<e>> \o o
  BY DEF Touch
<1> HIDE DEF o, s
<1>3. <<e>> \in Seq(TemplateSet) /\ Len(<<e>>) = 1 /\ <<e>>[1] = e
  OBVIOUS
<1>4. /\ s \in Seq(TemplateSet) /\ Len(s) = 1 + Len(o)
      /\ \A i \in 1 .. 1 + Len(o) : s[i] = IF i <= 1 THEN <<e>>[i] ELSE o[i - 1]
  BY <1>1, <1>2, <1>3, ConcatProperties
<1>5. s[1] = e /\ \A i \in 2 .. Len(s) : i - 1 \in 1 .. Len(o) /\ s[i] = o[i - 1]
  BY <1>1, <1>3, <1>4
<1>6. ASSUME NEW i \in 1 .. Len(s), NEW j \in 1 .. Len(s), s[i].host = s[j].host
      PROVE  i = j
  <2>1. CASE i = 1 /\ j = 1
    BY <2>1
  <2>2. CASE i # 1 /\ j # 1
    <3>1. i - 1 \in 1 .. Len(o) /\ j - 1 \in 1 .. Len(o) /\ s[i] = o[i - 1] /\ s[j] = o[j - 1]
      BY <1>1, <1>4, <1>5, <2>2
    <3>2. i - 1 = j - 1
      BY <1>1, <1>6, <3>1 DEF Templates
    <3> QED
      BY <1>4, <3>2
  <2>3. CASE i = 1 /\ j # 1
    <3>1. j - 1 \in 1 .. Len(o) /\ o[j - 1].host = e.host
      BY <1>1, <1>4, <1>5, <1>6, <2>3
    <3> QED
      BY <1>1, <3>1
  <2>4. CASE i # 1 /\ j = 1
    <3>1. i - 1 \in 1 .. Len(o) /\ o[i - 1].host = e.host
      BY <1>1, <1>4, <1>5, <1>6, <2>4
    <3> QED
      BY <1>1, <3>1
  <2> QED
    BY <2>1, <2>2, <2>3, <2>4
<1>7. ASSUME NEW i \in 1 .. Len(s)
      PROVE  s[i].pub = s[i].priv
  <2>1. CASE i = 1
    BY <1>5, <2>1
  <2>2. CASE i # 1
    <3>1. i - 1 \in 1 .. Len(o) /\ s[i] = o[i - 1]
      BY <1>1, <1>4, <1>5, <2>2
    <3> QED
      BY <1>1, <3>1 DEF Templates
  <2> QED
    BY <2>1, <2>2
<1> QED
  BY <1>1, <1>4, <1>6, <1>7 DEF Templates, s, o

\* A template that was generated: the one used longest ago makes room for it.
LEMMA PutKeeps ==
    ASSUME Templates(certs), Len(certs) <= CertCapacity, NEW e \in TemplateSet, e.pub = e.priv
    PROVE  Templates(Put(e)) /\ Len(Put(e)) <= CertCapacity
<1> DEFINE s == Touch(e)
<1>1. Templates(s) /\ s \in Seq(TemplateSet) /\ Len(s) \in Nat /\ CertCapacity \in Nat
  BY TouchKeeps, LenProperties, CertAssumption DEF Templates
<1> HIDE DEF s
<1>2. CASE ~(Len(s) > CertCapacity)
  BY <1>1, <1>2 DEF Put, s
<1>3. CASE Len(s) > CertCapacity
  <2> DEFINE p == SubSeq(s, 1, CertCapacity)
  <2>1. \A i \in 1 .. CertCapacity : i \in 1 .. Len(s) /\ s[i] \in TemplateSet
    BY <1>1, <1>3, ElementOfSeq
  <2>2. p \in Seq(TemplateSet) /\ Len(p) = CertCapacity /\ \A i \in 1 .. CertCapacity : p[i] = s[i]
    <3>1. 1 <= CertCapacity
      BY CertAssumption
    <3> QED
      BY <1>1, <2>1, <3>1, SubSeqProperties
  <2> HIDE DEF p
  <2>3. Templates(p)
    BY <1>1, <2>1, <2>2 DEF Templates
  <2>4. Put(e) = p
    BY <1>3 DEF Put, p, s
  <2> QED
    BY <1>1, <2>2, <2>3, <2>4
<1> QED
  BY <1>2, <1>3

\* The steps of a request, and a thread that panics.
LEMMA CertStep ==
    ASSUME CertInv, CertNext
    PROVE  CertInv'
<1>1. ASSUME NEW r \in Requests, NEW c, RequestOk(r, c), request' = [request EXCEPT ![r] = c]
      PROVE  request' = [u \in Requests |-> request'[u]] /\ \A u \in Requests : RequestOk(u, request'[u])
  <2>1. /\ request' = [u \in Requests |-> IF u = r THEN c ELSE request[u]]
    BY <1>1 DEF CertInv
  <2>2. \A u \in Requests : request'[u] = IF u = r THEN c ELSE request[u]
    BY <2>1
  <2>3. \A u \in Requests : RequestOk(u, request[u])
    BY DEF CertInv
  <2> QED
    BY <1>1, <2>1, <2>2, <2>3
<1>2. ASSUME NEW r \in Requests, NEW host \in Hosts, Lookup(r, host)
      PROVE  CertInv'
  <2> DEFINE hit == ~poisoned /\ At(host) # {}
  <2>1. ASSUME hit PROVE Cached(host) \in TemplateSet /\ Cached(host).host = host /\ Cached(host).pub = Cached(host).priv
                         /\ Len(Others(host)) < Len(certs)
    <3>1. PICK i \in At(host) : Cached(host) = certs[i] /\ i = CHOOSE j \in At(host) : TRUE
      BY <2>1 DEF Cached
    <3>2. i \in 1 .. Len(certs) /\ certs[i].host = host
      BY LenProperties DEF At, CertInv, Templates
    <3>3. Others(host) = Removed(certs, i)
      BY <2>1, <3>1 DEF Others, Removed
    <3>4. Len(Removed(certs, i)) = Len(certs) - 1 /\ Len(certs) \in Nat
      BY <3>2, RemoveOne, LenProperties DEF CertInv, Templates
    <3> QED
      BY <3>1, <3>2, <3>3, <3>4, ElementOfSeq DEF CertInv, Templates
  <2>2. Templates(certs') /\ Len(certs') <= CertCapacity
    <3>1. CASE poisoned
      <4>1. certs' = <<>>
        BY <1>2, <3>1 DEF Lookup
      <4> QED
        BY <4>1, CertAssumption DEF Templates
    <3>2. CASE hit
      <4>1. certs' = Touch(Cached(host))
        BY <1>2, <3>2 DEF Lookup
      <4>2. Templates(Touch(Cached(host))) /\ Len(Touch(Cached(host))) = Len(Others(host)) + 1
        BY <2>1, <3>2, TouchKeeps DEF CertInv
      <4>3. Len(Others(host)) < Len(certs) /\ Len(certs) <= CertCapacity /\ CertCapacity \in Nat
        BY <2>1, <3>2, CertAssumption DEF CertInv
      <4>4. Len(Others(host)) \in Nat /\ Len(certs) \in Nat
        BY OthersKept, LenProperties DEF CertInv, Templates
      <4> QED
        BY <4>1, <4>2, <4>3, <4>4
    <3>3. CASE ~poisoned /\ ~hit
      <4>1. certs' = certs
        BY <1>2, <3>3 DEF Lookup
      <4> QED
        BY <4>1 DEF CertInv
    <3> QED
      BY <3>1, <3>2, <3>3
  <2>3. PICK c : request' = [request EXCEPT ![r] = c] /\ RequestOk(r, c)
    <3>1. CASE hit
      <4>1. request' = [request EXCEPT ![r] = [pc |-> "sign", host |-> host, template |-> Cached(host)]]
        BY <1>2, <3>1 DEF Lookup
      <4>2. RequestOk(r, [pc |-> "sign", host |-> host, template |-> Cached(host)])
        BY <2>1, <3>1 DEF RequestOk
      <4> QED
        BY <4>1, <4>2
    <3>2. CASE ~hit
      <4>1. request' = [request EXCEPT ![r] = [pc |-> "generate", host |-> host]]
        BY <1>2, <3>2 DEF Lookup, Asking
      <4>2. RequestOk(r, [pc |-> "generate", host |-> host])
        BY DEF RequestOk
      <4> QED
        BY <4>1, <4>2
    <3> QED
      BY <3>1, <3>2
  <2> QED
    BY <1>1, <1>2, <2>2, <2>3 DEF CertInv, Lookup
<1>3. ASSUME NEW r \in Requests, GenerateTemplate(r)
      PROVE  CertInv'
  <2> DEFINE e == [host |-> request[r].host, pub |-> generated + 1, priv |-> generated + 1]
             c == [pc |-> "sign", host |-> e.host, template |-> e]
  <2>1. request[r].host \in Hosts /\ generated \in Nat
    BY <1>3 DEF GenerateTemplate, CertInv, RequestOk
  <2>2. e \in TemplateSet /\ e.pub = e.priv /\ e.host \in Hosts
    BY <2>1 DEF TemplateSet
  <2>3. certs' = Put(e) /\ request' = [request EXCEPT ![r] = c] /\ generated' = generated + 1
    BY <1>3 DEF GenerateTemplate
  <2> HIDE DEF e
  <2>4. Templates(certs') /\ Len(certs') <= CertCapacity
    BY <2>2, <2>3, PutKeeps DEF CertInv
  <2>5. RequestOk(r, c)
    BY <2>2 DEF RequestOk
  <2> HIDE DEF c
  <2> QED
    BY <1>1, <2>1, <2>3, <2>4, <2>5 DEF CertInv
<1>4. ASSUME NEW r \in Requests, GenerationFails(r) \/ Serve(r)
      PROVE  CertInv'
  <2>1. RequestOk(r, [pc |-> "idle"])
    BY DEF RequestOk
  <2>2. request' = [request EXCEPT ![r] = [pc |-> "idle"]] /\ certs' = certs /\ generated' = generated
    BY <1>4 DEF GenerationFails, Serve
  <2> QED
    BY <1>1, <2>1, <2>2 DEF CertInv
<1>5. ASSUME NEW r \in Requests, Sign(r)
      PROVE  CertInv'
  <2> DEFINE c == Signed(r, request[r].template)
  <2>1. RequestOk(r, request[r]) /\ request[r].pc = "sign"
    BY <1>5 DEF CertInv, Sign
  <2>2. RequestOk(r, c)
    BY <2>1 DEF RequestOk, Signed
  <2>3. request' = [request EXCEPT ![r] = c] /\ certs' = certs /\ generated' = generated
    BY <1>5 DEF Sign
  <2> HIDE DEF c
  <2> QED
    BY <1>1, <2>2, <2>3 DEF CertInv
<1>6. CASE Poison
  BY <1>6 DEF Poison, CertInv
<1> QED
  BY <1>2, <1>3, <1>4, <1>5, <1>6 DEF CertNext
==============================================================================
