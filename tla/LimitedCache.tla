---------------------------- MODULE LimitedCache ----------------------------
(***************************************************************************)
(* The bounded map behind rustls' session stores (limited_cache.rs): a map *)
(* and, beside it, its keys in order of insertion.                         *)
(***************************************************************************)
EXTENDS Integers, Sequences, FiniteSets, Functions

Cache(map, oldest, capacity) == [map |-> map, oldest |-> oldest, capacity |-> capacity]
NewCache(capacity) == Cache([k \in {} |-> 0], <<>>, capacity)
Has(c, k) == k \in DOMAIN c.map
CacheGet(c, k) == IF Has(c, k) THEN <<c.map[k]>> ELSE <<>>
Without(f, k) == Restrict(f, DOMAIN f \ {k})
With(f, k, v) == [x \in DOMAIN f \cup {k} |-> IF x = k THEN v ELSE f[x]]

\* Makes room for the next insertion: a new item that fills the last slot
\* evicts the oldest one, so one slot always stays free.
Evict(c) ==
    IF Len(c.oldest) = c.capacity
    THEN Cache(Without(c.map, Head(c.oldest)), Tail(c.oldest), c.capacity)
    ELSE c
\* An update of an item that is there leaves its place in the order.
CacheInsert(c, k, v) ==
    IF Has(c, k) THEN Cache(With(c.map, k, v), c.oldest, c.capacity)
    ELSE Evict(Cache(With(c.map, k, v), Append(c.oldest, k), c.capacity))
\* get_or_insert_default_and_edit: the edit is given this item, and its result
\* is stored the way insert does it.
GetOrDefault(c, k, default) == IF Has(c, k) THEN c.map[k] ELSE default
\* get_mut: what is there is replaced by its edited form, nothing is added.
GetMut(c, k, edited) == IF Has(c, k) THEN Cache(With(c.map, k, edited), c.oldest, c.capacity) ELSE c
CacheRemove_KeepsOrder(c, k) == Cache(Without(c.map, k), c.oldest, c.capacity)
\* The key is searched for in the order, and removed where it is first found.
Dropped(s, k) ==
    LET i == CHOOSE i \in DOMAIN s : s[i] = k /\ \A j \in 1 .. i - 1 : s[j] # k
    IN IF k \in Range(s) THEN SubSeq(s, 1, i - 1) \o SubSeq(s, i + 1, Len(s)) ELSE s
CacheRemove(c, k) ==
    IF Has(c, k) THEN Cache(Without(c.map, k), Dropped(c.oldest, k), c.capacity) ELSE c

\* The order lists exactly the items that are there, each once, and a slot is
\* free for the next one.
Exact(c) ==
    /\ Range(c.oldest) = DOMAIN c.map
    /\ IsInjective(c.oldest)
    /\ Len(c.oldest) < c.capacity
=============================================================================
