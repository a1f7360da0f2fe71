---------------------------- MODULE StoresProofs ----------------------------
(***************************************************************************)
(* The sessions that connections keep in the stores and resume, for any    *)
(* number of connections, any capacities, lifetimes and offsets of ages.   *)
(***************************************************************************)
EXTENDS Stores, CacheProofs

(***************************************************************************)
(* Sessions: their types, and what the two sides know of each other.       *)
(***************************************************************************)
Option(S) == {<<>>} \cup {<<x>> : x \in S}
ServerValues == [secret : Nat, created : Nat, ageAdd : Nat]
Tickets == [key : Nat, value : Option(ServerValues)]
ClientValues ==
    [ver : {"12", "13"}, id : Option(Nat), ticket : Option(Tickets), secret : Nat, ageAdd : Nat,
     epoch : Nat, lifetime : Nat]
Datas == [kxHint : BOOLEAN, tls12 : Option(ClientValues), tls13 : Seq(ClientValues)]
Names == {""} \cup UNION {c.names : c \in Configs}
ConnStates ==
    [pc : {"idle", "hello", "opening", "replied", "finishing", "sealing", "ticket"}, name : Names,
     ver : {"", "12", "13"}, offer : Option(ClientValues), at : Nat, resumed : Option(ServerValues),
     early : BOOLEAN, delay : Int, id : Option(Nat), value : Option(ServerValues), ticket : Option(Tickets)]

ResTypes ==
    /\ config \in Configs
    /\ CacheOf(server, Nat, ServerValues, ServerCapacity)
    /\ conn \in [Conns -> ConnStates]
    /\ sessions \in 0 .. config.sessions
    /\ uses \in [1 .. config.sessions -> Nat]

\* What the conditions on sessions refer to: the sessions the server keeps, how
\* many there have been, the time, and whether tickets are sealed.
View == [map |-> server.map, n |-> sessions, now |-> clock, stateless |-> config.stateless]

\* What the server keeps of a session agrees with what the client keeps.
Matches(s, v) ==
    /\ v.secret = s.secret
    /\ s.ver = "13" => v.ageAdd = s.ageAdd /\ v.ageAdd < AgeModulus /\ v.created <= s.epoch

\* A session that the client keeps: its ticket holds its secret; its number,
\* if the server still keeps it, leads to what agrees with it.
KeptOk(s, w) ==
    /\ s.epoch <= w.now
    /\ s.id # None \/ s.ticket # None
    /\ s.ticket # None =>
         w.stateless /\ s.ticket[1].value # None /\ s.ticket[1].value[1].secret = s.secret
    /\ s.id # None => s.id[1] <= w.n /\ (s.id[1] \in DOMAIN w.map => Matches(s, w.map[s.id[1]]))
    /\ s.ver = "13" /\ s.ticket = None => s.lifetime \in 1 .. MaxTicketLifetime

\* What the server sends for the client to keep.
InFlight(c, w) ==
    /\ c.value # None /\ c.value[1].created <= w.now /\ c.value[1].ageAdd < AgeModulus
    /\ c.id # None => c.id[1] <= w.n /\ (c.id[1] \in DOMAIN w.map => w.map[c.id[1]] = c.value[1])
    /\ c.ver = "12" /\ c.resumed # None => c.value[1].secret = c.offer[1].secret
    /\ c.ticket # None => w.stateless /\ c.ticket[1].value = c.value
    /\ c.pc = "sealing" => w.stateless
    /\ c.pc = "ticket" /\ c.ver = "13" /\ c.ticket = None => c.id # None /\ ~w.stateless

\* A session that was offered, before the server has looked for it.
OfferOk(c) ==
    /\ ~c.early /\ c.resumed = None
    /\ c.offer # None => c.offer[1].epoch <= c.at /\ ~HasExpired(c.offer[1], c.at)

ConnOk(c, w) ==
    /\ c.offer # None => KeptOk(c.offer[1], w)
    /\ c.pc \in {"hello", "opening"} => c.at <= w.now /\ OfferOk(c)
    /\ c.pc = "opening" => OffersTicket(c)
    /\ c.resumed # None => Offers(c) /\ c.resumed[1].secret = c.offer[1].secret
    /\ c.pc = "replied" /\ c.resumed # None => (c.early <=> ~w.stateless /\ c.delay <= MaxSkew)
    /\ c.pc \in {"sealing", "ticket"} => InFlight(c, w)
    /\ c.pc # "ticket" => c.ticket = None
    /\ c.pc # "idle" => c.ver # ""

\* Everything a client keeps for a name.
DataOk(d, w) ==
    /\ d.tls12 # None => KeptOk(d.tls12[1], w)
    /\ \A i \in 1 .. Len(d.tls13) : KeptOk(d.tls13[i], w)

ClientOk(c, w) ==
    CacheOf(c, Names, Datas, ClientCapacity) /\ \A name \in DOMAIN c.map : DataOk(c.map[name], w)
ConnsOk == \A t \in Conns : ConnOk(conn[t], View)
CallsOk == \A t \in Conns : call[t].step # "none" => conn[t].pc \in {"opening", "sealing"}
\* A session is used when it is taken out of the cache, and not again.
UsesOk ==
    /\ DOMAIN server.map \subseteq 1 .. sessions
    /\ \A n \in 1 .. config.sessions : uses[n] <= 1 /\ (n \in DOMAIN server.map \/ n > sessions => uses[n] = 0)
ResInv == ResTypes /\ ClientOk(client, View) /\ ConnsOk /\ CallsOk /\ UsesOk

\* Something or nothing.
LEMMA OptionFacts ==
    ASSUME NEW S
    PROVE  /\ None \in Option(S)
           /\ \A x \in S : Some(x) \in Option(S) /\ Some(x) # None /\ Some(x)[1] = x
           /\ \A o \in Option(S) : o # None => o[1] \in S /\ o = Some(o[1])
  BY DEF Option, None, Some

\* The bounds as numbers.
LEMMA ResNumbers ==
    /\ ServerCapacity \in Nat \ {0} /\ ClientCapacity \in Nat \ {0} /\ MaxTickets \in Nat \ {0}
    /\ AgeModulus \in Nat \ {0} /\ StatefulLifetime \in Nat \ {0} /\ MaxTicketLifetime \in Nat \ {0}
    /\ MaxSkew \in Nat /\ MaxTicketLifetime + MaxSkew < AgeModulus - 1 /\ Lifetime \in Nat
    /\ \A c \in Configs : /\ c.ageAdd \in 0 .. AgeModulus - 1 /\ c.sessions \in Nat
                          /\ c.stateless \in BOOLEAN /\ c.vers \subseteq {"12", "13"}
  BY ResumptionAssumption, LifetimeAssumption

\* Later, the server may keep fewer of the sessions there were, and new ones.
Later(w, x) ==
    /\ x.stateless = w.stateless /\ w.n <= x.n /\ w.now <= x.now
    /\ \A i \in DOMAIN x.map : i <= w.n => i \in DOMAIN w.map /\ x.map[i] = w.map[i]

Numbers(w) == w.n \in Nat /\ w.now \in Nat

\* What the client keeps stays in order,
LEMMA KeptLater ==
    ASSUME NEW w, NEW x, Numbers(w), Numbers(x), Later(w, x), NEW s \in ClientValues, KeptOk(s, w)
    PROVE  KeptOk(s, x)
<1>1. /\ s.epoch \in Nat /\ w.now \in Nat /\ x.now \in Nat /\ s.epoch <= w.now /\ w.now <= x.now
      /\ x.stateless = w.stateless
  BY DEF ClientValues, Numbers, Later, KeptOk
<1>2. s.epoch <= x.now
  BY <1>1
<1>3. ASSUME s.id # None
      PROVE  s.id[1] <= x.n /\ (s.id[1] \in DOMAIN x.map => Matches(s, x.map[s.id[1]]))
  <2>1. s.id[1] \in Nat
    BY <1>3, OptionFacts DEF ClientValues
  <2>2. s.id[1] <= w.n /\ (s.id[1] \in DOMAIN w.map => Matches(s, w.map[s.id[1]]))
    BY <1>3 DEF KeptOk
  <2>3. s.id[1] <= x.n
    BY <2>1, <2>2 DEF Numbers, Later
  <2>4. s.id[1] \in DOMAIN x.map => s.id[1] \in DOMAIN w.map /\ x.map[s.id[1]] = w.map[s.id[1]]
    BY <2>2 DEF Later
  <2> QED
    BY <2>2, <2>3, <2>4
<1> QED
  BY <1>1, <1>2, <1>3 DEF KeptOk

\* ... and so does everything it keeps for a name,
LEMMA DataLater ==
    ASSUME NEW w, NEW x, Numbers(w), Numbers(x), Later(w, x), NEW d \in Datas, DataOk(d, w)
    PROVE  DataOk(d, x)
<1>1. d.tls12 # None => d.tls12[1] \in ClientValues
  BY OptionFacts DEF Datas
<1>2. d.tls13 \in Seq(ClientValues)
  BY DEF Datas
<1>3. \A i \in 1 .. Len(d.tls13) : d.tls13[i] \in ClientValues
  BY <1>2, ElementOfSeq
<1> QED
  BY <1>1, <1>3, KeptLater DEF DataOk

\* ... and what connections carry.
LEMMA ConnLater ==
    ASSUME NEW w, NEW x, Numbers(w), Numbers(x), Later(w, x), NEW c \in ConnStates, ConnOk(c, w)
    PROVE  ConnOk(c, x)
<1>1. c.offer # None => KeptOk(c.offer[1], x)
  <2>1. c.offer # None => c.offer[1] \in ClientValues /\ KeptOk(c.offer[1], w)
    BY OptionFacts, Zenon DEF ConnStates, ConnOk
  <2> QED
    BY <2>1, KeptLater
<1>2. c.at \in Nat /\ w.now \in Nat /\ x.now \in Nat /\ w.now <= x.now /\ x.stateless = w.stateless
  BY Zenon DEF ConnStates, Numbers, Later
<1>3. c.pc \in {"hello", "opening"} => c.at <= x.now /\ OfferOk(c)
  <2>1. c.pc \in {"hello", "opening"} => c.at <= w.now /\ OfferOk(c)
    BY Zenon DEF ConnOk
  <2> QED
    BY <1>2, <2>1
<1>4. ASSUME c.pc \in {"sealing", "ticket"}
      PROVE  InFlight(c, x)
  <2>1. InFlight(c, w)
    BY <1>4, Zenon DEF ConnOk
  <2>2. c.value[1] \in ServerValues
    BY <2>1, OptionFacts, Zenon DEF ConnStates, InFlight
  <2>3. c.value[1].created <= x.now
    BY <1>2, <2>1, <2>2 DEF InFlight, ServerValues
  <2>4. ASSUME c.id # None
        PROVE  c.id[1] <= x.n /\ (c.id[1] \in DOMAIN x.map => x.map[c.id[1]] = c.value[1])
    <3>1. c.id[1] \in Nat /\ c.id[1] <= w.n /\ (c.id[1] \in DOMAIN w.map => w.map[c.id[1]] = c.value[1])
      BY <2>1, <2>4, OptionFacts, Zenon DEF ConnStates, InFlight
    <3>2. c.id[1] <= x.n
      BY <3>1 DEF Numbers, Later
    <3> QED
      BY <3>1, <3>2 DEF Later
  <2> QED
    BY <1>2, <2>1, <2>3, <2>4 DEF InFlight
<1> QED
  BY <1>1, <1>2, <1>3, <1>4, Zenon DEF ConnOk

\* Obfuscating an age and taking the offset off again gives the age back,
\* wherever the sum wraps.
LEMMA AgeRecovered ==
    ASSUME NEW M \in Nat \ {0}, NEW age \in 0 .. M - 1, NEW add \in 0 .. M - 1
    PROVE  (((age + add) % M) - add) % M = age
<1>1. CASE age + add < M
  <2>1. (age + add) % M = age + add
    BY <1>1
  <2>2. (age + add) - add = age /\ age % M = age
    OBVIOUS
  <2> QED
    BY <2>1, <2>2
<1>2. CASE age + add >= M
  <2>1. (age + add) % M = age + add - M
    BY <1>2
  <2>2. (age + add - M) - add = age - M /\ (age - M) % M = age
    OBVIOUS
  <2> QED
    BY <2>1, <2>2
<1> QED
  BY <1>1, <1>2

\* The server's verdict on a hello is right: for a session that had not
\* expired when it was offered, the difference of the two ages is the time
\* that ticket and hello were on the way.
LEMMA FreshnessExact ==
    ASSUME NEW s \in ClientValues, NEW v \in ServerValues, NEW at \in Nat, NEW now \in Nat,
           s.ver = "13", Matches(s, v), s.lifetime \in 1 .. MaxTicketLifetime, ~HasExpired(s, at),
           s.epoch <= at, at <= now
    PROVE  /\ SetFreshness(v, ObfuscatedTicketAge(s, at), now) \in BOOLEAN
           /\ (s.epoch - v.created) + (now - at) \in Int
           /\ SetFreshness(v, ObfuscatedTicketAge(s, at), now)
                <=> (s.epoch - v.created) + (now - at) <= MaxSkew
<1> DEFINE e == s.epoch
           cr == v.created
           age == at - e
           serverAge == Least(now - cr, AgeModulus - 1)
<1>1. /\ e \in Nat /\ cr \in Nat /\ cr <= e /\ v.ageAdd = s.ageAdd /\ s.ageAdd \in 0 .. AgeModulus - 1
      /\ AgeModulus \in Nat \ {0} /\ MaxSkew \in Nat /\ MaxTicketLifetime \in Nat
      /\ MaxTicketLifetime + MaxSkew < AgeModulus - 1 /\ e <= at
  BY ResNumbers DEF Matches, ClientValues, ServerValues
<1>2. at <= e + s.lifetime /\ s.lifetime \in Nat /\ s.lifetime <= MaxTicketLifetime
  BY <1>1 DEF HasExpired
<1> HIDE DEF e, cr
<1>3. age \in 0 .. AgeModulus - 1 /\ age + MaxSkew < AgeModulus - 1
  BY <1>1, <1>2
<1>4. (ObfuscatedTicketAge(s, at) - v.ageAdd) % AgeModulus = age
  BY <1>1, <1>3, AgeRecovered, Zenon DEF ObfuscatedTicketAge, e
<1>5. SetFreshness(v, ObfuscatedTicketAge(s, at), now) <=> Distance(age, serverAge) <= MaxSkew
  BY <1>4 DEF SetFreshness, cr
<1>6. Distance(age, serverAge) <= MaxSkew <=> (e - cr) + (now - at) <= MaxSkew
  <2>1. now - cr >= age /\ now - cr \in Int /\ (e - cr) + (now - at) = (now - cr) - age
    BY <1>1
  <2>2. CASE now - cr < AgeModulus - 1
    BY <1>1, <1>3, <2>1, <2>2 DEF Distance, Least
  <2>3. CASE ~(now - cr < AgeModulus - 1)
    BY <1>1, <1>3, <2>1, <2>3 DEF Distance, Least
  <2> QED
    BY <2>2, <2>3
<1>7. SetFreshness(v, ObfuscatedTicketAge(s, at), now) \in BOOLEAN
  BY DEF SetFreshness
<1> QED
  BY <1>1, <1>5, <1>6, <1>7 DEF e, cr

\* What View is made of, now and after a step.
LEMMA ViewNow ==
    ASSUME ResTypes, clock \in Nat
    PROVE  /\ Numbers(View) /\ View.map = server.map /\ View.n = sessions /\ View.now = clock
           /\ View.stateless = config.stateless /\ config.stateless \in BOOLEAN
           /\ View.stateless \in BOOLEAN
<1>1. config \in Configs /\ sessions \in 0 .. config.sessions
  BY DEF ResTypes
<1> QED
  BY <1>1, ResNumbers DEF Numbers, View

\* What the server decides about an offer.
LEMMA DecidedOk ==
    ASSUME ResTypes, clock \in Nat, NEW c \in ConnStates, ConnOk(c, View), c.pc \in {"hello", "opening"},
           NEW found \in Option(ServerValues),
           found # None => /\ Offers(c) /\ found[1].secret = c.offer[1].secret
                           /\ c.ver = "13" /\ ~config.stateless => Matches(c.offer[1], found[1])
    PROVE  Decided(c, found) \in ConnStates /\ ConnOk(Decided(c, found), View)
<1> DEFINE d == Decided(c, found)
           base == [c EXCEPT !.pc = IF c.ver = "13" THEN "replied" ELSE "finishing", !.at = 0, !.resumed = found]
           early == SetFreshness(found[1], ObfuscatedTicketAge(c.offer[1], c.at), clock)
           delay == (c.offer[1].epoch - found[1].created) + (clock - c.at)
<1>1. /\ View.stateless = config.stateless /\ config.stateless \in BOOLEAN /\ View.now = clock
  BY ViewNow
<1>2. /\ base \in ConnStates
      /\ base.pc = IF c.ver = "13" THEN "replied" ELSE "finishing"
      /\ base.ver = c.ver /\ base.offer = c.offer /\ base.resumed = found /\ base.early = c.early
      /\ base.ticket = c.ticket
  BY Zenon DEF ConnStates
<1>3. /\ ~c.early /\ c.at <= clock /\ c.at \in Nat /\ c.ticket = None /\ c.ver # ""
      /\ c.offer # None => KeptOk(c.offer[1], View) /\ c.offer[1].epoch <= c.at /\ ~HasExpired(c.offer[1], c.at)
  BY <1>1, Zenon DEF ConnOk, OfferOk, ConnStates
<1> HIDE DEF base
<1>4. CASE found = None \/ c.ver = "12" \/ config.stateless
  <2>1. d = base
    BY <1>4 DEF Decided, base
  <2>2. ConnOk(base, View)
    <3>1. base.resumed # None => Offers(base) /\ base.resumed[1].secret = base.offer[1].secret
      BY <1>2 DEF Offers
    <3>2. base.pc = "replied" /\ base.resumed # None => (base.early <=> ~View.stateless /\ base.delay <= MaxSkew)
      BY <1>1, <1>2, <1>3, <1>4, Zenon
    <3> QED
      BY <1>2, <1>3, <3>1, <3>2, Zenon DEF ConnOk
  <2> QED
    BY <1>2, <2>1, <2>2
<1>5. CASE ~(found = None \/ c.ver = "12" \/ config.stateless)
  <2>1. c.ver = "13" /\ found # None /\ ~config.stateless
    BY <1>3, <1>5, Zenon DEF ConnStates
  <2>2. c.offer # None /\ c.offer[1].ver = "13" /\ c.offer[1] \in ClientValues /\ found[1] \in ServerValues
        /\ Matches(c.offer[1], found[1])
    BY <2>1, OptionFacts, Zenon DEF Offers, ConnStates
  <2>3. c.offer[1].lifetime \in 1 .. MaxTicketLifetime
    BY <1>1, <1>3, <2>1, <2>2 DEF KeptOk
  <2>4. early \in BOOLEAN /\ delay \in Int /\ (early <=> delay <= MaxSkew)
    BY <1>3, <2>2, <2>3, FreshnessExact, Zenon
  <2>5. d = [base EXCEPT !.early = early, !.delay = delay]
    BY <1>5 DEF Decided, base
  <2> HIDE DEF early, delay, d
  <2>6. /\ d \in ConnStates /\ d.pc = "replied" /\ d.ver = c.ver /\ d.offer = c.offer /\ d.resumed = found
        /\ d.early = early /\ d.delay = delay /\ d.ticket = c.ticket
    BY <1>2, <2>1, <2>4, <2>5, Zenon DEF ConnStates
  <2>7. ConnOk(d, View)
    <3>1. Offers(d) /\ d.resumed[1].secret = d.offer[1].secret
      BY <2>1, <2>6 DEF Offers
    <3> QED
      BY <1>1, <1>3, <2>1, <2>4, <2>6, <3>1 DEF ConnOk
  <2> QED
    BY <2>6, <2>7 DEF d
<1> QED
  BY <1>4, <1>5

(***************************************************************************)
(* The operations on the client's store.                                   *)
(***************************************************************************)
\* What is kept for a name, or the default.
LEMMA DataOfOk ==
    ASSUME NEW c, NEW w, ClientOk(c, w), NEW name
    PROVE  DataOf(c, name) \in Datas /\ DataOk(DataOf(c, name), w)
<1>1. CASE Has(c, name)
  BY <1>1 DEF ClientOk, CacheOf, DataOf, GetOrDefault, Has
<1>2. CASE ~Has(c, name)
  <2>1. DataOf(c, name) = ServerData
    BY <1>2 DEF DataOf, GetOrDefault
  <2>2. ServerData \in Datas /\ ServerData.tls12 = None /\ ServerData.tls13 = <<>>
    BY OptionFacts DEF ServerData, Datas
  <2>3. Len(ServerData.tls13) = 0
    BY <2>2
  <2> QED
    BY <2>1, <2>2, <2>3 DEF DataOk
<1> QED
  BY <1>1, <1>2

\* Storing what is kept for a name.
LEMMA ClientInsert ==
    ASSUME NEW c, NEW w, ClientOk(c, w), NEW name \in Names, NEW d \in Datas, DataOk(d, w)
    PROVE  ClientOk(CacheInsert(c, name, d), w)
<1> DEFINE e == CacheInsert(c, name, d)
<1>1. CacheOf(c, Names, Datas, ClientCapacity) /\ ClientCapacity \in Nat \ {0}
  BY ResNumbers DEF ClientOk
<1>2. CacheOf(e, Names, Datas, ClientCapacity) /\ Updated(e.map, c.map, name, d)
  BY <1>1, InsertKeeps
<1> HIDE DEF e
<1>3. \A x \in DOMAIN e.map : DataOk(e.map[x], w)
  BY <1>2 DEF ClientOk, Updated
<1> QED
  BY <1>2, <1>3 DEF ClientOk, e

\* Editing it, where there is something.
LEMMA ClientEdit ==
    ASSUME NEW c, NEW w, ClientOk(c, w), NEW name, NEW d \in Datas, DataOk(d, w)
    PROVE  ClientOk(GetMut(c, name, d), w)
<1> DEFINE e == GetMut(c, name, d)
<1>1. CacheOf(c, Names, Datas, ClientCapacity)
  BY DEF ClientOk
<1>2. CacheOf(e, Names, Datas, ClientCapacity) /\ Updated(e.map, c.map, name, d)
  BY <1>1, EditKeeps
<1> HIDE DEF e
<1>3. \A x \in DOMAIN e.map : DataOk(e.map[x], w)
  BY <1>2 DEF ClientOk, Updated
<1> QED
  BY <1>2, <1>3 DEF ClientOk, e

\* set_kx_hint.
LEMMA ClientHint ==
    ASSUME NEW c, NEW w, ClientOk(c, w), NEW name \in Names
    PROVE  ClientOk(SetKxHint(c, name), w)
<1> DEFINE d == DataOf(c, name)
           e == [d EXCEPT !.kxHint = TRUE]
<1>1. d \in Datas /\ DataOk(d, w)
  BY DataOfOk
<1> HIDE DEF d
<1>2. e \in Datas /\ e.tls12 = d.tls12 /\ e.tls13 = d.tls13
  BY <1>1, Zenon DEF Datas
<1> HIDE DEF e
<1>3. DataOk(e, w)
  BY <1>1, <1>2 DEF DataOk
<1>4. ClientOk(CacheInsert(c, name, e), w)
  BY <1>2, <1>3, ClientInsert
<1> QED
  BY <1>4 DEF SetKxHint, d, e

\* set_tls12_session.
LEMMA ClientSet12 ==
    ASSUME NEW c, NEW w, ClientOk(c, w), NEW name \in Names, NEW s \in ClientValues, KeptOk(s, w)
    PROVE  ClientOk(SetTls12Session(c, name, s), w)
<1> DEFINE d == DataOf(c, name)
           e == [d EXCEPT !.tls12 = Some(s)]
<1>1. d \in Datas /\ DataOk(d, w)
  BY DataOfOk
<1>2. Some(s) \in Option(ClientValues) /\ Some(s)[1] = s
  BY OptionFacts
<1> HIDE DEF d
<1>3. e \in Datas /\ e.tls12 = Some(s) /\ e.tls13 = d.tls13
  BY <1>1, <1>2 DEF Datas
<1> HIDE DEF e
<1>4. DataOk(e, w)
  BY <1>1, <1>2, <1>3 DEF DataOk
<1>5. ClientOk(CacheInsert(c, name, e), w)
  BY <1>3, <1>4, ClientInsert
<1> QED
  BY <1>5 DEF SetTls12Session, d, e

\* remove_tls12_session.
LEMMA ClientRemove12 ==
    ASSUME NEW c, NEW w, ClientOk(c, w), NEW name
    PROVE  ClientOk(RemoveTls12Session(c, name), w)
<1> DEFINE d == DataOf(c, name)
           e == [d EXCEPT !.tls12 = None]
<1>1. d \in Datas /\ DataOk(d, w)
  BY DataOfOk
<1>2. None \in Option(ClientValues)
  BY OptionFacts
<1> HIDE DEF d
<1>3. e \in Datas /\ e.tls12 = None /\ e.tls13 = d.tls13
  BY <1>1, <1>2 DEF Datas
<1> HIDE DEF e
<1>4. DataOk(e, w)
  BY <1>1, <1>3 DEF DataOk
<1>5. ClientOk(GetMut(c, name, e), w)
  BY <1>3, <1>4, ClientEdit
<1> QED
  BY <1>5 DEF RemoveTls12Session, d, e

\* insert_tls13_ticket, which drops the oldest ticket of a full queue.
LEMMA ClientInsert13 ==
    ASSUME NEW c, NEW w, ClientOk(c, w), NEW name \in Names, NEW s \in ClientValues, KeptOk(s, w)
    PROVE  ClientOk(InsertTls13Ticket(c, name, s), w)
<1> DEFINE d == DataOf(c, name)
           q == d.tls13
           kept == IF Len(q) = MaxTickets THEN Tail(q) ELSE q
           r == Append(kept, s)
           e == [d EXCEPT !.tls13 = r]
<1>1. d \in Datas /\ DataOk(d, w)
  BY DataOfOk
<1>2. q \in Seq(ClientValues) /\ Len(q) \in Nat /\ \A i \in 1 .. Len(q) : KeptOk(q[i], w)
  BY <1>1, LenProperties DEF Datas, DataOk
<1> HIDE DEF d, q
<1>3. kept \in Seq(ClientValues) /\ Len(kept) \in Nat /\ \A i \in 1 .. Len(kept) : KeptOk(kept[i], w)
  <2>1. CASE Len(q) = MaxTickets
    <3>1. q # <<>>
      BY <2>1, ResNumbers
    <3>2. kept = Tail(q)
      BY <2>1
    <3> HIDE DEF kept
    <3>3. /\ kept \in Seq(ClientValues) /\ Len(kept) = Len(q) - 1
          /\ \A i \in 1 .. Len(kept) : kept[i] = q[i + 1]
      BY <1>2, <3>1, <3>2, HeadTailProperties
    <3>4. \A i \in 1 .. Len(kept) : i + 1 \in 1 .. Len(q)
      BY <1>2, <3>3
    <3> QED
      BY <1>2, <3>3, <3>4, LenProperties
  <2>2. CASE Len(q) # MaxTickets
    BY <1>2, <2>2
  <2> QED
    BY <2>1, <2>2, Zenon
<1> HIDE DEF kept
<1>4. r \in Seq(ClientValues) /\ \A i \in 1 .. Len(r) : KeptOk(r[i], w)
  <2>1. /\ r \in Seq(ClientValues) /\ Len(r) = Len(kept) + 1 /\ r[Len(kept) + 1] = s
        /\ \A i \in 1 .. Len(kept) : r[i] = kept[i]
    BY <1>3, AppendProperties
  <2>2. \A i \in 1 .. Len(r) : i \in 1 .. Len(kept) \/ i = Len(kept) + 1
    BY <1>3, <2>1
  <2> QED
    BY <1>3, <2>1, <2>2
<1> HIDE DEF r
<1>5. e \in Datas /\ e.tls12 = d.tls12 /\ e.tls13 = r
  BY <1>1, <1>4 DEF Datas
<1> HIDE DEF e
<1>6. DataOk(e, w)
  BY <1>1, <1>4, <1>5 DEF DataOk
<1>7. ClientOk(CacheInsert(c, name, e), w)
  BY <1>5, <1>6, ClientInsert
<1> QED
  BY <1>7 DEF InsertTls13Ticket, d, e, r, kept, q

\* take_tls13_ticket.
LEMMA ClientTake13 ==
    ASSUME NEW c, NEW w, ClientOk(c, w), NEW name
    PROVE  ClientOk(TakeTls13Ticket(c, name), w)
<1> DEFINE d == DataOf(c, name)
           q == d.tls13
           r == SubSeq(q, 1, Len(q) - 1)
           e == IF q = <<>> THEN d ELSE [d EXCEPT !.tls13 = r]
<1>1. d \in Datas /\ DataOk(d, w)
  BY DataOfOk
<1>2. q \in Seq(ClientValues) /\ Len(q) \in Nat /\ \A i \in 1 .. Len(q) : KeptOk(q[i], w) /\ q[i] \in ClientValues
  BY <1>1, LenProperties, ElementOfSeq DEF Datas, DataOk
<1> HIDE DEF d, q
<1>3. r \in Seq(ClientValues) /\ \A i \in 1 .. Len(r) : KeptOk(r[i], w)
  <2>1. \A i \in 1 .. Len(q) - 1 : i \in 1 .. Len(q) /\ q[i] \in ClientValues
    BY <1>2
  <2>2. /\ r \in Seq(ClientValues) /\ Len(r) = (IF 1 <= Len(q) - 1 THEN Len(q) - 1 ELSE 0)
        /\ \A i \in 1 .. Len(q) - 1 : r[i] = q[i]
    BY <1>2, <2>1, SubSeqProperties
  <2>3. \A i \in 1 .. Len(r) : i \in 1 .. Len(q) - 1
    BY <1>2, <2>2
  <2> QED
    BY <1>2, <2>1, <2>2, <2>3
<1> HIDE DEF r
<1>4. e \in Datas /\ e.tls12 = d.tls12 /\ e.tls13 = IF q = <<>> THEN q ELSE r
  BY <1>1, <1>3 DEF Datas, q
<1> HIDE DEF e
<1>5. DataOk(e, w)
  BY <1>1, <1>2, <1>3, <1>4 DEF DataOk
<1>6. ClientOk(GetMut(c, name, e), w)
  BY <1>4, <1>5, ClientEdit
<1> QED
  BY <1>6 DEF TakeTls13Ticket, d, e, r, q

\* What the store gives out for a name.
LEMMA FoundOk ==
    ASSUME NEW c, NEW w, ClientOk(c, w), NEW name
    PROVE  LET taken == Tls13Ticket(c, name)
               found == IF taken # None THEN taken ELSE Tls12Session(c, name)
           IN found \in Option(ClientValues) /\ (found # None => KeptOk(found[1], w))
<1> DEFINE q == c.map[name].tls13
<1>1. CASE ~Has(c, name)
  BY <1>1, OptionFacts DEF Tls13Ticket, Tls12Session
<1>2. CASE Has(c, name)
  <2>1. c.map[name] \in Datas /\ DataOk(c.map[name], w)
    BY <1>2 DEF ClientOk, CacheOf, Has
  <2>2. Tls12Session(c, name) \in Option(ClientValues) /\ (Tls12Session(c, name) # None => KeptOk(Tls12Session(c, name)[1], w))
    BY <1>2, <2>1 DEF Tls12Session, Datas, DataOk
  <2>3. Tls13Ticket(c, name) \in Option(ClientValues) /\ (Tls13Ticket(c, name) # None => KeptOk(Tls13Ticket(c, name)[1], w))
    <3>1. q \in Seq(ClientValues) /\ \A i \in 1 .. Len(q) : KeptOk(q[i], w) /\ q[i] \in ClientValues
      BY <2>1, ElementOfSeq DEF Datas, DataOk
    <3>2. CASE q = <<>>
      BY <3>2, OptionFacts DEF Tls13Ticket
    <3>3. CASE q # <<>>
      <4>1. Len(q) \in 1 .. Len(q)
        BY <3>1, <3>3, EmptySeq, LenProperties
      <4>2. Tls13Ticket(c, name) = Some(q[Len(q)])
        BY <1>2, <3>3 DEF Tls13Ticket
      <4> DEFINE z == q[Len(q)]
      <4>3. z \in ClientValues /\ KeptOk(z, w) /\ Tls13Ticket(c, name) = Some(z)
        BY <3>1, <4>1, <4>2
      <4> HIDE DEF z
      <4>4. Some(z) \in Option(ClientValues) /\ Some(z)[1] = z
        BY <4>3, OptionFacts
      <4> QED
        BY <4>3, <4>4
    <3> QED
      BY <3>2, <3>3
  <2> QED
    BY <2>2, <2>3
<1> QED
  BY <1>1, <1>2

(***************************************************************************)
(* The steps of a connection.                                              *)
(***************************************************************************)
\* What the client keeps is in order later, too.
LEMMA ClientLater ==
    ASSUME NEW w, NEW x, Numbers(w), Numbers(x), Later(w, x), NEW c, ClientOk(c, w)
    PROVE  ClientOk(c, x)
<1>1. \A name \in DOMAIN c.map : c.map[name] \in Datas /\ DataOk(c.map[name], w)
  BY DEF ClientOk, CacheOf
<1>2. \A name \in DOMAIN c.map : DataOk(c.map[name], x)
  BY <1>1, DataLater
<1> QED
  BY <1>2 DEF ClientOk

\* A step of connection t, after which it is at c.
LEMMA ConnStepKeeps ==
    ASSUME ResInv, clock \in Nat, clock' \in Nat, NEW t \in Conns, NEW c \in ConnStates,
           config' = config, conn' = [conn EXCEPT ![t] = c],
           CacheOf(server', Nat, ServerValues, ServerCapacity), sessions' \in 0 .. config.sessions,
           uses' \in [1 .. config.sessions -> Nat], UsesOk', Later(View, View'),
           ConnOk(c, View'), ClientOk(client', View),
           \A u \in Conns : u # t => call'[u] = call[u],
           call'[t].step # "none" => c.pc \in {"opening", "sealing"}
    PROVE  ResInv'
<1>1. conn \in [Conns -> ConnStates] /\ config \in Configs /\ config.sessions \in Nat
  BY ResNumbers DEF ResInv, ResTypes
<1>2. /\ conn' \in [Conns -> ConnStates]
      /\ \A u \in Conns : conn'[u] = IF u = t THEN c ELSE conn[u]
  BY <1>1
<1>3. ResTypes'
  BY <1>1, <1>2 DEF ResTypes
<1> DEFINE w == View
           x == View'
<1>4. Numbers(w) /\ Numbers(x)
  <2>1. Numbers(w)
    BY ViewNow DEF ResInv
  <2>2. x.n = sessions' /\ x.now = clock'
    BY DEF View
  <2> QED
    BY <1>1, <2>1, <2>2 DEF Numbers
<1>5. Later(w, x) /\ ConnOk(c, x) /\ ClientOk(client', w) /\ \A u \in Conns : ConnOk(conn[u], w)
  BY DEF ResInv, ConnsOk
<1>6. \A u \in Conns : ConnOk(conn'[u], x)
  <2> HIDE DEF w, x
  <2>1. \A u \in Conns : conn[u] \in ConnStates
    BY <1>1
  <2>2. \A u \in Conns : ConnOk(conn[u], x)
    BY <1>4, <1>5, <2>1, ConnLater
  <2> QED
    BY <1>2, <1>5, <2>2
<1>7. ClientOk(client', x)
  <2> HIDE DEF w, x
  <2> QED
    BY <1>4, <1>5, ClientLater
<1>8. CallsOk'
  BY <1>2 DEF ResInv, CallsOk
<1>9. ConnsOk'
  BY <1>6 DEF ConnsOk
<1> QED
  BY <1>3, <1>7, <1>8, <1>9 DEF ResInv

\* A step that leaves the server's store and the time alone.
LEMMA ClientStepKeeps ==
    ASSUME ResInv, clock \in Nat, NEW t \in Conns, NEW c \in ConnStates,
           UNCHANGED <<config, server, sessions, uses, clock>>, conn' = [conn EXCEPT ![t] = c],
           ConnOk(c, View), ClientOk(client', View),
           \A u \in Conns : u # t => call'[u] = call[u],
           call'[t].step # "none" => c.pc \in {"opening", "sealing"}
    PROVE  ResInv'
<1>1. View' = View
  BY DEF View
<1>2. Later(View, View)
  BY ViewNow DEF Later, Numbers, ResInv
<1>3. Later(View, View') /\ ConnOk(c, View')
  BY <1>1, <1>2
<1>4. /\ CacheOf(server, Nat, ServerValues, ServerCapacity) /\ sessions \in 0 .. config.sessions
      /\ uses \in [1 .. config.sessions -> Nat] /\ UsesOk
  BY DEF ResInv, ResTypes
<1>5. UsesOk'
  BY <1>4 DEF UsesOk
<1> QED
  BY <1>3, <1>4, <1>5, ConnStepKeeps, Zenon

\* A connection that has no call in the ticketer.
LEMMA NoCallHere ==
    ASSUME ResInv, NEW t \in Conns, conn[t].pc \notin {"opening", "sealing"}
    PROVE  call[t].step = "none"
  BY DEF ResInv, CallsOk

\* A connection that is not there.
LEMMA IdleOk == Idle \in ConnStates /\ \A w : ConnOk(Idle, w)
<1>1. Idle \in ConnStates
  BY OptionFacts DEF Idle, ConnStates, Names
<1>2. Idle.offer = None /\ Idle.resumed = None /\ Idle.ticket = None /\ Idle.pc = "idle"
  BY DEF Idle
<1> QED
  BY <1>1, <1>2 DEF ConnOk

\* A hello is sent.
LEMMA FindSessionKeeps ==
    ASSUME ResInv, clock \in Nat, NEW t \in Conns, NEW name \in config.names, NEW ver \in config.vers,
           FindSession(t, name, ver)
    PROVE  ResInv'
<1> DEFINE taken == Tls13Ticket(client, name)
           found == IF taken # None THEN taken ELSE Tls12Session(client, name)
           usable == found # None /\ ~HasExpired(found[1], clock)
           offer == IF usable THEN found ELSE None
           at == IF usable THEN clock ELSE 0
           c == [Idle EXCEPT !.pc = "hello", !.name = name, !.ver = ver, !.offer = offer, !.at = at]
<1>1. conn[t].pc = "idle" /\ conn' = [conn EXCEPT ![t] = c] /\ client' = TakeTls13Ticket(client, name)
      /\ UNCHANGED <<config, server, sessions, uses, ticketerVars>>
  BY DEF FindSession, Set
<1>2. ClientOk(client, View) /\ View.now = clock
  BY ViewNow DEF ResInv
<1>3. found \in Option(ClientValues) /\ (found # None => KeptOk(found[1], View))
  BY <1>2, FoundOk
<1>4. name \in Names /\ ver \in {"12", "13"}
  BY ResNumbers, Zenon DEF ResInv, ResTypes, Names
<1>5. ClientOk(client', View)
  BY <1>1, <1>2, ClientTake13
<1> HIDE DEF taken, found
<1>6. /\ offer \in Option(ClientValues) /\ at \in Nat /\ at <= clock
      /\ offer # None => KeptOk(offer[1], View) /\ ~HasExpired(offer[1], at) /\ offer[1].epoch <= at
  <2>1. CASE usable
    <3>1. offer = found /\ at = clock /\ found # None /\ ~HasExpired(found[1], clock)
      BY <2>1
    <3> HIDE DEF offer, at, usable
    <3>2. KeptOk(found[1], View)
      BY <1>3, <3>1
    <3>3. found[1].epoch <= clock
      BY <1>2, <3>2 DEF KeptOk
    <3> QED
      BY <1>3, <3>1, <3>2, <3>3
  <2>2. CASE ~usable
    BY <2>2, OptionFacts
  <2> QED
    BY <2>1, <2>2, Zenon
<1> HIDE DEF offer, at, usable
<1>7. /\ c \in ConnStates /\ c.pc = "hello" /\ c.ver = ver /\ c.offer = offer /\ c.at = at
      /\ ~c.early /\ c.resumed = None /\ c.ticket = None
  <2>1. Idle \in ConnStates /\ ~Idle.early /\ Idle.resumed = None /\ Idle.ticket = None
    BY IdleOk, Zenon DEF Idle
  <2> QED
    BY <1>4, <1>6, <2>1, Zenon DEF ConnStates
<1> HIDE DEF c
<1>8. ConnOk(c, View)
  BY <1>2, <1>4, <1>6, <1>7, Zenon DEF ConnOk, OfferOk
<1>9. call' = call /\ call[t].step = "none" /\ clock' = clock
  BY <1>1, NoCallHere DEF ticketerVars
<1> QED
  BY <1>1, <1>5, <1>7, <1>8, <1>9, ClientStepKeeps, Zenon

\* A hello arrives.  What the server finds under its number agrees with it.
LEMMA ReceiveHelloKeeps ==
    ASSUME ResInv, clock \in Nat, NEW t \in Conns, ReceiveHello(t)
    PROVE  ResInv'
<1> DEFINE c == conn[t]
           byId == Offers(c) /\ ~OffersTicket(c)
           i == c.offer[1].id[1]
           found == IF byId THEN GetSession(server, i) ELSE None
           takes == found # None /\ c.ver = "13"
<1>1. /\ c.pc = "hello" /\ UNCHANGED <<config, client, sessions>>
      /\ IF OffersTicket(c) THEN Call(t, FALSE) /\ Set(t, [c EXCEPT !.pc = "opening"])
         ELSE Set(t, Decided(c, found)) /\ UNCHANGED ticketerVars
      /\ server' = IF takes THEN TakeSession(server, i) ELSE server
      /\ uses' = IF takes THEN [uses EXCEPT ![i] = @ + 1] ELSE uses
  BY Zenon DEF ReceiveHello
<1>2. /\ c \in ConnStates /\ ConnOk(c, View) /\ ClientOk(client, View) /\ ResTypes
      /\ View.map = server.map /\ View.n = sessions /\ View.now = clock /\ View.stateless = config.stateless
  BY ViewNow DEF ResInv, ResTypes, ConnsOk
<1>3. call[t].step = "none"
  BY <1>1, NoCallHere
<1> HIDE DEF c
<1>4. CASE OffersTicket(c)
  <2> DEFINE d == [c EXCEPT !.pc = "opening"]
  <2>1. /\ d \in ConnStates /\ d.pc = "opening" /\ d.ver = c.ver /\ d.offer = c.offer /\ d.at = c.at
        /\ d.early = c.early /\ d.resumed = c.resumed /\ d.ticket = c.ticket
    BY <1>2, Zenon DEF ConnStates
  <2>2. ~byId /\ ~takes
    BY <1>4
  <2>3. /\ conn' = [conn EXCEPT ![t] = d] /\ UNCHANGED <<config, client, sessions, server, uses, clock>>
        /\ \A u \in Conns : u # t => call'[u] = call[u]
    <3>1. Call(t, FALSE) /\ Set(t, d)
      BY <1>1, <1>4, Zenon
    <3> HIDE DEF takes, d
    <3> QED
      BY <1>1, <2>2, <3>1 DEF Call, Set
  <2> HIDE DEF d
  <2>4. ConnOk(d, View)
    BY <1>1, <1>2, <1>4, <2>1, Zenon DEF ConnOk, OfferOk, OffersTicket, Offers
  <2> QED
    BY <1>2, <2>1, <2>3, <2>4, ClientStepKeeps, Zenon
<1>5. CASE ~OffersTicket(c)
  <2> DEFINE d == Decided(c, found)
  <2>1. conn' = [conn EXCEPT ![t] = d] /\ UNCHANGED ticketerVars
    BY <1>1, <1>5 DEF Set
  <2>2. ASSUME found # None
        PROVE  /\ Offers(c) /\ Has(server, i) /\ found = Some(server.map[i]) /\ server.map[i] \in ServerValues
               /\ i \in Nat /\ found[1] = server.map[i] /\ Matches(c.offer[1], server.map[i])
    <3>1. byId /\ Has(server, i) /\ found = Some(server.map[i])
      BY <2>2 DEF GetSession, CacheGet, Some, None
    <3>2. c.offer # None /\ c.offer[1].ticket = None /\ KeptOk(c.offer[1], View) /\ c.offer[1] \in ClientValues
      BY <1>2, <3>1, OptionFacts, Zenon DEF Offers, OffersTicket, ConnOk, ConnStates
    <3>3. c.offer[1].id # None /\ i \in Nat
      BY <3>2, OptionFacts DEF KeptOk, ClientValues
    <3>4. Matches(c.offer[1], server.map[i])
      BY <1>2, <3>1, <3>2, <3>3, Zenon DEF KeptOk, Has
    <3>5. server.map[i] \in ServerValues
      BY <1>2, <3>1 DEF ResTypes, CacheOf, Has
    <3>6. found[1] = server.map[i]
      <4> HIDE DEF found
      <4> QED
        BY <3>1 DEF Some
    <3> QED
      BY <3>1, <3>3, <3>4, <3>5, <3>6, Zenon
  <2> HIDE DEF found, i
  <2>3. found \in Option(ServerValues)
    <3>1. CASE found = None
      BY <3>1, OptionFacts, Zenon
    <3>2. CASE found # None
      <4>1. server.map[i] \in ServerValues /\ found = Some(server.map[i])
        BY <2>2, <3>2, Zenon
      <4>2. \A x \in ServerValues : Some(x) \in Option(ServerValues)
        BY OptionFacts
      <4> QED
        BY <4>1, <4>2, Zenon
    <3> QED
      BY <3>1, <3>2
  <2>4. d \in ConnStates /\ ConnOk(d, View)
    <3>1. found # None => /\ Offers(c) /\ found[1].secret = c.offer[1].secret
                          /\ c.ver = "13" /\ ~config.stateless => Matches(c.offer[1], found[1])
      BY <2>2 DEF Matches
    <3> QED
      BY <1>1, <1>2, <2>3, <3>1, DecidedOk, Zenon
  <2> HIDE DEF d
  <2>5. call' = call /\ clock' = clock
    BY <2>1 DEF ticketerVars
  <2>6. CASE ~takes
    <3>1. server' = server /\ uses' = uses
      BY <1>1, <2>6
    <3> QED
      BY <1>1, <1>2, <1>3, <2>1, <2>4, <2>5, <3>1, ClientStepKeeps, Zenon
  <2>7. CASE takes
    <3>1. /\ server' = CacheRemove(server, i) /\ uses' = [uses EXCEPT ![i] = @ + 1] /\ i \in Nat
          /\ Has(server, i)
      BY <1>1, <2>2, <2>7 DEF TakeSession
    <3>2. /\ CacheOf(server, Nat, ServerValues, ServerCapacity) /\ sessions \in 0 .. config.sessions
          /\ uses \in [1 .. config.sessions -> Nat] /\ UsesOk /\ config.sessions \in Nat
      BY ResNumbers DEF ResInv, ResTypes
    <3>3. /\ CacheOf(server', Nat, ServerValues, ServerCapacity)
          /\ DOMAIN server'.map = DOMAIN server.map \ {i}
          /\ \A k \in DOMAIN server'.map : server'.map[k] = server.map[k]
      <4> DEFINE r == CacheRemove(server, i)
      <4>1. ServerCapacity \in Nat
        BY ResNumbers
      <4>2. CacheOf(r, Nat, ServerValues, ServerCapacity) /\ Deleted(r.map, server.map, i)
        BY <3>1, <3>2, <4>1, RemoveKeeps
      <4>3. server' = r
        BY <3>1
      <4> HIDE DEF r
      <4> QED
        BY <4>2, <4>3, Zenon DEF Deleted
    <3>4. i \in 1 .. sessions /\ i \in 1 .. config.sessions /\ uses[i] = 0
      BY <3>1, <3>2 DEF UsesOk, Has
    <3>5. /\ uses' \in [1 .. config.sessions -> Nat]
          /\ \A n \in 1 .. config.sessions : uses'[n] = IF n = i THEN 1 ELSE uses[n]
      BY <3>1, <3>2, <3>4
    <3>6. UsesOk'
      <4>1. sessions' = sessions /\ config' = config
        BY <1>1
      <4>2. DOMAIN server'.map \subseteq 1 .. sessions
        BY <3>2, <3>3 DEF UsesOk
      <4>3. ASSUME NEW n \in 1 .. config.sessions
            PROVE  uses'[n] <= 1 /\ (n \in DOMAIN server'.map \/ n > sessions => uses'[n] = 0)
        <5>1. CASE n = i
          <6>1. n \notin DOMAIN server'.map /\ ~(n > sessions) /\ uses'[n] = 1
            BY <3>2, <3>3, <3>4, <3>5, <5>1
          <6> QED
            BY <6>1
        <5>2. CASE n # i
          BY <3>2, <3>3, <3>5, <5>2 DEF UsesOk
        <5> QED
          BY <5>1, <5>2
      <4> QED
        BY <4>1, <4>2, <4>3 DEF UsesOk
    <3>7. Later(View, View')
      <4>1. View' = [map |-> server'.map, n |-> sessions, now |-> clock, stateless |-> config.stateless]
        BY <1>1, <2>5 DEF View
      <4>2. sessions \in Nat
        BY <3>2
      <4> QED
        BY <1>2, <3>3, <4>1, <4>2 DEF Later
    <3>8. ConnOk(d, View')
      <4>1. Numbers(View) /\ Numbers(View')
        <5>1. View'.n = sessions /\ View'.now = clock
          BY <1>1, <2>5 DEF View
        <5> QED
          BY <1>2, <3>2, <5>1 DEF Numbers
      <4> QED
        BY <2>4, <3>7, <4>1, ConnLater
    <3> QED
      BY <1>1, <1>2, <1>3, <2>1, <2>4, <2>5, <3>2, <3>3, <3>5, <3>6, <3>7, <3>8, ConnStepKeeps, Zenon
  <2> QED
    BY <2>6, <2>7
<1> QED
  BY <1>4, <1>5

\* The server's flight arrives.
LEMMA ClientFinishesKeeps ==
    ASSUME ResInv, clock \in Nat, NEW t \in Conns, ClientFinishes(t)
    PROVE  ResInv'
<1> DEFINE c == conn[t]
           d == [c EXCEPT !.pc = "finishing", !.early = FALSE, !.delay = 0]
<1>1. /\ c.pc = "replied" /\ conn' = [conn EXCEPT ![t] = d]
      /\ client' = RemoveTls12Session(SetKxHint(client, c.name), c.name)
      /\ UNCHANGED <<config, server, sessions, uses, ticketerVars>>
  BY DEF ClientFinishes, Set
<1>2. c \in ConnStates /\ ConnOk(c, View) /\ ClientOk(client, View)
  BY DEF ResInv, ResTypes, ConnsOk
<1>3. call[t].step = "none" /\ call' = call /\ clock' = clock
  BY <1>1, NoCallHere DEF ticketerVars
<1> HIDE DEF c
<1>4. /\ d \in ConnStates /\ d.pc = "finishing" /\ d.ver = c.ver /\ d.offer = c.offer
      /\ d.resumed = c.resumed /\ d.ticket = c.ticket /\ c.name \in Names
  <2> DEFINE no == FALSE
             zero == 0
             e == [c EXCEPT !.pc = "finishing", !.early = no, !.delay = zero]
  <2>1. no \in BOOLEAN /\ zero \in Int /\ d = e
    OBVIOUS
  <2> HIDE DEF no, zero
  <2>2. /\ e \in ConnStates /\ e.pc = "finishing" /\ e.ver = c.ver /\ e.offer = c.offer
        /\ e.resumed = c.resumed /\ e.ticket = c.ticket /\ c.name \in Names
    BY <1>2, <2>1, Zenon DEF ConnStates
  <2> QED
    BY <2>1, <2>2
<1> HIDE DEF d
<1>5. ConnOk(d, View)
  BY <1>1, <1>2, <1>4, Zenon DEF ConnOk, Offers
<1>6. ClientOk(client', View)
  BY <1>1, <1>2, <1>4, ClientHint, ClientRemove12
<1> QED
  BY <1>1, <1>3, <1>4, <1>5, <1>6, ClientStepKeeps, Zenon

\* A connection is lost.
LEMMA AbortKeeps ==
    ASSUME ResInv, clock \in Nat, NEW t \in Conns, Abort(t)
    PROVE  ResInv'
<1>1. /\ conn[t].pc \in {"hello", "replied", "finishing", "ticket"} /\ conn' = [conn EXCEPT ![t] = Idle]
      /\ UNCHANGED <<config, client, server, sessions, uses, ticketerVars>>
  BY DEF Abort, Set
<1>2. call[t].step = "none" /\ call' = call /\ clock' = clock
  BY <1>1, NoCallHere, Zenon DEF ticketerVars
<1>3. ClientOk(client', View)
  BY <1>1 DEF ResInv
<1> QED
  BY <1>1, <1>2, <1>3, IdleOk, ClientStepKeeps, Zenon

\* What the server keeps of a session, or seals.
LEMMA ServerValueOk ==
    ASSUME ResTypes, clock \in Nat, NEW secret \in Nat, NEW timed \in BOOLEAN
    PROVE  /\ ServerValue(secret, timed) \in ServerValues /\ ServerValue(secret, timed).secret = secret
           /\ ServerValue(secret, timed).created <= clock /\ ServerValue(secret, timed).ageAdd < AgeModulus
<1>1. config.ageAdd \in 0 .. AgeModulus - 1 /\ AgeModulus \in Nat \ {0}
  BY ResNumbers DEF ResTypes
<1>2. CASE timed
  BY <1>1, <1>2 DEF ServerValue, ServerValues
<1>3. CASE ~timed
  BY <1>1, <1>3 DEF ServerValue, ServerValues
<1> QED
  BY <1>2, <1>3

\* The client's last flight arrives, and the server keeps the session or seals it.
LEMMA ServerFinishedKeeps ==
    ASSUME ResInv, clock \in Nat, NEW t \in Conns, ServerFinished(t)
    PROVE  ResInv'
<1> DEFINE c == conn[t]
           n == sessions + 1
           resumes == c.ver = "12" /\ c.resumed # None
           timed == c.ver = "13" /\ ~config.stateless
           secret == IF resumes THEN c.resumed[1].secret ELSE n
           value == ServerValue(secret, timed)
           stored == IF c.ver = "13" THEN ~config.stateless ELSE c.resumed = None /\ ~OffersTicket(c)
           id == IF stored THEN Some(n) ELSE None
           d == [c EXCEPT !.pc = IF config.stateless THEN "sealing" ELSE "ticket", !.id = id, !.value = Some(value)]
<1>1. /\ c.pc = "finishing" /\ sessions < config.sessions /\ conn' = [conn EXCEPT ![t] = d]
      /\ server' = IF stored THEN CacheInsert(server, n, value) ELSE server
      /\ IF config.stateless THEN Call(t, TRUE) ELSE UNCHANGED ticketerVars
      /\ sessions' = n /\ UNCHANGED <<config, client, uses>>
  BY Zenon DEF ServerFinished, Set, PutSession
<1>2. /\ c \in ConnStates /\ ConnOk(c, View) /\ ClientOk(client, View) /\ ResTypes /\ UsesOk
      /\ View.map = server.map /\ View.n = sessions /\ View.now = clock /\ View.stateless = config.stateless
      /\ config.stateless \in BOOLEAN
  BY ViewNow, Zenon DEF ResInv, ResTypes, ConnsOk
<1>3. call[t].step = "none"
  BY <1>1, NoCallHere
<1>4. /\ clock' = clock /\ \A u \in Conns : u # t => call'[u] = call[u]
      /\ ~config.stateless => call' = call
  <2>1. CASE config.stateless
    <3>1. Call(t, TRUE)
      BY <1>1, <2>1, Zenon
    <3> QED
      BY <2>1, <3>1 DEF Call
  <2>2. CASE ~config.stateless
    <3>1. UNCHANGED ticketerVars
      BY <1>1, <2>2
    <3> QED
      BY <3>1 DEF ticketerVars
  <2> QED
    BY <1>2, <2>1, <2>2, Zenon
<1> HIDE DEF c
<1>5. /\ sessions \in Nat /\ config.sessions \in Nat /\ n \in Nat /\ n \in 0 .. config.sessions
      /\ n \in 1 .. config.sessions
  <2>1. sessions \in 0 .. config.sessions /\ config.sessions \in Nat
    BY <1>2, ResNumbers DEF ResTypes
  <2> QED
    BY <1>1, <2>1
<1>6. secret \in Nat /\ (resumes => secret = c.offer[1].secret)
  <2>1. CASE resumes
    <3>1. c.resumed[1] \in ServerValues
      BY <1>2, <2>1, OptionFacts, Zenon DEF ConnStates
    <3> QED
      BY <1>2, <2>1, <3>1 DEF ServerValues, ConnOk
  <2>2. CASE ~resumes
    BY <1>5, <2>2
  <2> QED
    BY <2>1, <2>2
<1>7. value \in ServerValues /\ value.secret = secret /\ value.created <= clock /\ value.ageAdd < AgeModulus
  BY <1>2, <1>6, ServerValueOk, Zenon
<1> HIDE DEF value, secret, n
<1>8. /\ CacheOf(server', Nat, ServerValues, ServerCapacity)
      /\ \A k \in DOMAIN server'.map : \/ stored /\ k = n /\ server'.map[k] = value
                                       \/ k \in DOMAIN server.map /\ server'.map[k] = server.map[k]
      /\ stored => \A k \in DOMAIN server'.map : k = n => server'.map[k] = value
  <2>1. CacheOf(server, Nat, ServerValues, ServerCapacity) /\ ServerCapacity \in Nat \ {0}
    BY <1>2, ResNumbers, Zenon DEF ResTypes
  <2>2. CASE stored
    <3> DEFINE e == CacheInsert(server, n, value)
    <3>1. CacheOf(e, Nat, ServerValues, ServerCapacity) /\ Updated(e.map, server.map, n, value)
      BY <1>5, <1>7, <2>1, InsertKeeps
    <3>2. server' = e
      BY <1>1, <2>2
    <3> HIDE DEF e, stored
    <3> QED
      BY <2>2, <3>1, <3>2 DEF Updated
  <2>3. CASE ~stored
    <3>1. server' = server
      BY <1>1, <2>3
    <3> HIDE DEF stored
    <3> QED
      BY <2>1, <2>3, <3>1
  <2> QED
    BY <2>2, <2>3
<1>9. /\ d \in ConnStates /\ d.pc = (IF config.stateless THEN "sealing" ELSE "ticket") /\ d.ver = c.ver
      /\ d.offer = c.offer /\ d.resumed = c.resumed /\ d.id = id /\ d.value = Some(value) /\ d.ticket = c.ticket
  <2>1. Some(value) \in Option(ServerValues) /\ id \in Option(Nat)
    BY <1>5, <1>7, OptionFacts
  <2> HIDE DEF id
  <2> QED
    BY <1>2, <2>1, Zenon DEF ConnStates
<1>10. /\ View'.map = server'.map /\ View'.n = n /\ View'.now = clock /\ View'.stateless = config.stateless
  BY <1>1, <1>4 DEF View
<1>11. Later(View, View')
  <2>1. n = sessions + 1
    BY DEF n
  <2>2. ASSUME NEW k \in DOMAIN server'.map, k <= sessions
        PROVE  k \in DOMAIN server.map /\ server'.map[k] = server.map[k]
    <3>1. k # n
      BY <1>5, <2>1, <2>2
    <3> QED
      BY <1>8, <3>1
  <2>3. sessions <= n
    BY <1>5, <2>1
  <2> QED
    BY <1>2, <1>5, <1>10, <2>2, <2>3 DEF Later
<1>12. UsesOk'
  <2>1. n = sessions + 1
    BY DEF n
  <2>2. DOMAIN server'.map \subseteq 1 .. n
    <3>1. \A k \in DOMAIN server'.map : k = n \/ k \in 1 .. sessions
      BY <1>2, <1>8 DEF UsesOk
    <3> QED
      BY <1>5, <2>1, <3>1
  <2>3. ASSUME NEW m \in 1 .. config.sessions
        PROVE  uses[m] <= 1 /\ (m \in DOMAIN server'.map \/ m > n => uses[m] = 0)
    <3>1. uses[m] <= 1 /\ (m \in DOMAIN server.map \/ m > sessions => uses[m] = 0)
      BY <1>2 DEF UsesOk
    <3>2. m > n => m > sessions
      BY <1>5, <2>1
    <3>3. m \in DOMAIN server'.map => m \in DOMAIN server.map \/ m > sessions
      BY <1>5, <1>8, <2>1
    <3> QED
      BY <3>1, <3>2, <3>3
  <2> QED
    BY <1>1, <2>2, <2>3 DEF UsesOk
<1>13. ConnOk(d, View')
  <2> DEFINE w == View'
  <2>1. w.map = server'.map /\ w.n = n /\ w.now = clock /\ w.stateless = config.stateless
    BY <1>10
  <2>2. Numbers(View) /\ Numbers(w) /\ Later(View, w)
    BY <1>2, <1>5, <1>10, <1>11 DEF Numbers
  <2> HIDE DEF w, d
  <2>3. ConnOk(c, w)
    BY <1>2, <2>2, ConnLater
  <2>4. d.value[1] = value /\ d.value # None /\ d.ticket = None
    <3>1. c.ticket = None
      BY <1>1, <1>2, Zenon DEF ConnOk
    <3>2. Some(value)[1] = value /\ Some(value) # None
      BY <1>7, OptionFacts, Zenon
    <3> QED
      BY <1>9, <3>1, <3>2
  <2>5. id # None => id[1] = n /\ stored
    BY DEF Some, None
  <2>6. d.id # None => d.id[1] <= w.n /\ (d.id[1] \in DOMAIN w.map => w.map[d.id[1]] = d.value[1])
    <3> HIDE DEF id, stored
    <3> QED
      BY <1>5, <1>8, <1>9, <2>1, <2>4, <2>5
  <2>7. d.ver = "12" /\ d.resumed # None => d.value[1].secret = d.offer[1].secret
    BY <1>6, <1>7, <1>9, <2>4
  <2>8. d.pc = "sealing" => w.stateless
    BY <1>9, <2>1
  <2>9. d.pc = "ticket" /\ d.ver = "13" => d.id # None /\ ~w.stateless
    BY <1>2, <1>9, <2>1 DEF Some, None
  <2>10. InFlight(d, w)
    BY <1>7, <2>1, <2>4, <2>6, <2>7, <2>8, <2>9 DEF InFlight
  <2> QED
    BY <1>1, <1>9, <2>3, <2>4, <2>10, Zenon DEF ConnOk, Offers, w
<1>14. call'[t].step # "none" => d.pc \in {"opening", "sealing"}
  BY <1>2, <1>3, <1>4, <1>9
<1>15. uses' \in [1 .. config.sessions -> Nat] /\ sessions' \in 0 .. config.sessions /\ ClientOk(client', View)
  BY <1>1, <1>2, <1>5 DEF ResTypes
<1> HIDE DEF d
<1> QED
  BY <1>1, <1>4, <1>8, <1>9, <1>11, <1>12, <1>13, <1>14, <1>15, ConnStepKeeps, Zenon

\* What the client makes of a session it is given.
LEMMA ClientValueOk ==
    ASSUME ResTypes, clock \in Nat, NEW ver \in {"12", "13"}, NEW id \in Option(Nat),
           NEW ticket \in Option(Tickets), NEW value \in ServerValues, NEW lifetime \in Nat,
           id # None \/ ticket # None,
           ticket # None => config.stateless /\ ticket[1].value # None /\ ticket[1].value[1].secret = value.secret,
           id # None =>
             /\ id[1] <= sessions
             /\ id[1] \in DOMAIN server.map =>
                  /\ server.map[id[1]].secret = value.secret
                  /\ ver = "13" => server.map[id[1]] = value,
           ver = "13" => value.ageAdd < AgeModulus /\ value.created <= clock,
           ver = "13" /\ ticket = None => lifetime # 0
    PROVE  LET s == ClientValue(ver, id, ticket, value, lifetime)
           IN s \in ClientValues /\ KeptOk(s, View)
<1> DEFINE kept == Least(lifetime, MaxTicketLifetime)
           s == ClientValue(ver, id, ticket, value, lifetime)
<1>1. kept \in Nat /\ (lifetime # 0 => kept \in 1 .. MaxTicketLifetime)
  BY ResNumbers DEF Least
<1>2. value.secret \in Nat /\ value.ageAdd \in Nat /\ value.created \in Nat
  BY DEF ServerValues
<1> HIDE DEF kept
<1>3. s = [ver |-> ver, id |-> id, ticket |-> ticket, secret |-> value.secret, ageAdd |-> value.ageAdd,
           epoch |-> clock, lifetime |-> kept]
  BY DEF ClientValue, kept
<1> HIDE DEF s
<1>4. /\ s \in ClientValues /\ s.ver = ver /\ s.id = id /\ s.ticket = ticket /\ s.secret = value.secret
      /\ s.ageAdd = value.ageAdd /\ s.epoch = clock /\ s.lifetime = kept
  BY <1>1, <1>2, <1>3 DEF ClientValues
<1>5. /\ View.map = server.map /\ View.n = sessions /\ View.now = clock /\ View.stateless = config.stateless
  BY ViewNow
<1>6. s.id # None => s.id[1] <= View.n /\ (s.id[1] \in DOMAIN View.map => Matches(s, View.map[s.id[1]]))
  BY <1>4, <1>5 DEF Matches
<1>7. KeptOk(s, View)
  BY <1>1, <1>4, <1>5, <1>6 DEF KeptOk
<1> QED
  BY <1>4, <1>7 DEF s

\* A ticket of TLS 1.3 arrives.
LEMMA ReceiveTicket13Keeps ==
    ASSUME ResInv, clock \in Nat, NEW t \in Conns, ReceiveTicket13(t)
    PROVE  ResInv'
<1> DEFINE c == conn[t]
           lifetime == IF config.stateless THEN 2 * Lifetime ELSE StatefulLifetime
           s == ClientValue("13", c.id, c.ticket, c.value[1], lifetime)
<1>1. /\ c.pc = "ticket" /\ c.ver = "13" /\ conn' = [conn EXCEPT ![t] = Idle]
      /\ client' = InsertTls13Ticket(client, c.name, s)
      /\ UNCHANGED <<config, server, sessions, uses, ticketerVars>>
  BY DEF ReceiveTicket13, Set, Tls13ClientSession
<1>2. /\ c \in ConnStates /\ ConnOk(c, View) /\ ClientOk(client, View) /\ ResTypes
      /\ View.map = server.map /\ View.n = sessions /\ View.now = clock /\ View.stateless = config.stateless
      /\ config.stateless \in BOOLEAN
  BY ViewNow, Zenon DEF ResInv, ResTypes, ConnsOk
<1>3. call[t].step = "none" /\ call' = call /\ clock' = clock
  BY <1>1, NoCallHere, Zenon DEF ticketerVars
<1> HIDE DEF c
<1>4. InFlight(c, View)
  BY <1>1, <1>2, Zenon DEF ConnOk
<1>5. c.value[1] \in ServerValues /\ c.id \in Option(Nat) /\ c.ticket \in Option(Tickets) /\ c.name \in Names
  BY <1>2, <1>4, OptionFacts, Zenon DEF ConnStates, InFlight
<1>6. lifetime \in Nat /\ (~config.stateless => lifetime # 0)
  BY <1>2, ResNumbers
<1> HIDE DEF lifetime
<1>7. s \in ClientValues /\ KeptOk(s, View)
  <2>1. c.id # None \/ c.ticket # None
    BY <1>1, <1>4, Zenon DEF InFlight
  <2>2. c.ticket # None => config.stateless /\ c.ticket[1].value # None /\ c.ticket[1].value[1].secret = c.value[1].secret
    BY <1>2, <1>4, Zenon DEF InFlight
  <2>3. c.id # None => c.id[1] <= sessions /\ (c.id[1] \in DOMAIN server.map => server.map[c.id[1]] = c.value[1])
    BY <1>2, <1>4 DEF InFlight
  <2>4. c.value[1].ageAdd < AgeModulus /\ c.value[1].created <= clock
    BY <1>2, <1>4, Zenon DEF InFlight
  <2>5. c.ticket = None => lifetime # 0
    BY <1>1, <1>2, <1>4, <1>6, Zenon DEF InFlight
  <2> QED
    BY <1>2, <1>5, <1>6, <2>1, <2>2, <2>3, <2>4, <2>5, ClientValueOk, Zenon
<1> HIDE DEF s
<1>8. ClientOk(client', View)
  BY <1>1, <1>2, <1>5, <1>7, ClientInsert13
<1> QED
  BY <1>1, <1>3, <1>8, IdleOk, ClientStepKeeps, Zenon

\* A TLS 1.2 connection saves its session, or saves again what it resumed.
LEMMA SaveSession12Keeps ==
    ASSUME ResInv, clock \in Nat, NEW t \in Conns, SaveSession12(t)
    PROVE  ResInv'
<1> DEFINE c == conn[t]
           o == c.offer[1]
           id == IF c.resumed = None THEN c.id ELSE IF OffersTicket(c) THEN Some(0) ELSE o.id
           lifetime == IF config.stateless THEN 2 * Lifetime ELSE 0
           kept == IF c.resumed # None THEN [c.value[1] EXCEPT !.secret = o.secret] ELSE c.value[1]
           ticket == SavedTicket12(c)
           s == ClientValue("12", id, ticket, kept, lifetime)
<1>1. /\ c.pc = "ticket" /\ c.ver = "12" /\ conn' = [conn EXCEPT ![t] = Idle]
      /\ client' = IF id = None /\ s.ticket = None THEN client ELSE SetTls12Session(client, c.name, s)
      /\ UNCHANGED <<config, server, sessions, uses, ticketerVars>>
  BY DEF SaveSession12, Set, Tls12ClientSession
<1>2. /\ c \in ConnStates /\ ConnOk(c, View) /\ ClientOk(client, View) /\ ResTypes /\ UsesOk
      /\ View.map = server.map /\ View.n = sessions /\ View.now = clock /\ View.stateless = config.stateless
      /\ config.stateless \in BOOLEAN /\ sessions \in Nat
  BY ViewNow DEF ResInv, ResTypes, ConnsOk, Numbers
<1>3. call[t].step = "none" /\ call' = call /\ clock' = clock
  BY <1>1, NoCallHere DEF ticketerVars
<1> HIDE DEF c
<1>4. InFlight(c, View)
  BY <1>1, <1>2 DEF ConnOk
<1>5. c.value[1] \in ServerValues /\ c.id \in Option(Nat) /\ c.ticket \in Option(Tickets) /\ c.name \in Names
  BY <1>2, <1>4, OptionFacts, Zenon DEF ConnStates, InFlight
<1>6. lifetime \in Nat
  BY <1>2, ResNumbers
<1>7. s.ticket = ticket
  BY DEF ClientValue
<1>8. CASE id = None /\ ticket = None
  <2>1. ClientOk(client', View)
    BY <1>1, <1>2, <1>7, <1>8
  <2> QED
    BY <1>1, <1>3, <2>1, IdleOk, ClientStepKeeps, Zenon
<1>9. CASE id # None \/ ticket # None
  <2>1. ASSUME c.resumed # None
        PROVE  /\ o \in ClientValues /\ KeptOk(o, View) /\ Offers(c) /\ c.value[1].secret = o.secret
               /\ o.id \in Option(Nat) /\ o.ticket \in Option(Tickets)
    <3>1. Offers(c) /\ c.offer # None
      BY <1>2, <2>1, Zenon DEF ConnOk, Offers
    <3>2. o \in ClientValues /\ KeptOk(o, View)
      BY <1>2, <3>1, OptionFacts, Zenon DEF ConnStates, ConnOk
    <3> QED
      BY <1>1, <1>4, <2>1, <3>1, <3>2 DEF InFlight, ClientValues
  <2>2. kept \in ServerValues /\ kept.secret = c.value[1].secret
    BY <1>5, <2>1, Zenon DEF ServerValues
  <2>3. ticket \in Option(Tickets)
    BY <1>5, <2>1 DEF SavedTicket12
  <2>4. id \in Option(Nat)
    BY <1>5, <2>1, OptionFacts
  <2>5. ASSUME ticket # None
        PROVE  config.stateless /\ ticket[1].value # None /\ ticket[1].value[1].secret = kept.secret
    <3>1. CASE c.ticket # None
      <4>1. ticket = c.ticket
        BY <3>1 DEF SavedTicket12
      <4> QED
        BY <1>2, <1>4, <2>2, <3>1, <4>1 DEF InFlight
    <3>2. CASE c.ticket = None
      <4>1. c.resumed # None /\ ticket = o.ticket
        BY <2>5, <3>2 DEF SavedTicket12
      <4> QED
        BY <1>2, <2>1, <2>2, <2>5, <4>1 DEF KeptOk
    <3> QED
      BY <3>1, <3>2
  <2>6. ASSUME id # None
        PROVE  id[1] <= sessions /\ (id[1] \in DOMAIN server.map => server.map[id[1]].secret = kept.secret)
    <3>1. CASE c.resumed = None
      BY <1>2, <1>4, <2>2, <2>6, <3>1 DEF InFlight
    <3>2. CASE c.resumed # None /\ OffersTicket(c)
      <4>1. id[1] = 0
        BY <3>2 DEF Some
      <4>2. 0 \notin DOMAIN server.map
        BY <1>2 DEF UsesOk
      <4> QED
        BY <1>2, <4>1, <4>2
    <3>3. CASE c.resumed # None /\ ~OffersTicket(c)
      <4>1. id = o.id
        BY <3>3
      <4> QED
        BY <1>2, <2>1, <2>2, <2>6, <3>3, <4>1, Zenon DEF KeptOk, Matches
    <3> QED
      BY <3>1, <3>2, <3>3
  <2> HIDE DEF id, ticket, kept, lifetime
  <2>7. s \in ClientValues /\ KeptOk(s, View)
    BY <1>2, <1>6, <1>9, <2>2, <2>3, <2>4, <2>5, <2>6, ClientValueOk, Zenon
  <2>8. client' = SetTls12Session(client, c.name, s)
    BY <1>1, <1>7, <1>9
  <2> HIDE DEF s
  <2>9. ClientOk(client', View)
    BY <1>2, <1>5, <2>7, <2>8, ClientSet12, Zenon
  <2> QED
    BY <1>1, <1>3, <2>9, IdleOk, ClientStepKeeps, Zenon
<1> QED
  BY <1>8, <1>9

\* The server sends a ticket, or TLS 1.2's empty one.
LEMMA SentOk ==
    ASSUME NEW w, NEW c \in ConnStates, ConnOk(c, w), c.pc = "sealing", NEW ticket \in Option(Tickets),
           ticket # None => ticket[1].value = c.value, ticket = None => c.ver = "12"
    PROVE  Sent(c, ticket) \in ConnStates /\ ConnOk(Sent(c, ticket), w)
<1> DEFINE d == Sent(c, ticket)
<1>1. d = [c EXCEPT !.pc = "ticket", !.ticket = ticket]
  BY DEF Sent
<1> HIDE DEF d
<1>2. /\ d \in ConnStates /\ d.pc = "ticket" /\ d.ver = c.ver /\ d.offer = c.offer /\ d.resumed = c.resumed
      /\ d.id = c.id /\ d.value = c.value /\ d.ticket = ticket
  BY <1>1, Zenon DEF ConnStates
<1>3. InFlight(c, w)
  BY Zenon DEF ConnOk
<1>4. InFlight(d, w)
  BY <1>2, <1>3 DEF InFlight
<1> QED
  BY <1>2, <1>4, Zenon DEF ConnOk, Offers, d

\* The answer of the ticketer to a call of connection t, in any state st of the keys.
LEMMA AnswerOk ==
    ASSUME ResInv, clock \in Nat, NEW t \in Conns, conn[t].pc \in {"opening", "sealing"},
           NEW st, st.current \in Nat
    PROVE  LET c == conn[t]
               ticket == c.offer[1].ticket[1]
               d == IF c.pc = "sealing" THEN Sent(c, Some([key |-> st.current, value |-> c.value]))
                    ELSE Decided(c, IF Opens(st, ticket) THEN ticket.value ELSE None)
           IN d \in ConnStates /\ ConnOk(d, View)
<1> DEFINE c == conn[t]
           ticket == c.offer[1].ticket[1]
<1>1. c \in ConnStates /\ ConnOk(c, View) /\ ResTypes /\ View.stateless = config.stateless
  BY ViewNow, Zenon DEF ResInv, ResTypes, ConnsOk
<1>2. CASE c.pc = "sealing"
  <2> DEFINE x == [key |-> st.current, value |-> c.value]
  <2> HIDE DEF c
  <2>1. x \in Tickets /\ x.value = c.value
    BY <1>1, Zenon DEF Tickets, ConnStates
  <2> HIDE DEF x
  <2>2. Some(x) \in Option(Tickets) /\ Some(x) # None /\ Some(x)[1] = x
    BY <2>1, OptionFacts
  <2>3. Sent(c, Some(x)) \in ConnStates /\ ConnOk(Sent(c, Some(x)), View)
    BY <1>1, <1>2, <2>1, <2>2, SentOk
  <2> QED
    BY <1>2, <2>3, Zenon DEF c, x
<1>3. CASE c.pc = "opening"
  <2> DEFINE found == IF Opens(st, ticket) THEN ticket.value ELSE None
  <2> HIDE DEF c
  <2>1. Offers(c) /\ c.offer # None /\ c.offer[1].ticket # None
    BY <1>1, <1>3, Zenon DEF ConnOk, OffersTicket, Offers
  <2>2. c.offer[1] \in ClientValues /\ KeptOk(c.offer[1], View)
    BY <1>1, <2>1, OptionFacts, Zenon DEF ConnStates, ConnOk
  <2>3. ticket \in Tickets
    BY <2>1, <2>2, OptionFacts DEF ClientValues
  <2>4. config.stateless /\ ticket.value # None /\ ticket.value[1].secret = c.offer[1].secret
    BY <1>1, <2>1, <2>2, Zenon DEF KeptOk
  <2>5. found \in Option(ServerValues) /\ (found # None => found[1].secret = c.offer[1].secret)
    BY <2>3, <2>4, OptionFacts, Zenon DEF Tickets
  <2> HIDE DEF found
  <2>6. Decided(c, found) \in ConnStates /\ ConnOk(Decided(c, found), View)
    BY <1>1, <1>3, <2>1, <2>4, <2>5, DecidedOk, Zenon
  <2> QED
    BY <1>3, <2>6, Zenon DEF c, found
<1> QED
  BY <1>2, <1>3, Zenon

\* The ticketer gives up on a call of connection t.
LEMMA RefusalOk ==
    ASSUME ResInv, clock \in Nat, NEW t \in Conns, conn[t].pc \in {"opening", "sealing"}
    PROVE  LET c == conn[t]
               d == IF c.pc = "opening" THEN Decided(c, None) ELSE IF c.ver = "13" THEN Idle ELSE Sent(c, None)
           IN d \in ConnStates /\ ConnOk(d, View)
<1> DEFINE c == conn[t]
<1>1. c \in ConnStates /\ ConnOk(c, View) /\ ResTypes
  BY DEF ResInv, ResTypes, ConnsOk
<1>2. None \in Option(ServerValues) /\ None \in Option(Tickets)
  BY OptionFacts
<1>3. CASE c.pc = "opening"
  <2> HIDE DEF c
  <2>1. Decided(c, None) \in ConnStates /\ ConnOk(Decided(c, None), View)
    BY <1>1, <1>2, <1>3, DecidedOk
  <2> QED
    BY <1>3, <2>1 DEF c
<1>4. CASE c.pc = "sealing"
  <2> HIDE DEF c
  <2>1. CASE c.ver = "13"
    BY <1>4, <2>1, IdleOk DEF c
  <2>2. CASE c.ver # "13"
    <3>1. c.ver = "12"
      BY <1>1, <1>4, <2>2, Zenon DEF ConnStates, ConnOk
    <3>2. Sent(c, None) \in ConnStates /\ ConnOk(Sent(c, None), View)
      BY <1>1, <1>2, <1>4, <3>1, SentOk
    <3> QED
      BY <1>4, <2>2, <3>2 DEF c
  <2> QED
    BY <2>1, <2>2, Zenon
<1> QED
  BY <1>3, <1>4

\* A step of the ticketer, for a connection that called it.
LEMMA TicketerStepKeeps ==
    ASSUME ResInv, TInv, TInv', NEW t \in Conns, TicketerStep(t)
    PROVE  ResInv'
<1>1. clock \in Nat /\ switcher'.current \in Nat /\ call \in [Conns -> [step : Steps, seals : BOOLEAN, now : Nat, fresh : Seq(Nat)]]
  BY DEF TInv, Types
<1>2. UNCHANGED <<config, client, server, sessions, uses>> /\ ClientOk(client', View)
  BY DEF TicketerStep, ResInv
<1>3. /\ call[t].step # "none" /\ clock' = clock
      /\ \E x : call' = [call EXCEPT ![t] = x]
  <2>1. CASE MaybeRoll(t)
    BY <2>1 DEF MaybeRoll, Use
  <2>2. CASE Relock(t)
    BY <2>2, Zenon DEF Relock, Use
  <2>3. CASE Generate(t)
    BY <2>3, Zenon DEF Generate
  <2>4. CASE GeneratorFails(t)
    BY <2>4, Zenon DEF GeneratorFails
  <2> QED
    BY <2>1, <2>2, <2>3, <2>4 DEF TicketerStep
<1>4. conn[t].pc \in {"opening", "sealing"} /\ conn[t] \in ConnStates /\ ConnOk(conn[t], View)
  BY <1>3 DEF ResInv, ResTypes, ConnsOk, CallsOk
<1>5. \A u \in Conns : u # t => call'[u] = call[u]
  BY <1>1, <1>3
<1>6. CASE UNCHANGED conn
  <2>1. conn' = [conn EXCEPT ![t] = conn[t]]
    BY <1>6 DEF ResInv, ResTypes
  <2> QED
    BY <1>1, <1>2, <1>3, <1>4, <1>5, <2>1, ClientStepKeeps, Zenon
<1>7. CASE call'[t] = NoCall /\ Answered(t)
  <2> DEFINE c == conn[t]
             ticket == c.offer[1].ticket[1]
             d == IF c.pc = "sealing" THEN Sent(c, Some([key |-> switcher'.current, value |-> c.value]))
                  ELSE Decided(c, IF Opens(switcher', ticket) THEN ticket.value ELSE None)
  <2>1. d \in ConnStates /\ ConnOk(d, View)
    BY <1>1, <1>4, AnswerOk, Zenon
  <2>2. conn' = [conn EXCEPT ![t] = d]
    BY <1>7, Zenon DEF Answered, Set
  <2> HIDE DEF d
  <2>3. call'[t].step = "none"
    BY <1>7 DEF NoCall
  <2> QED
    BY <1>1, <1>2, <1>3, <1>5, <2>1, <2>2, <2>3, ClientStepKeeps, Zenon
<1>8. CASE GeneratorFails(t) /\ Refused(t)
  <2> DEFINE c == conn[t]
             d == IF c.pc = "opening" THEN Decided(c, None) ELSE IF c.ver = "13" THEN Idle ELSE Sent(c, None)
  <2>1. d \in ConnStates /\ ConnOk(d, View)
    BY <1>1, <1>4, RefusalOk, Zenon
  <2>2. conn' = [conn EXCEPT ![t] = d]
    BY <1>8 DEF Refused, Set
  <2>3. call'[t].step = "none"
    BY <1>1, <1>8 DEF GeneratorFails, NoCall
  <2> HIDE DEF d
  <2> QED
    BY <1>1, <1>2, <1>3, <1>5, <2>1, <2>2, <2>3, ClientStepKeeps, Zenon
<1> QED
  BY <1>6, <1>7, <1>8 DEF TicketerStep

\* Time passes.
LEMMA TimePassesKeeps ==
    ASSUME ResInv, clock \in Nat, TimePasses
    PROVE  ResInv'
<1>1. clock' = clock + 1 /\ call' = call /\ UNCHANGED <<config, client, server, conn, sessions, uses>>
  BY DEF TimePasses, Tick
<1> DEFINE w == View
           x == View'
<1>2. w.map = server.map /\ w.n = sessions /\ w.now = clock /\ w.stateless = config.stateless /\ Numbers(w)
  BY ViewNow DEF ResInv
<1>3. x.map = server.map /\ x.n = sessions /\ x.now = clock + 1 /\ x.stateless = config.stateless
  BY <1>1 DEF View
<1>4. /\ ClientOk(client, w) /\ conn \in [Conns -> ConnStates] /\ \A t \in Conns : ConnOk(conn[t], w)
      /\ ResTypes /\ CallsOk /\ UsesOk
  BY DEF ResInv, ResTypes, ConnsOk
<1> HIDE DEF w, x
<1>5. Numbers(x) /\ Later(w, x)
  BY <1>2, <1>3 DEF Numbers, Later
<1>6. ClientOk(client, x)
  BY <1>2, <1>4, <1>5, ClientLater, Zenon
<1>7. \A t \in Conns : ConnOk(conn[t], x)
  BY <1>2, <1>4, <1>5, ConnLater
<1>8. ResTypes' /\ CallsOk' /\ UsesOk'
  BY <1>1, <1>4 DEF ResTypes, CallsOk, UsesOk
<1> QED
  BY <1>1, <1>6, <1>7, <1>8 DEF ResInv, ConnsOk, x

\* The initial states.
LEMMA ResInitInv ==
    ASSUME ResInit
    PROVE  ResInv
<1>1. /\ config \in Configs /\ client = NewCache(ClientCapacity) /\ server = NewCache(ServerCapacity)
      /\ conn = [t \in Conns |-> Idle] /\ sessions = 0 /\ uses = [n \in 1 .. config.sessions |-> 0]
      /\ call = [t \in Conns |-> NoCall] /\ clock = 0
  BY DEF ResInit, TicketerInit, NewServerCache
<1>2. config.sessions \in Nat /\ ServerCapacity \in Nat \ {0} /\ ClientCapacity \in Nat \ {0}
  BY <1>1, ResNumbers
<1>3. /\ CacheOf(client, Names, Datas, ClientCapacity) /\ DOMAIN client.map = {}
      /\ CacheOf(server, Nat, ServerValues, ServerCapacity) /\ DOMAIN server.map = {}
  BY <1>1, <1>2, NewCacheOf, Zenon DEF NewCache, Cache
<1>4. ResTypes
  BY <1>1, <1>2, <1>3, IdleOk DEF ResTypes
<1>5. ClientOk(client, View)
  BY <1>3 DEF ClientOk
<1>6. ConnsOk
  BY <1>1, IdleOk DEF ConnsOk
<1>7. CallsOk
  BY <1>1 DEF CallsOk, NoCall
<1>8. UsesOk
  BY <1>1, <1>2, <1>3 DEF UsesOk
<1> QED
  BY <1>4, <1>5, <1>6, <1>7, <1>8 DEF ResInv

\* Whatever connections do, the ticketer does what its own specification allows.
LEMMA ResTicketer ==
    ASSUME ResNext
    PROVE  [TicketerNext]_ticketerVars
<1>1. ASSUME NEW t \in Conns, ReceiveHello(t)
      PROVE  Call(t, FALSE) \/ UNCHANGED ticketerVars
  BY <1>1, Zenon DEF ReceiveHello
<1>2. ASSUME NEW t \in Conns, ServerFinished(t)
      PROVE  Call(t, TRUE) \/ UNCHANGED ticketerVars
  BY <1>2, Zenon DEF ServerFinished
<1>3. ASSUME NEW t \in Conns, TicketerStep(t)
      PROVE  MaybeRoll(t) \/ Relock(t) \/ Generate(t) \/ GeneratorFails(t)
  BY <1>3 DEF TicketerStep
<1>4. TimePasses => Tick
  BY DEF TimePasses
<1>5. ASSUME NEW t \in Conns,
             \/ \E name \in config.names, ver \in config.vers : FindSession(t, name, ver)
             \/ ClientFinishes(t) \/ ReceiveTicket13(t) \/ SaveSession12(t) \/ Abort(t)
      PROVE  UNCHANGED ticketerVars
  BY <1>5, Zenon DEF FindSession, ClientFinishes, ReceiveTicket13, SaveSession12, Abort
<1> QED
  BY <1>1, <1>2, <1>3, <1>4, <1>5, Zenon DEF ResNext, TicketerNext

\* The steps of all connections.
LEMMA ResNextKeeps ==
    ASSUME ResInv, TInv, TInv', ResNext
    PROVE  ResInv'
<1>1. clock \in Nat
  BY DEF TInv, Types
<1> QED
  BY <1>1, FindSessionKeeps, ReceiveHelloKeeps, ClientFinishesKeeps, ServerFinishedKeeps, ReceiveTicket13Keeps,
     SaveSession12Keeps, AbortKeeps, TicketerStepKeeps, TimePassesKeeps DEF ResNext

\* The session stores use the ticketer as its specification says (ticketer.rs
\* 44-134, server/tls13.rs 133-148, server/tls12.rs 130-165).
THEOREM StoresUseTicketer == Spec => TicketerSpec
<1>1. Init => TicketerInit
  BY DEF Init, ResInit
<1>2. [Next]_vars => [TicketerNext]_ticketerVars
  <2> SUFFICES ASSUME [Next]_vars PROVE [TicketerNext]_ticketerVars
    OBVIOUS
  <2>1. CASE ResNext
    BY <2>1, ResTicketer
  <2>2. CASE UNCHANGED resVars
    BY <2>2 DEF resVars
  <2> QED
    BY <2>1, <2>2 DEF Next, vars
<1> QED
  BY <1>1, <1>2, PTL DEF Spec, TicketerSpec

\* So a ticket that a server of any number of connections hands out can be
\* opened for a lifetime (ticketer.rs 65-134).
THEOREM ServerTicketsLive == Spec => []TicketsOutlive
  BY StoresUseTicketer, TicketsLive, PTL

\* What holds of sessions and keys at all times.
LEMMA StoresInv == Spec => [](TInv /\ ResInv)
<1>1. Init => TInv /\ ResInv
  BY InitTInv, ResInitInv DEF Init, ResInit
<1>2. TInv /\ ResInv /\ [Next]_vars => TInv' /\ ResInv'
  <2> SUFFICES ASSUME TInv, ResInv, [Next]_vars PROVE TInv' /\ ResInv'
    OBVIOUS
  <2>1. CASE ResNext
    <3>1. TInv'
      BY <2>1, ResTicketer, TicketerTInv
    <3> QED
      BY <2>1, <3>1, ResNextKeeps
  <2>2. CASE UNCHANGED resVars
    <3>1. UNCHANGED ticketerVars /\ UNCHANGED <<config, client, server, conn, sessions, uses>>
      BY <2>2 DEF resVars
    <3>2. TInv' /\ call' = call /\ clock' = clock
      BY <3>1, TicketerTInv DEF ticketerVars
    <3>3. View' = View
      BY <3>1, <3>2 DEF View
    <3>4. ResInv'
      BY <3>1, <3>2, <3>3 DEF ResInv, ResTypes, ConnsOk, CallsOk, UsesOk
    <3> QED
      BY <3>2, <3>4
  <2> QED
    BY <2>1, <2>2 DEF Next, vars
<1> QED
  BY <1>1, <1>2, PTL DEF Spec

\* No store leaks a slot or forgets where it put one, for any capacities and
\* any connections (limited_cache.rs 35-115).
THEOREM StoresStayExact == Spec => []StoresExact
<1>1. ResInv => StoresExact
  BY DEF ResInv, ResTypes, ClientOk, CacheOf, StoresExact
<1> QED
  BY <1>1, StoresInv, PTL

\* Whatever is resumed, both sides have the same secret (client/tls12.rs
\* 958-995, server/tls12.rs 130-165, 779-810).
THEOREM ResumptionAgrees == Spec => []SecretsAgree
<1>1. ResInv => SecretsAgree
  BY Zenon DEF ResInv, ConnsOk, ConnOk, SecretsAgree
<1> QED
  BY <1>1, StoresInv, PTL

\* Early data is accepted exactly when it is fresh, for every age_add and every
\* modulus that the lifetimes fit in, and no session is resumed from the cache
\* twice (persist.rs 42-49, 380-399; server/tls13.rs 133-148).
THEOREM EarlyDataIsFresh == Spec => []EarlyDataFresh
<1>1. TInv /\ ResInv => EarlyDataFresh
  <2> SUFFICES ASSUME TInv, ResInv PROVE EarlyDataFresh
    OBVIOUS
  <2>1. View.stateless = config.stateless
    BY DEF View
  <2>2. \A t \in Conns : conn[t].pc = "replied" /\ conn[t].resumed # None =>
          (conn[t].early <=> ~config.stateless /\ conn[t].delay <= MaxSkew)
    BY <2>1, Zenon DEF ResInv, ConnsOk, ConnOk
  <2>3. \A n \in DOMAIN uses : uses[n] <= 1
    BY DEF ResInv, ResTypes, UsesOk
  <2> QED
    BY <2>2, <2>3 DEF EarlyDataFresh
<1> QED
  BY <1>1, StoresInv, PTL

\* Every certificate handed out is the connection's own, for any number of
\* connections, hosts and any capacity (server_rustls.rs 193-265).
THEOREM CertificatesAreOwn == Spec => []CertOwn
<1>1. Init => CertInv
  <2> SUFFICES ASSUME Init PROVE CertInv
    OBVIOUS
  <2>1. /\ certs = <<>> /\ generated = 0 /\ request = [r \in Requests |-> [pc |-> "idle"]]
    BY DEF Init, CertInit
  <2>2. Templates(certs) /\ Len(certs) <= CertCapacity
    BY <2>1, CertAssumption DEF Templates
  <2>3. \A r \in Requests : RequestOk(r, request[r])
    BY <2>1 DEF RequestOk
  <2> QED
    BY <2>1, <2>2, <2>3 DEF CertInv
<1>2. CertInv /\ [Next]_vars => CertInv'
  <2> SUFFICES ASSUME CertInv, [Next]_vars PROVE CertInv'
    OBVIOUS
  <2>1. CASE UNCHANGED certVars
    BY <2>1 DEF certVars, CertInv
  <2>2. CASE CertNext
    BY <2>2, CertStep
  <2> QED
    BY <2>1, <2>2 DEF Next, vars, certVars
<1>3. CertInv => CertOwn
  <2> SUFFICES ASSUME CertInv PROVE CertOwn
    OBVIOUS
  <2>1. DOMAIN certs = 1 .. Len(certs)
    BY LenProperties DEF CertInv, Templates
  <2> QED
    BY <2>1 DEF CertInv, CertOwn, Templates, RequestOk
<1> QED
  BY <1>1, <1>2, <1>3, PTL DEF Spec
=============================================================================
