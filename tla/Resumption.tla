----------------------------- MODULE Resumption -----------------------------
(***************************************************************************)
(* What lets a later TLS connection resume an earlier one, while several   *)
(* connections run at once and time passes: the client's session store,    *)
(* the server's session cache, the rotating ticket keys, and the expiry    *)
(* and freshness rules (client/handy.rs, server/handy.rs, ticketer.rs,     *)
(* msgs/persist.rs and the places of the handshakes that call them).  The  *)
(* handshakes themselves are in TlsHandshake; here a connection is the     *)
(* calls it makes on the stores, each under one acquisition of its lock.   *)
(***************************************************************************)
EXTENDS LimitedCache, Ticketer

CONSTANTS ServerCapacity,   \* slots of the server's cache (256 by default)
          ClientCapacity,   \* slots of the client's store (server names)
          MaxTickets,       \* MAX_TLS13_TICKETS_PER_SERVER, 8
          StatefulLifetime, \* of a session kept by the server, 24 h
          MaxTicketLifetime,\* MAX_TICKET_LIFETIME, 7 days
          MaxSkew,          \* MAX_FRESHNESS_SKEW_MS
          AgeModulus,       \* 2^32: ticket ages are u32 and wrap
          Configs           \* [vers, stateless, ageAdd, names]: versions spoken, tickets sealed
                            \* or kept, the age_add drawn, names connected to; and the bounds
                            \* it is explored to: parallel connections, sessions, keys, clock

ASSUME ResumptionAssumption ==
    /\ {ServerCapacity, ClientCapacity, MaxTickets, AgeModulus} \subseteq Nat \ {0}
    /\ {StatefulLifetime, MaxTicketLifetime} \subseteq Nat \ {0} /\ MaxSkew \in Nat
    /\ MaxTicketLifetime + MaxSkew < AgeModulus - 1    \* 7 days and a minute, in 49 days
    /\ Configs # {}
    /\ \A c \in Configs : /\ c.ageAdd \in 0 .. AgeModulus - 1 /\ c.sessions \in Nat
                          /\ c.stateless \in BOOLEAN /\ c.vers \subseteq {"12", "13"}

VARIABLES config,   \* the configuration, which never changes
          client,   \* ClientSessionMemoryCache
          server,   \* ServerSessionMemoryCache
          conn,     \* what each connection is doing
          sessions, \* sessions created so far
          uses      \* history: how often each session of the cache was resumed

resVars == <<ticketerVars, config, client, server, conn, sessions, uses>>

Least(a, b) == IF a < b THEN a ELSE b
Distance(a, b) == IF a < b THEN b - a ELSE a - b

(***************************************************************************)
(* Stored sessions (msgs/persist.rs).                                      *)
(***************************************************************************)
\* ServerSessionValue::new.  The time and the offset are kept where the
\* freshness they are for is asked: with TLS 1.3 sessions of the cache.
ServerValue(secret, timed) ==
    [secret |-> secret, created |-> IF timed THEN clock ELSE 0, ageAdd |-> IF timed THEN config.ageAdd ELSE 0]
\* ClientSessionCommon::new: the age counts from the moment of receipt.
ClientValue(ver, id, ticket, value, lifetime) ==
    [ver |-> ver, id |-> id, ticket |-> ticket, secret |-> value.secret, ageAdd |-> value.ageAdd,
     epoch |-> clock, lifetime |-> Least(lifetime, MaxTicketLifetime)]
Tls13ClientSession(c, lifetime) == ClientValue("13", c.id, c.ticket, c.value[1], lifetime)
Tls12ClientSession(id, ticket, value, lifetime) == ClientValue("12", id, ticket, value, lifetime)
HasExpired(s, now) == s.lifetime # 0 /\ s.epoch + s.lifetime < now
ObfuscatedTicketAge(s, now) == ((now - s.epoch) + s.ageAdd) % AgeModulus
SetFreshness_OneSided(value, age, now) ==
    LET clientAge == (age - value.ageAdd) % AgeModulus
    IN Least(now - value.created, AgeModulus - 1) - clientAge >= 0
SetFreshness(value, age, now) ==
    LET clientAge == (age - value.ageAdd) % AgeModulus
        serverAge == Least(now - value.created, AgeModulus - 1)
    IN Distance(clientAge, serverAge) <= MaxSkew

(***************************************************************************)
(* The client's store (client/handy.rs).                                   *)
(***************************************************************************)
ServerData == [kxHint |-> FALSE, tls12 |-> None, tls13 |-> <<>>]
DataOf(c, name) == GetOrDefault(c, name, ServerData)
SetKxHint(c, name) == CacheInsert(c, name, [DataOf(c, name) EXCEPT !.kxHint = TRUE])
SetTls12Session(c, name, s) == CacheInsert(c, name, [DataOf(c, name) EXCEPT !.tls12 = Some(s)])
RemoveTls12Session(c, name) == GetMut(c, name, [DataOf(c, name) EXCEPT !.tls12 = None])
Tls12Session(c, name) == IF Has(c, name) THEN c.map[name].tls12 ELSE None
\* A full queue drops its oldest ticket; the newest is taken first.
InsertTls13Ticket(c, name, s) ==
    LET d == DataOf(c, name)
        kept == IF Len(d.tls13) = MaxTickets THEN Tail(d.tls13) ELSE d.tls13
    IN CacheInsert(c, name, [d EXCEPT !.tls13 = Append(kept, s)])
Tls13Ticket(c, name) ==
    IF Has(c, name) /\ c.map[name].tls13 # <<>> THEN Some(c.map[name].tls13[Len(c.map[name].tls13)]) ELSE None
TakeTls13Ticket(c, name) ==
    LET d == DataOf(c, name)
    IN GetMut(c, name, IF d.tls13 = <<>> THEN d ELSE [d EXCEPT !.tls13 = SubSeq(d.tls13, 1, Len(d.tls13) - 1)])

(***************************************************************************)
(* The server's store (server/handy.rs): taking a session removes it.      *)
(***************************************************************************)
NewServerCache == NewCache(ServerCapacity)
PutSession(c, id, value) == CacheInsert(c, id, value)
GetSession(c, id) == CacheGet(c, id)
TakeSession(c, id) == CacheRemove(c, id)

(***************************************************************************)
(* Connections.  The fields a step no longer needs are reset.              *)
(***************************************************************************)
Idle == [pc |-> "idle", name |-> "", ver |-> "", offer |-> None, at |-> 0, resumed |-> None, early |-> FALSE,
         delay |-> 0, id |-> None, value |-> None, ticket |-> None]
Set(t, c) == conn' = [conn EXCEPT ![t] = c]
Offers(c) == c.offer # None /\ c.offer[1].ver = c.ver
OffersTicket(c) == Offers(c) /\ c.offer[1].ticket # None

\* find_session: a TLS 1.3 ticket is taken out of the store, a TLS 1.2
\* session is left in it; one that has expired is not offered.
FindSession(t, name, ver) ==
    /\ conn[t].pc = "idle" /\ Cardinality({u \in Conns : conn[u].pc # "idle"}) < config.parallel
    /\ LET taken == Tls13Ticket(client, name)
           found == IF taken # None THEN taken ELSE Tls12Session(client, name)
           usable == found # None /\ ~HasExpired(found[1], clock)
       IN Set(t, [Idle EXCEPT !.pc = "hello", !.name = name, !.ver = ver,
                               !.offer = IF usable THEN found ELSE None, !.at = IF usable THEN clock ELSE 0])
    /\ client' = TakeTls13Ticket(client, name)
    /\ UNCHANGED <<config, server, sessions, uses, ticketerVars>>

\* What the server makes of the value it found for the offer.  Early data
\* needs a session of the cache and a fresh hello.
Decided(c, found) ==
    LET base == [c EXCEPT !.pc = IF c.ver = "13" THEN "replied" ELSE "finishing", !.at = 0, !.resumed = found]
    IN IF found = None \/ c.ver = "12" \/ config.stateless THEN base
       ELSE [base EXCEPT !.early = SetFreshness(found[1], ObfuscatedTicketAge(c.offer[1], c.at), clock),
                         !.delay = (c.offer[1].epoch - found[1].created) + (clock - c.at)]
\* attempt_tls13_ticket_decryption and its TLS 1.2 counterpart: a ticket is
\* opened; otherwise a session of the cache is taken (1.3) or copied (1.2).
ReceiveHello(t) ==
    /\ conn[t].pc = "hello"
    /\ LET c == conn[t]
           byId == Offers(c) /\ ~OffersTicket(c)
           found == IF byId THEN GetSession(server, c.offer[1].id[1]) ELSE None
           takes == found # None /\ c.ver = "13"
       IN /\ IF OffersTicket(c) THEN Call(t, FALSE) /\ Set(t, [c EXCEPT !.pc = "opening"])
             ELSE Set(t, Decided(c, found)) /\ UNCHANGED ticketerVars
          /\ server' = IF takes THEN TakeSession(server, c.offer[1].id[1]) ELSE server
          /\ uses' = IF takes THEN [uses EXCEPT ![c.offer[1].id[1]] = @ + 1] ELSE uses
    /\ UNCHANGED <<config, client, sessions>>

\* The client has the TLS 1.3 server's flight: it notes the group, and
\* forgets the TLS 1.2 session it may have with this name.
ClientFinishes(t) ==
    /\ conn[t].pc = "replied"
    /\ client' = RemoveTls12Session(SetKxHint(client, conn[t].name), conn[t].name)
    /\ Set(t, [conn[t] EXCEPT !.pc = "finishing", !.early = FALSE, !.delay = 0])
    /\ UNCHANGED <<config, server, sessions, uses, ticketerVars>>

\* emit_ticket of both versions.  A TLS 1.3 ticket has a secret of its own; a
\* resumed TLS 1.2 connection keeps its secret.  The cache keeps the session
\* under a new id, unless TLS 1.2 resumes or was offered a ticket.
ServerFinished(t) ==
    /\ conn[t].pc = "finishing" /\ sessions < config.sessions
    /\ LET c == conn[t]
           n == sessions + 1
           value == ServerValue(IF c.ver = "12" /\ c.resumed # None THEN c.resumed[1].secret ELSE n,
                                c.ver = "13" /\ ~config.stateless)
           stored == IF c.ver = "13" THEN ~config.stateless ELSE c.resumed = None /\ ~OffersTicket(c)
           id == IF stored THEN Some(n) ELSE None
       IN /\ server' = IF stored THEN PutSession(server, n, value) ELSE server
          /\ Set(t, [c EXCEPT !.pc = IF config.stateless THEN "sealing" ELSE "ticket", !.id = id,
                              !.value = Some(value)])
          /\ IF config.stateless THEN Call(t, TRUE) ELSE UNCHANGED ticketerVars
    /\ sessions' = sessions + 1
    /\ UNCHANGED <<config, client, uses>>

\* handle_new_ticket_tls13.
ReceiveTicket13(t) ==
    /\ conn[t].pc = "ticket" /\ conn[t].ver = "13"
    /\ LET c == conn[t]
           lifetime == IF config.stateless THEN 2 * Lifetime ELSE StatefulLifetime
       IN client' = InsertTls13Ticket(client, c.name, Tls13ClientSession(c, lifetime))
    /\ Set(t, Idle)
    /\ UNCHANGED <<config, server, sessions, uses, ticketerVars>>
\* save_session: a resumed connection that got no new ticket saves the old
\* one again, with the id made up for it (0 here).  Without an id and a ticket
\* nothing is saved.
SavedTicket12_AfterFull(c) == IF c.ticket = None /\ OffersTicket(c) THEN c.offer[1].ticket ELSE c.ticket
SavedTicket12(c) == IF c.ticket = None /\ c.resumed # None THEN c.offer[1].ticket ELSE c.ticket
SaveSession12(t) ==
    /\ conn[t].pc = "ticket" /\ conn[t].ver = "12"
    /\ LET c == conn[t]
           id == IF c.resumed = None THEN c.id ELSE IF OffersTicket(c) THEN Some(0) ELSE c.offer[1].id
           lifetime == IF config.stateless THEN 2 * Lifetime ELSE 0
           kept == IF c.resumed # None THEN [c.value[1] EXCEPT !.secret = c.offer[1].secret] ELSE c.value[1]
           saved == Tls12ClientSession(id, SavedTicket12(c), kept, lifetime)
       IN client' = IF id = None /\ saved.ticket = None THEN client ELSE SetTls12Session(client, c.name, saved)
    /\ Set(t, Idle)
    /\ UNCHANGED <<config, server, sessions, uses, ticketerVars>>
\* A connection is lost, with what was in flight.
Abort(t) ==
    /\ conn[t].pc \in {"hello", "replied", "finishing", "ticket"}
    /\ Set(t, Idle)
    /\ UNCHANGED <<config, client, server, sessions, uses, ticketerVars>>

(***************************************************************************)
(* Calls of the ticketer, and what their callers do with the answer.       *)
(***************************************************************************)
Sent(c, ticket) == [c EXCEPT !.pc = "ticket", !.ticket = ticket]
\* The call returns under the state of the keys after this step.
Answered(t) ==
    LET c == conn[t]
        ticket == c.offer[1].ticket[1]
    IN Set(t, IF c.pc = "sealing" THEN Sent(c, Some([key |-> switcher'.current, value |-> c.value]))
              ELSE Decided(c, IF Opens(switcher', ticket) THEN ticket.value ELSE None))
\* The call returns None.  TLS 1.3 then sends no ticket, TLS 1.2 an empty one.
Refused(t) ==
    LET c == conn[t]
    IN Set(t, IF c.pc = "opening" THEN Decided(c, None) ELSE IF c.ver = "13" THEN Idle ELSE Sent(c, None))
TicketerStep(t) ==
    /\ \/ /\ MaybeRoll(t) \/ Relock(t)
          /\ IF call'[t] = NoCall THEN Answered(t) ELSE UNCHANGED conn
       \/ Generate(t) /\ keys < config.keys /\ UNCHANGED conn
       \/ GeneratorFails(t) /\ Refused(t)
    /\ UNCHANGED <<config, client, server, sessions, uses>>

TimePasses ==
    /\ clock < config.clock
    /\ Tick
    /\ UNCHANGED <<config, client, server, conn, sessions, uses>>

ResInit ==
    /\ TicketerInit /\ config \in Configs
    /\ client = NewCache(ClientCapacity) /\ server = NewServerCache
    /\ conn = [t \in Conns |-> Idle]
    /\ sessions = 0 /\ uses = [n \in 1 .. config.sessions |-> 0]

ResNext ==
    \/ \E t \in Conns :
         \/ \E name \in config.names, ver \in config.vers : FindSession(t, name, ver)
         \/ ReceiveHello(t) \/ ClientFinishes(t) \/ ServerFinished(t)
         \/ ReceiveTicket13(t) \/ SaveSession12(t) \/ Abort(t)
         \/ TicketerStep(t)
    \/ TimePasses

(***************************************************************************)
(* Properties.                                                             *)
(***************************************************************************)
\* Whatever is evicted, taken or dropped, the keys a store remembers in order
\* are the sessions it holds: no slot leaks (limited_cache.rs 35-115).
StoresExact == Exact(client) /\ Exact(server)

\* Early data is accepted exactly when the ticket's and the hello's time on
\* the way add up to no more than the allowed skew, whatever age_add is and
\* wherever the u32 wraps (persist.rs 42-49, 380-399); and a TLS 1.3 session of
\* the server's cache is resumed once at most, which is what makes early data
\* safe to accept (server/tls13.rs 133-148, 642-644).
EarlyDataFresh ==
    /\ \A t \in Conns : conn[t].pc = "replied" /\ conn[t].resumed # None =>
         conn[t].early <=> ~config.stateless /\ conn[t].delay <= MaxSkew
    /\ \A n \in DOMAIN uses : uses[n] <= 1

\* When the server resumes, it has recovered the secret the client kept with
\* what it offered, through every way a session is saved, saved again, sealed
\* and found (client/tls12.rs 958-995, server/tls12.rs 130-165, 779-810).
SecretsAgree ==
    \A t \in Conns : conn[t].pc \in {"replied", "finishing", "ticket"} /\ conn[t].resumed # None =>
      conn[t].resumed[1].secret = conn[t].offer[1].secret
=============================================================================
