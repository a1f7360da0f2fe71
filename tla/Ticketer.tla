------------------------------ MODULE Ticketer ------------------------------
(***************************************************************************)
(* TicketSwitcher (ticketer.rs): the keys that seal session tickets, used  *)
(* by every connection and rotated by whichever of them comes first.  The  *)
(* lock is released while a new key is generated, and the generator may    *)
(* fail.                                                                   *)
(***************************************************************************)
EXTENDS Integers, Sequences

CONSTANTS Conns,    \* connections, each on a thread that may be anywhere in a call
          Lifetime  \* of a key, in seconds

ASSUME LifetimeAssumption == Lifetime \in Nat

VARIABLES clock,    \* UnixTime::now
          switcher, \* TicketSwitcherState
          keys,     \* keys generated so far; a key is its number
          call,     \* where each connection is in maybe_roll
          sealed    \* history: [key, at] of tickets handed out; dropped after a lifetime

ticketerVars == <<clock, switcher, keys, call, sealed>>

None == <<>>
Some(x) == <<x>>

\* seals: the call is encrypt, which hands out a ticket; decrypt otherwise.
NoCall == [step |-> "none", seals |-> FALSE, now |-> 0, fresh |-> <<>>]
\* encrypt and decrypt read the clock before they ask for the lock.
Call(t, seals) ==
    /\ call[t].step = "none"
    /\ call' = [call EXCEPT ![t] = [step |-> "roll", seals |-> seals, now |-> clock, fresh |-> <<>>]]
    /\ UNCHANGED <<clock, switcher, keys, sealed>>

\* The rest of encrypt, under the guard that maybe_roll returned: the ticket is
\* sealed with the current key.  Decrypt tries the current key and the previous one.
Use(t, st) ==
    /\ call' = [call EXCEPT ![t] = NoCall]
    /\ sealed' = IF call[t].seals THEN sealed \cup {[key |-> st.current, at |-> call[t].now]} ELSE sealed
Opens(st, ticket) == ticket.key = st.current \/ st.previous = Some(ticket.key)

Switch(st, next, key, now) ==
    [next |-> next, current |-> key, previous |-> Some(st.current), nextSwitch |-> now + Lifetime]
\* maybe_roll, first time under the lock: no switch is due; or the next key
\* becomes current; or there is none, and two have to be generated.
MaybeRoll(t) ==
    /\ call[t].step = "roll"
    /\ IF call[t].now <= switcher.nextSwitch
       THEN Use(t, switcher) /\ UNCHANGED switcher
       ELSE /\ switcher' = IF switcher.next = None THEN switcher
                           ELSE Switch(switcher, None, switcher.next[1], call[t].now)
            /\ call' = [call EXCEPT ![t].step = IF switcher.next = None THEN "recover" ELSE "generate"]
            /\ UNCHANGED sealed
    /\ UNCHANGED <<clock, keys>>
\* The generator runs outside the lock, and may fail: the caller gets None.
Generate(t) ==
    /\ call[t].step \in {"generate", "recover"}
    /\ keys' = keys + 1
    /\ LET fresh == Append(call[t].fresh, keys + 1)
           enough == call[t].step = "generate" \/ Len(fresh) = 2
       IN call' = [call EXCEPT ![t] = [step |-> IF enough THEN "relock" ELSE call[t].step, seals |-> call[t].seals,
                                       now |-> call[t].now, fresh |-> fresh]]
    /\ UNCHANGED <<clock, switcher, sealed>>
GeneratorFails(t) ==
    /\ call[t].step \in {"generate", "recover"}
    /\ call' = [call EXCEPT ![t] = NoCall]
    /\ UNCHANGED <<clock, switcher, keys, sealed>>
\* maybe_roll, second time under the lock.  One that recovers looks again
\* whether the switch is still due.
Relocked_NoRecheck(c) ==
    IF Len(c.fresh) = 2 THEN Switch(switcher, Some(c.fresh[1]), c.fresh[2], c.now)
    ELSE [switcher EXCEPT !.next = Some(c.fresh[1])]
Relocked(c) ==
    IF Len(c.fresh) = 2 /\ c.now > switcher.nextSwitch THEN Switch(switcher, Some(c.fresh[1]), c.fresh[2], c.now)
    ELSE [switcher EXCEPT !.next = Some(c.fresh[1])]
Relock(t) ==
    /\ call[t].step = "relock"
    /\ switcher' = Relocked(call[t])
    /\ Use(t, Relocked(call[t]))
    /\ UNCHANGED <<clock, keys>>

Tick ==
    /\ clock' = clock + 1
    /\ sealed' = { x \in sealed : clock' <= x.at + Lifetime }
    /\ UNCHANGED <<switcher, keys, call>>

TicketerInit ==
    /\ clock = 0 /\ keys = 2 /\ sealed = {}
    /\ switcher = [next |-> Some(1), current |-> 2, previous |-> None, nextSwitch |-> Lifetime]
    /\ call = [t \in Conns |-> NoCall]
TicketerNext ==
    \/ \E t \in Conns :
         \/ \E seals \in BOOLEAN : Call(t, seals)
         \/ MaybeRoll(t) \/ Generate(t) \/ GeneratorFails(t) \/ Relock(t)
    \/ Tick
TicketerSpec == TicketerInit /\ [][TicketerNext]_ticketerVars

\* The key of a ticket is held for at least one lifetime after the call that
\* sealed it, however the threads that rotate the keys interleave, however long
\* they wait with the time they read, and whenever the generator fails
\* (ticketer.rs 65-134).  (A decrypt that rotates and whose generator fails
\* opens nothing, but loses no key.)
TicketsOutlive ==
    \A x \in sealed : clock <= x.at + Lifetime => Opens(switcher, x)
=============================================================================
