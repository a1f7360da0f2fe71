------------------------------ MODULE CertCache ------------------------------
(***************************************************************************)
(* CERT_CACHE and generate_reality_cert of server_rustls.rs: connections   *)
(* that were authenticated get a certificate for the configured host,      *)
(* made from a template that is shared through an LRU cache and signed     *)
(* with the connection's own authentication key.  The lock is released     *)
(* while a missing template is generated.                                  *)
(***************************************************************************)
EXTENDS Integers, Sequences

CONSTANTS Requests,     \* connections; each has an authentication key of its own
          Hosts,
          CertCapacity, \* 100 in the code
          MaxTemplates  \* bound: key pairs generated

ASSUME CertAssumption == CertCapacity \in Nat \ {0} /\ MaxTemplates \in Nat

VARIABLES certs,        \* the LRU cache, most recently used first
          poisoned,     \* a thread panicked while it held the lock
          request,      \* what each connection is doing
          generated     \* key pairs generated so far

certVars == <<certs, poisoned, request, generated>>

\* Where the cache has the template for a host, that template, and the rest.
At(host) == {i \in DOMAIN certs : certs[i].host = host}
Cached(host) == certs[CHOOSE i \in At(host) : TRUE]
Others(host) ==
    LET i == CHOOSE i \in At(host) : TRUE
    IN IF At(host) = {} THEN certs ELSE SubSeq(certs, 1, i - 1) \o SubSeq(certs, i + 1, Len(certs))
Touch(e) == <<e>> \o Others(e.host)
\* A new one that finds the cache full takes the place of the one used longest ago.
Put(e) == IF Len(Touch(e)) > CertCapacity THEN SubSeq(Touch(e), 1, CertCapacity) ELSE Touch(e)

Asking(host) == [pc |-> "generate", host |-> host]
\* The signature that ends the template is overwritten in a copy of it.
Signed(r, template) ==
    [pc |-> "done", host |-> request[r].host, cert |-> template.host, pub |-> template.pub,
     priv |-> template.priv, sig |-> <<r, template.pub>>]

CertInit ==
    /\ certs = <<>> /\ poisoned = FALSE /\ generated = 0
    /\ request = [r \in Requests |-> [pc |-> "idle"]]

\* 1. Look for the template.  A poisoned lock empties the cache, and stays poisoned.
Lookup(r, host) ==
    /\ request[r].pc = "idle"
    /\ LET hit == ~poisoned /\ At(host) # {}
       IN /\ certs' = IF poisoned THEN <<>> ELSE IF hit THEN Touch(Cached(host)) ELSE certs
          /\ request' = [request EXCEPT ![r] = IF hit THEN [pc |-> "sign", host |-> host, template |-> Cached(host)]
                                               ELSE Asking(host)]
    /\ UNCHANGED <<poisoned, generated>>
\* 2. Generate one, and store it for the others.
GenerateTemplate_KeepsFirst(r) ==
    /\ request[r].pc = "generate" /\ generated < MaxTemplates
    /\ LET host == request[r].host
           mine == [host |-> host, pub |-> generated + 1, priv |-> generated + 1]
           kept == IF At(host) # {} THEN [Cached(host) EXCEPT !.priv = mine.priv] ELSE mine
       IN /\ generated' = generated + 1
          /\ certs' = IF At(host) # {} THEN certs ELSE Put(mine)
          /\ request' = [request EXCEPT ![r] = [pc |-> "sign", host |-> host, template |-> kept]]
    /\ UNCHANGED poisoned
GenerateTemplate(r) ==
    /\ request[r].pc = "generate" /\ generated < MaxTemplates
    /\ LET template == [host |-> request[r].host, pub |-> generated + 1, priv |-> generated + 1]
       IN /\ generated' = generated + 1
          /\ certs' = Put(template)
          /\ request' = [request EXCEPT ![r] = [pc |-> "sign", host |-> template.host, template |-> template]]
    /\ UNCHANGED poisoned
GenerationFails(r) ==
    /\ request[r].pc = "generate"
    /\ request' = [request EXCEPT ![r] = [pc |-> "idle"]]
    /\ UNCHANGED <<certs, poisoned, generated>>
\* 3. Sign the copy.
Sign(r) ==
    /\ request[r].pc = "sign"
    /\ request' = [request EXCEPT ![r] = Signed(r, request[r].template)]
    /\ UNCHANGED <<certs, poisoned, generated>>
\* The handshake uses the certificate, and another connection takes the slot.
Serve(r) ==
    /\ request[r].pc = "done"
    /\ request' = [request EXCEPT ![r] = [pc |-> "idle"]]
    /\ UNCHANGED <<certs, poisoned, generated>>
\* A thread that panics while it holds the lock.
Poison ==
    /\ ~poisoned
    /\ poisoned' = TRUE
    /\ UNCHANGED <<certs, request, generated>>

CertNext ==
    \/ \E r \in Requests :
         \/ \E host \in Hosts : Lookup(r, host)
         \/ GenerateTemplate(r) \/ GenerationFails(r) \/ Sign(r) \/ Serve(r)
    \/ Poison

(***************************************************************************)
(* Properties.                                                             *)
(***************************************************************************)
\* Whatever other connections put into the cache or drop from it meanwhile,
\* the certificate a connection is given is for its inbound's dest host, goes
\* with the private key it is given, and carries a signature by the
\* connection's own key (server_rustls.rs 193-265); and a host has one
\* template in the cache at most, which never grows past its capacity.
CertOwn ==
    /\ \A r \in Requests : request[r].pc = "done" =>
         /\ request[r].cert = request[r].host
         /\ request[r].priv = request[r].pub
         /\ request[r].sig = <<r, request[r].pub>>
    /\ \A i, j \in DOMAIN certs : certs[i].host = certs[j].host => i = j
    /\ Len(certs) <= CertCapacity
=============================================================================
