------------------------------ MODULE MCStores ------------------------------
EXTENDS Stores, TLC

CONSTANTS t1, t2, h1, h2, h3, r1, r2

\* Each version with sealed tickets and with the cache, and a client that
\* speaks both.
MCConfigs ==
    LET C(vers, stateless, ageAdd, names, parallel, most, keyMost, end) ==
          [vers |-> vers, stateless |-> stateless, ageAdd |-> ageAdd, names |-> names, parallel |-> parallel,
           sessions |-> most, keys |-> keyMost, clock |-> end]
    IN { C({"13"}, FALSE, 0, {"a", "b"}, 2, 3, 2, 3), C({"13"}, FALSE, AgeModulus - 1, {"a"}, 2, 2, 2, 4),
         C({"13"}, TRUE, 0, {"a"}, 2, 2, 6, 4), C({"12"}, TRUE, 0, {"a"}, 2, 2, 4, 3),
         C({"12"}, TRUE, 0, {"a"}, 1, 3, 4, 4), C({"12", "13"}, FALSE, 0, {"a"}, 2, 2, 2, 3) }
MCSymmetry == Permutations(Conns)
=============================================================================
