--------------------------- MODULE MCH2Connection ---------------------------
(* Instances of H2Connection for TLC. *)
EXTENDS H2Connection
=============================================================================
