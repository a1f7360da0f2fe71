------------------------------- MODULE Stores -------------------------------
(***************************************************************************)
(* The stores that connections share: rustls' session stores and ticket    *)
(* keys, and the program's certificate cache.  The two share no lock and   *)
(* no data, so a behaviour is about one of them.                           *)
(***************************************************************************)
EXTENDS Resumption, CertCache

VARIABLE about

vars == <<resVars, certVars, about>>

Init ==
    /\ ResInit /\ CertInit
    /\ about \in {"sessions", "certs"}
    /\ about = "certs" => config = CHOOSE c \in Configs : TRUE

Next ==
    /\ UNCHANGED about
    /\ \/ about = "sessions" /\ ResNext /\ UNCHANGED certVars
       \/ about = "certs" /\ CertNext /\ UNCHANGED resVars

Spec == Init /\ [][Next]_vars
=============================================================================
