----------------------------- MODULE MCBundle -----------------------------
(* Certificates for module Bundle. *)
EXTENDS Bundle

\* The second root is the first to expire.
Expiries == [c \in {"root", "brief"} |-> IF c = "root" THEN 2 ELSE 1]
=============================================================================
