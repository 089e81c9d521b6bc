---------------------------- MODULE MCRegistry ----------------------------
(* The registry's instance is given by its configuration alone. *)
EXTENDS Registry
=============================================================================
