------------------------------ MODULE MCJob ------------------------------
(* The job's instance is given by its configuration alone. *)
EXTENDS Job
=============================================================================
