----------------------------- MODULE MCServer -----------------------------
(* Model-checking instances of Server. *)
EXTENDS Server, TLC

Symmetry == Permutations(Agents) \cup Permutations(Calls)

\* How fizzled may be started; most of it does not get as far as serving.
AllConfigs == [flags : {"ok", "help", "bad"}, operands : {0, 1}, usable : BOOLEAN]
GoodConfigs == [flags : {"ok"}, operands : {0}, usable : {TRUE}]
=============================================================================
