------------------------------- MODULE Tick -------------------------------
(***************************************************************************)
(* The statuses of a job and the ticks it emits (internal/worker/status.go *)
(* and tick.go).  Elapsed times and error texts are left out: nothing      *)
(* below depends on them.                                                  *)
(***************************************************************************)
EXTENDS Naturals

TerminalStatuses == {"COMPLETED", "STOPPED", "FAILED"}
Statuses == {"RUNNING"} \cup TerminalStatuses

Progress(n) == [kind |-> "progress", remaining |-> n]
Stopped == [kind |-> "stopped", remaining |-> 0]
PanicError == [kind |-> "panic", remaining |-> 0]

Ticks == [kind : {"progress", "stopped", "panic"}, remaining : Nat]

IsTerminal(tick) == tick.kind # "progress" \/ tick.remaining = 0

\* The terminal tick that announces a terminal status.
Sentinel(s) == IF s = "COMPLETED" THEN Progress(0)
               ELSE IF s = "STOPPED" THEN Stopped ELSE PanicError
=============================================================================
