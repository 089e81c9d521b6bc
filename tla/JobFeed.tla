----------------------------- MODULE JobFeed -----------------------------
(***************************************************************************)
(* What a job promises its users, with no goroutine, lock, channel or      *)
(* cursor in sight.  The job counts down in a log and ends it with one     *)
(* sentinel; a reader is given the log from its first tick, one tick at a  *)
(* time, and is done behind the sentinel; a Stop call is answered with the *)
(* status the job ended in.                                                *)
(***************************************************************************)
EXTENDS Tick, Sequences

CONSTANTS Readers, Stoppers

VARIABLES
    count,    \* what the job counts down from
    status,   \* the job's status
    log,      \* the ticks published so far
    given,    \* the ticks each reader was given
    outcome,  \* "open", "complete" (sentinel given) or "left", per reader
    answer    \* what each Stop call returned, "NONE" before it does

feedVars == <<count, status, log, given, outcome, answer>>

Init ==
    /\ count \in Nat \ {0}
    /\ status = "RUNNING"
    /\ log = << >>
    /\ given = [r \in Readers |-> << >>]
    /\ outcome = [r \in Readers |-> "open"]
    /\ answer = [s \in Stoppers |-> "NONE"]

\* The next number of the countdown is published.
Publish ==
    /\ status = "RUNNING"
    /\ Len(log) < count
    /\ log' = Append(log, Progress(count - Len(log)))
    /\ UNCHANGED <<count, status, given, outcome, answer>>

\* The job ends; it completes only when it has counted down.
End(s) ==
    /\ status = "RUNNING"
    /\ s = "COMPLETED" => Len(log) = count
    /\ status' = s
    /\ log' = Append(log, Sentinel(s))
    /\ UNCHANGED <<count, given, outcome, answer>>

\* An open reader is given the next tick, and is complete if it is terminal;
\* a reader may leave with that tick or while it waits for one.
Give(r) ==
    /\ outcome[r] = "open"
    /\ Len(given[r]) < Len(log)
    /\ given' = [given EXCEPT ![r] = Append(@, log[Len(@) + 1])]
    /\ \/ outcome' = [outcome EXCEPT ![r] = IF IsTerminal(log[Len(given[r]) + 1])
                                            THEN "complete" ELSE "open"]
       \/ outcome' = [outcome EXCEPT ![r] = "left"]
    /\ UNCHANGED <<count, status, log, answer>>

Leave(r) ==
    /\ outcome[r] = "open"
    /\ outcome' = [outcome EXCEPT ![r] = "left"]
    /\ UNCHANGED <<count, status, log, given, answer>>

\* A Stop call returns, once the job has ended.
Answer(s) ==
    /\ answer[s] = "NONE"
    /\ status # "RUNNING"
    /\ answer' = [answer EXCEPT ![s] = status]
    /\ UNCHANGED <<count, status, log, given, outcome>>

Next ==
    \/ Publish
    \/ \E s \in TerminalStatuses : End(s)
    \/ \E r \in Readers : Give(r) \/ Leave(r)
    \/ \E s \in Stoppers : Answer(s)

Spec == Init /\ [][Next]_feedVars
=============================================================================
