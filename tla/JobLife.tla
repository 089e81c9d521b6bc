----------------------------- MODULE JobLife -----------------------------
(***************************************************************************)
(* The life of a job as its owner sees it: it runs, may be cancelled, gets *)
(* one terminal status, and then closes its finished channel, which is     *)
(* what Stop waits for.  Module Job implements this, fairness included; in *)
(* module Registry every job takes these steps.                            *)
(***************************************************************************)
EXTENDS Tick

VARIABLES
    status,     \* Job.status
    cancelled,  \* whether the job's context is done
    finished    \* whether Job.finished is closed

lifeVars == <<status, cancelled, finished>>

Init == status = "RUNNING" /\ cancelled = FALSE /\ finished = FALSE

\* Somebody stops the job, or the worker itself releases the context.
Cancel ==
    /\ ~ cancelled
    /\ cancelled' = TRUE
    /\ UNCHANGED <<status, finished>>

\* The job ends; it is stopped only if somebody asked for that.
End(s) ==
    /\ status = "RUNNING"
    /\ s = "STOPPED" => cancelled
    /\ status' = s
    /\ UNCHANGED <<cancelled, finished>>

\* The channel is closed once the status can be read.
Close ==
    /\ status # "RUNNING" /\ ~ finished
    /\ finished' = TRUE
    /\ UNCHANGED <<status, cancelled>>

Work == (\E s \in TerminalStatuses : End(s)) \/ Close

Next == Cancel \/ Work

Spec == Init /\ [][Next]_lifeVars

\* Work goes on until finished is closed, with nobody's help.
FairSpec == Spec /\ WF_lifeVars(Work)
=============================================================================
