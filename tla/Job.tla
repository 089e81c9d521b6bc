------------------------------- MODULE Job -------------------------------
(***************************************************************************)
(* One countdown job (internal/worker/job.go): the worker goroutine that   *)
(* counts down and ends the job, any number of goroutines ranging over     *)
(* Job.Ticks, and any number of goroutines calling Job.Stop.               *)
(*                                                                         *)
(* A step is what a goroutine does between two points at which another one *)
(* can observe it: a critical section of Job.mutex, a channel operation, a *)
(* call of yield.  A channel that is only ever closed is its identity and  *)
(* membership in the set of closed channels.                               *)
(***************************************************************************)
EXTENDS Integers, Sequences, Tick

CONSTANTS
    MaxCount,  \* the largest count NewJob accepts (100 in the code)
    Readers,   \* goroutines that range over Ticks
    Stoppers   \* goroutines that call Stop

ASSUME MaxCountAssumption == MaxCount \in Nat \ {0}

VARIABLES
    count,         \* the count the job was created with
    status,        \* Job.status
    ticks,         \* Job.ticks
    changed,       \* Job.changed: the identity of the current channel
    closedChans,   \* the channels of that kind that have been closed
    finished,      \* whether Job.finished is closed
    cancelled,     \* whether the job's context is done
    wpc,           \* where the worker goroutine is
    currentCount,  \* countdown's loop variable
    panicked,      \* whether countdown has recovered a panic
    auditLog,      \* the "job finished" records that reached the log
    rpc,           \* where each reader is
    cursor,        \* Ticks' cursor of each reader
    index,         \* position, in ticks, of the reader's next element of newTicks
    wait,          \* the channel each reader captured
    ctxDone,       \* whether each reader's context is done
    yielded,       \* history: the ticks each reader was given
    spc,           \* where each Stop call is
    result         \* what each Stop call returned

jobVars == <<count, status, ticks, changed, closedChans>>
workerVars == <<wpc, currentCount, panicked, auditLog>>
readerVars == <<rpc, cursor, index, wait, ctxDone, yielded>>
stopVars == <<spc, result>>
vars == <<jobVars, finished, cancelled, workerVars, readerVars, stopVars>>

----------------------------------------------------------------------------
(* NewJob has returned: the worker goroutine exists and has not run. *)

Init ==
    /\ count \in 1 .. MaxCount
    /\ status = "RUNNING"
    /\ ticks = << >>
    /\ changed = 0
    /\ closedChans = {}
    /\ finished = FALSE
    /\ cancelled = FALSE
    /\ wpc = "start"
    /\ currentCount = count
    /\ panicked = FALSE
    /\ auditLog = << >>
    /\ rpc = [r \in Readers |-> "idle"]
    /\ cursor = [r \in Readers |-> 0]
    /\ index = [r \in Readers |-> 0]
    /\ wait = [r \in Readers |-> 0]
    /\ ctxDone = [r \in Readers |-> FALSE]
    /\ yielded = [r \in Readers |-> << >>]
    /\ spc = [s \in Stoppers |-> "idle"]
    /\ result = [s \in Stoppers |-> "NONE"]

----------------------------------------------------------------------------
(* The worker goroutine: countdown. *)

\* Faulty variants: the superseded channel is not closed; it is closed but not
\* replaced.
ReportProgressUnsignalled(tick) ==
    /\ UNCHANGED <<count, status, closedChans>>
    /\ ticks' = Append(ticks, tick)
    /\ changed' = changed + 1

ReportProgressSameChannel(tick) ==
    /\ UNCHANGED <<count, status, changed>>
    /\ ticks' = Append(ticks, tick)
    /\ closedChans' = closedChans \cup {changed}

\* reportProgress: append, wake the readers, arm a fresh channel.
ReportProgress(tick) ==
    /\ count' = count
    /\ status' = status
    /\ IF status = "RUNNING"
       THEN /\ ticks' = Append(ticks, tick)
            /\ closedChans' = closedChans \cup {changed}
            /\ changed' = changed + 1
       ELSE UNCHANGED <<ticks, closedChans, changed>>

\* Faulty variants: no compare-and-set; the losing call logs as well; the
\* waiting readers are not signalled.
FinishWithoutCompare(terminalStatus, lastTick) ==
    /\ UNCHANGED <<count, changed>>
    /\ status' = terminalStatus
    /\ ticks' = Append(ticks, lastTick)
    /\ closedChans' = closedChans \cup {changed}
    /\ wpc' = "audit"

FinishLoserLogs(terminalStatus, lastTick) ==
    /\ UNCHANGED <<count, changed>>
    /\ \/ /\ status = "RUNNING"
          /\ status' = terminalStatus
          /\ ticks' = Append(ticks, lastTick)
          /\ closedChans' = closedChans \cup {changed}
       \/ /\ status # "RUNNING"
          /\ UNCHANGED <<status, ticks, closedChans>>
    /\ wpc' = "audit"

FinishUnsignalled(terminalStatus, lastTick) ==
    /\ status = "RUNNING"
    /\ UNCHANGED <<count, changed, closedChans>>
    /\ status' = terminalStatus
    /\ ticks' = Append(ticks, lastTick)
    /\ wpc' = "audit"

\* finish up to the audit line: the compare-and-set of setTerminal.  The winner
\* goes on to log the transition, the loser straight to the deferred calls.
Finish(terminalStatus, lastTick) ==
    /\ UNCHANGED <<count, changed>>
    /\ \/ /\ status = "RUNNING"
          /\ status' = terminalStatus
          /\ ticks' = Append(ticks, lastTick)
          /\ closedChans' = closedChans \cup {changed}
          /\ wpc' = "audit"
       \/ /\ status # "RUNNING"
          /\ UNCHANGED <<status, ticks, closedChans>>
          /\ wpc' = "close"

\* The first tick, before the loop.
ReportStart ==
    /\ wpc = "start"
    /\ ReportProgress(Progress(count))
    /\ currentCount' = count - 1
    /\ wpc' = "select"
    /\ UNCHANGED <<finished, cancelled, panicked, auditLog, readerVars, stopVars>>

\* Faulty variant: the last tick of the countdown is not told apart.
TimerTickPastZero ==
    /\ wpc = "select"
    /\ ReportProgress(Progress(currentCount))
    /\ currentCount' = currentCount - 1
    /\ UNCHANGED <<finished, cancelled, wpc, panicked, auditLog, readerVars, stopVars>>

\* The timer's branch of the select, which Go may take although the context is
\* done too.
TimerTick ==
    /\ wpc = "select"
    /\ ~ IsTerminal(Progress(currentCount))
    /\ ReportProgress(Progress(currentCount))
    /\ currentCount' = currentCount - 1
    /\ UNCHANGED <<finished, cancelled, wpc, panicked, auditLog, readerVars, stopVars>>

TimerComplete ==
    /\ wpc = "select"
    /\ IsTerminal(Progress(currentCount))
    /\ Finish("COMPLETED", Progress(currentCount))
    /\ UNCHANGED <<finished, cancelled, currentCount, panicked, auditLog, readerVars, stopVars>>

\* The ctx.Done branch of the select.
StopBranch ==
    /\ wpc = "select"
    /\ cancelled
    /\ Finish("STOPPED", Stopped)
    /\ UNCHANGED <<finished, cancelled, currentCount, panicked, auditLog, readerVars, stopVars>>

\* auditTransition writes the one line about the job's end.
AuditTransition ==
    /\ wpc = "audit"
    /\ auditLog' = Append(auditLog, status)
    /\ wpc' = "close"
    /\ UNCHANGED <<jobVars, finished, cancelled, currentCount, panicked, readerVars, stopVars>>

\* A panic anywhere in countdown is recovered by its deferred function, which
\* calls finish.  While the job runs it fails the job; out of the log handler,
\* before or after the record was written, it finds the transition taken.  (A
\* second panic, out of the recovery's own log call, ends the process.)
Panic ==
    /\ wpc \in {"start", "select", "audit"}
    /\ ~ panicked
    /\ panicked' = TRUE
    /\ auditLog' \in {auditLog} \cup (IF wpc = "audit" THEN {Append(auditLog, status)} ELSE {})
    /\ Finish("FAILED", PanicError)
    /\ UNCHANGED <<finished, cancelled, currentCount, readerVars, stopVars>>

\* Faulty variant: the first of the two deferred calls is missing.
CloseFinishedMissing ==
    /\ wpc = "close"
    /\ wpc' = "cancel"
    /\ UNCHANGED <<jobVars, finished, cancelled, currentCount, panicked, auditLog, readerVars, stopVars>>

\* The deferred close(finished), then the deferred cancel.
CloseFinished ==
    /\ wpc = "close"
    /\ finished' = TRUE
    /\ wpc' = "cancel"
    /\ UNCHANGED <<jobVars, cancelled, currentCount, panicked, auditLog, readerVars, stopVars>>

ReleaseContext ==
    /\ wpc = "cancel"
    /\ cancelled' = TRUE
    /\ wpc' = "done"
    /\ UNCHANGED <<jobVars, finished, currentCount, panicked, auditLog, readerVars, stopVars>>

WorkerStep ==
    \/ ReportStart \/ TimerTick \/ TimerComplete \/ StopBranch
    \/ AuditTransition \/ CloseFinished \/ ReleaseContext

\* The context NewJob was given is cancelled by its owner.
CancelParent ==
    /\ ~ cancelled
    /\ cancelled' = TRUE
    /\ UNCHANGED <<jobVars, finished, workerVars, readerVars, stopVars>>

----------------------------------------------------------------------------
(* A goroutine that ranges over Ticks. *)

OpenTicks(r) ==
    /\ rpc[r] = "idle"
    /\ rpc' = [rpc EXCEPT ![r] = "lock"]
    /\ UNCHANGED <<jobVars, finished, cancelled, workerVars, stopVars,
                   cursor, index, wait, ctxDone, yielded>>

\* Faulty variants: the cursor is one too far; every batch starts at the first
\* tick again.
CaptureOnePastEnd(r) ==
    /\ rpc[r] = "lock"
    /\ index' = [index EXCEPT ![r] = cursor[r] + 1]
    /\ cursor' = [cursor EXCEPT ![r] = Len(ticks) + 1]
    /\ wait' = [wait EXCEPT ![r] = changed]
    /\ rpc' = [rpc EXCEPT ![r] = IF cursor[r] < Len(ticks) THEN "yield" ELSE "select"]
    /\ UNCHANGED <<jobVars, finished, cancelled, workerVars, stopVars, ctxDone, yielded>>

CaptureFromFirst(r) ==
    /\ rpc[r] = "lock"
    /\ index' = [index EXCEPT ![r] = 1]
    /\ cursor' = [cursor EXCEPT ![r] = Len(ticks)]
    /\ wait' = [wait EXCEPT ![r] = changed]
    /\ rpc' = [rpc EXCEPT ![r] = IF cursor[r] < Len(ticks) THEN "yield" ELSE "select"]
    /\ UNCHANGED <<jobVars, finished, cancelled, workerVars, stopVars, ctxDone, yielded>>

\* The critical section: newTicks is ticks[cursor:], of which only the bounds
\* are kept, since the elements are read from the shared array after unlocking.
Capture(r) ==
    /\ rpc[r] = "lock"
    /\ index' = [index EXCEPT ![r] = cursor[r] + 1]
    /\ cursor' = [cursor EXCEPT ![r] = Len(ticks)]
    /\ wait' = [wait EXCEPT ![r] = changed]
    /\ rpc' = [rpc EXCEPT ![r] = IF cursor[r] < Len(ticks) THEN "yield" ELSE "select"]
    /\ UNCHANGED <<jobVars, finished, cancelled, workerVars, stopVars, ctxDone, yielded>>

\* One element of newTicks is yielded and the consumer goes on.
Yield(r) ==
    /\ rpc[r] = "yield"
    /\ yielded' = [yielded EXCEPT ![r] = Append(@, ticks[index[r]])]
    /\ index' = [index EXCEPT ![r] = @ + 1]
    /\ rpc' = [rpc EXCEPT ![r] = IF IsTerminal(ticks[index[r]]) THEN "terminal"
                                 ELSE IF index[r] = cursor[r] THEN "lock" ELSE "yield"]
    /\ UNCHANGED <<jobVars, finished, cancelled, workerVars, stopVars, cursor, wait, ctxDone>>

\* One element of newTicks is yielded and the consumer breaks out of its range.
YieldBreak(r) ==
    /\ rpc[r] = "yield"
    /\ yielded' = [yielded EXCEPT ![r] = Append(@, ticks[index[r]])]
    /\ index' = [index EXCEPT ![r] = @ + 1]
    /\ rpc' = [rpc EXCEPT ![r] = "broke"]
    /\ UNCHANGED <<jobVars, finished, cancelled, workerVars, stopVars, cursor, wait, ctxDone>>

\* The two branches of the reader's select.
WakeChanged(r) ==
    /\ rpc[r] = "select"
    /\ wait[r] \in closedChans
    /\ rpc' = [rpc EXCEPT ![r] = "lock"]
    /\ UNCHANGED <<jobVars, finished, cancelled, workerVars, stopVars,
                   cursor, index, wait, ctxDone, yielded>>

WakeDone(r) ==
    /\ rpc[r] = "select"
    /\ ctxDone[r]
    /\ rpc' = [rpc EXCEPT ![r] = "cancelled"]
    /\ UNCHANGED <<jobVars, finished, cancelled, workerVars, stopVars,
                   cursor, index, wait, ctxDone, yielded>>

\* The reader's context ends, before or while it reads.
EndContext(r) ==
    /\ ~ ctxDone[r]
    /\ ctxDone' = [ctxDone EXCEPT ![r] = TRUE]
    /\ UNCHANGED <<jobVars, finished, cancelled, workerVars, stopVars,
                   rpc, cursor, index, wait, yielded>>

ReaderStep(r) == Capture(r) \/ Yield(r) \/ WakeChanged(r) \/ WakeDone(r)

----------------------------------------------------------------------------
(* A goroutine that calls Stop: cancel, wait for finished, read the status. *)

StopCancel(s) ==
    /\ spc[s] = "idle"
    /\ cancelled' = TRUE
    /\ spc' = [spc EXCEPT ![s] = "wait"]
    /\ UNCHANGED <<jobVars, finished, workerVars, readerVars, result>>

StopWait(s) ==
    /\ spc[s] = "wait"
    /\ finished
    /\ spc' = [spc EXCEPT ![s] = "read"]
    /\ UNCHANGED <<jobVars, finished, cancelled, workerVars, readerVars, result>>

StopReturn(s) ==
    /\ spc[s] = "read"
    /\ result' = [result EXCEPT ![s] = status]
    /\ spc' = [spc EXCEPT ![s] = "returned"]
    /\ UNCHANGED <<jobVars, finished, cancelled, workerVars, readerVars>>

StopStep(s) == StopWait(s) \/ StopReturn(s)

----------------------------------------------------------------------------
Next ==
    \/ WorkerStep \/ Panic \/ CancelParent
    \/ \E r \in Readers : OpenTicks(r) \/ ReaderStep(r) \/ YieldBreak(r) \/ EndContext(r)
    \/ \E s \in Stoppers : StopCancel(s) \/ StopStep(s)

Spec == Init /\ [][Next]_vars

(***************************************************************************)
(* Fairness.  A runnable goroutine is eventually scheduled and the timer   *)
(* fires, so the worker, an open range and a pending Stop keep moving.     *)
(* Nobody has to open a range, call Stop, break out, panic or cancel.      *)
(***************************************************************************)
Fairness ==
    /\ WF_vars(WorkerStep)
    /\ \A r \in Readers : WF_vars(ReaderStep(r))
    /\ \A s \in Stoppers : WF_vars(StopStep(s))

FairSpec == Spec /\ Fairness

----------------------------------------------------------------------------
(* Invariants. *)

WorkerTypeOK ==
    /\ count \in 1 .. MaxCount
    /\ status \in Statuses
    /\ ticks \in Seq(Ticks)
    /\ changed \in Nat
    /\ closedChans \in SUBSET Nat
    /\ finished \in BOOLEAN
    /\ cancelled \in BOOLEAN
    /\ wpc \in {"start", "select", "audit", "close", "cancel", "done"}
    /\ currentCount \in Nat
    /\ panicked \in BOOLEAN
    /\ auditLog \in Seq(TerminalStatuses)

ReaderTypeOK ==
    /\ rpc \in [Readers -> {"idle", "lock", "yield", "select", "terminal", "broke", "cancelled"}]
    /\ cursor \in [Readers -> Nat]
    /\ index \in [Readers -> Nat]
    /\ wait \in [Readers -> Nat]
    /\ ctxDone \in [Readers -> BOOLEAN]
    /\ yielded \in [Readers -> Seq(Ticks)]

StopTypeOK ==
    /\ spc \in [Stoppers -> {"idle", "wait", "read", "returned"}]
    /\ result \in [Stoppers -> {"NONE"} \cup Statuses]

\* The types of the state; in particular countdown's loop variable never goes
\* below zero.
TypeOK == WorkerTypeOK /\ ReaderTypeOK /\ StopTypeOK

\* ticks is the countdown count, count-1, ... and then, exactly when the job
\* has left RUNNING, one terminal tick that announces its status: an observer
\* that holds the mutex never sees a terminal status without its sentinel, nor
\* a tick behind the sentinel, however stops, panics and completion race.
CountdownThenSentinel ==
    \A i \in 1 .. Len(ticks) :
        IF i = Len(ticks) /\ status # "RUNNING"
        THEN ticks[i] = Sentinel(status)
        ELSE ticks[i] = Progress(count - i + 1) /\ count - i + 1 > 0

SentinelWithStatus ==
    status # "RUNNING" => ticks # << >> /\ ticks[Len(ticks)] = Sentinel(status)

TicksMatchStatus == CountdownThenSentinel /\ SentinelWithStatus

\* The count+1 preallocation always suffices, so append never moves the array
\* under a reader that is walking its captured slice, and a reader only ever
\* reads an element that was appended before it captured the slice.
ReadsStayInCapturedSlice ==
    /\ Len(ticks) <= count + 1
    /\ \A r \in Readers :
        /\ cursor[r] <= Len(ticks)
        /\ rpc[r] = "yield" => index[r] \in 1 .. cursor[r]

\* Every reader, whenever it joins and however its batches fall, is given the
\* ticks from the first one on, in order, none twice and none skipped; the
\* range ends by itself only behind the terminal tick, with all of them given.
ReadersSeePrefix ==
    \A r \in Readers :
        /\ Len(yielded[r]) <= Len(ticks)
        /\ \A i \in 1 .. Len(yielded[r]) : yielded[r][i] = ticks[i]
        /\ rpc[r] = "terminal" => status # "RUNNING" /\ Len(yielded[r]) = Len(ticks)

\* A reader that would block in its select has seen every tick there is and
\* waits on the channel that the next append will close: the wake-up between
\* its unlock and its select cannot be lost.
NoLostWakeup ==
    \A r \in Readers :
        rpc[r] = "select" /\ wait[r] \notin closedChans =>
            /\ status = "RUNNING"
            /\ wait[r] = changed
            /\ Len(yielded[r]) = Len(ticks)

\* The worker never closes a channel twice, which would panic with the mutex
\* held: whoever may still append finds the current channel open.
ChangedOpenWhileRunning == status = "RUNNING" <=> changed \notin closedChans

\* Stop returns only once the job has ended, every call returns the same
\* terminal status, and it is STOPPED only if somebody asked for it.
StopsAgree ==
    /\ \A s \in Stoppers : spc[s] = "returned" => result[s] = status /\ status # "RUNNING"
    /\ status = "STOPPED" => cancelled

\* The transition is logged at most once, under the status the job ended with;
\* and by the time finished is closed it has been, unless the log itself
\* panicked.
AuditedOnce ==
    /\ auditLog \in {<< >>, <<status>>}
    /\ finished /\ (panicked => status = "FAILED") => auditLog = <<status>>

(* Action properties. *)

\* What has been published stays: the log of ticks only grows at its end, and
\* a terminal status is final and freezes it.
PublishedIsFinal ==
    [][ /\ Len(ticks') >= Len(ticks)
        /\ \A i \in 1 .. Len(ticks) : ticks'[i] = ticks[i]
        /\ status # "RUNNING" => status' = status /\ ticks' = ticks ]_vars

(* Liveness. *)

\* Every Stop call returns.
StopReturns == \A s \in Stoppers : spc[s] = "wait" ~> spc[s] = "returned"

\* Every range ends: behind the terminal tick unless its consumer broke out or
\* its context was cancelled.
RangeEnds ==
    \A r \in Readers :
        rpc[r] = "lock" ~> \/ rpc[r] \in {"terminal", "broke"}
                           \/ rpc[r] = "cancelled" /\ ctxDone[r]

(* Refinement. *)

\* What has become of each reader's range.
rangeOutcome == [r \in Readers |-> IF rpc[r] = "terminal" THEN "complete"
                                   ELSE IF rpc[r] \in {"broke", "cancelled"} THEN "left"
                                   ELSE "open"]

Feed == INSTANCE JobFeed WITH
    log <- ticks, given <- yielded, outcome <- rangeOutcome, answer <- result

\* The goroutines, the mutex and the channels together implement the feed that
\* JobFeed describes.
ImplementsFeed == Feed!Spec

Life == INSTANCE JobLife

\* To its owner the job is a JobLife: it ends once, closes finished behind its
\* status and not before, and does both without being asked.
ImplementsLife == Life!FairSpec

=============================================================================
