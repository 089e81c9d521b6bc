----------------------------- MODULE Registry -----------------------------
(***************************************************************************)
(* The registry of jobs (internal/registry): one record per agent with its *)
(* counter and its jobs, creation under a freshly minted id, lookup by     *)
(* owner and id, and any number of concurrent Shutdown calls.              *)
(*                                                                         *)
(* A job is what module Job shows it to be, seen from outside: it runs,    *)
(* reaches one terminal status (STOPPED only when its context is done) and *)
(* then closes its finished channel.  The heap of jobs is the sequence     *)
(* jobs, so that a *worker.Job is a position in it and a job that no       *)
(* record refers to any more still runs.                                   *)
(*                                                                         *)
(* The id "agent/n" is the pair of its owner and n.                        *)
(***************************************************************************)
EXTENDS Integers, Sequences, FiniteSets, Tick

CONSTANTS
    Agents,     \* agent ids
    MaxCount,   \* the largest count a job accepts
    Counts,     \* the counts callers ask for, valid or not
    MaxJobs,    \* bound on the number of jobs ever created
    Shutdowns   \* the concurrent calls of Shutdown

ASSUME MaxCountAssumption == MaxCount \in Nat \ {0}
ASSUME CountsAssumption == Counts \subseteq Int
ASSUME MaxJobsAssumption == MaxJobs \in Nat

VARIABLES
    records,          \* Registry.records: agent -> record
    isAcceptingJobs,  \* Registry.isAcceptingJobs
    jobs,             \* every job NewJob has started
    sdpc,             \* where each Shutdown call is
    spawned,          \* its goroutines that have not called Stop's cancel yet
    blocked           \* its goroutines that wait for their job's finished

shutdownVars == <<sdpc, spawned, blocked>>
registryVars == <<records, isAcceptingJobs, jobs, shutdownVars>>

----------------------------------------------------------------------------
Init ==
    /\ records = [a \in {} |-> << >>]
    /\ isAcceptingJobs = TRUE
    /\ jobs = << >>
    /\ sdpc = [c \in Shutdowns |-> "idle"]
    /\ spawned = [c \in Shutdowns |-> {}]
    /\ blocked = [c \in Shutdowns |-> {}]

----------------------------------------------------------------------------
(* record.go *)

NewRecord == [counter |-> 0, jobs |-> [n \in {} |-> 0]]

\* Faulty variant: the counter is not advanced.
RecordCreateSameCounter(rec, job) ==
    [counter |-> rec.counter,
     jobs |-> [n \in DOMAIN rec.jobs \cup {rec.counter} |->
                   IF n = rec.counter THEN job ELSE rec.jobs[n]]]

\* record.create once NewJob has returned job.
RecordCreate(rec, job) ==
    [counter |-> rec.counter + 1,
     jobs |-> [n \in DOMAIN rec.jobs \cup {rec.counter} |->
                   IF n = rec.counter THEN job ELSE rec.jobs[n]]]

\* Faulty variants: the status is left unset; the id is minted from the
\* counter after it was advanced.
NewJobUnset(a, n) == [owner |-> a, id |-> n, status |-> "",
                      cancelled |-> FALSE, finished |-> FALSE]

NewJobNextId(a, n) == [owner |-> a, id |-> n + 1, status |-> "RUNNING",
                       cancelled |-> FALSE, finished |-> FALSE]

\* NewJob as the registry sees it.
NewJob(a, n) == [owner |-> a, id |-> n, status |-> "RUNNING",
                 cancelled |-> FALSE, finished |-> FALSE]

(* registry.go *)

RecordOf(a) == IF a \in DOMAIN records THEN records[a] ELSE NewRecord

\* Faulty variant: the flag is not checked.
CreateErrorIgnoringFlag(n) ==
    IF n <= 0 \/ n > MaxCount THEN "InvalidCount" ELSE "none"

\* Which error Create returns, the flag being checked before the count.
CreateError(n) ==
    IF ~ isAcceptingJobs THEN "NotAcceptingJobs"
    ELSE IF n <= 0 \/ n > MaxCount THEN "InvalidCount" ELSE "none"

\* Faulty variant: the record is stored before the job is created.
CreateStoresFirst(a, n) ==
    LET isCreated == CreateError(n) = "none"
    IN /\ CreateError(n) # "NotAcceptingJobs" /\ Len(jobs) < MaxJobs
       /\ jobs' = IF isCreated THEN Append(jobs, NewJob(a, RecordOf(a).counter)) ELSE jobs
       /\ records' = [b \in DOMAIN records \cup {a} |->
                         IF b # a THEN records[b]
                         ELSE IF isCreated THEN RecordCreate(RecordOf(a), Len(jobs) + 1)
                         ELSE RecordOf(a)]
       /\ UNCHANGED <<isAcceptingJobs, shutdownVars>>

\* Create, all of it under the mutex.  A refused call changes nothing.
Create(a, n) ==
    IF CreateError(n) = "none"
    THEN /\ Len(jobs) < MaxJobs
         /\ jobs' = Append(jobs, NewJob(a, RecordOf(a).counter))
         /\ records' = [b \in DOMAIN records \cup {a} |->
                           IF b = a THEN RecordCreate(RecordOf(a), Len(jobs) + 1) ELSE records[b]]
         /\ UNCHANGED <<isAcceptingJobs, shutdownVars>>
    ELSE UNCHANGED registryVars

\* Find: the job under that id among the agent's own, or 0 for not found.
Find(a, id) ==
    IF a \in DOMAIN records /\ id[1] = a /\ id[2] \in DOMAIN records[a].jobs
    THEN records[a].jobs[id[2]] ELSE 0

AllJobs == UNION {{records[a].jobs[n] : n \in DOMAIN records[a].jobs} : a \in DOMAIN records}

\* Shutdown: the flag and the snapshot under the mutex, one goroutine per job.
ShutdownSnapshot(c) ==
    /\ sdpc[c] = "idle"
    /\ isAcceptingJobs' = FALSE
    /\ sdpc' = [sdpc EXCEPT ![c] = "stopping"]
    /\ spawned' = [spawned EXCEPT ![c] = AllJobs]
    /\ UNCHANGED <<records, jobs, blocked>>

\* A goroutine's job.Stop(): cancel, then wait for finished.
ShutdownCancel(c, j) ==
    /\ j \in spawned[c]
    /\ jobs' = [jobs EXCEPT ![j].cancelled = TRUE]
    /\ spawned' = [spawned EXCEPT ![c] = @ \ {j}]
    /\ blocked' = [blocked EXCEPT ![c] = @ \cup {j}]
    /\ UNCHANGED <<records, isAcceptingJobs, sdpc>>

ShutdownJoin(c, j) ==
    /\ j \in blocked[c]
    /\ jobs[j].finished
    /\ blocked' = [blocked EXCEPT ![c] = @ \ {j}]
    /\ UNCHANGED <<records, isAcceptingJobs, jobs, sdpc, spawned>>

\* waitGroup.Wait returns.
ShutdownReturn(c) ==
    /\ sdpc[c] = "stopping"
    /\ spawned[c] = {} /\ blocked[c] = {}
    /\ sdpc' = [sdpc EXCEPT ![c] = "returned"]
    /\ UNCHANGED <<records, isAcceptingJobs, jobs, spawned, blocked>>

ShutdownStep(c) ==
    \/ \E j \in DOMAIN jobs : ShutdownCancel(c, j) \/ ShutdownJoin(c, j)
    \/ ShutdownReturn(c)

----------------------------------------------------------------------------
(* The jobs, as module Job shows them from outside. *)

\* The context Create was given is cancelled by its owner.
CancelContext(j) ==
    /\ ~ jobs[j].cancelled
    /\ jobs' = [jobs EXCEPT ![j].cancelled = TRUE]
    /\ UNCHANGED <<records, isAcceptingJobs, shutdownVars>>

JobEnds(j, s) ==
    /\ jobs[j].status = "RUNNING"
    /\ s = "STOPPED" => jobs[j].cancelled
    /\ jobs' = [jobs EXCEPT ![j].status = s]
    /\ UNCHANGED <<records, isAcceptingJobs, shutdownVars>>

\* Faulty variant: the job leaves without closing its channel.
JobClosesNothing(j) ==
    /\ jobs[j].status # "RUNNING"
    /\ ~ jobs[j].finished
    /\ UNCHANGED registryVars

JobCloses(j) ==
    /\ jobs[j].status # "RUNNING"
    /\ ~ jobs[j].finished
    /\ jobs' = [jobs EXCEPT ![j].finished = TRUE]
    /\ UNCHANGED <<records, isAcceptingJobs, shutdownVars>>

JobStep(j) == (\E s \in TerminalStatuses : JobEnds(j, s)) \/ JobCloses(j)

----------------------------------------------------------------------------
Next ==
    \/ \E a \in Agents, n \in Counts : Create(a, n)
    \/ \E c \in Shutdowns : ShutdownSnapshot(c) \/ ShutdownStep(c)
    \/ \E j \in DOMAIN jobs : CancelContext(j) \/ JobStep(j)

Spec == Init /\ [][Next]_registryVars

\* Every job goes on to its end, as module Job shows, and a Shutdown call's
\* goroutines are scheduled.  Nobody has to create a job or call Shutdown.
Fairness ==
    /\ \A j \in 1 .. MaxJobs : WF_registryVars(j \in DOMAIN jobs /\ JobStep(j))
    /\ \A c \in Shutdowns : WF_registryVars(ShutdownStep(c))

FairSpec == Spec /\ Fairness

----------------------------------------------------------------------------
(* Invariants. *)

JobStates == [owner : Agents, id : Nat, status : Statuses,
              cancelled : BOOLEAN, finished : BOOLEAN]

\* The types of the state; every stored id is one that NewRecord or Create made.
TypeOK ==
    /\ DOMAIN records \subseteq Agents
    /\ \A a \in DOMAIN records :
        /\ records[a].counter \in Nat
        /\ DOMAIN records[a].jobs \subseteq Nat
        /\ \A n \in DOMAIN records[a].jobs : records[a].jobs[n] \in DOMAIN jobs
    /\ isAcceptingJobs \in BOOLEAN
    /\ jobs \in Seq(JobStates)
    /\ sdpc \in [Shutdowns -> {"idle", "stopping", "returned"}]
    /\ spawned \in [Shutdowns -> SUBSET (DOMAIN jobs)]
    /\ blocked \in [Shutdowns -> SUBSET (DOMAIN jobs)]

\* No job is ever orphaned: each one that was started is the job its owner
\* finds under its id, so that it can be stopped and Shutdown will reach it.
EveryJobIsFound ==
    \A j \in DOMAIN jobs : Find(jobs[j].owner, <<jobs[j].owner, jobs[j].id>>) = j

\* An agent finds none but its own jobs, each under one id only.
FindsOnlyOwnJobs ==
    \A a \in DOMAIN records : \A n \in DOMAIN records[a].jobs :
        /\ jobs[records[a].jobs[n]].owner = a
        /\ jobs[records[a].jobs[n]].id = n

OwnedBy(a) == {j \in DOMAIN jobs : jobs[j].owner = a}

\* A creation that is refused, for its count or because of a shutdown, leaves
\* nothing behind, at whatever point of Create that is: there is a record for
\* those agents only that own a job, and its counter is the number of their jobs,
\* so that no id is skipped.
RecordsCountJobs ==
    /\ DOMAIN records = {jobs[j].owner : j \in DOMAIN jobs}
    /\ \A a \in DOMAIN records : records[a].counter = Cardinality(OwnedBy(a))

\* When any Shutdown call has returned, every job that was ever started has
\* ended and closed its channel, however creations, stops and other Shutdown
\* calls interleaved with it.
ShutdownMeansFinished ==
    (\E c \in Shutdowns : sdpc[c] = "returned") =>
        \A j \in DOMAIN jobs : jobs[j].finished /\ jobs[j].status # "RUNNING"

(* Action properties. *)

\* An id that was handed out refers to the same job ever after.
IdsAreStable ==
    [][\A a \in DOMAIN records : \A n \in DOMAIN records[a].jobs :
            Find(a, <<a, n>>)' = Find(a, <<a, n>>)]_registryVars

(* Liveness. *)

\* Every Shutdown call returns, also when several run at once.
ShutdownReturns == \A c \in Shutdowns : sdpc[c] = "stopping" ~> sdpc[c] = "returned"
=============================================================================
