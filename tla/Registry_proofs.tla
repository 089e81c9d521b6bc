-------------------------- MODULE Registry_proofs --------------------------
(***************************************************************************)
(* Proofs, for every set of agents, every set of requested counts, every   *)
(* bound on the jobs and every set of concurrent Shutdown calls, of the    *)
(* safety properties of module Registry.                                   *)
(***************************************************************************)
EXTENDS Registry, FiniteSetTheorems, TLAPS

----------------------------------------------------------------------------
(* The inductive invariant. *)

\* The ids of a record are those its counter has passed.
RecordInv ==
    \A a \in DOMAIN records :
        /\ records[a].counter \in Nat \ {0}
        /\ DOMAIN records[a].jobs = 0 .. records[a].counter - 1

\* Every job that a Shutdown call in progress still has to see the end of is in
\* the hands of one of its goroutines.
ShutdownInv ==
    \A c \in Shutdowns :
        /\ sdpc[c] # "idle" =>
              /\ ~ isAcceptingJobs
              /\ \A j \in DOMAIN jobs : j \in spawned[c] \cup blocked[c] \/ jobs[j].finished
        /\ sdpc[c] # "stopping" => spawned[c] = {} /\ blocked[c] = {}

JobInv == \A j \in DOMAIN jobs : jobs[j].finished => jobs[j].status # "RUNNING"

IInv ==
    /\ TypeOK
    /\ RecordInv
    /\ EveryJobIsFound
    /\ FindsOnlyOwnJobs
    /\ ShutdownInv
    /\ JobInv

----------------------------------------------------------------------------
\* Among the jobs, a step that touches one of them in place: only its status
\* and its flags change, and a finished job stays finished and ended.
JobTouched(j) ==
    /\ j \in DOMAIN jobs
    /\ \E u \in JobStates :
          /\ u.owner = jobs[j].owner /\ u.id = jobs[j].id
          /\ jobs[j].finished => u.finished
          /\ u.finished => u.status # "RUNNING"
          /\ jobs' = [jobs EXCEPT ![j] = u]

\* What follows from it.
LEMMA TouchFacts ==
    ASSUME IInv, NEW j, JobTouched(j)
    PROVE  /\ jobs' \in Seq(JobStates) /\ DOMAIN jobs' = DOMAIN jobs
           /\ \A k \in DOMAIN jobs :
                 /\ jobs'[k].owner = jobs[k].owner /\ jobs'[k].id = jobs[k].id
                 /\ jobs[k].finished => jobs'[k].finished
                 /\ jobs'[k].finished => jobs'[k].status # "RUNNING"
  <1>1. PICK u \in JobStates :
          /\ u.owner = jobs[j].owner /\ u.id = jobs[j].id
          /\ jobs[j].finished => u.finished
          /\ u.finished => u.status # "RUNNING"
          /\ jobs' = [jobs EXCEPT ![j] = u]
    BY DEF JobTouched
  <1>2. jobs \in Seq(JobStates) /\ j \in DOMAIN jobs
    BY DEF IInv, TypeOK, JobTouched
  <1>3. jobs' \in Seq(JobStates) /\ DOMAIN jobs' = DOMAIN jobs
    BY <1>1, <1>2
  <1>4. \A k \in DOMAIN jobs : jobs'[k] = IF k = j THEN u ELSE jobs[k]
    BY <1>1, <1>2
  <1> QED BY <1>1, <1>3, <1>4 DEF IInv, JobInv

\* The registry that New returns satisfies the invariant.
LEMMA InitInv == Init => IInv
  <1> SUFFICES ASSUME Init PROVE IInv OBVIOUS
  <1>1. jobs \in Seq(JobStates) /\ DOMAIN jobs = {}
    BY DEF Init
  <1>2. TypeOK
    BY <1>1 DEF Init, TypeOK
  <1>3. RecordInv /\ EveryJobIsFound /\ FindsOnlyOwnJobs /\ ShutdownInv /\ JobInv
    BY <1>1 DEF Init, RecordInv, EveryJobIsFound, FindsOnlyOwnJobs, ShutdownInv, JobInv
  <1> QED BY <1>2, <1>3 DEF IInv

\* A step of a job, or of somebody who cancels it.
LEMMA TouchInv ==
    ASSUME IInv, NEW j, JobTouched(j), UNCHANGED <<records, isAcceptingJobs, shutdownVars>>
    PROVE  IInv'
  <1>1. /\ jobs' \in Seq(JobStates) /\ DOMAIN jobs' = DOMAIN jobs
        /\ \A k \in DOMAIN jobs :
              /\ jobs'[k].owner = jobs[k].owner /\ jobs'[k].id = jobs[k].id
              /\ jobs[k].finished => jobs'[k].finished
              /\ jobs'[k].finished => jobs'[k].status # "RUNNING"
    BY TouchFacts
  <1>2. TypeOK'
    BY <1>1 DEF IInv, TypeOK, shutdownVars
  <1>3. RecordInv' /\ JobInv'
    BY <1>1 DEF IInv, RecordInv, JobInv
  <1>4. EveryJobIsFound'
    BY <1>1 DEF IInv, EveryJobIsFound, Find
  <1>5. FindsOnlyOwnJobs'
    BY <1>1 DEF IInv, TypeOK, FindsOnlyOwnJobs
  <1>6. ShutdownInv'
    BY <1>1 DEF IInv, ShutdownInv, shutdownVars
  <1> QED BY <1>2, <1>3, <1>4, <1>5, <1>6 DEF IInv

\* The steps that touch one job are of that kind.
LEMMA JobStepInv ==
    ASSUME IInv, NEW j \in DOMAIN jobs, CancelContext(j) \/ JobStep(j)
    PROVE  IInv'
  <1>1. jobs \in Seq(JobStates) /\ jobs[j] \in JobStates
    BY DEF IInv, TypeOK
  <1>2. UNCHANGED <<records, isAcceptingJobs, shutdownVars>>
    BY DEF CancelContext, JobStep, JobEnds, JobCloses
  <1>3. CASE CancelContext(j)
    <2>1. [jobs[j] EXCEPT !.cancelled = TRUE] \in JobStates
      BY <1>1 DEF JobStates
    <2>2. JobTouched(j)
      BY <1>1, <1>3, <2>1 DEF CancelContext, JobTouched, JobStates, IInv, JobInv
    <2> QED BY <1>2, <2>2, TouchInv
  <1>4. ASSUME NEW s \in TerminalStatuses, JobEnds(j, s)
        PROVE  IInv'
    <2>1. [jobs[j] EXCEPT !.status = s] \in JobStates /\ s # "RUNNING"
      BY <1>1 DEF JobStates, Statuses, TerminalStatuses
    <2>2. JobTouched(j)
      BY <1>1, <1>4, <2>1 DEF JobEnds, JobTouched, JobStates
    <2> QED BY <1>2, <2>2, TouchInv
  <1>5. CASE JobCloses(j)
    <2>1. [jobs[j] EXCEPT !.finished = TRUE] \in JobStates
      BY <1>1 DEF JobStates
    <2>2. JobTouched(j)
      BY <1>1, <1>5, <2>1 DEF JobCloses, JobTouched, JobStates
    <2> QED BY <1>2, <2>2, TouchInv
  <1> QED BY <1>3, <1>4, <1>5 DEF JobStep

\* A successful Create registers exactly the job it starts.
LEMMA CreateInv ==
    ASSUME IInv, NEW a \in Agents, NEW n \in Counts, Create(a, n)
    PROVE  IInv'
  <1>1. CASE CreateError(n) # "none"
    <2>1. UNCHANGED registryVars
      BY <1>1 DEF Create
    <2> QED BY <2>1 DEF IInv, TypeOK, RecordInv, EveryJobIsFound, FindsOnlyOwnJobs, Find,
                        ShutdownInv, JobInv, registryVars, shutdownVars
  <1>2. CASE CreateError(n) = "none"
    <2> DEFINE k == RecordOf(a).counter
               j == Len(jobs) + 1
               job == NewJob(a, k)
    <2>1. isAcceptingJobs
      BY <1>2 DEF CreateError
    <2>2. jobs \in Seq(JobStates) /\ Len(jobs) \in Nat /\ DOMAIN jobs = 1 .. Len(jobs)
      BY DEF IInv, TypeOK
    <2>3. /\ k \in Nat /\ DOMAIN RecordOf(a).jobs = 0 .. k - 1
          /\ a \in DOMAIN records <=> k # 0
      <3>1. CASE a \in DOMAIN records
        BY <3>1 DEF RecordOf, IInv, RecordInv
      <3>2. CASE a \notin DOMAIN records
        BY <3>2 DEF RecordOf, NewRecord
      <3> QED BY <3>1, <3>2
    <2>4. job \in JobStates /\ job.owner = a /\ job.id = k /\ ~ job.finished
      BY <2>3 DEF NewJob, JobStates, Statuses
    <2>5. jobs' = Append(jobs, job) /\ UNCHANGED <<isAcceptingJobs, shutdownVars>>
      BY <1>2 DEF Create
    <2>6. /\ jobs' \in Seq(JobStates) /\ DOMAIN jobs' = DOMAIN jobs \cup {j}
          /\ \A i \in DOMAIN jobs : jobs'[i] = jobs[i]
          /\ jobs'[j] = job /\ j \notin DOMAIN jobs
      BY <2>2, <2>4, <2>5
    <2>7. /\ DOMAIN records' = DOMAIN records \cup {a}
          /\ \A b \in DOMAIN records \ {a} : records'[b] = records[b]
          /\ records'[a] = RecordCreate(RecordOf(a), j)
      BY <1>2 DEF Create
    <2>8. /\ records'[a].counter = k + 1
          /\ DOMAIN records'[a].jobs = 0 .. k
          /\ records'[a].jobs[k] = j
          /\ \A i \in 0 .. k - 1 : /\ a \in DOMAIN records
                                   /\ i \in DOMAIN records[a].jobs
                                   /\ records'[a].jobs[i] = records[a].jobs[i]
      <3>1. /\ records'[a].counter = k + 1
            /\ records'[a].jobs = [i \in (0 .. k - 1) \cup {k} |->
                                      IF i = k THEN j ELSE RecordOf(a).jobs[i]]
        BY <2>3, <2>7 DEF RecordCreate
      <3>2. (0 .. k - 1) \cup {k} = 0 .. k
        BY <2>3
      <3>3. k # 0 => RecordOf(a) = records[a]
        BY <2>3 DEF RecordOf
      <3> QED BY <2>3, <3>1, <3>2, <3>3
    <2>9. TypeOK'
      <3>1. DOMAIN records' \subseteq Agents
        BY <2>7 DEF IInv, TypeOK
      <3>2. ASSUME NEW b \in DOMAIN records'
            PROVE  /\ records'[b].counter \in Nat
                   /\ DOMAIN records'[b].jobs \subseteq Nat
                   /\ \A m \in DOMAIN records'[b].jobs : records'[b].jobs[m] \in DOMAIN jobs'
        <4>1. CASE b = a
          <5>1. \A m \in 0 .. k : records'[a].jobs[m] \in DOMAIN jobs'
            <6> TAKE m \in 0 .. k
            <6>1. CASE m = k
              BY <2>6, <2>8, <6>1
            <6>2. CASE m \in 0 .. k - 1
              BY <2>6, <2>8, <6>2 DEF IInv, TypeOK
            <6> QED BY <2>3, <6>1, <6>2
          <5>2. records'[a].counter \in Nat /\ DOMAIN records'[a].jobs \subseteq Nat
            BY <2>3, <2>8
          <5>3. \A m \in DOMAIN records'[a].jobs : records'[a].jobs[m] \in DOMAIN jobs'
            BY <2>8, <5>1
          <5> QED BY <4>1, <5>2, <5>3
        <4>2. CASE b # a
          BY <2>6, <2>7, <4>2 DEF IInv, TypeOK
        <4> QED BY <4>1, <4>2
      <3>3. /\ spawned' \in [Shutdowns -> SUBSET (DOMAIN jobs')]
            /\ blocked' \in [Shutdowns -> SUBSET (DOMAIN jobs')]
        BY <2>5, <2>6 DEF IInv, TypeOK, shutdownVars
      <3> QED BY <2>5, <2>6, <3>1, <3>2, <3>3 DEF IInv, TypeOK, shutdownVars
    <2>10. RecordInv'
      <3> SUFFICES ASSUME NEW b \in DOMAIN records'
                   PROVE  /\ records'[b].counter \in Nat \ {0}
                          /\ DOMAIN records'[b].jobs = 0 .. records'[b].counter - 1
        BY DEF RecordInv
      <3>1. CASE b = a
        BY <2>3, <2>8, <3>1
      <3>2. CASE b # a
        BY <2>7, <3>2 DEF IInv, RecordInv
      <3> QED BY <3>1, <3>2
    <2>11. FindsOnlyOwnJobs'
      <3> SUFFICES ASSUME NEW b \in DOMAIN records', NEW m \in DOMAIN records'[b].jobs
                   PROVE  /\ jobs'[records'[b].jobs[m]].owner = b
                          /\ jobs'[records'[b].jobs[m]].id = m
        BY DEF FindsOnlyOwnJobs
      <3>1. CASE b = a /\ m = k
        BY <2>4, <2>6, <2>8, <3>1
      <3>2. CASE b = a /\ m # k
        <4>1. m \in 0 .. k - 1
          BY <2>3, <2>8, <3>2
        <4> QED BY <2>6, <2>8, <3>2, <4>1 DEF IInv, TypeOK, FindsOnlyOwnJobs
      <3>3. CASE b # a
        BY <2>6, <2>7, <3>3 DEF IInv, TypeOK, FindsOnlyOwnJobs
      <3> QED BY <3>1, <3>2, <3>3
    <2>12. EveryJobIsFound'
      <3> SUFFICES ASSUME NEW i \in DOMAIN jobs'
                   PROVE  LET b == jobs'[i].owner
                              m == jobs'[i].id
                          IN /\ b \in DOMAIN records' /\ m \in DOMAIN records'[b].jobs
                             /\ records'[b].jobs[m] = i
        BY DEF EveryJobIsFound, Find
      <3>1. CASE i = j
        BY <2>3, <2>4, <2>6, <2>7, <2>8, <3>1
      <3>2. CASE i \in DOMAIN jobs
        <4>1. /\ jobs[i].owner \in DOMAIN records
              /\ jobs[i].id \in DOMAIN records[jobs[i].owner].jobs
              /\ records[jobs[i].owner].jobs[jobs[i].id] = i
          <5>1. i # 0
            BY <2>2, <3>2
          <5> QED BY <3>2, <5>1 DEF IInv, EveryJobIsFound, Find
        <4>2. CASE jobs[i].owner = a
          <5>1. jobs[i].id \in 0 .. k - 1 /\ jobs[i].id \in 0 .. k
            BY <2>3, <4>1, <4>2 DEF RecordOf
          <5> QED BY <2>6, <2>7, <2>8, <3>2, <4>1, <4>2, <5>1
        <4>3. CASE jobs[i].owner # a
          BY <2>6, <2>7, <3>2, <4>1, <4>3
        <4> QED BY <4>2, <4>3
      <3> QED BY <2>6, <3>1, <3>2
    <2>13. ShutdownInv'
      BY <2>1, <2>5 DEF IInv, ShutdownInv, shutdownVars
    <2>14. JobInv'
      BY <2>4, <2>6 DEF IInv, JobInv
    <2> QED BY <2>9, <2>10, <2>11, <2>12, <2>13, <2>14 DEF IInv
  <1> QED BY <1>1, <1>2

\* The snapshot reaches every job there is, because every job is registered.
LEMMA SnapshotInv ==
    ASSUME IInv, NEW c \in Shutdowns, ShutdownSnapshot(c)
    PROVE  IInv'
  <1>1. AllJobs = DOMAIN jobs
    <2>1. ASSUME NEW j \in DOMAIN jobs PROVE j \in AllJobs
      <3>1. j # 0
        BY DEF IInv, TypeOK
      <3>2. /\ jobs[j].owner \in DOMAIN records
            /\ jobs[j].id \in DOMAIN records[jobs[j].owner].jobs
            /\ records[jobs[j].owner].jobs[jobs[j].id] = j
        BY <3>1 DEF IInv, EveryJobIsFound, Find
      <3> QED BY <3>2 DEF AllJobs
    <2>2. ASSUME NEW j \in AllJobs PROVE j \in DOMAIN jobs
      BY DEF AllJobs, IInv, TypeOK
    <2> QED BY <2>1, <2>2
  <1>2. UNCHANGED <<records, jobs, blocked>> /\ isAcceptingJobs' = FALSE
    BY DEF ShutdownSnapshot
  <1>3. /\ sdpc' = [sdpc EXCEPT ![c] = "stopping"]
        /\ spawned' = [spawned EXCEPT ![c] = DOMAIN jobs]
    BY <1>1 DEF ShutdownSnapshot
  <1>4. TypeOK'
    BY <1>2, <1>3 DEF IInv, TypeOK
  <1>5. RecordInv' /\ EveryJobIsFound' /\ FindsOnlyOwnJobs' /\ JobInv'
    BY <1>2 DEF IInv, RecordInv, EveryJobIsFound, FindsOnlyOwnJobs, Find, JobInv
  <1>6. ShutdownInv'
    BY <1>2, <1>3 DEF IInv, TypeOK, ShutdownInv
  <1> QED BY <1>4, <1>5, <1>6 DEF IInv

\* A goroutine of a Shutdown call cancels its job.
LEMMA CancelInv ==
    ASSUME IInv, NEW c \in Shutdowns, NEW j \in DOMAIN jobs, ShutdownCancel(c, j)
    PROVE  IInv'
  <1>1. jobs \in Seq(JobStates) /\ jobs[j] \in JobStates
    BY DEF IInv, TypeOK
  <1>2. JobTouched(j)
    <2>1. [jobs[j] EXCEPT !.cancelled = TRUE] \in JobStates
      BY <1>1 DEF JobStates
    <2> QED BY <1>1, <2>1 DEF ShutdownCancel, JobTouched, JobStates, IInv, JobInv
  <1>3. /\ jobs' \in Seq(JobStates) /\ DOMAIN jobs' = DOMAIN jobs
        /\ \A k \in DOMAIN jobs :
              /\ jobs'[k].owner = jobs[k].owner /\ jobs'[k].id = jobs[k].id
              /\ jobs[k].finished => jobs'[k].finished
              /\ jobs'[k].finished => jobs'[k].status # "RUNNING"
    BY <1>2, TouchFacts
  <1>4. UNCHANGED <<records, isAcceptingJobs, sdpc>>
    BY DEF ShutdownCancel
  <1>5. /\ spawned' = [spawned EXCEPT ![c] = @ \ {j}]
        /\ blocked' = [blocked EXCEPT ![c] = @ \cup {j}]
        /\ j \in spawned[c]
    BY DEF ShutdownCancel
  <1>6. TypeOK'
    BY <1>3, <1>4, <1>5 DEF IInv, TypeOK
  <1>7. RecordInv' /\ EveryJobIsFound' /\ JobInv'
    BY <1>3, <1>4 DEF IInv, RecordInv, EveryJobIsFound, Find, JobInv
  <1>8. FindsOnlyOwnJobs'
    BY <1>3, <1>4 DEF IInv, TypeOK, FindsOnlyOwnJobs
  <1>9. ShutdownInv'
    BY <1>3, <1>4, <1>5 DEF IInv, TypeOK, ShutdownInv
  <1> QED BY <1>6, <1>7, <1>8, <1>9 DEF IInv

\* It returns once its job has finished; the call returns behind all of them.
LEMMA JoinInv ==
    ASSUME IInv, NEW c \in Shutdowns,
           ShutdownReturn(c) \/ \E j \in DOMAIN jobs : ShutdownJoin(c, j)
    PROVE  IInv'
  <1>1. UNCHANGED <<records, isAcceptingJobs, jobs, spawned>>
    BY DEF ShutdownReturn, ShutdownJoin
  <1>2. RecordInv' /\ EveryJobIsFound' /\ FindsOnlyOwnJobs' /\ JobInv'
    BY <1>1 DEF IInv, RecordInv, EveryJobIsFound, FindsOnlyOwnJobs, Find, JobInv
  <1>3. TypeOK'
    BY <1>1 DEF IInv, TypeOK, ShutdownReturn, ShutdownJoin
  <1>4. ShutdownInv'
    BY <1>1 DEF IInv, TypeOK, ShutdownInv, ShutdownReturn, ShutdownJoin
  <1> QED BY <1>2, <1>3, <1>4 DEF IInv

\* Every step preserves the invariant.
LEMMA NextInv == IInv /\ [Next]_registryVars => IInv'
  <1> SUFFICES ASSUME IInv, [Next]_registryVars PROVE IInv' OBVIOUS
  <1>1. CASE \E a \in Agents, n \in Counts : Create(a, n)
    BY <1>1, CreateInv
  <1>2. CASE \E c \in Shutdowns : ShutdownSnapshot(c) \/ ShutdownStep(c)
    BY <1>2, SnapshotInv, CancelInv, JoinInv DEF ShutdownStep
  <1>3. CASE \E j \in DOMAIN jobs : CancelContext(j) \/ JobStep(j)
    BY <1>3, JobStepInv
  <1>4. CASE UNCHANGED registryVars
    BY <1>4 DEF IInv, TypeOK, RecordInv, EveryJobIsFound, FindsOnlyOwnJobs, Find,
                ShutdownInv, JobInv, registryVars, shutdownVars
  <1> QED BY <1>1, <1>2, <1>3, <1>4 DEF Next

\* The inductive invariant holds in every state of the registry.
THEOREM Invariance == Spec => []IInv
  BY InitInv, NextInv, PTL DEF Spec

----------------------------------------------------------------------------
(* The properties the runs check, for every value of the constants. *)

\* The type invariant of the registry.
THEOREM TypeCorrect == Spec => []TypeOK
  BY Invariance, PTL DEF IInv

\* No job is orphaned: its owner finds it under its id.
THEOREM NoOrphan == Spec => []EveryJobIsFound
  BY Invariance, PTL DEF IInv

\* An agent finds none but its own jobs.
THEOREM Ownership == Spec => []FindsOnlyOwnJobs
  BY Invariance, PTL DEF IInv

\* When a Shutdown call has returned, every job ever started has finished.
THEOREM ShutdownCorrect == Spec => []ShutdownMeansFinished
  <1>1. IInv => ShutdownMeansFinished
    <2> SUFFICES ASSUME IInv, NEW c \in Shutdowns, sdpc[c] = "returned", NEW j \in DOMAIN jobs
                 PROVE  jobs[j].finished /\ jobs[j].status # "RUNNING"
      BY DEF ShutdownMeansFinished
    <2>1. jobs[j].finished
      BY DEF IInv, ShutdownInv
    <2> QED BY <2>1 DEF IInv, JobInv
  <1> QED BY <1>1, Invariance, PTL

\* A step never makes a minted id refer to another job.
LEMMA IdsStep ==
    ASSUME IInv, [Next]_registryVars,
           NEW a \in DOMAIN records, NEW n \in DOMAIN records[a].jobs
    PROVE  Find(a, <<a, n>>)' = Find(a, <<a, n>>)
  <1>1. CASE records' = records
    BY <1>1 DEF Find
  <1>2. CASE records' # records
    <2>1. PICK b \in Agents, m \in Counts : Create(b, m) /\ CreateError(m) = "none"
      BY <1>2 DEF Next, Create, ShutdownSnapshot, ShutdownStep, ShutdownCancel, ShutdownJoin,
                  ShutdownReturn, CancelContext, JobStep, JobEnds, JobCloses, registryVars
    <2>2. /\ DOMAIN records' = DOMAIN records \cup {b}
          /\ records'[a] = IF a = b THEN RecordCreate(records[b], Len(jobs) + 1) ELSE records[a]
      BY <2>1 DEF Create, RecordOf
    <2>3. n # records[a].counter /\ n \in Nat
      BY DEF IInv, RecordInv
    <2>4. n \in DOMAIN records'[a].jobs /\ records'[a].jobs[n] = records[a].jobs[n]
      BY <2>2, <2>3 DEF RecordCreate
    <2> QED BY <2>2, <2>4 DEF Find
  <1> QED BY <1>1, <1>2

\* An id that was handed out refers to the same job ever after.
THEOREM IdsCorrect == Spec => IdsAreStable
  <1>1. IInv /\ [Next]_registryVars =>
            [\A a \in DOMAIN records : \A n \in DOMAIN records[a].jobs :
                Find(a, <<a, n>>)' = Find(a, <<a, n>>)]_registryVars
    BY IdsStep
  <1> QED BY <1>1, Invariance, PTL DEF Spec, IdsAreStable

\* How the heap of jobs may change: jobs are added behind the others, keep
\* their owner and id, and a status that is terminal is final.
Grown(js, ks) ==
    /\ DOMAIN js \subseteq DOMAIN ks
    /\ \A j \in DOMAIN js :
          /\ ks[j].owner = js[j].owner /\ ks[j].id = js[j].id
          /\ js[j].status # "RUNNING" => ks[j].status = js[j].status

\* No step of the registry or of a job changes it otherwise.
LEMMA JobsGrow ==
    ASSUME IInv, [Next]_registryVars
    PROVE  Grown(jobs, jobs')
  <1>1. jobs \in Seq(JobStates)
    BY DEF IInv, TypeOK
  <1>2. CASE \E a \in Agents, n \in Counts : Create(a, n)
    <2>1. jobs' = jobs \/ \E x : jobs' = Append(jobs, x)
      BY <1>2 DEF Create, registryVars
    <2> QED BY <1>1, <2>1 DEF Grown
  <1>3. CASE \E k \in DOMAIN jobs : CancelContext(k) \/ \E c \in Shutdowns : ShutdownCancel(c, k)
    <2>1. PICK k \in DOMAIN jobs : jobs' = [jobs EXCEPT ![k].cancelled = TRUE]
      BY <1>3 DEF CancelContext, ShutdownCancel
    <2> QED BY <1>1, <2>1 DEF Grown, JobStates
  <1>4. CASE \E k \in DOMAIN jobs : JobStep(k)
    <2>1. PICK k \in DOMAIN jobs : JobStep(k)
      BY <1>4
    <2>2. CASE JobCloses(k)
      BY <1>1, <2>2 DEF JobCloses, Grown, JobStates
    <2>3. ASSUME NEW s \in TerminalStatuses, JobEnds(k, s)
          PROVE  Grown(jobs, jobs')
      BY <1>1, <2>3 DEF JobEnds, Grown, JobStates
    <2> QED BY <2>1, <2>2, <2>3 DEF JobStep
  <1>5. CASE UNCHANGED jobs
    BY <1>1, <1>5 DEF Grown
  <1> QED BY <1>2, <1>3, <1>4, <1>5 DEF Next, ShutdownSnapshot, ShutdownStep, ShutdownJoin,
                                        ShutdownReturn, registryVars

\* A step that creates no job leaves the owners and the counters alone; one that
\* does adds one to the jobs of its agent, and to that agent's counter.
LEMMA CountStep ==
    ASSUME IInv, RecordsCountJobs, IsFiniteSet(DOMAIN jobs), [Next]_registryVars
    PROVE  RecordsCountJobs' /\ IsFiniteSet(DOMAIN jobs')
  <1>1. jobs \in Seq(JobStates) /\ DOMAIN jobs = 1 .. Len(jobs) /\ Len(jobs) \in Nat
    BY DEF IInv, TypeOK
  <1>2. CASE \E a \in Agents, n \in Counts : Create(a, n) /\ CreateError(n) = "none"
    <2>1. PICK a \in Agents, n \in Counts : Create(a, n) /\ CreateError(n) = "none"
      BY <1>2
    <2> DEFINE k == Len(jobs) + 1
               rec == RecordOf(a)
    <2>2. jobs' = Append(jobs, NewJob(a, rec.counter))
      BY <2>1 DEF Create
    <2>3. /\ DOMAIN jobs' = DOMAIN jobs \cup {k} /\ k \notin DOMAIN jobs
          /\ jobs'[k].owner = a
          /\ \A j \in DOMAIN jobs : jobs'[j].owner = jobs[j].owner
      BY <1>1, <2>2 DEF NewJob
    <2>4. /\ DOMAIN records' = DOMAIN records \cup {a}
          /\ records'[a].counter = rec.counter + 1
          /\ \A b \in DOMAIN records \ {a} : records'[b] = records[b]
      BY <2>1 DEF Create, RecordCreate
    <2> HIDE DEF k
    <2>5. /\ OwnedBy(a)' = OwnedBy(a) \cup {k} /\ k \notin OwnedBy(a)
          /\ \A b \in DOMAIN records \ {a} : OwnedBy(b)' = OwnedBy(b)
      BY <2>3 DEF OwnedBy
    <2>6. IsFiniteSet(OwnedBy(a)) /\ IsFiniteSet(DOMAIN jobs')
      <3>1. OwnedBy(a) \in SUBSET DOMAIN jobs
        BY DEF OwnedBy
      <3> QED BY <2>3, <3>1, FS_Subset, FS_AddElement
    <2>7. Cardinality(OwnedBy(a)) = rec.counter
      <3>1. CASE a \in DOMAIN records
        BY <3>1 DEF RecordsCountJobs, RecordOf
      <3>2. CASE a \notin DOMAIN records
        <4>1. OwnedBy(a) = {}
          BY <3>2 DEF RecordsCountJobs, OwnedBy
        <4> QED BY <3>2, <4>1, FS_EmptySet DEF RecordOf, NewRecord
      <3> QED BY <3>1, <3>2
    <2>8. Cardinality(OwnedBy(a)') = rec.counter + 1
      BY <2>5, <2>6, <2>7, FS_AddElement
    <2>9. DOMAIN records' = {jobs'[j].owner : j \in DOMAIN jobs'}
      BY <2>3, <2>4 DEF RecordsCountJobs
    <2>10. \A b \in DOMAIN records' : records'[b].counter = Cardinality(OwnedBy(b)')
      BY <2>4, <2>5, <2>8 DEF RecordsCountJobs
    <2> QED BY <2>6, <2>9, <2>10 DEF RecordsCountJobs
  <1>3. CASE ~ \E a \in Agents, n \in Counts : Create(a, n) /\ CreateError(n) = "none"
    <2>1. records' = records
      BY <1>3 DEF Next, Create, ShutdownSnapshot, ShutdownStep, ShutdownCancel, ShutdownJoin,
                  ShutdownReturn, CancelContext, JobStep, JobEnds, JobCloses, registryVars
    <2>2. DOMAIN jobs' = DOMAIN jobs
      BY <1>1, <1>3 DEF Next, Create, ShutdownSnapshot, ShutdownStep, ShutdownCancel,
                        ShutdownJoin, ShutdownReturn, CancelContext, JobStep, JobEnds, JobCloses,
                        registryVars
    <2>3. \A j \in DOMAIN jobs : jobs'[j].owner = jobs[j].owner
      BY JobsGrow DEF Grown
    <2>4. \A a : OwnedBy(a)' = OwnedBy(a)
      BY <2>2, <2>3 DEF OwnedBy
    <2> QED BY <2>1, <2>2, <2>3, <2>4 DEF RecordsCountJobs
  <1> QED BY <1>2, <1>3

\* Refused creations leave nothing behind: records are those of the agents that
\* own jobs, and count them.
THEOREM RecordsInUse == Spec => []RecordsCountJobs
  <1>1. Init => RecordsCountJobs /\ IsFiniteSet(DOMAIN jobs)
    BY FS_EmptySet DEF Init, RecordsCountJobs
  <1>2. IInv /\ RecordsCountJobs /\ IsFiniteSet(DOMAIN jobs) /\ [Next]_registryVars =>
            (RecordsCountJobs /\ IsFiniteSet(DOMAIN jobs))'
    BY CountStep
  <1> QED BY <1>1, <1>2, Invariance, PTL DEF Spec
=============================================================================
