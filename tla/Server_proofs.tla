-------------------------- MODULE Server_proofs --------------------------
(***************************************************************************)
(* Proofs, for any agents, counts, RPCs and command lines and any bound on *)
(* the jobs, of the safety properties of module Server.                    *)
(*                                                                         *)
(* What the registry does is not proved again: every step of the server is *)
(* shown to be a step of the registry or none of it, and the lemmas of     *)
(* Registry_proofs are then cited for the instance the server drives.      *)
(***************************************************************************)
EXTENDS Server, TLAPS

RP == INSTANCE Registry_proofs WITH Shutdowns <- {"serve"}

----------------------------------------------------------------------------
(* The inductive invariant. *)

Frames == [pc : {"idle", "create", "find", "cancel", "wait", "read", "ticks", "returned"},
           method : Methods \cup {"none"},
           agent : Agents \cup {"none"},
           count : Int,
           id : Ids \cup {<< >>},
           job : Nat,
           code : {"none", "OK", "NotFound", "InvalidArgument", "Unavailable", "Canceled"},
           value : {"none", "terminal"} \cup Statuses \cup (Agents \X Nat)]

\* A handler is in code of its own method, has a caller, and has no reply
\* before it returns.
FrameStage(f) ==
    /\ f.pc = "idle" => f = NoCall
    /\ f.pc # "idle" => f.agent \in Agents
    /\ f.pc = "create" => f.method = "Start" /\ f.count \in Counts
    /\ f.pc = "find" => f.method \in Methods \ {"Start"}
    /\ f.pc \in {"cancel", "wait"} => f.method = "Stop"
    /\ f.pc = "read" => f.method = "GetStatus"
    /\ f.pc = "ticks" => f.method = "StreamOutput"
    /\ f.pc # "returned" => f.code = "none"

\* What a frame says of the jobs js: the one it holds is its caller's, the id
\* that Start returned is that of a job of the caller, and the answer of a Stop
\* is the end of the job.
FrameJobs(f, js) ==
    /\ f.pc \in {"cancel", "wait", "read", "ticks"} => f.job # 0
    /\ f.job # 0 => f.job \in DOMAIN js /\ js[f.job].owner = f.agent
    /\ f.method = "Start" /\ f.code = "OK" =>
          \E j \in DOMAIN js : js[j].owner = f.agent /\ f.value = <<f.agent, js[j].id>>
    /\ f.method = "Stop" /\ f.code = "OK" =>
          /\ f.job # 0
          /\ f.value = js[f.job].status
          /\ f.value # "RUNNING"

CallInv ==
    /\ call \in [Calls -> Frames]
    /\ \A h \in Calls : FrameStage(call[h]) /\ FrameJobs(call[h], jobs)

\* The context of a handler ends with its client or with the cut.
ContextInv ==
    /\ left \subseteq ctxEnded /\ ctxEnded \subseteq Calls /\ stalled \subseteq Calls
    /\ \A h \in ctxEnded : h \in left \/ transport = "closed"
    /\ StreamsEndWithTerminal

\* Where the goroutines of Serve may be together, and what each has done by
\* then: no RPC and no job before grpc.Serve, the transport is closed by the
\* timer only, and the drain is over when nothing is in flight.
ServeInv ==
    /\ gpc = "none" =>
          /\ mpc \in {"starting", "returned"} /\ dpc = "none"
          /\ jobs = << >> /\ \A h \in Calls : call[h].pc = "idle"
    /\ mpc \in {"starting", "serving"} => dpc = "none"
    /\ mpc = "starting" => gpc = "none"
    /\ mpc \in {"starting", "serving", "shutdown", "cut"} => ~ isDrained
    /\ mpc = "join" => dpc = "stopped"
    /\ transport = "closed" => mpc \in {"cut", "join", "returned"} /\ ~ isDrained
    /\ dpc \in {"graceful", "waiting", "stopped"} => sdpc["serve"] = "returned"
    /\ dpc \in {"waiting", "stopped"} => transport # "serving"
    /\ dpc = "stopped" => \A h \in Calls : ~ InFlight(h)

\* What Serve, or what came before it, returned.
OutcomeInv ==
    mpc = "returned" =>
        IF gpc = "none" THEN outcome \in {"ErrHelp", "errUsage", "errConfig"}
        ELSE /\ outcome \in {"nil", "error", "ErrShutdownGraceElapsed"}
             /\ dpc = "stopped"
             /\ outcome = "nil" => isDrained

ServeTypeOK ==
    /\ transport \in {"serving", "draining", "closed"}
    /\ gpc \in {"none", "new", "accepting", "done"}
    /\ served \in {"none", "nil", "failed", "ErrServerStopped"}
    /\ signalled \in BOOLEAN
    /\ config \in Configs
    /\ mpc \in {"starting", "serving", "shutdown", "cut", "join", "returned"}
    /\ dpc \in {"none", "jobs", "graceful", "waiting", "stopped"}
    /\ isDrained \in BOOLEAN
    /\ outcome \in {"none", "ErrHelp", "errUsage", "errConfig", "nil", "error",
                   "ErrShutdownGraceElapsed"}

IInv ==
    /\ RP!IInv
    /\ ServeTypeOK
    /\ CallInv
    /\ ContextInv
    /\ ServeInv
    /\ OutcomeInv

----------------------------------------------------------------------------
(* The registry inside the server. *)

\* The definitions of the registry are the same ones under either name.
LEMMA SameRegistry ==
    /\ R!Init <=> RP!Init
    /\ R!TypeOK <=> RP!TypeOK
    /\ \A a, n : R!Create(a, n) <=> RP!Create(a, n)
    /\ \A a, id : R!Find(a, id) = RP!Find(a, id)
    /\ \A j : R!JobStep(j) <=> RP!JobStep(j)
    /\ \A c : R!ShutdownSnapshot(c) <=> RP!ShutdownSnapshot(c)
    /\ \A c : R!ShutdownStep(c) <=> RP!ShutdownStep(c)
    /\ R!Next <=> RP!Next
  <1>1. R!Init <=> RP!Init
    BY DEF R!Init, RP!Init
  <1>2. R!TypeOK <=> RP!TypeOK
    BY DEF R!TypeOK, RP!TypeOK, R!JobStates, RP!JobStates, R!Statuses, RP!Statuses,
           R!TerminalStatuses, RP!TerminalStatuses
  <1>3. ASSUME NEW a, NEW n PROVE R!Create(a, n) <=> RP!Create(a, n)
    BY DEF R!Create, RP!Create, R!CreateError, RP!CreateError, R!NewJob, RP!NewJob,
           R!RecordOf, RP!RecordOf, R!RecordCreate, RP!RecordCreate, R!NewRecord, RP!NewRecord,
           R!shutdownVars, RP!shutdownVars, R!registryVars, RP!registryVars
  <1>4. ASSUME NEW a, NEW id PROVE R!Find(a, id) = RP!Find(a, id)
    BY DEF R!Find, RP!Find
  <1>5. ASSUME NEW j PROVE R!JobStep(j) <=> RP!JobStep(j)
    BY DEF R!JobStep, RP!JobStep, R!JobEnds, RP!JobEnds, R!JobCloses, RP!JobCloses,
           R!TerminalStatuses, RP!TerminalStatuses, R!shutdownVars, RP!shutdownVars
  <1>6. ASSUME NEW c PROVE R!ShutdownSnapshot(c) <=> RP!ShutdownSnapshot(c)
    BY DEF R!ShutdownSnapshot, RP!ShutdownSnapshot, R!AllJobs, RP!AllJobs
  <1>7. ASSUME NEW c PROVE R!ShutdownStep(c) <=> RP!ShutdownStep(c)
    BY DEF R!ShutdownStep, RP!ShutdownStep, R!ShutdownCancel, RP!ShutdownCancel,
           R!ShutdownJoin, RP!ShutdownJoin, R!ShutdownReturn, RP!ShutdownReturn
  <1>8. ASSUME NEW j PROVE R!CancelContext(j) <=> RP!CancelContext(j)
    BY DEF R!CancelContext, RP!CancelContext, R!shutdownVars, RP!shutdownVars
  <1>9. R!Next <=> RP!Next
    BY <1>3, <1>5, <1>6, <1>7, <1>8 DEF R!Next, RP!Next
  <1> QED BY <1>1, <1>2, <1>3, <1>4, <1>5, <1>6, <1>7, <1>9

\* A step of the server is, to the registry, a step of its own or none.
LEMMA RegistryStep ==
    ASSUME IInv, [Next]_vars
    PROVE  [RP!Next]_(RP!registryVars)
  <1> USE DEF RP!registryVars, RP!shutdownVars
  <1>1. ASSUME NEW h \in Calls, HandleStart(h)
        PROVE  RP!Next
    <2>1. call[h].agent \in Agents /\ call[h].count \in Counts
      BY <1>1 DEF HandleStart, IInv, CallInv, FrameStage
    <2>2. RP!Create(call[h].agent, call[h].count)
      BY <1>1, SameRegistry DEF HandleStart
    <2> QED BY <2>1, <2>2 DEF RP!Next
  <1>2. ASSUME NEW h \in Calls, StopCancel(h)
        PROVE  RP!Next \/ UNCHANGED RP!registryVars
    <2>1. /\ call[h].job \in DOMAIN jobs
          /\ jobs' = [jobs EXCEPT ![call[h].job].cancelled = TRUE]
          /\ UNCHANGED <<records, isAcceptingJobs, sdpc, spawned, blocked>>
      BY <1>2 DEF StopCancel, IInv, CallInv, FrameJobs
    <2>2. jobs \in Seq(RP!JobStates)
      BY DEF IInv, RP!IInv, RP!TypeOK
    <2>3. CASE jobs[call[h].job].cancelled
      <3> DEFINE j == call[h].job
      <3>1. jobs[j] \in RP!JobStates
        BY <2>1, <2>2
      <3>2. jobs[j].cancelled \in BOOLEAN
        BY <3>1 DEF RP!JobStates
      <3>3. jobs[j].cancelled = TRUE
        BY <2>3, <3>2, Zenon
      <3>4. [jobs[j] EXCEPT !.cancelled = TRUE] = jobs[j]
        BY <3>1, <3>3 DEF RP!JobStates
      <3>5. jobs' = jobs
        BY <2>1, <2>2, <3>4
      <3> QED BY <2>1, <3>5
    <2>4. CASE ~ jobs[call[h].job].cancelled
      BY <2>1, <2>4 DEF RP!Next, RP!CancelContext
    <2> QED BY <2>3, <2>4
  <1>3. CASE ShutdownJobs
    BY <1>3, SameRegistry DEF ShutdownJobs, RP!Next
  <1>4. CASE \E j \in DOMAIN jobs : JobStep(j)
    BY <1>4, SameRegistry DEF JobStep, RP!Next
  <1>5. CASE UNCHANGED registryVars
    BY <1>5 DEF registryVars
  <1>6. CASE \E h \in Calls : \/ ArriveStart(h) \/ ArriveOther(h)
                              \/ Leave(h) \/ Stall(h) \/ Resume(h)
    BY <1>5, <1>6 DEF ArriveStart, ArriveOther, Arrive, Leave, Stall, Resume
  <1>7. ASSUME NEW h \in Calls, HandlerStep(h)
        PROVE  RP!Next \/ UNCHANGED RP!registryVars
    BY <1>1, <1>2, <1>5, <1>7 DEF HandlerStep, FindJob, StopReply, GetStatus,
                                  StreamTerminal, StreamSendFails, StreamContextDone
  <1>8. CASE \/ GrpcServe \/ ListenerFails \/ GrpcServeReturns \/ GracefulStop
             \/ GracefulStopReturns \/ Signal \/ ServeStep \/ GraceElapsed \/ UNCHANGED vars
    BY <1>5, <1>8 DEF GrpcServe, ListenerFails, GrpcServeReturns, GracefulStop,
                      GracefulStopReturns, Signal, ServeStep, New, ServeEnds, Drained, Cut,
                      ServeReturns, GraceElapsed, vars
  <1> QED BY <1>3, <1>4, <1>6, <1>7, <1>8 DEF Next, ShutdownGoroutine

\* So the registry keeps its invariant, and its jobs are only ever added to.
LEMMA RegistryInv ==
    ASSUME IInv, [Next]_vars
    PROVE  RP!IInv' /\ RP!Grown(jobs, jobs')
  <1>1. RP!IInv
    BY DEF IInv
  <1>2. RP!IInv'
    BY <1>1, RegistryStep, RP!NextInv, MaxCountAssumption, CountsAssumption, MaxJobsAssumption
  <1>3. RP!Grown(jobs, jobs')
    BY <1>1, RegistryStep, RP!JobsGrow, MaxCountAssumption, CountsAssumption, MaxJobsAssumption
  <1> QED BY <1>2, <1>3

----------------------------------------------------------------------------
(* The frames of the handlers. *)

\* What a frame says of the jobs stays true as they grow.
LEMMA FrameKept ==
    ASSUME NEW f, NEW js, NEW ks, RP!Grown(js, ks), FrameJobs(f, js)
    PROVE  FrameJobs(f, ks)
  BY DEF RP!Grown, FrameJobs

\* A step that leaves the frames alone.
LEMMA CallsKept ==
    ASSUME CallInv, RP!Grown(jobs, jobs'), UNCHANGED call
    PROVE  CallInv'
  BY FrameKept DEF CallInv

\* A step of one handler, whose frame becomes f.
LEMMA CallsStep ==
    ASSUME CallInv, RP!Grown(jobs, jobs'), NEW h \in Calls, NEW f \in Frames,
           call' = [call EXCEPT ![h] = f], FrameStage(f), FrameJobs(f, jobs')
    PROVE  CallInv'
  <1>1. call' \in [Calls -> Frames]
    BY DEF CallInv
  <1>2. ASSUME NEW g \in Calls PROVE FrameStage(call'[g]) /\ FrameJobs(call'[g], jobs')
    <2>1. CASE g = h
      BY <2>1 DEF CallInv
    <2>2. CASE g # h
      <3>1. call'[g] = call[g] /\ FrameStage(call[g]) /\ FrameJobs(call[g], jobs)
        BY <2>2 DEF CallInv
      <3> QED BY <3>1, FrameKept
    <2> QED BY <2>1, <2>2
  <1> QED BY <1>1, <1>2 DEF CallInv

\* The frame that Goto leaves.
LEMMA GotoFrame ==
    ASSUME CallInv, NEW h \in Calls,
           NEW pc \in {"cancel", "wait", "read", "ticks"}, NEW j \in Nat, Goto(h, pc, j)
    PROVE  \E f \in Frames :
              /\ call' = [call EXCEPT ![h] = f]
              /\ f.pc = pc /\ f.job = j
              /\ f.method = call[h].method /\ f.agent = call[h].agent
              /\ f.code = call[h].code /\ f.value = call[h].value
  <1> DEFINE f == [call[h] EXCEPT !.pc = pc, !.job = j]
  <1>1. call[h] \in Frames
    BY DEF CallInv
  <1>2. f \in Frames
    BY <1>1 DEF Frames
  <1>3. call' = [call EXCEPT ![h] = f]
    BY DEF Goto, CallInv
  <1>4. /\ f.pc = pc /\ f.job = j
        /\ f.method = call[h].method /\ f.agent = call[h].agent
        /\ f.code = call[h].code /\ f.value = call[h].value
    BY <1>1 DEF Frames
  <1> QED BY <1>2, <1>3, <1>4

\* The frame that Reply leaves.
LEMMA ReplyFrame ==
    ASSUME CallInv, NEW h \in Calls,
           NEW code \in {"OK", "NotFound", "InvalidArgument", "Unavailable", "Canceled"},
           NEW value \in {"none", "terminal"} \cup Statuses \cup (Agents \X Nat),
           Reply(h, code, value)
    PROVE  \E f \in Frames :
              /\ call' = [call EXCEPT ![h] = f]
              /\ f.pc = "returned" /\ f.code = code /\ f.value = value
              /\ f.method = call[h].method /\ f.agent = call[h].agent /\ f.job = call[h].job
  <1> DEFINE f == [call[h] EXCEPT !.pc = "returned", !.code = code, !.value = value]
  <1>1. call[h] \in Frames
    BY DEF CallInv
  <1>2. f \in Frames
    BY <1>1 DEF Frames
  <1>3. call' = [call EXCEPT ![h] = f]
    BY DEF Reply, CallInv
  <1>4. /\ f.pc = "returned" /\ f.code = code /\ f.value = value
        /\ f.method = call[h].method /\ f.agent = call[h].agent /\ f.job = call[h].job
    BY <1>1 DEF Frames
  <1> QED BY <1>2, <1>3, <1>4

\* A frame whose stream ended without the terminal tick.
EarlyFrame(f) ==
    /\ f.method = "StreamOutput" /\ f.pc = "returned"
    /\ f.code # "NotFound" /\ f.value # "terminal"

\* The frame a handler may leave behind a step of its own: it is one the
\* invariant allows, and a stream ends early only with its context.
GoodStep(h, f) ==
    /\ call' = [call EXCEPT ![h] = f]
    /\ FrameStage(f) /\ FrameJobs(f, jobs')
    /\ EarlyFrame(f) => h \in ctxEnded

\* Service.Start: the id it returns is that of the job it has just registered.
LEMMA StartStep ==
    ASSUME IInv, NEW h \in Calls, HandleStart(h), RP!IInv', RP!Grown(jobs, jobs')
    PROVE  \E f \in Frames : GoodStep(h, f)
  <1> DEFINE a == call[h].agent
             n == call[h].count
             k == R!RecordOf(a).counter
             err == R!CreateError(n)
             code == CASE err = "NotAcceptingJobs" -> "Unavailable"
                       [] err = "InvalidCount" -> "InvalidArgument"
                       [] err = "none" -> "OK"
             value == IF err = "none" THEN <<a, k>> ELSE "none"
  <1>1. CallInv /\ call[h].pc = "create" /\ call[h].method = "Start" /\ a \in Agents
    BY DEF IInv, CallInv, FrameStage, HandleStart
  <1>2. call[h].job # 0 => call[h].job \in DOMAIN jobs /\ jobs[call[h].job].owner = a
    BY DEF IInv, CallInv, FrameJobs
  <1>3. R!Create(a, n) /\ Reply(h, code, value)
    BY DEF HandleStart
  <1>4. jobs \in Seq(RP!JobStates) /\ jobs' \in Seq(RP!JobStates)
    BY DEF IInv, RP!IInv, RP!TypeOK
  <1>5. err \in {"NotAcceptingJobs", "InvalidCount", "none"}
    BY DEF R!CreateError
  <1>6. k \in Nat
    BY DEF IInv, RP!IInv, RP!TypeOK, R!RecordOf, R!NewRecord
  <1>7. /\ code \in {"OK", "NotFound", "InvalidArgument", "Unavailable", "Canceled"}
        /\ code = "OK" <=> err = "none"
    BY <1>5
  <1>8. value \in {"none", "terminal"} \cup Statuses \cup (Agents \X Nat)
    BY <1>1, <1>6
  <1>9. PICK f \in Frames :
          /\ call' = [call EXCEPT ![h] = f]
          /\ f.pc = "returned" /\ f.code = code /\ f.value = value
          /\ f.method = call[h].method /\ f.agent = call[h].agent /\ f.job = call[h].job
    <2> HIDE DEF code, value
    <2> QED BY <1>1, <1>3, <1>7, <1>8, ReplyFrame
  <1>10. FrameStage(f) /\ ~ EarlyFrame(f)
    BY <1>1, <1>9 DEF FrameStage, EarlyFrame, NoCall
  <1>11. f.job # 0 => f.job \in DOMAIN jobs' /\ jobs'[f.job].owner = f.agent
    <2> HIDE DEF code, value, a, n, err, k
    <2> QED BY <1>2, <1>9 DEF RP!Grown, a
  <1>12. f.code = "OK" => \E j \in DOMAIN jobs' :
                             jobs'[j].owner = f.agent /\ f.value = <<f.agent, jobs'[j].id>>
    <2> SUFFICES ASSUME err = "none"
                 PROVE  \E j \in DOMAIN jobs' :
                           jobs'[j].owner = a /\ <<a, k>> = <<a, jobs'[j].id>>
      BY <1>7, <1>9
    <2>1. jobs' = Append(jobs, R!NewJob(a, k))
      BY <1>3 DEF R!Create
    <2>2. /\ Len(jobs) + 1 \in DOMAIN jobs'
          /\ jobs'[Len(jobs) + 1] = R!NewJob(a, k)
      BY <1>4, <2>1
    <2>3. R!NewJob(a, k).owner = a /\ R!NewJob(a, k).id = k
      BY DEF R!NewJob
    <2> HIDE DEF a, k
    <2> QED BY <2>2, <2>3
  <1>13. FrameJobs(f, jobs')
    <2> HIDE DEF code, value, a, n, err
    <2> QED BY <1>1, <1>9, <1>11, <1>12 DEF FrameJobs
  <1> QED BY <1>9, <1>10, <1>13 DEF GoodStep

\* findJob: what is found under the caller's name is the caller's.
LEMMA FindStep ==
    ASSUME IInv, NEW h \in Calls, FindJob(h)
    PROVE  \E f \in Frames : GoodStep(h, f)
  <1> DEFINE a == call[h].agent
             j == R!Find(a, call[h].id)
  <1>1. /\ CallInv /\ call[h].pc = "find" /\ call[h].method \in Methods \ {"Start"}
        /\ a \in Agents /\ call[h].code = "none" /\ jobs' = jobs
        /\ call[h].job # 0 => call[h].job \in DOMAIN jobs /\ jobs[call[h].job].owner = a
    BY DEF IInv, CallInv, FrameStage, FrameJobs, FindJob, registryVars
  <1>2. CASE j = 0
    <2>1. Reply(h, "NotFound", "none")
      BY <1>2 DEF FindJob
    <2>2. PICK f \in Frames :
          /\ call' = [call EXCEPT ![h] = f]
          /\ f.pc = "returned" /\ f.code = "NotFound" /\ f.value = "none"
          /\ f.method = call[h].method /\ f.agent = call[h].agent /\ f.job = call[h].job
      BY <1>1, <2>1, ReplyFrame
    <2> QED BY <1>1, <2>2 DEF GoodStep, FrameStage, FrameJobs, EarlyFrame
  <1>3. CASE j # 0
    <2> DEFINE pc == CASE call[h].method = "Stop" -> "cancel"
                       [] call[h].method = "GetStatus" -> "read"
                       [] call[h].method = "StreamOutput" -> "ticks"
    <2>1. Goto(h, pc, j)
      BY <1>3 DEF FindJob
    <2>2. /\ j \in DOMAIN jobs /\ jobs[j].owner = a
      BY <1>3 DEF R!Find, IInv, RP!IInv, RP!TypeOK, RP!FindsOnlyOwnJobs
    <2>3. j \in Nat
      BY <2>2 DEF IInv, RP!IInv, RP!TypeOK
    <2>4. pc \in {"cancel", "wait", "read", "ticks"}
          /\ (pc = "cancel" => call[h].method = "Stop")
          /\ (pc = "read" => call[h].method = "GetStatus")
          /\ (pc = "ticks" => call[h].method = "StreamOutput")
          /\ pc # "wait"
      BY <1>1 DEF Methods
    <2> HIDE DEF pc, j, a
    <2>5. PICK f \in Frames :
              /\ call' = [call EXCEPT ![h] = f]
              /\ f.pc = pc /\ f.job = j
              /\ f.method = call[h].method /\ f.agent = call[h].agent
              /\ f.code = call[h].code /\ f.value = call[h].value
      BY <1>1, <2>1, <2>3, <2>4, GotoFrame
    <2>6. FrameStage(f) /\ ~ EarlyFrame(f)
      BY <1>1, <2>4, <2>5 DEF FrameStage, EarlyFrame, a
    <2>7. FrameJobs(f, jobs')
      BY <1>1, <1>3, <2>2, <2>5 DEF FrameJobs, a
    <2> QED BY <2>5, <2>6, <2>7 DEF GoodStep
  <1> QED BY <1>2, <1>3


\* Service.Stop: it waits with the job it has cancelled,
LEMMA CancelStep ==
    ASSUME IInv, NEW h \in Calls, StopCancel(h), RP!Grown(jobs, jobs')
    PROVE  \E f \in Frames : GoodStep(h, f)
  <1> DEFINE j == call[h].job
  <1>1. /\ CallInv /\ call[h].method = "Stop" /\ call[h].agent \in Agents
        /\ call[h].code = "none" /\ Goto(h, "wait", j)
    BY DEF IInv, CallInv, FrameStage, StopCancel
  <1>2. j # 0 /\ j \in DOMAIN jobs /\ jobs[j].owner = call[h].agent
    BY DEF IInv, CallInv, FrameJobs, StopCancel
  <1>3. j \in Nat
    BY DEF IInv, CallInv, Frames
  <1>4. j \in DOMAIN jobs' /\ jobs'[j].owner = call[h].agent
    BY <1>2 DEF RP!Grown
  <1> HIDE DEF j
  <1>5. PICK f \in Frames :
          /\ call' = [call EXCEPT ![h] = f]
          /\ f.pc = "wait" /\ f.job = j
          /\ f.method = call[h].method /\ f.agent = call[h].agent
          /\ f.code = call[h].code /\ f.value = call[h].value
    BY <1>1, <1>3, GotoFrame
  <1>6. FrameStage(f) /\ ~ EarlyFrame(f)
    BY <1>1, <1>5 DEF FrameStage, EarlyFrame
  <1>7. FrameJobs(f, jobs')
    BY <1>1, <1>2, <1>4, <1>5 DEF FrameJobs
  <1> QED BY <1>5, <1>6, <1>7 DEF GoodStep

\* and answers with the status it reads behind finished; GetStatus reads the
\* status at any time; a stream ends with the terminal tick or its context.
LEMMA AnswerStep ==
    ASSUME IInv, NEW h \in Calls,
           \/ StopReply(h) \/ GetStatus(h) \/ StreamTerminal(h)
           \/ StreamSendFails(h) \/ StreamContextDone(h)
    PROVE  \E f \in Frames : GoodStep(h, f)
  <1> DEFINE j == call[h].job
             Values == {"none", "terminal"} \cup Statuses \cup (Agents \X Nat)
  <1>1. /\ CallInv /\ call[h].agent \in Agents /\ jobs' = jobs
        /\ call[h].pc = "wait" => call[h].method = "Stop"
        /\ call[h].pc = "read" => call[h].method = "GetStatus"
        /\ call[h].pc = "ticks" => call[h].method = "StreamOutput"
        /\ call[h].pc \in {"wait", "read", "ticks"}
    BY DEF IInv, CallInv, FrameStage, registryVars, StopReply, GetStatus, StreamTerminal,
           StreamSendFails, StreamContextDone
  <1>2. j # 0 /\ j \in DOMAIN jobs /\ jobs[j].owner = call[h].agent
    BY <1>1 DEF CallInv, FrameJobs
  <1>3. jobs[j].status \in Statuses
    <2>1. jobs \in Seq(RP!JobStates)
      BY DEF IInv, RP!IInv, RP!TypeOK
    <2>2. jobs[j] \in RP!JobStates
      BY <1>2, <2>1
    <2> QED BY <2>2 DEF RP!JobStates, RP!Statuses, Statuses, RP!TerminalStatuses, TerminalStatuses
  <1>4. ASSUME NEW code \in {"OK", "Canceled"}, NEW value \in Values, Reply(h, code, value),
               call[h].method = "Stop" => value = jobs[j].status /\ value # "RUNNING",
               call[h].method = "StreamOutput" => value = "terminal" \/ h \in ctxEnded
        PROVE  \E f \in Frames : GoodStep(h, f)
    <2>1. PICK f \in Frames :
            /\ call' = [call EXCEPT ![h] = f]
            /\ f.pc = "returned" /\ f.code = code /\ f.value = value
            /\ f.method = call[h].method /\ f.agent = call[h].agent /\ f.job = call[h].job
      <3>1. code \in {"OK", "NotFound", "InvalidArgument", "Unavailable", "Canceled"}
        BY <1>4
      <3>2. CallInv /\ Reply(h, code, value)
        BY <1>1, <1>4
      <3>3. value \in Values
        BY <1>4
      <3> QED BY <3>1, <3>2, <3>3, ReplyFrame
    <2>2. FrameStage(f)
      BY <1>1, <2>1 DEF FrameStage
    <2>3. FrameJobs(f, jobs')
      BY <1>1, <1>2, <1>4, <2>1 DEF FrameJobs
    <2>4. EarlyFrame(f) => h \in ctxEnded
      BY <1>4, <2>1 DEF EarlyFrame
    <2> QED BY <2>1, <2>2, <2>3, <2>4 DEF GoodStep
  <1>5. CASE StopReply(h)
    <2>1. /\ call[h].method = "Stop" /\ Reply(h, "OK", jobs[j].status)
          /\ jobs[j].status # "RUNNING"
      BY <1>1, <1>2, <1>5 DEF StopReply, IInv, RP!IInv, RP!JobInv
    <2> HIDE DEF j
    <2> QED BY <1>3, <1>4, <2>1
  <1>6. CASE GetStatus(h)
    <2>1. call[h].method = "GetStatus" /\ Reply(h, "OK", jobs[j].status)
      BY <1>1, <1>6 DEF GetStatus
    <2> HIDE DEF j
    <2> QED BY <1>3, <1>4, <2>1
  <1>7. CASE StreamTerminal(h)
    BY <1>1, <1>4, <1>7 DEF StreamTerminal
  <1>8. CASE StreamSendFails(h)
    BY <1>1, <1>4, <1>8 DEF StreamSendFails
  <1>9. CASE StreamContextDone(h)
    BY <1>1, <1>4, <1>9 DEF StreamContextDone
  <1> QED BY <1>5, <1>6, <1>7, <1>8, <1>9

\* A step of a handler.
LEMMA HandlerInv ==
    ASSUME IInv, NEW h \in Calls, HandlerStep(h), RP!IInv', RP!Grown(jobs, jobs')
    PROVE  IInv'
  <1>1. PICK f \in Frames : GoodStep(h, f)
    BY StartStep, FindStep, CancelStep, AnswerStep DEF HandlerStep
  <1>2. UNCHANGED <<ctxEnded, left, stalled, serveVars>> /\ sdpc' = sdpc
    BY DEF HandlerStep, HandleStart, R!Create, R!registryVars, R!shutdownVars, FindJob, StopCancel,
           StopReply, GetStatus, StreamTerminal, StreamSendFails, StreamContextDone, registryVars
  <1>3. InFlight(h)
    BY DEF HandlerStep, HandleStart, FindJob, StopCancel, StopReply, GetStatus, StreamTerminal,
           StreamSendFails, StreamContextDone, InFlight
  <1>4. call \in [Calls -> Frames] /\ call' = [call EXCEPT ![h] = f]
    BY <1>1 DEF IInv, CallInv, GoodStep
  <1>5. CallInv'
    BY <1>1, CallsStep DEF IInv, GoodStep
  <1>6. ContextInv'
    <2>1. \A g \in Calls : EndedEarly(g)' => EndedEarly(g) \/ g \in ctxEnded
      BY <1>1, <1>4 DEF GoodStep, EarlyFrame, EndedEarly
    <2> QED BY <1>2, <2>1 DEF IInv, ContextInv, StreamsEndWithTerminal, serveVars
  <1>7. gpc # "none" /\ dpc # "stopped"
    BY <1>3 DEF IInv, ServeInv, InFlight
  <1>8. ServeInv' /\ OutcomeInv' /\ ServeTypeOK'
    BY <1>2, <1>7 DEF IInv, ServeInv, OutcomeInv, ServeTypeOK, serveVars
  <1> QED BY <1>5, <1>6, <1>8 DEF IInv

\* An RPC that arrives: grpc.Serve accepts, so nothing has been drained yet.
LEMMA ArriveInv ==
    ASSUME IInv, NEW h \in Calls, ArriveStart(h) \/ ArriveOther(h),
           RP!IInv', RP!Grown(jobs, jobs')
    PROVE  IInv'
  <1>1. PICK m \in Methods, a \in Agents, n \in Int, id \in Ids \cup {<< >>} :
          /\ Arrive(h, m, a, n, id)
          /\ m = "Start" => n \in Counts
    <2>1. CASE ArriveStart(h)
      <3>1. PICK a \in Agents, n \in Counts : Arrive(h, "Start", a, n, << >>)
        BY <2>1 DEF ArriveStart
      <3> QED BY <3>1, CountsAssumption DEF Methods
    <2>2. CASE ArriveOther(h)
      <3>1. PICK m \in Methods \ {"Start"}, a \in Agents, id \in Ids : Arrive(h, m, a, 0, id)
        BY <2>2 DEF ArriveOther
      <3> QED BY <3>1
    <2> QED BY <2>1, <2>2
  <1> DEFINE f == [NoCall EXCEPT !.pc = IF m = "Start" THEN "create" ELSE "find",
                                 !.method = m, !.agent = a, !.count = n, !.id = id]
  <1>2. /\ call' = [call EXCEPT ![h] = f]
        /\ transport = "serving" /\ gpc \notin {"none", "new"} /\ call[h].pc = "idle"
        /\ UNCHANGED <<registryVars, ctxEnded, left, stalled, serveVars>>
    BY <1>1 DEF Arrive
  <1>3. /\ f.pc = IF m = "Start" THEN "create" ELSE "find"
        /\ f.method = m /\ f.agent = a /\ f.count = n /\ f.id = id
        /\ f.job = 0 /\ f.code = "none" /\ f.value = "none"
    BY DEF NoCall
  <1>4. f \in Frames
    BY DEF NoCall, Frames
  <1> HIDE DEF f
  <1>5. FrameStage(f) /\ FrameJobs(f, jobs')
    BY <1>1, <1>3 DEF FrameStage, FrameJobs
  <1>6. CallInv'
    BY <1>2, <1>4, <1>5, CallsStep DEF IInv
  <1>7. call \in [Calls -> Frames]
    BY DEF IInv, CallInv
  <1>8. ContextInv'
    <2>1. \A g \in Calls : EndedEarly(g)' => EndedEarly(g)
      BY <1>2, <1>3, <1>7 DEF EndedEarly
    <2> QED BY <1>2, <2>1 DEF IInv, ContextInv, StreamsEndWithTerminal, serveVars
  <1>9. dpc # "stopped"
    BY <1>2 DEF IInv, ServeInv
  <1>10. ServeInv' /\ OutcomeInv' /\ ServeTypeOK'
    BY <1>2, <1>9 DEF IInv, ServeInv, OutcomeInv, ServeTypeOK, serveVars, registryVars
  <1> QED BY <1>6, <1>8, <1>10 DEF IInv

\* What a client does with an RPC it has made.
LEMMA ClientInv ==
    ASSUME IInv, NEW h \in Calls, Leave(h) \/ Stall(h) \/ Resume(h),
           RP!IInv', RP!Grown(jobs, jobs')
    PROVE  IInv'
  <1>1. UNCHANGED <<registryVars, call, serveVars>>
    BY DEF Leave, Stall, Resume
  <1>2. CallInv'
    BY <1>1, CallsKept DEF IInv
  <1>3. ContextInv'
    BY <1>1 DEF IInv, ContextInv, StreamsEndWithTerminal, EndedEarly, Leave, Stall, Resume,
                serveVars
  <1>4. ServeInv' /\ OutcomeInv' /\ ServeTypeOK'
    BY <1>1 DEF IInv, ServeInv, OutcomeInv, ServeTypeOK, InFlight, serveVars, registryVars
  <1> QED BY <1>2, <1>3, <1>4 DEF IInv

\* A step of a goroutine of the process that neither closes the transport nor
\* ends a context.
LEMMA ServerStepKeeps ==
    ASSUME IInv, UNCHANGED callVars, transport' = "closed" <=> transport = "closed",
           RP!Grown(jobs, jobs')
    PROVE  CallInv' /\ ContextInv'
  <1>1. CallInv'
    BY CallsKept DEF IInv, callVars
  <1>2. ContextInv'
    BY DEF IInv, ContextInv, StreamsEndWithTerminal, EndedEarly, callVars
  <1> QED BY <1>1, <1>2

\* The goroutine of grpc.Serve.
LEMMA GrpcInv ==
    ASSUME IInv, GrpcServe \/ ListenerFails \/ GrpcServeReturns,
           RP!IInv', RP!Grown(jobs, jobs')
    PROVE  IInv'
  <1>1. /\ UNCHANGED <<registryVars, callVars, transport, signalled, mpc, dpc, isDrained,
                       outcome, config>>
        /\ gpc \in {"new", "accepting"} /\ gpc' \in {"accepting", "done"}
        /\ served' \in {served, "ErrServerStopped", "failed", "nil"}
    BY DEF GrpcServe, ListenerFails, GrpcServeReturns
  <1>2. CallInv' /\ ContextInv'
    BY <1>1, ServerStepKeeps
  <1>3. ServeInv' /\ OutcomeInv' /\ ServeTypeOK'
    BY <1>1 DEF IInv, ServeInv, OutcomeInv, ServeTypeOK, InFlight, registryVars, callVars
  <1> QED BY <1>2, <1>3 DEF IInv

\* shutdown's goroutine.
LEMMA ShutdownGoroutineInv ==
    ASSUME IInv, ShutdownGoroutine, RP!IInv', RP!Grown(jobs, jobs')
    PROVE  IInv'
  <1>1. /\ UNCHANGED <<callVars, gpc, served, signalled, mpc, isDrained, outcome, config>>
        /\ dpc \in {"jobs", "graceful", "waiting"}
    BY DEF ShutdownGoroutine, ShutdownJobs, GracefulStop, GracefulStopReturns
  <1>2. transport' = "closed" <=> transport = "closed"
    BY DEF ShutdownGoroutine, ShutdownJobs, GracefulStop, GracefulStopReturns
  <1>3. CallInv' /\ ContextInv'
    BY <1>1, <1>2, ServerStepKeeps
  <1>4. mpc \notin {"starting", "serving", "join", "returned"}
    BY <1>1 DEF IInv, ServeInv, OutcomeInv, ServeTypeOK
  <1>5. gpc # "none"
    BY <1>4 DEF IInv, ServeInv
  <1>6. OutcomeInv'
    BY <1>1, <1>4 DEF OutcomeInv
  <1>7. ServeTypeOK'
    BY <1>1 DEF IInv, ServeTypeOK, ShutdownGoroutine, ShutdownJobs, GracefulStop,
                GracefulStopReturns
  <1>8. ServeInv'
    <2>1. CASE ShutdownJobs
      BY <1>1, <1>4, <1>5, <2>1 DEF IInv, ServeInv, ShutdownJobs
    <2>2. CASE GracefulStop
      BY <1>1, <1>4, <1>5, <2>2 DEF IInv, ServeInv, GracefulStop, registryVars
    <2>3. CASE GracefulStopReturns
      BY <1>1, <1>4, <1>5, <2>3 DEF IInv, ServeInv, GracefulStopReturns, InFlight, callVars,
                                    registryVars
    <2> QED BY <2>1, <2>2, <2>3 DEF ShutdownGoroutine
  <1> QED BY <1>3, <1>6, <1>7, <1>8 DEF IInv

\* The process up to Serve, and the signal.
LEMMA NewInv ==
    ASSUME IInv, New \/ Signal, RP!IInv', RP!Grown(jobs, jobs')
    PROVE  IInv'
  <1>1. UNCHANGED <<registryVars, callVars, transport, served, config, dpc, isDrained>>
    BY DEF New, Signal
  <1>2. CallInv' /\ ContextInv'
    BY <1>1, ServerStepKeeps
  <1>3. CASE Signal
    BY <1>1, <1>2, <1>3 DEF IInv, ServeInv, OutcomeInv, ServeTypeOK, InFlight, registryVars,
                            callVars, Signal
  <1>4. CASE New
    <2>1. gpc = "none" /\ dpc = "none" /\ mpc = "starting" /\ transport # "closed"
      BY <1>4 DEF New, IInv, ServeInv
    <2>2. parse(config) \in {"ErrHelp", "errUsage", "nil"}
      BY DEF parse
    <2>3. \/ mpc' = "returned" /\ gpc' = "none" /\ outcome' \in {"ErrHelp", "errUsage", "errConfig"}
          \/ mpc' = "serving" /\ gpc' = "new" /\ outcome' = outcome
      BY <1>4, <2>1, <2>2 DEF New, NotServed
    <2>4. signalled' = signalled
      BY <1>4 DEF New
    <2>5. ServeTypeOK' /\ OutcomeInv'
      BY <1>1, <2>3, <2>4 DEF IInv, ServeTypeOK, OutcomeInv
    <2>6. ServeInv'
      BY <1>1, <2>1, <2>3 DEF IInv, ServeInv, InFlight, registryVars, callVars
    <2> QED BY <1>2, <2>5, <2>6 DEF IInv
  <1> QED BY <1>3, <1>4

\* Serve, from its select to its return.
LEMMA ServeStepInv ==
    ASSUME IInv, ServeEnds \/ Drained \/ Cut \/ ServeReturns, RP!IInv', RP!Grown(jobs, jobs')
    PROVE  IInv'
  <1>1. /\ UNCHANGED <<registryVars, callVars, transport, gpc, served, signalled, config>>
        /\ mpc \notin {"starting", "returned"}
    BY DEF ServeEnds, Drained, Cut, ServeReturns
  <1>2. CallInv' /\ ContextInv'
    BY <1>1, ServerStepKeeps
  <1>3. gpc # "none"
    BY <1>1 DEF IInv, ServeInv
  <1>4. ServeTypeOK'
    <2>1. isDrained' \in BOOLEAN
      BY <1>1 DEF IInv, ServeTypeOK, ServeEnds, Drained, Cut, ServeReturns
    <2>2. outcome' \in {outcome, "error", "ErrShutdownGraceElapsed", "nil"}
      BY DEF ServeEnds, Drained, Cut, ServeReturns
    <2>3. mpc' \in {"shutdown", "join", "returned"} /\ dpc' \in {dpc, "jobs"}
      BY DEF ServeEnds, Drained, Cut, ServeReturns
    <2> QED BY <1>1, <2>1, <2>2, <2>3 DEF IInv, ServeTypeOK
  <1>5. OutcomeInv'
    BY <1>1, <1>3 DEF IInv, ServeInv, OutcomeInv, ServeEnds, Drained, Cut, ServeReturns
  <1>6. ServeInv'
    <2>1. CASE ServeEnds
      BY <1>1, <1>3, <2>1 DEF IInv, ServeInv, ServeEnds, registryVars, callVars
    <2>2. CASE Drained
      BY <1>1, <1>3, <2>2 DEF IInv, ServeInv, InFlight, Drained, registryVars, callVars
    <2>3. CASE Cut
      BY <1>1, <1>3, <2>3 DEF IInv, ServeInv, InFlight, Cut, registryVars, callVars
    <2>4. CASE ServeReturns
      BY <1>1, <1>3, <2>4 DEF IInv, ServeInv, InFlight, ServeReturns, registryVars, callVars
    <2> QED BY <2>1, <2>2, <2>3, <2>4
  <1> QED BY <1>2, <1>4, <1>5, <1>6 DEF IInv

\* The grace elapses: the contexts of what is in flight end with the transport.
LEMMA GraceInv ==
    ASSUME IInv, GraceElapsed, RP!IInv', RP!Grown(jobs, jobs')
    PROVE  IInv'
  <1>1. CallInv'
    BY CallsKept DEF IInv, GraceElapsed
  <1>2. ContextInv'
    BY DEF IInv, ContextInv, StreamsEndWithTerminal, EndedEarly, GraceElapsed
  <1>3. ServeTypeOK' /\ OutcomeInv'
    BY DEF IInv, ServeTypeOK, OutcomeInv, GraceElapsed
  <1>4. ServeInv'
    BY DEF IInv, ServeInv, InFlight, GraceElapsed, registryVars
  <1> QED BY <1>1, <1>2, <1>3, <1>4 DEF IInv

\* A step of a job.
LEMMA JobStepKeeps ==
    ASSUME IInv, NEW j \in DOMAIN jobs, JobStep(j), RP!IInv', RP!Grown(jobs, jobs')
    PROVE  IInv'
  <1>1. UNCHANGED <<callVars, serveVars>> /\ sdpc' = sdpc
    BY DEF JobStep, R!JobStep, R!JobEnds, R!JobCloses, R!shutdownVars
  <1>2. CallInv' /\ ContextInv'
    BY <1>1, ServerStepKeeps DEF serveVars
  <1>3. jobs # << >>
    OBVIOUS
  <1>4. gpc # "none"
    BY <1>3 DEF IInv, ServeInv
  <1>5. ServeInv' /\ OutcomeInv' /\ ServeTypeOK'
    BY <1>1, <1>4 DEF IInv, ServeInv, OutcomeInv, ServeTypeOK, InFlight, serveVars, callVars
  <1> QED BY <1>2, <1>5 DEF IInv

----------------------------------------------------------------------------
\* At first nothing is served and nobody has called.
LEMMA InitInv == Init => IInv
  <1> SUFFICES ASSUME Init PROVE IInv OBVIOUS
  <1>1. RP!IInv
    BY SameRegistry, RP!InitInv, MaxCountAssumption, CountsAssumption, MaxJobsAssumption DEF Init
  <1>2. NoCall \in Frames
    BY DEF NoCall, Frames
  <1>3. FrameStage(NoCall) /\ FrameJobs(NoCall, jobs)
    BY DEF NoCall, FrameStage, FrameJobs
  <1>4. CallInv
    BY <1>2, <1>3 DEF Init, CallInv
  <1>5. \A h \in Calls : call[h].pc = "idle"
    BY DEF Init, NoCall
  <1>6. ContextInv
    BY <1>5 DEF Init, ContextInv, StreamsEndWithTerminal, EndedEarly
  <1>7. ServeInv /\ OutcomeInv /\ ServeTypeOK
    BY <1>5 DEF Init, R!Init, ServeInv, OutcomeInv, ServeTypeOK
  <1> QED BY <1>1, <1>4, <1>6, <1>7 DEF IInv

LEMMA NextInv == IInv /\ [Next]_vars => IInv'
  <1> SUFFICES ASSUME IInv, [Next]_vars PROVE IInv' OBVIOUS
  <1>1. RP!IInv' /\ RP!Grown(jobs, jobs')
    BY RegistryInv
  <1>2. CASE \E h \in Calls : ArriveStart(h) \/ ArriveOther(h)
    BY <1>1, <1>2, ArriveInv
  <1>3. CASE \E h \in Calls : HandlerStep(h)
    BY <1>1, <1>3, HandlerInv
  <1>4. CASE \E h \in Calls : Leave(h) \/ Stall(h) \/ Resume(h)
    BY <1>1, <1>4, ClientInv
  <1>5. CASE GrpcServe \/ ListenerFails \/ GrpcServeReturns
    BY <1>1, <1>5, GrpcInv
  <1>6. CASE ShutdownGoroutine
    BY <1>1, <1>6, ShutdownGoroutineInv
  <1>7. CASE Signal \/ ServeStep \/ GraceElapsed
    BY <1>1, <1>7, NewInv, ServeStepInv, GraceInv DEF ServeStep
  <1>8. CASE \E j \in DOMAIN jobs : JobStep(j)
    BY <1>1, <1>8, JobStepKeeps
  <1>9. CASE UNCHANGED vars
    <2>1. CallInv' /\ ContextInv'
      BY <1>1, <1>9, ServerStepKeeps DEF vars, serveVars
    <2>2. ServeInv' /\ OutcomeInv' /\ ServeTypeOK'
      BY <1>9 DEF IInv, ServeInv, OutcomeInv, ServeTypeOK, InFlight, vars, serveVars, callVars,
                  registryVars
    <2> QED BY <1>1, <2>1, <2>2 DEF IInv
  <1> QED BY <1>2, <1>3, <1>4, <1>5, <1>6, <1>7, <1>8, <1>9 DEF Next

\* The inductive invariant holds in every behaviour of the server.
THEOREM Invariance == Spec => []IInv
  BY InitInv, NextInv, PTL DEF Spec

----------------------------------------------------------------------------
(* The properties the runs check, for every value of the constants. *)

\* The type invariant of the server, its registry included: every RPC that has
\* ended did so with a code the service can produce.
THEOREM TypeCorrect == Spec => []TypeOK
  <1>1. IInv => TypeOK
    <2> SUFFICES ASSUME IInv PROVE TypeOK OBVIOUS
    <2>1. R!TypeOK
      BY SameRegistry DEF IInv, RP!IInv
    <2>2. jobs \in Seq(RP!JobStates)
      BY DEF IInv, RP!IInv, RP!TypeOK
    <2>3. ASSUME NEW h \in Calls
          PROVE  /\ call[h].pc \in {"idle", "create", "find", "cancel", "wait", "read", "ticks",
                                    "returned"}
                 /\ call[h].method \in Methods \cup {"none"}
                 /\ call[h].job \in 0 .. Len(jobs)
                 /\ call[h].code \in {"none", "OK", "NotFound", "InvalidArgument", "Unavailable",
                                      "Canceled"}
      <3>1. call[h] \in Frames /\ (call[h].job # 0 => call[h].job \in DOMAIN jobs)
        BY DEF IInv, CallInv, FrameJobs
      <3>2. call[h].job \in 0 .. Len(jobs)
        BY <2>2, <3>1
      <3> QED BY <3>1, <3>2 DEF Frames
    <2> QED BY <2>1, <2>3 DEF IInv, ContextInv, ServeTypeOK, TypeOK
  <1> QED BY <1>1, Invariance, PTL

\* Once Serve has returned every job has finished and no handler runs: the
\* goroutine of shutdown was waited for, whether or not the grace had elapsed.
THEOREM NothingLeft == Spec => []NothingLeftRunning
  <1>1. IInv => NothingLeftRunning
    <2> SUFFICES ASSUME IInv, mpc = "returned"
                 PROVE  /\ \A j \in DOMAIN jobs : jobs[j].finished
                        /\ \A h \in Calls : ~ InFlight(h)
      BY DEF NothingLeftRunning
    <2>1. CASE gpc = "none"
      BY <2>1 DEF IInv, ServeInv, InFlight
    <2>2. CASE gpc # "none"
      <3>1. dpc = "stopped" /\ sdpc["serve"] = "returned"
        BY <2>2 DEF IInv, OutcomeInv, ServeInv
      <3>2. \A j \in DOMAIN jobs : jobs[j].finished
        BY <3>1 DEF IInv, RP!IInv, RP!ShutdownInv
      <3> QED BY <3>1, <3>2 DEF IInv, ServeInv
    <2> QED BY <2>1, <2>2
  <1> QED BY <1>1, Invariance, PTL

\* A stream ends without its terminal tick only if its client went away or the
\* grace elapsed.
THEOREM Streams == Spec => []StreamsEndWithTerminal
  BY Invariance, PTL DEF IInv, ContextInv

\* Exit code 0 means that nobody who was listening lost a terminal tick, and 2
\* that no RPC was answered.
THEOREM ExitCode == Spec => []ExitCodeIsTrue
  <1>1. IInv => ExitCodeIsTrue
    <2> SUFFICES ASSUME IInv, mpc = "returned"
                 PROVE  /\ run(outcome) = 0 => \A h \in Calls : EndedEarly(h) => h \in left
                        /\ run(outcome) = 2 => \A h \in Calls : call[h].pc = "idle"
      BY DEF ExitCodeIsTrue
    <2>1. CASE gpc = "none"
      BY <2>1 DEF IInv, ServeInv, EndedEarly
    <2>2. CASE gpc # "none"
      <3>1. outcome \in {"nil", "error", "ErrShutdownGraceElapsed"} /\ (outcome = "nil" => isDrained)
        BY <2>2 DEF IInv, OutcomeInv
      <3>2. run(outcome) # 2 /\ (run(outcome) = 0 => outcome = "nil")
        BY <3>1 DEF run, exitCodeFor
      <3>3. isDrained => transport # "closed"
        BY DEF IInv, ServeInv
      <3> QED BY <3>1, <3>2, <3>3 DEF IInv, ContextInv, StreamsEndWithTerminal
    <2> QED BY <2>1, <2>2
  <1> QED BY <1>1, Invariance, PTL

\* The id Start returned finds a job of its agent, and no handler is ever given
\* a job of another agent.
THEOREM Replies == Spec => []RepliesAreAboutOwnJobs
  <1>1. IInv => RepliesAreAboutOwnJobs
    <2> SUFFICES ASSUME IInv, NEW h \in Calls
                 PROVE  /\ call[h].method = "Start" /\ call[h].code = "OK" =>
                              R!Find(call[h].agent, call[h].value) # 0
                        /\ call[h].job # 0 => jobs[call[h].job].owner = call[h].agent
      BY DEF RepliesAreAboutOwnJobs
    <2>1. call[h].job # 0 => jobs[call[h].job].owner = call[h].agent
      BY DEF IInv, CallInv, FrameJobs
    <2>2. ASSUME call[h].method = "Start", call[h].code = "OK"
          PROVE  R!Find(call[h].agent, call[h].value) # 0
      <3>1. PICK j \in DOMAIN jobs :
               jobs[j].owner = call[h].agent /\ call[h].value = <<call[h].agent, jobs[j].id>>
        BY <2>2 DEF IInv, CallInv, FrameJobs
      <3>2. RP!Find(jobs[j].owner, <<jobs[j].owner, jobs[j].id>>) = j
        BY DEF IInv, RP!IInv, RP!EveryJobIsFound
      <3>3. j # 0
        BY DEF IInv, RP!IInv, RP!TypeOK
      <3> QED BY <3>1, <3>2, <3>3, SameRegistry
    <2> QED BY <2>1, <2>2
  <1> QED BY <1>1, Invariance, PTL

\* Stop reports the status its job has ended with, and never RUNNING.
THEOREM Stops == Spec => []StopReportsTheEnd
  <1>1. IInv => StopReportsTheEnd
    BY DEF IInv, CallInv, FrameJobs, StopReportsTheEnd
  <1> QED BY <1>1, Invariance, PTL

----------------------------------------------------------------------------
\* The server drives its registry only as module Registry allows, so whatever is
\* proved of Registry for one Shutdown call holds of the registry in the server:
\* ids are stable, jobs are not lost and end once.
THEOREM DrivesTheRegistry == Spec => R!Spec
  <1>1. Init => R!Init
    BY DEF Init
  <1>2. IInv /\ [Next]_vars => [R!Next]_(R!registryVars)
    <2> SUFFICES ASSUME IInv, [Next]_vars PROVE [R!Next]_(R!registryVars) OBVIOUS
    <2>1. [RP!Next]_(RP!registryVars)
      BY RegistryStep
    <2> QED BY <2>1, SameRegistry DEF R!registryVars, RP!registryVars, R!shutdownVars,
                                      RP!shutdownVars
  <1> QED BY <1>1, <1>2, Invariance, PTL DEF Spec, R!Spec

=============================================================================
