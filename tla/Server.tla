------------------------------ MODULE Server ------------------------------
(***************************************************************************)
(* The server: the RPC handlers of internal/server/service.go over one     *)
(* registry, New, Serve and shutdown of internal/server/server.go with the *)
(* gRPC transport they drive, and the process of cmd/fizzled around them,  *)
(* from its command line to its exit code.                                 *)
(*                                                                         *)
(* The transport is external and modelled from its use.  It hands RPCs to  *)
(* handlers while it serves; GracefulStop refuses new ones and waits for   *)
(* the handlers in flight; Stop cuts every connection, which ends the      *)
(* contexts of their streams.  A peer may leave, and one that stops        *)
(* reading its stream blocks the handler's Send.  Interceptors and the     *)
(* wire encoding are not part of this module.                              *)
(*                                                                         *)
(* Of the ticks a stream carries only the terminal one is kept: that a     *)
(* reader is given all of them, in order, is shown of module Job.          *)
(***************************************************************************)
EXTENDS Integers, Sequences, FiniteSets, Tick

CONSTANTS
    Agents, MaxCount, Counts, MaxJobs,  \* as in module Registry
    Calls,                              \* RPCs, each one made at most once
    Configs                             \* what fizzled may be started with

ASSUME MaxCountAssumption == MaxCount \in Nat \ {0}
ASSUME CountsAssumption == Counts \subseteq Int
ASSUME MaxJobsAssumption == MaxJobs \in Nat

VARIABLES
    records, isAcceptingJobs, jobs, sdpc, spawned, blocked,  \* the registry
    call,       \* each RPC: where its handler is, its arguments and its reply
    ctxEnded,   \* the RPCs whose context is done
    left,       \* the RPCs whose client went away
    stalled,    \* the RPCs whose client does not read
    transport,  \* "serving", "draining" (GracefulStop) or "closed" (Stop)
    gpc,        \* the goroutine that runs grpc.Serve: "none", "new", "accepting", "done"
    served,     \* the channel of that name: what grpc.Serve returned
    signalled,  \* whether Serve's ctx is done
    config,     \* fizzled's command line, and whether what it names can be used
    mpc,        \* where the process, and in it Serve, is
    dpc,        \* where shutdown's goroutine is
    isDrained,  \* Serve's isDrained
    outcome     \* what parse, New or Serve returned

R == INSTANCE Registry WITH Shutdowns <- {"serve"}

registryVars == <<records, isAcceptingJobs, jobs, sdpc, spawned, blocked>>
callVars == <<call, ctxEnded, left, stalled>>
serveVars == <<transport, gpc, served, signalled, config, mpc, dpc, isDrained, outcome>>
vars == <<registryVars, callVars, serveVars>>

Methods == {"Start", "Stop", "GetStatus", "StreamOutput"}
Ids == Agents \X (0 .. MaxJobs - 1)

NoCall == [pc |-> "idle", method |-> "none", agent |-> "none", count |-> 0,
           id |-> << >>, job |-> 0, code |-> "none", value |-> "none"]

InFlight(h) == call[h].pc \notin {"idle", "returned"}

Init ==
    /\ R!Init
    /\ call = [h \in Calls |-> NoCall]
    /\ ctxEnded = {} /\ left = {} /\ stalled = {}
    /\ transport = "serving"
    /\ gpc = "none"
    /\ served = "none"
    /\ signalled = FALSE
    /\ config \in Configs
    /\ mpc = "starting"
    /\ dpc = "none"
    /\ isDrained = FALSE
    /\ outcome = "none"

----------------------------------------------------------------------------
(* The handlers.  Goto and Reply are what a handler does with its own frame. *)

Goto(h, pc, j) == call' = [call EXCEPT ![h].pc = pc, ![h].job = j]
Reply(h, code, value) ==
    call' = [call EXCEPT ![h].pc = "returned", ![h].code = code, ![h].value = value]

\* The transport hands an RPC to its handler.
Arrive(h, m, a, n, id) ==
    /\ call[h].pc = "idle"
    /\ transport = "serving" /\ gpc \notin {"none", "new"}
    /\ call' = [call EXCEPT ![h] = [NoCall EXCEPT
                    !.pc = IF m = "Start" THEN "create" ELSE "find",
                    !.method = m, !.agent = a, !.count = n, !.id = id]]
    /\ UNCHANGED <<registryVars, ctxEnded, left, stalled, serveVars>>

\* Bound: at most MaxJobs RPCs are Starts, so that Create never meets its own.
ArriveStart(h) ==
    /\ Cardinality({g \in Calls : call[g].method = "Start"}) < MaxJobs
    /\ \E a \in Agents, n \in Counts : Arrive(h, "Start", a, n, << >>)
ArriveOther(h) == \E m \in Methods \ {"Start"}, a \in Agents, id \in Ids :
                      Arrive(h, m, a, 0, id)

\* Service.Start, with the status code of each error of Create.
HandleStart(h) ==
    /\ call[h].pc = "create"
    /\ R!Create(call[h].agent, call[h].count)
    /\ LET err == R!CreateError(call[h].count)
       IN Reply(h, CASE err = "NotAcceptingJobs" -> "Unavailable"
                     [] err = "InvalidCount" -> "InvalidArgument"
                     [] err = "none" -> "OK",
                IF err = "none"
                THEN <<call[h].agent, R!RecordOf(call[h].agent).counter>> ELSE "none")
    /\ UNCHANGED <<ctxEnded, left, stalled, serveVars>>

\* Faulty variant: the job is looked up among its owner's, whoever asks.
FindAnyJob(h) ==
    /\ call[h].pc = "find"
    /\ LET j == R!Find(call[h].id[1], call[h].id)
       IN IF j = 0 THEN Reply(h, "NotFound", "none")
          ELSE Goto(h, CASE call[h].method = "Stop" -> "cancel"
                         [] call[h].method = "GetStatus" -> "read"
                         [] call[h].method = "StreamOutput" -> "ticks", j)
    /\ UNCHANGED <<registryVars, ctxEnded, left, stalled, serveVars>>

\* findJob, the first thing the other three handlers do.
FindJob(h) ==
    /\ call[h].pc = "find"
    /\ LET j == R!Find(call[h].agent, call[h].id)
       IN IF j = 0 THEN Reply(h, "NotFound", "none")
          ELSE Goto(h, CASE call[h].method = "Stop" -> "cancel"
                         [] call[h].method = "GetStatus" -> "read"
                         [] call[h].method = "StreamOutput" -> "ticks", j)
    /\ UNCHANGED <<registryVars, ctxEnded, left, stalled, serveVars>>

\* Service.Stop: job.Stop cancels, waits for finished and reads the status.
StopCancel(h) ==
    /\ call[h].pc = "cancel"
    /\ jobs' = [jobs EXCEPT ![call[h].job].cancelled = TRUE]
    /\ Goto(h, "wait", call[h].job)
    /\ UNCHANGED <<records, isAcceptingJobs, sdpc, spawned, blocked,
                   ctxEnded, left, stalled, serveVars>>

\* Faulty variant: the status is read without waiting for finished.
StopReplyEarly(h) ==
    /\ call[h].pc = "wait"
    /\ Reply(h, "OK", jobs[call[h].job].status)
    /\ UNCHANGED <<registryVars, ctxEnded, left, stalled, serveVars>>

StopReply(h) ==
    /\ call[h].pc = "wait"
    /\ jobs[call[h].job].finished
    /\ Reply(h, "OK", jobs[call[h].job].status)
    /\ UNCHANGED <<registryVars, ctxEnded, left, stalled, serveVars>>

\* Service.GetStatus.
GetStatus(h) ==
    /\ call[h].pc = "read"
    /\ Reply(h, "OK", jobs[call[h].job].status)
    /\ UNCHANGED <<registryVars, ctxEnded, left, stalled, serveVars>>

\* Faulty variants: the stream ends behind what there is to send at the time;
\* the error of a failed Send is wrapped, and with it loses its code.
StreamEndsEarly(h) ==
    /\ call[h].pc = "ticks"
    /\ h \notin stalled \cup ctxEnded
    /\ Reply(h, "OK", IF jobs[call[h].job].status # "RUNNING" THEN "terminal" ELSE "none")
    /\ UNCHANGED <<registryVars, ctxEnded, left, stalled, serveVars>>

StreamSendFailsUnknown(h) ==
    /\ call[h].pc = "ticks"
    /\ h \in ctxEnded
    /\ Reply(h, "Unknown", "none")
    /\ UNCHANGED <<registryVars, ctxEnded, left, stalled, serveVars>>

\* Service.StreamOutput: the range over Ticks ends behind the terminal tick,
\* when a Send fails, or with the context; the last returns nil as the first.
\* Canceled stands for the status the transport gives a failed Send, which the
\* handler passes on as it is.
StreamTerminal(h) ==
    /\ call[h].pc = "ticks"
    /\ jobs[call[h].job].status # "RUNNING"
    /\ h \notin stalled \cup ctxEnded
    /\ Reply(h, "OK", "terminal")
    /\ UNCHANGED <<registryVars, ctxEnded, left, stalled, serveVars>>

StreamSendFails(h) ==
    /\ call[h].pc = "ticks"
    /\ h \in ctxEnded
    /\ Reply(h, "Canceled", "none")
    /\ UNCHANGED <<registryVars, ctxEnded, left, stalled, serveVars>>

StreamContextDone(h) ==
    /\ call[h].pc = "ticks"
    /\ h \in ctxEnded
    /\ Reply(h, "OK", "none")
    /\ UNCHANGED <<registryVars, ctxEnded, left, stalled, serveVars>>

\* What the client of an RPC in flight may do.
Leave(h) ==
    /\ InFlight(h) /\ h \notin left
    /\ left' = left \cup {h}
    /\ ctxEnded' = ctxEnded \cup {h}
    /\ UNCHANGED <<registryVars, call, stalled, serveVars>>

Stall(h) ==
    /\ call[h].pc = "ticks" /\ h \notin stalled
    /\ stalled' = stalled \cup {h}
    /\ UNCHANGED <<registryVars, call, ctxEnded, left, serveVars>>

Resume(h) ==
    /\ h \in stalled
    /\ stalled' = stalled \ {h}
    /\ UNCHANGED <<registryVars, call, ctxEnded, left, serveVars>>

HandlerStep(h) ==
    \/ HandleStart(h) \/ FindJob(h) \/ StopCancel(h) \/ StopReply(h) \/ GetStatus(h)
    \/ StreamTerminal(h) \/ StreamSendFails(h) \/ StreamContextDone(h)

----------------------------------------------------------------------------
(* The goroutine that runs grpc.Serve. *)

GrpcServe ==
    /\ gpc = "new"
    /\ IF transport = "serving"
       THEN gpc' = "accepting" /\ served' = served
       ELSE gpc' = "done" /\ served' = "ErrServerStopped"
    /\ UNCHANGED <<registryVars, callVars, transport, signalled, mpc, dpc, isDrained, outcome, config>>

ListenerFails ==
    /\ gpc = "accepting" /\ transport = "serving"
    /\ gpc' = "done"
    /\ served' = "failed"
    /\ UNCHANGED <<registryVars, callVars, transport, signalled, mpc, dpc, isDrained, outcome, config>>

\* Once stopped, grpc.Serve returns nil behind the first stop that returns.
GrpcServeReturns ==
    /\ gpc = "accepting"
    /\ transport = "closed" \/ dpc = "stopped"
    /\ gpc' = "done"
    /\ served' = "nil"
    /\ UNCHANGED <<registryVars, callVars, transport, signalled, mpc, dpc, isDrained, outcome, config>>

(* shutdown's goroutine: the jobs, then the transport. *)

ShutdownJobs ==
    /\ dpc = "jobs"
    /\ R!ShutdownSnapshot("serve") \/ R!ShutdownStep("serve")
    /\ dpc' = IF sdpc'["serve"] = "returned" THEN "graceful" ELSE "jobs"
    /\ UNCHANGED <<callVars, transport, gpc, served, signalled, mpc, isDrained, outcome, config>>

GracefulStop ==
    /\ dpc = "graceful"
    /\ transport' = IF transport = "serving" THEN "draining" ELSE transport
    /\ dpc' = "waiting"
    /\ UNCHANGED <<registryVars, callVars, gpc, served, signalled, mpc, isDrained, outcome, config>>

GracefulStopReturns ==
    /\ dpc = "waiting"
    /\ \A h \in Calls : ~ InFlight(h)
    /\ dpc' = "stopped"
    /\ UNCHANGED <<registryVars, callVars, transport, gpc, served, signalled, mpc, isDrained, outcome, config>>

ShutdownGoroutine == ShutdownJobs \/ GracefulStop \/ GracefulStopReturns

----------------------------------------------------------------------------
(* The process: run and serve of cmd/fizzled, server.New, Serve. *)

parse(c) ==
    IF c.flags = "help" THEN "ErrHelp"
    ELSE IF c.flags = "bad" \/ c.operands # 0 THEN "errUsage"
    ELSE "nil"

\* The process returns from serve without having served.
NotServed(e) ==
    /\ outcome' = e
    /\ mpc' = "returned"
    /\ UNCHANGED gpc

\* New fails on files it cannot use, or, once the context is done, while it
\* resolves the address to listen on.  Otherwise Serve begins.
New ==
    /\ mpc = "starting"
    /\ \/ parse(config) # "nil" /\ NotServed(parse(config))
       \/ parse(config) = "nil" /\ (~ config.usable \/ signalled) /\ NotServed("errConfig")
       \/ /\ parse(config) = "nil" /\ config.usable
          /\ mpc' = "serving"
          /\ gpc' = "new"
          /\ UNCHANGED outcome
    /\ UNCHANGED <<registryVars, callVars, transport, served, signalled, config, dpc, isDrained>>

\* Faulty variant: a shutdown that ran out of grace is a shutdown.
exitCodeForLenient(e) ==
    IF e \in {"nil", "ErrShutdownGraceElapsed"} THEN 0
    ELSE IF e \in {"errUsage", "errConfig"} THEN 2 ELSE 1

exitCodeFor(e) ==
    IF e = "nil" THEN 0
    ELSE IF e \in {"errUsage", "errConfig"} THEN 2 ELSE 1

\* The code run makes of what parse or serve returned; help is no failure.
run(e) == IF e = "ErrHelp" THEN 0 ELSE exitCodeFor(e)

Signal ==
    /\ ~ signalled
    /\ signalled' = TRUE
    /\ UNCHANGED <<registryVars, callVars, transport, gpc, served, mpc, dpc, isDrained, outcome, config>>

\* Faulty variant: the transport is drained before the jobs are stopped, which
\* GracefulStop's wait then has to outlast.
ServeEndsTransportFirst ==
    /\ mpc = "serving"
    /\ signalled \/ served # "none"
    /\ mpc' = "shutdown"
    /\ transport' = "draining"
    /\ dpc' = "waiting"
    /\ UNCHANGED <<registryVars, callVars, gpc, served, signalled, isDrained, outcome, config>>

\* Either branch of Serve's select calls shutdown, which starts its goroutine.
\* (The error that arrived first stays in served until it is looked at.)
ServeEnds ==
    /\ mpc = "serving"
    /\ signalled \/ served # "none"
    /\ mpc' = "shutdown"
    /\ dpc' = "jobs"
    /\ UNCHANGED <<registryVars, callVars, transport, gpc, served, signalled, isDrained, outcome, config>>

\* shutdown's select: drained in time,
Drained ==
    /\ mpc = "shutdown"
    /\ dpc = "stopped"
    /\ isDrained' = TRUE
    /\ mpc' = "join"
    /\ UNCHANGED <<registryVars, callVars, transport, gpc, served, signalled, dpc, outcome, config>>

\* Faulty variant: the transport is not stopped when the grace has elapsed.
GraceElapsedWithoutStop ==
    /\ mpc = "shutdown"
    /\ mpc' = "cut"
    /\ UNCHANGED <<registryVars, callVars, transport, gpc, served, signalled, dpc, isDrained, outcome, config>>

\* or the grace elapses, whether or not the goroutine is still busy: grpc.Stop
\* cuts the connections, and with them the contexts of their RPCs.
GraceElapsed ==
    /\ mpc = "shutdown"
    /\ transport' = "closed"
    /\ ctxEnded' = ctxEnded \cup {h \in Calls : InFlight(h)}
    /\ mpc' = "cut"
    /\ UNCHANGED <<registryVars, call, left, stalled, gpc, served, signalled, dpc, isDrained, outcome, config>>

\* Faulty variant: the goroutine is not waited for.
CutWithoutWait ==
    /\ mpc = "cut"
    /\ isDrained' = FALSE
    /\ mpc' = "join"
    /\ UNCHANGED <<registryVars, callVars, transport, gpc, served, signalled, dpc, outcome, config>>

\* <-stopped behind grpc.Stop.
Cut ==
    /\ mpc = "cut"
    /\ dpc = "stopped"
    /\ isDrained' = FALSE
    /\ mpc' = "join"
    /\ UNCHANGED <<registryVars, callVars, transport, gpc, served, signalled, dpc, outcome, config>>

\* Serve has what grpc.Serve returned, and returns.
ServeReturns ==
    /\ mpc = "join"
    /\ served # "none"
    /\ outcome' = IF served \notin {"nil", "ErrServerStopped"} THEN "error"
                  ELSE IF ~ isDrained THEN "ErrShutdownGraceElapsed" ELSE "nil"
    /\ mpc' = "returned"
    /\ UNCHANGED <<registryVars, callVars, transport, gpc, served, signalled, dpc, isDrained, config>>

ServeStep == New \/ ServeEnds \/ Drained \/ Cut \/ ServeReturns

----------------------------------------------------------------------------
JobStep(j) == R!JobStep(j) /\ UNCHANGED <<callVars, serveVars>>

Next ==
    \/ \E h \in Calls : \/ ArriveStart(h) \/ ArriveOther(h) \/ HandlerStep(h)
                        \/ Leave(h) \/ Stall(h) \/ Resume(h)
    \/ GrpcServe \/ ListenerFails \/ GrpcServeReturns
    \/ ShutdownGoroutine
    \/ Signal \/ ServeStep \/ GraceElapsed
    \/ \E j \in DOMAIN jobs : JobStep(j)

Spec == Init /\ [][Next]_vars

(***************************************************************************)
(* Fairness.  Goroutines that can run do.  A job is only assumed to end    *)
(* once its context is done: a countdown may take longer than anybody      *)
(* waits.  Peers need not read, leave or come back, and nobody has to      *)
(* send a signal.  GraceFairness, the timer, is kept apart.                *)
(***************************************************************************)
Fairness ==
    /\ \A h \in Calls : WF_vars(HandlerStep(h))
    /\ WF_vars(GrpcServe) /\ WF_vars(GrpcServeReturns)
    /\ WF_vars(ShutdownGoroutine)
    /\ WF_vars(ServeStep)
    /\ \A j \in 1 .. MaxJobs :
        WF_vars(j \in DOMAIN jobs /\ jobs[j].cancelled /\ JobStep(j))

\* The grace timer fires.  FairSpec does not assume it.
GraceFairness == WF_vars(GraceElapsed)

FairSpec == Spec /\ Fairness

----------------------------------------------------------------------------
(* Invariants. *)

\* The types of the state; every RPC that has ended did so with a reply the
\* service can produce.
TypeOK ==
    /\ R!TypeOK
    /\ \A h \in Calls :
        /\ call[h].pc \in {"idle", "create", "find", "cancel", "wait", "read", "ticks", "returned"}
        /\ call[h].method \in Methods \cup {"none"}
        /\ call[h].job \in 0 .. Len(jobs)
        /\ call[h].code \in {"none", "OK", "NotFound", "InvalidArgument", "Unavailable", "Canceled"}
    /\ ctxEnded \subseteq Calls /\ left \subseteq ctxEnded /\ stalled \subseteq Calls
    /\ transport \in {"serving", "draining", "closed"}
    /\ gpc \in {"none", "new", "accepting", "done"}
    /\ served \in {"none", "nil", "failed", "ErrServerStopped"}
    /\ signalled \in BOOLEAN
    /\ config \in Configs
    /\ mpc \in {"starting", "serving", "shutdown", "cut", "join", "returned"}
    /\ dpc \in {"none", "jobs", "graceful", "waiting", "stopped"}
    /\ isDrained \in BOOLEAN
    /\ outcome \in {"none", "ErrHelp", "errUsage", "errConfig", "nil", "error",
                   "ErrShutdownGraceElapsed"}

\* When Serve returns, for whatever reason, every job has finished and no
\* handler is left running: the process may exit.
NothingLeftRunning ==
    mpc = "returned" =>
        /\ \A j \in DOMAIN jobs : jobs[j].finished
        /\ \A h \in Calls : ~ InFlight(h)

\* A stream of a job that was found ended without its terminal tick.
EndedEarly(h) ==
    /\ call[h].method = "StreamOutput" /\ call[h].pc = "returned"
    /\ call[h].code # "NotFound" /\ call[h].value # "terminal"

\* A stream ends without its terminal tick only if its client went away or the
\* grace elapsed.
StreamsEndWithTerminal ==
    \A h \in Calls : EndedEarly(h) => h \in left \/ transport = "closed"

\* What the exit code says is so: with 0 nobody who was still listening has
\* lost a terminal tick, and with 2 no RPC was ever answered.
ExitCodeIsTrue ==
    mpc = "returned" =>
        /\ run(outcome) = 0 => \A h \in Calls : EndedEarly(h) => h \in left
        /\ run(outcome) = 2 => \A h \in Calls : call[h].pc = "idle"

\* The id Start returned is one its agent finds a job under, and a Stop or a
\* GetStatus never reports on a job of another agent.
RepliesAreAboutOwnJobs ==
    \A h \in Calls :
        /\ call[h].method = "Start" /\ call[h].code = "OK" =>
              R!Find(call[h].agent, call[h].value) # 0
        /\ call[h].job # 0 => jobs[call[h].job].owner = call[h].agent

\* Stop reports the status the job ended with, the same to every caller, and
\* never RUNNING.
StopReportsTheEnd ==
    \A h \in Calls :
        call[h].method = "Stop" /\ call[h].code = "OK" =>
            /\ call[h].value = jobs[call[h].job].status
            /\ call[h].value # "RUNNING"

(* Liveness. *)

\* Once the process is signalled it ends, whatever its peers do, given that
\* the grace timer fires.
ServeReturnsAfterSignal == GraceFairness => (signalled ~> mpc = "returned")

\* Stopping the jobs first makes the drain independent of the length of a
\* countdown and of the grace timer: only a peer that does not read can hold
\* Serve up.
DrainNeedsNoTimer == signalled ~> mpc = "returned" \/ stalled # {}
=============================================================================
