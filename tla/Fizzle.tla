------------------------------ MODULE Fizzle ------------------------------
(***************************************************************************)
(* The client's side: processes of cmd/fizzle, each one command run to its *)
(* exit code over internal/client, against the handlers of                 *)
(* internal/server/service.go and one job, which is what module JobFeed    *)
(* promises (and module Job implements).                                   *)
(*                                                                         *)
(* Between a process and its handler lies a connection: a request, a       *)
(* bounded, ordered wire of answers, a reset when the client gives up, and *)
(* a cut that loses what is in flight.  The transport is external and      *)
(* modelled from its use.  Processes are interrupted, killed, and write to *)
(* an output that may stall or fail; the server may shut down.             *)
(*                                                                         *)
(* Of the interceptors only the verdict is kept (module Rpc has the rest), *)
(* of ownership only whether the id names the one job (module Server).     *)
(***************************************************************************)
EXTENDS Integers, Sequences, Tick

CONSTANTS
    Procs,      \* the fizzle processes
    Lines,      \* the command lines they may be run with
    MaxCount,   \* worker.MaxCount
    CountBits,  \* width of the count on the wire: 32
    Window,     \* messages the transport takes before Send blocks
    Refusals,   \* the codes an interceptor refuses an RPC with
    MaxFaults   \* bound on signals, cuts and failing outputs

VARIABLES
    count, status, log, given, outcome, answer,  \* the job, as in JobFeed
    cancelled,    \* whether the job's context is done
    isAccepting,  \* the registry's isAcceptingJobs
    hpc,          \* where the RPC of each process is at the server
    reset,        \* the RPCs whose context has ended at the server
    cut,          \* the RPCs whose connection broke
    wire,         \* what the server sent that the client has not received
    line,         \* each process's command line
    pc,           \* where it is
    interrupted,  \* the processes whose context a signal has ended
    out,          \* each stdout: "open", "stalled" or "broken"
    hand,         \* the lines in writeLine, none or one
    printed,      \* the lines on each stdout
    err,          \* what execute returned
    faults        \* how often the world has interfered

jobVars == <<count, status, log, given, outcome, answer, cancelled>>
serverVars == <<isAccepting, hpc, reset>>
procVars == <<line, pc, interrupted, out, hand, printed, err>>
vars == <<jobVars, serverVars, cut, wire, procVars, faults>>

Feed == INSTANCE JobFeed WITH Readers <- Procs, Stoppers <- Procs

----------------------------------------------------------------------------
(* What goes over the wire. *)

MinInt32 == -(2 ^ (CountBits - 1))
MaxInt32 == 2 ^ (CountBits - 1) - 1

\* Go's conversion to int32: what is left modulo the number of its values.
Int32(n) == ((n - MinInt32) % (MaxInt32 - MinInt32 + 1)) + MinInt32

ASSUME FizzleAssumption ==
    /\ MaxCount \in Nat \ {0}
    /\ CountBits \in Nat \ {0}
    /\ Window \in Nat \ {0}
    /\ Refusals \subseteq {"Unauthenticated", "PermissionDenied", "Internal"}
    /\ MaxFaults \in Nat
    /\ MaxCount <= MaxInt32
    /\ Lines \subseteq [name : STRING, flags : STRING, operands : Nat, isNumber : BOOLEAN,
                        number : Int, known : BOOLEAN, usable : BOOLEAN]

\* One line of text; remaining holds the field of that name, when it is there.
Text(s) == [kind |-> s, remaining |-> {}]

protoStatus(s) ==
    CASE s = "RUNNING" -> "STATUS_RUNNING"
      [] s = "COMPLETED" -> "STATUS_COMPLETED"
      [] s = "STOPPED" -> "STATUS_STOPPED"
      [] s = "FAILED" -> "STATUS_FAILED"
      [] OTHER -> "STATUS_UNSPECIFIED"

\* Faulty variant: one status of the server is not known to the client.
statusFromOld(w) ==
    CASE w = "STATUS_RUNNING" -> "RUNNING"
      [] w = "STATUS_COMPLETED" -> "COMPLETED"
      [] w = "STATUS_STOPPED" -> "STOPPED"
      [] OTHER -> "ErrUnknownStatus"

statusFrom(w) ==
    CASE w = "STATUS_RUNNING" -> "RUNNING"
      [] w = "STATUS_COMPLETED" -> "COMPLETED"
      [] w = "STATUS_STOPPED" -> "STOPPED"
      [] w = "STATUS_FAILED" -> "FAILED"
      [] OTHER -> "ErrUnknownStatus"

protoTick(tick) ==
    CASE tick.kind = "progress" ->
            [kind |-> "progress", remaining |-> {Int32(tick.remaining)}]
      [] tick.kind = "stopped" -> Text("stopped")
      [] OTHER -> Text("failure")

\* proto3 does not encode a scalar that has its default value.
Marshal(message) == [message EXCEPT !.remaining = @ \ {0}]

\* Faulty variant: the defaults proto3 dropped are not restored.
tickJSONBare(message) == message

\* The JSON of a received tick, with its defaults (EmitDefaultValues).
tickJSON(message) ==
    IF message.kind = "progress" /\ message.remaining = {}
    THEN [message EXCEPT !.remaining = {0}] ELSE message

\* A message of a stream, and the status that ends an RPC, with the response
\* of a unary one.
Message(body) == [code |-> "none", body |-> body]
Status(code, body) == [code |-> code, body |-> body]

----------------------------------------------------------------------------
(* The command line, up to the client: parse, newCommand, client.New. *)

Commands == {"start", "stop", "status", "outputs"}
isHelpRequest(arg) == arg \in {"-h", "-help", "--help"}

Parse(l) ==
    IF l.name = "none" THEN "errUsage"
    ELSE IF isHelpRequest(l.name) THEN "ErrHelp"
    ELSE IF l.name \notin Commands THEN "errUsage"
    ELSE IF l.flags = "help" THEN "ErrHelp"
    ELSE IF l.flags = "bad" THEN "errUsage"
    ELSE IF l.operands # 1 THEN "errUsage"
    ELSE "nil"

newCommand(l) == IF l.name = "start" /\ ~ l.isNumber THEN "errUsage" ELSE "nil"

New(l) == IF l.usable THEN "nil" ELSE "ErrConfig"

\* The first error of execute before the command runs.
Resolve(l) ==
    IF Parse(l) # "nil" THEN Parse(l)
    ELSE IF newCommand(l) # "nil" THEN newCommand(l)
    ELSE New(l)

errorFrom(code) ==
    CASE code = "OK" -> "nil"
      [] code = "InvalidArgument" -> "ErrInvalidArgument"
      [] code = "NotFound" -> "ErrNotFound"
      [] code = "PermissionDenied" -> "ErrPermissionDenied"
      [] code = "Unauthenticated" -> "ErrUnauthenticated"
      [] code = "Unavailable" -> "ErrUnavailable"
      [] code = "Canceled" -> "ErrCanceled"
      [] code = "DeadlineExceeded" -> "ErrDeadlineExceeded"
      [] OTHER -> "ErrRPC"

exitCodeFor(e) ==
    IF e = "nil" THEN 0
    ELSE IF e \in {"errUsage", "ErrInvalidArgument", "ErrConfig"} THEN 2
    ELSE 1

\* run: a request for help prints the usage and succeeds.
ExitCode(p) == IF err[p] = "ErrHelp" THEN 0 ELSE exitCodeFor(err[p])

----------------------------------------------------------------------------
IsStart(l) == l.name = "start" /\ Resolve(l) = "nil"

\* Bound: one job.  A start command makes it; otherwise it was made before.
Init ==
    /\ line \in [Procs -> Lines]
    /\ \A p, q \in Procs : IsStart(line[p]) /\ IsStart(line[q]) => p = q
    /\ IF \E p \in Procs : IsStart(line[p]) THEN count = 0 ELSE count \in 1 .. MaxCount
    /\ status = "RUNNING"
    /\ log = << >>
    /\ given = [p \in Procs |-> << >>]
    /\ outcome = [p \in Procs |-> "open"]
    /\ answer = [p \in Procs |-> "NONE"]
    /\ cancelled = FALSE
    /\ isAccepting = TRUE
    /\ hpc = [p \in Procs |-> "none"]
    /\ reset = {} /\ cut = {}
    /\ wire = [p \in Procs |-> << >>]
    /\ pc = [p \in Procs |-> "new"]
    /\ interrupted = {}
    /\ out = [p \in Procs |-> "open"]
    /\ hand = [p \in Procs |-> << >>]
    /\ printed = [p \in Procs |-> << >>]
    /\ err = [p \in Procs |-> "none"]
    /\ faults = 0

Gone(p) == pc[p] \in {"exited", "killed"}

----------------------------------------------------------------------------
(* The process. *)

\* execute returns e: the stream's context is cancelled and the connection
\* closed behind it, so that nothing more is received.
Exit(p, e) ==
    /\ pc' = [pc EXCEPT ![p] = "exited"]
    /\ err' = [err EXCEPT ![p] = e]
    /\ hand' = [hand EXCEPT ![p] = << >>]
    /\ wire' = [wire EXCEPT ![p] = << >>]

\* parse, newCommand and client.New touch nothing but the process.
Begin(p) ==
    /\ pc[p] = "new"
    /\ IF Resolve(line[p]) # "nil"
       THEN Exit(p, Resolve(line[p]))
       ELSE pc' = [pc EXCEPT ![p] = "call"] /\ UNCHANGED <<err, hand, wire>>
    /\ UNCHANGED <<jobVars, serverVars, cut, line, interrupted, out, printed, faults>>

Request(p) ==
    /\ pc' = [pc EXCEPT ![p] = "waiting"]
    /\ hpc' = [hpc EXCEPT ![p] = "request"]
    /\ UNCHANGED <<err, hand, wire>>

\* Faulty variant: the count is narrowed unseen.
CallUnchecked(p) ==
    /\ pc[p] = "call"
    /\ Request(p)
    /\ UNCHANGED <<jobVars, isAccepting, reset, cut, line, interrupted, out, printed, faults>>

\* Client.Start, Stop, GetStatus and StreamOutput up to the request.
Call(p) ==
    /\ pc[p] = "call"
    /\ IF line[p].name = "start" /\ line[p].number \notin MinInt32 .. MaxInt32
       THEN Exit(p, "ErrInvalidArgument") /\ UNCHANGED hpc
       ELSE Request(p)
    /\ UNCHANGED <<jobVars, isAccepting, reset, cut, line, interrupted, out, printed, faults>>

\* A tick, or the response of a start or a status, is about to be printed.
Receive(p) ==
    /\ pc[p] = "waiting" /\ wire[p] # << >>
    /\ LET m == Head(wire[p])
           name == line[p].name
           answered == m.code = "OK" /\ name \in {"start", "status"}
           text == IF name = "outputs" THEN tickJSON(m.body)
                   ELSE IF name = "status" THEN Text(statusFrom(m.body.kind)) ELSE m.body
       IN /\ m.code = "none" \/ answered
          /\ IF text.kind = "ErrUnknownStatus"
             THEN Exit(p, "ErrUnknownStatus")
             ELSE /\ pc' = [pc EXCEPT ![p] = "writing"]
                  /\ hand' = [hand EXCEPT ![p] = <<text>>]
                  /\ wire' = [wire EXCEPT ![p] = Tail(@)]
                  /\ UNCHANGED err
    /\ UNCHANGED <<jobVars, serverVars, cut, line, interrupted, out, printed, faults>>

\* The RPC ends, with a status or with io.EOF, and the command with it.
ReceiveEnd(p) ==
    /\ pc[p] = "waiting" /\ wire[p] # << >>
    /\ LET m == Head(wire[p])
           known == line[p].name = "stop" => statusFrom(m.body.kind) # "ErrUnknownStatus"
       IN /\ m.code # "none"
          /\ m.code = "OK" => line[p].name \in {"stop", "outputs"}
          /\ Exit(p, IF m.code = "OK" /\ ~ known THEN "ErrUnknownStatus"
                     ELSE errorFrom(m.code))
    /\ UNCHANGED <<jobVars, serverVars, cut, line, interrupted, out, printed, faults>>

\* Faulty variant: the context of a stream does not derive from the caller's.
GiveUpUnaryOnly(p) ==
    /\ pc[p] = "waiting" /\ p \in interrupted /\ line[p].name # "outputs"
    /\ Exit(p, errorFrom("Canceled"))
    /\ UNCHANGED <<jobVars, serverVars, cut, line, interrupted, out, printed, faults>>

\* The client sees its context end, whatever else it could receive.
GiveUp(p) ==
    /\ pc[p] = "waiting" /\ p \in interrupted
    /\ Exit(p, errorFrom("Canceled"))
    /\ UNCHANGED <<jobVars, serverVars, cut, line, interrupted, out, printed, faults>>

\* Faulty variant: the error of the write is dropped.
WriteDroppingError(p) ==
    /\ pc[p] = "writing" /\ out[p] # "stalled"
    /\ printed' = IF out[p] = "open" THEN [printed EXCEPT ![p] = @ \o hand[p]] ELSE printed
    /\ IF line[p].name = "outputs"
       THEN /\ pc' = [pc EXCEPT ![p] = "waiting"]
            /\ hand' = [hand EXCEPT ![p] = << >>]
            /\ UNCHANGED <<err, wire>>
       ELSE Exit(p, "nil")
    /\ UNCHANGED <<jobVars, serverVars, cut, line, interrupted, out, faults>>

\* writeLine: it blocks on a stalled output, and its failure breaks the range.
Write(p) ==
    /\ pc[p] = "writing" /\ out[p] # "stalled"
    /\ printed' = IF out[p] = "open" THEN [printed EXCEPT ![p] = @ \o hand[p]] ELSE printed
    /\ IF out[p] = "open" /\ line[p].name = "outputs"
       THEN /\ pc' = [pc EXCEPT ![p] = "waiting"]
            /\ hand' = [hand EXCEPT ![p] = << >>]
            /\ UNCHANGED <<err, wire>>
       ELSE Exit(p, IF out[p] = "open" THEN "nil" ELSE "errWrite")
    /\ UNCHANGED <<jobVars, serverVars, cut, line, interrupted, out, faults>>

ProcessStep(p) ==
    Begin(p) \/ Call(p) \/ Receive(p) \/ ReceiveEnd(p) \/ GiveUp(p) \/ Write(p)

----------------------------------------------------------------------------
(* The handler, with the interceptor's verdict before it. *)

\* What the server sends reaches nobody once the stream is reset or cut.
Send(p, m) == wire' = IF p \in reset \cup cut \/ Gone(p) THEN wire
                      ELSE [wire EXCEPT ![p] = Append(@, m)]
Goto(p, h) == hpc' = [hpc EXCEPT ![p] = h]
Return(p, code, body) == Goto(p, "returned") /\ Send(p, Status(code, body))

Dispatch(p) ==
    /\ hpc[p] = "request"
    /\ \/ Goto(p, "running") /\ UNCHANGED wire
       \/ \E code \in Refusals : Goto(p, "refused") /\ Send(p, Status(code, Text("none")))
    /\ UNCHANGED <<jobVars, isAccepting, reset, cut, procVars, faults>>

\* Service.Start; the job keeps none of the request's cancellation.
HandleStart(p) ==
    /\ hpc[p] = "running" /\ line[p].name = "start"
    /\ LET n == Int32(line[p].number)
           code == IF ~ isAccepting THEN "Unavailable"
                   ELSE IF n \notin 1 .. MaxCount THEN "InvalidArgument" ELSE "OK"
       IN /\ count' = IF code = "OK" THEN n ELSE count
          /\ Return(p, code, Text("id"))
    /\ UNCHANGED <<status, log, given, outcome, answer, cancelled,
                   isAccepting, reset, cut, procVars, faults>>

\* findJob: the id names the job, and the job exists by now.
Found(p) == line[p].known /\ count # 0

HandleNotFound(p) ==
    /\ hpc[p] = "running" /\ line[p].name # "start"
    /\ ~ Found(p)
    /\ Return(p, "NotFound", Text("none"))
    /\ UNCHANGED <<jobVars, isAccepting, reset, cut, procVars, faults>>

\* Faulty variant: job.Stop only waits.
HandleStopByWaiting(p) ==
    /\ hpc[p] = "running" /\ line[p].name = "stop" /\ Found(p)
    /\ Goto(p, "stopping")
    /\ UNCHANGED <<jobVars, isAccepting, reset, cut, wire, procVars, faults>>

\* Service.Stop: job.Stop cancels, and waits whatever becomes of the caller.
HandleStop(p) ==
    /\ hpc[p] = "running" /\ line[p].name = "stop" /\ Found(p)
    /\ cancelled' = TRUE
    /\ Goto(p, "stopping")
    /\ UNCHANGED <<count, status, log, given, outcome, answer,
                   isAccepting, reset, cut, wire, procVars, faults>>

StopReturns(p) ==
    /\ hpc[p] = "stopping"
    /\ Feed!Answer(p)
    /\ Return(p, "OK", Text(protoStatus(answer'[p])))
    /\ UNCHANGED <<cancelled, isAccepting, reset, cut, procVars, faults>>

\* Service.GetStatus.
HandleStatus(p) ==
    /\ hpc[p] = "running" /\ line[p].name = "status" /\ Found(p)
    /\ Return(p, "OK", Text(protoStatus(status)))
    /\ UNCHANGED <<jobVars, isAccepting, reset, cut, procVars, faults>>

\* Service.StreamOutput.
HandleOutputs(p) ==
    /\ hpc[p] = "running" /\ line[p].name = "outputs" /\ Found(p)
    /\ Goto(p, "streaming")
    /\ UNCHANGED <<jobVars, isAccepting, reset, cut, wire, procVars, faults>>

\* Send takes the next tick, when the transport has room for it.
StreamSend(p) ==
    /\ hpc[p] = "streaming"
    /\ p \notin reset /\ Len(wire[p]) < Window
    /\ Feed!Give(p) /\ outcome'[p] # "left"
    /\ Send(p, Message(Marshal(protoTick(log[Len(given'[p])]))))
    /\ UNCHANGED <<cancelled, serverVars, cut, procVars, faults>>

\* Send fails: its status is the handler's, and reaches nobody.
StreamSendFails(p) ==
    /\ hpc[p] = "streaming" /\ p \in reset
    /\ Feed!Give(p) /\ outcome'[p] = "left"
    /\ Return(p, "Canceled", Text("none"))
    /\ UNCHANGED <<cancelled, isAccepting, reset, cut, procVars, faults>>

\* Faulty variant: the wait for the next tick does not watch the context.
StreamIgnoresContext(p) ==
    /\ hpc[p] = "streaming" /\ p \in reset
    /\ status # "RUNNING"
    /\ Feed!Leave(p)
    /\ Return(p, "OK", Text("none"))
    /\ UNCHANGED <<cancelled, isAccepting, reset, cut, procVars, faults>>

\* The range ends with the context, while it waits for a tick,
StreamContextDone(p) ==
    /\ hpc[p] = "streaming" /\ p \in reset
    /\ Feed!Leave(p)
    /\ Return(p, "OK", Text("none"))
    /\ UNCHANGED <<cancelled, isAccepting, reset, cut, procVars, faults>>

\* or behind the terminal tick.
StreamReturns(p) ==
    /\ hpc[p] = "streaming"
    /\ outcome[p] = "complete"
    /\ Return(p, "OK", Text("none"))
    /\ UNCHANGED <<jobVars, isAccepting, reset, cut, procVars, faults>>

HandlerStep(p) ==
    \/ Dispatch(p) \/ HandleStart(p) \/ HandleNotFound(p)
    \/ HandleStop(p) \/ StopReturns(p) \/ HandleStatus(p)
    \/ HandleOutputs(p) \/ StreamSend(p) \/ StreamSendFails(p)
    \/ StreamContextDone(p) \/ StreamReturns(p)

----------------------------------------------------------------------------
(* The job, the registry's shutdown, and the world. *)

Publish ==
    /\ count # 0 /\ Feed!Publish
    /\ UNCHANGED <<cancelled, serverVars, cut, wire, procVars, faults>>

End(s) ==
    /\ count # 0 /\ (s = "STOPPED" => cancelled)
    /\ Feed!End(s)
    /\ UNCHANGED <<cancelled, serverVars, cut, wire, procVars, faults>>

JobStep == Publish \/ \E s \in TerminalStatuses : End(s)

\* Registry.Shutdown refuses jobs from here on, and stops the one there is.
Shutdown ==
    /\ isAccepting
    /\ isAccepting' = FALSE
    /\ cancelled' = (count # 0)
    /\ UNCHANGED <<count, status, log, given, outcome, answer, hpc, reset, cut, wire, procVars, faults>>

\* The server learns that the client has given up, is gone or is cut off; a
\* request that is still under way may be lost with that.
ContextEnds(p) ==
    /\ p \in interrupted \cup cut \/ Gone(p)
    /\ hpc[p] # "none" /\ p \notin reset
    /\ reset' = reset \cup {p}
    /\ \/ UNCHANGED hpc
       \/ hpc[p] = "request" /\ Goto(p, "lost")
    /\ UNCHANGED <<jobVars, isAccepting, cut, wire, procVars, faults>>

Fault == faults < MaxFaults /\ faults' = faults + 1

\* A connection breaks, or was never made: the client receives some of what
\* was under way, and then Unavailable.
Cut(p) ==
    /\ pc[p] \in {"waiting", "writing"} /\ p \notin cut
    /\ cut' = cut \cup {p}
    /\ \E k \in {i \in 0 .. Len(wire[p]) : i = 0 \/ wire[p][i].code = "none"} :
        wire' = [wire EXCEPT ![p] =
                    SubSeq(@, 1, k) \o <<Status("Unavailable", Text("none"))>>]
    /\ Fault
    /\ UNCHANGED <<jobVars, serverVars, procVars>>

\* SIGINT or SIGTERM.
Interrupt(p) ==
    /\ ~ Gone(p) /\ p \notin interrupted
    /\ interrupted' = interrupted \cup {p}
    /\ Fault
    /\ UNCHANGED <<jobVars, serverVars, cut, wire, line, pc, out, hand, printed, err>>

\* SIGKILL, or the SIGPIPE of a closed pipe.
Kill(p) ==
    /\ ~ Gone(p)
    /\ pc' = [pc EXCEPT ![p] = "killed"]
    /\ Fault
    /\ hand' = [hand EXCEPT ![p] = << >>]
    /\ wire' = [wire EXCEPT ![p] = << >>]
    /\ UNCHANGED <<jobVars, serverVars, cut, line, interrupted, out, printed, err>>

\* Whoever reads the output stops reading, or a device fills up;
OutputFails(p) ==
    /\ ~ Gone(p) /\ out[p] = "open"
    /\ \E o \in {"stalled", "broken"} : out' = [out EXCEPT ![p] = o]
    /\ Fault
    /\ UNCHANGED <<jobVars, serverVars, cut, wire, line, pc, interrupted, hand, printed, err>>

\* a reader that had stopped resumes.
OutputResumes(p) ==
    /\ ~ Gone(p) /\ out[p] = "stalled"
    /\ out' = [out EXCEPT ![p] = "open"]
    /\ UNCHANGED <<jobVars, serverVars, cut, wire, line, pc, interrupted, hand, printed, err, faults>>

Done == (\A p \in Procs : Gone(p) /\ hpc[p] \in {"none", "refused", "lost", "returned"})
        /\ UNCHANGED vars

Next ==
    \/ \E p \in Procs : \/ ProcessStep(p) \/ HandlerStep(p) \/ ContextEnds(p)
                        \/ Cut(p) \/ Interrupt(p) \/ Kill(p)
                        \/ OutputFails(p) \/ OutputResumes(p)
    \/ JobStep \/ Shutdown
    \/ Done

Spec == Init /\ [][Next]_vars

(***************************************************************************)
(* Fairness.  A process and a handler that can take a step do, and news of *)
(* a client's end reaches the server.  The job is only assumed to end once *)
(* it is cancelled: a countdown may take longer than anybody waits.        *)
(* Nobody has to signal, kill, cut, shut down, or read an output.          *)
(***************************************************************************)
Fairness ==
    /\ \A p \in Procs : /\ WF_vars(ProcessStep(p))
                         /\ WF_vars(HandlerStep(p))
                         /\ WF_vars(ContextEnds(p))
    /\ WF_vars(cancelled /\ JobStep)

FairSpec == Spec /\ Fairness

----------------------------------------------------------------------------
(* Invariants. *)

Texts == [kind : {"id", "none", "progress", "stopped", "failure"} \cup Statuses
                 \cup {protoStatus(s) : s \in Statuses},
          remaining : SUBSET (0 .. MaxCount)]

\* The types of the state: in particular the window is kept, and an execute
\* that has returned did so with an error this code knows.
TypeOK ==
    /\ count \in 0 .. MaxCount
    /\ status \in Statuses
    /\ log \in Seq([kind : {"progress", "stopped", "panic"}, remaining : 0 .. MaxCount])
    /\ given \in [Procs -> Seq([kind : {"progress", "stopped", "panic"},
                               remaining : 0 .. MaxCount])]
    /\ outcome \in [Procs -> {"open", "complete", "left"}]
    /\ answer \in [Procs -> TerminalStatuses \cup {"NONE"}]
    /\ cancelled \in BOOLEAN /\ isAccepting \in BOOLEAN
    /\ hpc \in [Procs -> {"none", "request", "lost", "refused", "running",
                         "stopping", "streaming", "returned"}]
    /\ reset \subseteq Procs /\ cut \subseteq Procs /\ interrupted \subseteq Procs
    /\ \A p \in Procs : Len(wire[p]) <= Window + 1
    /\ line \in [Procs -> Lines]
    /\ pc \in [Procs -> {"new", "call", "waiting", "writing", "exited", "killed"}]
    /\ out \in [Procs -> {"open", "stalled", "broken"}]
    /\ hand \in [Procs -> {<< >>} \cup {<<t>> : t \in Texts}]
    /\ printed \in [Procs -> Seq(Texts)]
    /\ err \in [Procs -> {"none", "nil", "ErrHelp", "errUsage", "ErrConfig", "errWrite", "ErrRPC",
                         "ErrInvalidArgument", "ErrNotFound", "ErrPermissionDenied",
                         "ErrUnauthenticated", "ErrUnavailable", "ErrCanceled"}]

\* What a line of output says of a tick, to whoever reads that line alone.
Says(text, tick) ==
    IF tick.kind = "progress"
    THEN text.kind = "progress" /\ text.remaining = {tick.remaining}
    ELSE text.kind = (IF tick.kind = "stopped" THEN "stopped" ELSE "failure")

\* Whatever is cut, lost, interrupted or stalled on the way, the lines an
\* outputs command has printed are the job's ticks from the first one on, none
\* left out, repeated or reordered, each readable without the others.
PrintedIsPrefix ==
    \A p \in Procs : line[p].name = "outputs" =>
        /\ Len(printed[p]) <= Len(log)
        /\ \A i \in 1 .. Len(printed[p]) : Says(printed[p][i], log[i])

\* A command that exits 0 did what it was asked: outputs printed the whole log
\* and its terminal tick, a stop left the job ended, start printed the id of a
\* job with the very count it was given, and a status other than RUNNING is
\* the one the job ended with.
SuccessIsTrue ==
    \A p \in Procs : pc[p] = "exited" /\ err[p] = "nil" =>
        CASE line[p].name = "outputs" ->
                /\ Len(printed[p]) = Len(log)
                /\ log # << >> /\ IsTerminal(log[Len(log)])
          [] line[p].name = "stop" -> status # "RUNNING"
          [] line[p].name = "start" -> printed[p] = <<Text("id")>> /\ count = line[p].number
          [] line[p].name = "status" ->
                \E s \in {"RUNNING", status} : printed[p] = <<Text(s)>>

\* The job that a start makes counts down from the number on its command line
\* and from no other; and one that exits 2 made no job, and makes none later.
JobIsTheOneAskedFor ==
    \A p \in Procs : IsStart(line[p]) =>
        /\ count \in {0, line[p].number}
        /\ pc[p] = "exited" /\ ExitCode(p) = 2 => count = 0

Active(p) == hpc[p] \in {"request", "running", "stopping", "streaming"}

(* Liveness. *)

\* A command that has called the server ends: a unary one in any case, outputs
\* once the job has ended or the connection is lost.  Only an output that
\* nobody reads can hold it up.
CommandsEnd ==
    \A p \in Procs :
        pc[p] = "waiting" /\ (line[p].name # "outputs" \/ status # "RUNNING" \/ p \in cut)
            ~> Gone(p) \/ out[p] = "stalled"

\* A signal ends a command whatever the server and the job do, unless it is
\* held up by its output.
InterruptEnds == \A p \in Procs : p \in interrupted ~> Gone(p) \/ out[p] = "stalled"

\* A command that is gone, interrupted or cut off leaves nothing open at the
\* server: its handler returns, however long the countdown, and even while the
\* process itself is held up by its output.
AbandonedHandlersReturn ==
    \A p \in Procs : (Gone(p) \/ p \in interrupted \cup cut) /\ Active(p) ~> ~ Active(p)

(* What a comment says, and the code does not do. *)

\* internal/client/errors.go on ErrUnavailable: the RPC never reached a handler.
UnavailableMeansUnhandled ==
    \A p \in Procs : err[p] = "ErrUnavailable" =>
        hpc[p] \in {"request", "lost", "refused"}
=============================================================================
