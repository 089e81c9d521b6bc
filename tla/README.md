# A verification of fizzled

`fizzled` is a server that runs countdown jobs for authenticated agents; `fizzle`
is its client. This directory holds TLA+ models of both, the TLC configurations
that check them, and TLAPS proofs of what matters most. Every definition is
translated from the source; `PROJECT.json` names the lines.

## 1. Inventory

| Part | State | Operations | Correct when |
|---|---|---|---|
| worker (`internal/worker`) | a job: status, ticks, the channels `changed` and `finished`, a context; one goroutine per job | `NewJob`, `Ticks`, `Stop`, `Status`, the countdown | status and ticks change together; every reader gets all ticks in order; every `Stop` reports the one end; nobody blocks for ever |
| registry (`internal/registry`) | per agent a counter and its jobs; the flag `isAcceptingJobs` | `Create`, `Find`, `Shutdown` | ids are unique and stable; an agent sees its own jobs only; nothing runs behind `Shutdown` |
| service (`internal/server/service.go`) | the registry | `Start`, `Stop`, `GetStatus`, `StreamOutput` | replies are about the caller's jobs; a stream ends behind the terminal tick |
| server (`internal/server/server.go`) | transport, listener, a grace period | `New`, `Serve`, `shutdown` | `Serve` returns after a signal, with nothing left running |
| interceptor (`internal/server/interceptor.go`) | none of its own | one pass per RPC | no handler runs without an authenticated agent and a recorded decision that allows it |
| authn (`internal/authn`, `x509svid`, `spiffeid`) | trust bundle | verification of a chain at start-up, at a handshake and at every RPC | accepts what the documentation describes, within the clock-skew tolerance, and nothing else |
| authz (`internal/authz`) | the roles of the role file | `Load`, `Authorize` | unknown agents and roles get nothing |
| client (`internal/client`) | one lazy connection | `New`, four calls | a count arrives as it was given; errors and ends of streams keep their meaning; an abandoned stream leaves nothing open |
| commands (`cmd/fizzled`, `cmd/fizzle`) | none | flags, exit codes, signals, output | the exit code tells the outcome; a signal ends the process; what is printed is what the job did |

How the parts interact: the transport calls the interceptor for each RPC, which
calls authn and authz and then the service; the service calls the registry, which
holds jobs; jobs run on their own. `Serve` waits for a signal or for the transport,
then shuts down the registry and drains the transport, against a timer. A `fizzle`
process makes one call over a connection of its own and prints what it receives.

What is hard in it: readers that walk a slice after they released the mutex, and
that wait on a channel that is replaced with every tick; completion, cancellation
and panics that race for one transition; `Create` against `Shutdown`; the order
jobs-then-transport in the shutdown, and its timer; peers that leave or do not
read; connections that outlive the certificate they were opened with; a panic
between a decision and its effect; a signal before the server listens; answers that
are lost, in part or whole, on their way to a client that is interrupted, killed or
held up by its own output; a bundle with a damaged block among good ones. `PROJECT.json` lists these under "hazards",
each with the properties that would catch it.

## 2. Modules

| Module | Models | Used by |
|---|---|---|
| `Tick` | statuses and ticks | all but `Svid`, `Rpc` and `Bundle` |
| `JobFeed` | abstract: what a job promises its readers and stoppers | `Job`, `Fizzle` |
| `JobLife` | abstract: what a job promises its owner | `Job` |
| `Job` | one job, its readers and its `Stop` calls | `MCJob`, `Job_proofs` |
| `Registry` | the registry and concurrent `Shutdown` calls | `Server`, `MCRegistry`, `Registry_proofs` and, through it, `Server_proofs` |
| `Server` | handlers, `Serve`, `shutdown` and the process of `fizzled`, over an instance of `Registry` | `MCServer`, `Server_proofs` |
| `Svid` | the verification of a chain, as pure operators | `Rpc` |
| `Rpc` | start-up, handshake and the interceptor, with a clock | `MCRpc`, `Rpc_proofs` |
| `Bundle` | the reading of a trust bundle, block by block | `MCBundle`, `Bundle_proofs` |
| `Fizzle` | processes of `fizzle`, the wire and the handlers, over an instance of `JobFeed` | `MCFizzle`, `Fizzle_proofs` |

**Job.** A step is what a goroutine does between two points at which others can
observe it: a critical section, a channel operation, a call of `yield`. A channel
that is only ever closed is a number and membership in `closedChans`; `changed` is
the number of the current one. `newTicks` is kept as its bounds (`index`, `cursor`)
only, and each element is read from the shared `ticks` at the time it is yielded,
because that is what the code does after unlocking. `wpc` follows `countdown`:
`start`, `select` (in the loop), `audit` (it won the transition and has yet to log),
then the two deferred calls. `Panic` may happen wherever `countdown` could panic,
once per job: a second panic, out of the recovery's log call, ends the process.
Both branches of a `select` are enabled together when both are ready.

**Registry.** `Create` runs under the mutex and is one step. A `Shutdown` call is a
step for the snapshot and then two per goroutine, cancel and join. The jobs are a
sequence that stands for the heap, so that a job that no record refers to any
more would still run. They behave as `Job` shows: any terminal status, `STOPPED`
only once cancelled, and then `finished`. These steps are those of `JobLife`, which
`Job` is shown to implement, fairness included (`ImplementsLife`); for the registry
they are an assumption. A refused `Create` is one step too, and has to leave neither a
record nor an advanced counter (`RecordsCountJobs`).

**Server.** `R` is the registry with a single `Shutdown` call. Handlers are the
frames `call[h]`; the transport is external, described at the top of the module.
A stream's ticks before the terminal one are left to `Job`. `gpc`, `dpc` and `mpc`
are the goroutine of `grpc.Serve`, the one of `shutdown` and the process, which
parses its command line (`config`), calls `server.New`, then `Serve`, and makes an
exit code of what any of them returned. The signal may come at any time, also
before `New` has opened its listener; `New` listens under the context the signal ends
and `serve` wraps every error of `New` alike, so such a signal exits 2.
`Start` gives the job a context without the RPC's cancellation, so a client that
leaves ends no job. `Canceled` stands for whatever status the transport gives a
failed `Send`, which the handler returns as it is.

**Svid and Rpc.** A certificate is the record of the fields that are read. Its name
stands for subject and key. `X509Verify` is external: some path of presented
certificates leads to a root, each of them valid at the instant, each signing the
one before. Strings are elements of constant sets (`ValidDomains`,
`ValidComponents`, `ValidAgentIDs`), so that the rules about characters and lengths
are parameters. The instant is read anew at every check, and a client's clock may
be off. A bundle is a set, and the same file for both sides. `Panic` in `Rpc` is
what `guard` recovers. `WithinSkew`, `WellFormedSvid`, `Anchored`, `Vouches` and
`VouchesForServer` are the reference, written from the list under Authentication in the repository's README
and not from the code.

**Bundle.** A file is a sequence of items on lines of their own: a block, a damaged
block, or text, each perhaps with whitespace before it on its line. `pem.Decode` is
external: it takes the first readable block whose marker stands at the very start
or at the start of a line, and passes over everything before it. The certificates
are names; what is wrong with a block's content is one of five kinds.

**Fizzle.** Each process `p` has a command line, a place in its code (`pc`), an output
that may stall or fail, and at the server the frame of its RPC (`hpc`). Between them
are a request, an ordered `wire` of at most `Window` messages and the status that
ends the RPC, a `reset` (the handler's context is done) and a `cut`, behind which the
client receives any part of what was under way and then `Unavailable`. Messages are
converted as in the code: `protoTick` narrows, `Marshal` drops a zero as proto3 does,
`tickJSON` restores it; a count is converted to `CountBits` bits with the wrap-around
of Go. The one job is an instance of `JobFeed`, and the ranges of the handlers are
its readers, so what is shown here rests on what `Job` implements. `fizzle` sets no
deadline, so none ends an RPC. The interceptor is its verdict, from `Refusals`.

The definitions called faulty variants (`FinishWithoutCompare`, `CaptureFromFirst`,
...) are not used by any specification. Each is a plausible mistake in the
definition behind it, and putting it in that definition's place makes TLC find the
property that `PROJECT.json` pairs it with violated.

## 3. Runs

| Run | Instance | Asks |
|---|---|---|
| `job` | counts 1..3, 1 reader, 2 stoppers, fair | do status, ticks, the reader, channels and the log agree in every interleaving, do stops and ranges end, and does the job implement `JobFeed` and `JobLife`? |
| `registry` | 2 agents, 2 jobs, 2 shutdowns, counts 0, 1 and 4 with maximum 3, fair | is no job lost, shared, renamed or left running, does a refused creation leave nothing, do shutdowns return? |
| `server_safety` | 2 agents, 3 RPCs, one of them a `Start`, command lines good and bad | what is left running, how do streams end, whose jobs are replies about, is the exit code true? |
| `server_liveness` | 1 agent, 2 RPCs, fair | does the process end after a signal whatever its peers do, if the timer fires, and even if not, unless a client stopped reading? |
| `rpc_verification` | some 1200 chains, clock 0..6, tolerance 1 | is the verification sound and complete against the reference? |
| `rpc_decisions` | 2 connections, 2 RPCs, 4 bundles, 4 role files, 2 server SVIDs, clocks that differ by 1 | does every outcome match one recorded decision, and do clients connect only to a server their clock accepts? |
| `rpc_audit_target` | the same | does a decision name its job? (It does not, see section 6.) |
| `bundle_reading` | every file of up to 4 items, 2 authorities | is exactly the well-formed accepted, and is what is accepted sound? |
| `bundle_dropped` | files of up to 3 items | is no block dropped? (One can be, see section 6.) |
| `fizzle_output` | 2 processes at one job of up to 2 ticks, a window of 2, 1 fault | is what is printed true, and what exit code 0 says? |
| `fizzle_lines` | 1 process, every kind of command line, a window of 1, 3 faults, fair | is the job the one asked for, do commands and signals end, do handlers? |
| `fizzle_unavailable` | 1 process, no fault | does `ErrUnavailable` mean that no handler ran? (It does not, see section 6.) |

Bounds. Three ticks give a first one, one in the middle and the last, so batches
of a reader can start and end anywhere; the counts that matter to the code are the
smallest, the largest and what lies outside, which is why `Counts` has 0 and
`MaxCount + 1`. A reader changes nothing that another one reads, so one is enough,
and two stoppers for one to be overtaken by the other; the proofs are about any
number of both. With three RPCs a job can
be started, streamed and stopped while the server shuts down. The clock is met
inside a window, within the tolerance on either side and outside it, early and
late. Four items of a bundle put a damaged or a duplicate block before, between and
behind good ones. A window of one or two messages makes `Send` block in the middle
of a stream; with three bits on the wire the counts -9 to 10 reach both ends of its
range and wrap round on either side into the valid ones. Three faults let a cut, a
signal and a stalled output meet in one process, one fault is enough for each to
meet a second process at the same job. Symmetry is used in safety runs only (`server_safety`, `rpc_decisions`,
`fizzle_output`), over sets of model values whose members no definition tells apart. Deadlock is checked in the runs of `Fizzle`, whose
end is the step `Done`; elsewhere it is not: every one of these
systems may come to its end, a job that finished, a server that returned; that they
do not stop before is what the liveness properties say.

Fairness. Weak fairness of a goroutine's steps says that the Go scheduler runs what
can run; of `TimerTick` and `TimerComplete`, which are steps of the worker, and
`GraceElapsed` that a timer fires. In `Server` a job is fair only once its context
is done: a countdown takes up to 100 random intervals and nobody should wait for
it. Nothing is assumed of clients, of the operator's signal, of the listener, or
of panics. That the grace timer fires is a hypothesis of `ServeReturnsAfterSignal`
and of nothing else: `DrainNeedsNoTimer` does without it, to show that the order
jobs-then-transport, and not the timer, is what ends a shutdown. In `Fizzle` a
process and a handler take the steps they can, and the end of a client, or of its
connection, becomes known to the server: a client that gives up sends a reset, one
that dies closes its connection, and keepalive pings find out about a connection
that breaks silently. The job is fair once cancelled only. Nobody has to read an
output, so `CommandsEnd` and `InterruptEnds` except a stalled one: `writeLine` blocks
whatever the context, and the signal is only seen behind it.

## 4. Proofs

Each holds for every value of the constants that satisfies the assumptions of its
module.

**`Job_proofs`**, from `MaxCount \in Nat \ {0}` alone, any sets of readers and
stoppers. The inductive invariant `IInv` adds to the properties what they rest on: how
far `countdown` has got (`currentCount` and `wpc` against the length of `ticks`),
which channels are closed (those below `changed`, and `changed` itself once the
job has ended), where each reader is (what it was given is what lies before its
`index`, its captured channel is the current one or closed, and a captured channel that
is still open means that nothing was appended since), and what a `Stop` call may
rely on at each of its points. From it follow the invariants of the run `job` and,
step by step, the refinement `ImplementsFeed` and the safety half of `ImplementsLife`
(`LifeCorrect`). Three facts that the refinements imply on the checked instance are
proved directly as well, for whoever looks for them by name: readers get a prefix
of the log (`ReadersSeePrefix`), stops agree (`StopsAgree`), and what was published
stays (`PublishedIsFinal`).

**`Registry_proofs`**, from `MaxCount` positive, `Counts` integers, `MaxJobs`
natural, any agents and Shutdown calls. The invariant relates the records and the
jobs both ways (every entry is a job of that owner and number, every job is an
entry, numbers lie below the counter) and says of a `Shutdown` call that each job
is, for it, either still to be stopped, waited for, or finished, and that once one
call has begun no job is added. From it follow the invariants of the run `registry`
and `IdsAreStable`. `RecordsCountJobs` is proved on top of it, by an induction of its own:
the jobs are finitely many, and a step that creates one adds one to its owner's.

**`Rpc_proofs`**, from the assumptions of `Svid` and `Rpc` (the tolerance is
natural, certificates have their types, the fixed names are valid components). The
heart are lemmas about pure operators: `clampToValidity` moves an instant by at
most the tolerance and, inside it, into the window; an accepted chain has a leaf
as the reference wants it and a path to a root, all of it valid at the clamped
instant, which is within the tolerance of now. The invariant then records, for each connection and
RPC, the instant at which its verdict was reached and what was verified then, and
for each decision record the RPC it belongs to. From it follow the four invariants
of the two passing runs. `ClientsMeetTheServer` needs of it the types only, and the same
lemmas, which are stated for a verified chain of either side (`VerifiedIsAnchored`).

**`Server_proofs`**, from the same assumptions as `Registry_proofs`, any agents, RPCs
and command lines. The registry is not proved again: every step of the server is
shown to be a step of the registry or to leave it alone (`RegistryStep`), which gives
`DrivesTheRegistry`, the refinement `Spec => R!Spec`, and lets the invariant of
`Registry_proofs` be used for the server's instance of it. To it are added: what each
frame holds (the job in it is its caller's; the id `Start` returned is the caller's; a `Stop`
that answered has the status its job ended with, which stays since a job ends once);
why a context may have ended (its client, or the transport closed behind the grace
period); and where the goroutines of `Serve` can be together. The last is what
`NothingLeftRunning` needs: a closed or draining transport tells nothing about jobs
unless the goroutine of `shutdown` got past `jobs.Shutdown` before, and "no RPC before
`grpc.Serve`" is only inductive with the goroutine of `shutdown` not started either.

**`Bundle_proofs`**, from authorities that are none of the faulty contents and that have
an expiry, files of any length. What is left to read is the end of the file. For
`AcceptsTheWellFormed` the invariant is a case distinction: as long as every item that
went by was a block, the roots are those blocks, one to one (`InStep`); once
`pem.Decode` has passed over a damaged block there are more markers than roots, and
nothing read later makes up for it (`Behind`), so the count at the end finds it. That is
where markers at the start of lines are needed, and where the finding about
dropped blocks would break the proof. `AcceptedIsSound` needs no such condition: the
check against `seen` keeps the roots apart, and `earliestExpiry` is the least of them
behind every block. That an indented damaged block is not among the blocks it counts is the
finding of section 6.

**`Fizzle_proofs`**, from `FizzleAssumption`: a positive window, width and `MaxCount`, which fits
the wire's integer, and command lines of the types that `flag` and `strconv` give;
any number of processes and faults. The lemmas about operators say that what
`Client.Start` lets through arrives as it was (`Int32Fits`), and that a tick keeps its
meaning through `protoTick`, proto3 and `tickJSON`, the unsent zero included
(`TickRoundTrip`). `PrintedIsPrefix` is not inductive: it says nothing of what is under
way. The invariant puts `printed`, `hand` and `wire` one behind the other (`OutputsInv`):
the line at place `i` of the wire is tick `Received(p) + i`, while the handler can still
send the last of them is the last tick it was given, and an `OK` stands where the
first tick behind the log would be. It holds through a cut because a cut
leaves a prefix of the ticks and a status that is not `OK`; the place of that status,
last on its wire and there only if the handler has returned or the connection broke,
is `WireInv`. `UnaryInv` and `RefusedInv` say what an `OK` and an `InvalidArgument`
on the wire mean for the other commands, and `StageInv` that a start's handler
meets no job but its own. A step is one of a single process or handler, and the
others see at most the job go on: that is proved once (`SameKeeps`). `TheJobIsTheFeed`
adds that no step does to the job what `JobFeed` does not allow, and that a
job begins as `JobFeed` does, which is what joins this module to `Job`.

The inductive invariants of the last three hold in the instances of section 3 as well,
where TLC checked them.

Only model-checked: liveness, which is beyond the prover (`StopReturns`, `RangeEnds`,
`ShutdownReturns`, `ServeReturnsAfterSignal`, `DrainNeedsNoTimer`, `CommandsEnd`,
`InterruptEnds`, `AbandonedHandlersReturn`, and the fairness half of `ImplementsLife`).
Every invariant and every action property that a passing run checks is proved.

## 5. Not modelled

* `tlsconfig.go`, constant settings of `tls.Config`; `internal/logging`, which
  replaces a nil logger; generated gRPC code; `testpki`, certificates for tests.
* The details of the transport: HTTP/2 frames, flow control beyond a window,
  reconnection, keepalive pings other than by what they find out, and deadlines,
  which no caller sets.
* Several RPCs of one `fizzle` process (a process makes one), and several jobs in
  `Fizzle`: `Registry` and `Server` show that jobs do not interfere.
* JSON details of the role file; string rules of agent ids and SPIFFE ids.
* Which error is reported where all lead to the same answer, log lines other than
  "job finished" and "authorization decision", elapsed times, intervals.
* Branches the composed server cannot reach: an RPC without an action, a peer
  without TLS, a handler without an agent id, a nil certificate.
* Path length and name constraints, revocation, and session tickets (disabled).
* A client with a bundle of its own that differs from the server's.

## 6. Findings

The repository's README says of the audit log that it holds, for an authorization
decision, "the agent identifier, the action (Start / Stop / GetStatus /
StreamOutput), the target job-ID, and allow/deny". The stream interceptor decides
before the request is read and passes an empty job id (`interceptor.go:99`), so the
record of a `StreamOutput` never names its job; `rpc_audit_target` shows it. ("stream
opened", which the service logs later for an allowed stream of a job that exists,
does name it; a denied one leaves no trace of its target.)

The comment on the last check of `parseTrustBundle` says that it ensures "no block
was dropped, by comparing the number of certificates added to the pool against the
number of blocks in the file" (`trustbundle.go:100`). `beginMarkers` counts markers at
the start of a line. A damaged block whose marker is indented is not counted, and
`pem.Decode` passes over it on its way to the next readable block, so a file of a
good block, such a damaged one and another good block is accepted with two anchors;
`bundle_dropped` shows it, and `AcceptsTheWellFormed` that nothing is dropped where
markers start their lines, as every tool writes them.

The client documents `ErrUnavailable` as "the RPC never reached a handler"
(`internal/client/errors.go:32`). `Service.Start` itself answers `Unavailable` when
jobs are no longer accepted (`service.go:86`), as `fizzle_unavailable` shows, and a
connection that breaks under a running handler ends in the same error: a caller
cannot conclude from it that a job was not started.

## 7. Plan

Done: `Job` with `JobFeed` first, since every other part relies on what a job
promises; then `Registry`, with `JobLife` between the two; then `Server`, which
composes it; `Svid` and `Rpc`; `Bundle`; `Fizzle`, which composes the client and the
handlers over `JobFeed`; the proofs of `Job`, `Registry` and `Rpc`, then of `Server`, `Bundle`
and `Fizzle`.

Left: that the registry inside `Server` inherits, by name, the theorems of
`Registry_proofs` about ids and jobs (`DrivesTheRegistry` gives them for one Shutdown
call); action properties of `Server` and `Fizzle` (what a returned reply or an exited process may
never do again); a lemma that `Bundle`'s accepted roots are what `Rpc` takes a bundle to be.
