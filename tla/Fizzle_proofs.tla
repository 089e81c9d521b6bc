--------------------------- MODULE Fizzle_proofs ---------------------------
(***************************************************************************)
(* Proofs, for any number of processes, command lines, counts and windows, *)
(* and any number of faults, of the safety properties of module Fizzle.    *)
(***************************************************************************)
EXTENDS Fizzle, SequenceTheorems, TLAPS

----------------------------------------------------------------------------
(* The inductive invariant. *)

Codes == {"none", "OK", "Unavailable", "InvalidArgument", "NotFound", "Canceled",
          "Unauthenticated", "PermissionDenied", "Internal"}
Messages == [code : Codes, body : Texts]
LogTicks == [kind : {"progress", "stopped", "panic"}, remaining : 0 .. MaxCount]

TypeInv == TypeOK /\ wire \in [Procs -> Seq(Messages)]

\* One process at most asks for a job.
LineInv == \A p, q \in Procs : IsStart(line[p]) /\ IsStart(line[q]) => p = q

\* The terminal tick is the last one, and is there exactly when the job has
\* ended; no job, no ticks.
LogInv ==
    /\ \A i \in 1 .. Len(log) : IsTerminal(log[i]) => i = Len(log) /\ status # "RUNNING"
    /\ status # "RUNNING" => log # << >> /\ IsTerminal(log[Len(log)])
    /\ count = 0 => log = << >> /\ status = "RUNNING"

FeedInv(p) ==
    /\ Len(given[p]) <= Len(log)
    /\ outcome[p] = "complete" => status # "RUNNING" /\ Len(given[p]) = Len(log)
    /\ hpc[p] \notin {"streaming", "returned"} => given[p] = << >>

\* Where a process and its handler may be together.
StageInv(p) ==
    /\ pc[p] \in {"new", "call"} => hpc[p] = "none"
    /\ pc[p] \in {"waiting", "writing"} => hpc[p] # "none"
    /\ pc[p] = "call" \/ hpc[p] # "none" => Resolve(line[p]) = "nil"
    /\ pc[p] = "exited" /\ err[p] = "nil" => Resolve(line[p]) = "nil"
    /\ pc[p] = "writing" <=> hand[p] # << >>
    /\ hpc[p] # "none" /\ line[p].name = "start" => line[p].number \in MinInt32 .. MaxInt32
    /\ hpc[p] = "streaming" => line[p].name = "outputs"
    /\ hpc[p] = "stopping" => line[p].name = "stop"
    /\ IsStart(line[p]) /\ count # 0 => hpc[p] = "returned" /\ count = line[p].number

\* The status of an RPC is the last thing on its wire, and is there only if the
\* handler has returned, was not reached, or the connection broke; ticks fit the
\* window.
WireInv(p) ==
    /\ wire[p] # << >> => pc[p] \in {"waiting", "writing"}
    /\ p \notin cut /\ hpc[p] \notin {"streaming", "refused", "returned"} => wire[p] = << >>
    /\ \A i \in 1 .. Len(wire[p]) :
        /\ wire[p][i].code = "none" => i <= Window /\ line[p].name = "outputs"
        /\ wire[p][i].code # "none" =>
              i = Len(wire[p]) /\ (p \in cut \/ hpc[p] \in {"refused", "returned"})
        /\ wire[p][i].code \notin {"none", "Unavailable"} => hpc[p] \in {"refused", "returned"}

\* How many ticks an outputs command has received.
Received(p) == Len(printed[p]) + Len(hand[p])

\* printed, hand and wire are, one behind the other, ticks the handler was
\* given, from the first one on; all of them, as long as the handler can still
\* send the next; and OK stands behind the last tick of the log.
OutputsInv(p) ==
    line[p].name = "outputs" =>
        /\ Received(p) <= Len(given[p])
        /\ \A i \in 1 .. Len(printed[p]) : Says(printed[p][i], log[i])
        /\ hand[p] # << >> => Says(hand[p][1], log[Received(p)])
        /\ \A i \in 1 .. Len(wire[p]) :
            /\ wire[p][i].code = "none" =>
                  /\ Received(p) + i <= Len(given[p])
                  /\ Says(tickJSON(wire[p][i].body), log[Received(p) + i])
            /\ wire[p][i].code = "OK" =>
                  Received(p) + i = Len(log) + 1 /\ status # "RUNNING"
        /\ hpc[p] = "streaming" /\ p \notin reset \cup cut /\ ~ Gone(p) =>
              Received(p) + Len(wire[p]) = Len(given[p])
        /\ pc[p] = "exited" /\ err[p] = "nil" =>
              Len(printed[p]) = Len(log) /\ status # "RUNNING"

\* What the OK of another command carries, and what it prints of it.
Answers(p, body) ==
    /\ line[p].name = "start" => body = Text("id") /\ count = line[p].number /\ count # 0
    /\ line[p].name = "status" => \E s \in {"RUNNING", status} : body = Text(protoStatus(s))
    /\ line[p].name = "stop" => status # "RUNNING" /\ body = Text(protoStatus(status))

Prints(p, text) ==
    /\ line[p].name \in {"start", "status"}
    /\ line[p].name = "start" => text = Text("id") /\ count = line[p].number /\ count # 0
    /\ line[p].name = "status" => \E s \in {"RUNNING", status} : text = Text(s)

UnaryInv(p) ==
    line[p].name # "outputs" =>
        /\ ~ Gone(p) => printed[p] = << >>
        /\ \A i \in 1 .. Len(wire[p]) : wire[p][i].code = "OK" => Answers(p, wire[p][i].body)
        /\ hand[p] # << >> => Prints(p, hand[p][1])
        /\ pc[p] = "exited" /\ err[p] = "nil" =>
            IF line[p].name = "stop" THEN status # "RUNNING"
            ELSE Len(printed[p]) = 1 /\ Prints(p, printed[p][1])

\* A start that is refused for its count, here or there, has made no job.
RefusedInv(p) ==
    IsStart(line[p]) =>
        /\ \A i \in 1 .. Len(wire[p]) : wire[p][i].code = "InvalidArgument" => count = 0
        /\ pc[p] = "exited" /\ err[p] \in {"errUsage", "ErrInvalidArgument", "ErrConfig"} =>
              count = 0 /\ hpc[p] \in {"none", "refused", "returned"}

ProcInv(p) ==
    /\ FeedInv(p)
    /\ StageInv(p)
    /\ WireInv(p)
    /\ OutputsInv(p)
    /\ UnaryInv(p)
    /\ RefusedInv(p)

IInv ==
    /\ TypeInv
    /\ LineInv
    /\ LogInv
    /\ \A p \in Procs : ProcInv(p)

----------------------------------------------------------------------------
(* Lemmas about the operators. *)

\* The errors execute may return.
ExitErrors == {"nil", "ErrHelp", "errUsage", "ErrConfig", "errWrite", "ErrRPC",
               "ErrInvalidArgument", "ErrNotFound", "ErrPermissionDenied",
               "ErrUnauthenticated", "ErrUnavailable", "ErrCanceled"}

\* A command line that resolves is one of the four commands.
LEMMA ResolveFacts ==
    ASSUME NEW l
    PROVE  /\ Resolve(l) = "nil" => l.name \in Commands
           /\ Resolve(l) \in {"nil", "ErrHelp", "errUsage", "ErrConfig"}
  BY DEF Resolve, Parse, newCommand, New

\* The conversion to int32 keeps what fits, so what passes Client.Start's check
\* is what arrives, and so is every count a job may have.
LEMMA Int32Fits ==
    ASSUME NEW n \in MinInt32 .. MaxInt32
    PROVE  Int32(n) = n
  <1> DEFINE H == 2 ^ (CountBits - 1)
  <1>1. H \in Int
    BY FizzleAssumption
  <1>2. MinInt32 = -H /\ MaxInt32 = H - 1
    BY DEF MinInt32, MaxInt32
  <1> HIDE DEF H
  <1>3. n \in Int /\ n - MinInt32 >= 0 /\ n - MinInt32 < MaxInt32 - MinInt32 + 1
    BY <1>1, <1>2
  <1>4. n - MinInt32 \in Int /\ MaxInt32 - MinInt32 + 1 \in Nat \ {0}
    BY <1>1, <1>2, <1>3
  <1>5. \A m \in Int, k \in Nat \ {0} : 0 <= m /\ m < k => m % k = m
    OBVIOUS
  <1>6. (n - MinInt32) % (MaxInt32 - MinInt32 + 1) = n - MinInt32
    BY <1>3, <1>4, <1>5
  <1> QED BY <1>1, <1>2, <1>3, <1>6 DEF Int32

LEMMA CountFits ==
    ASSUME NEW n \in 0 .. MaxCount
    PROVE  Int32(n) = n
  <1> DEFINE H == 2 ^ (CountBits - 1)
  <1>1. H \in Int
    BY FizzleAssumption
  <1>2. MinInt32 = -H /\ MaxInt32 = H - 1
    BY DEF MinInt32, MaxInt32
  <1> HIDE DEF H
  <1>3. n \in MinInt32 .. MaxInt32
    BY <1>1, <1>2, FizzleAssumption
  <1> QED BY <1>3, Int32Fits

\* What is sent and printed are texts.
LEMMA TextTypes ==
    /\ Text("id") \in Texts /\ Text("none") \in Texts
    /\ \A s \in Statuses : Text(s) \in Texts /\ Text(protoStatus(s)) \in Texts
  BY DEF Text, Texts

\* The client reads from the wire the status the server wrote.
LEMMA StatusRoundTrip ==
    ASSUME NEW s \in Statuses
    PROVE  statusFrom(protoStatus(s)) = s
  BY DEF Statuses, TerminalStatuses, protoStatus, statusFrom

\* A tick keeps its meaning through protoTick, proto3's encoding and tickJSON,
\* the 0 that is not sent included.
LEMMA TickRoundTrip ==
    ASSUME NEW tick \in LogTicks
    PROVE  /\ Marshal(protoTick(tick)) \in Texts
           /\ Says(tickJSON(Marshal(protoTick(tick))), tick)
  <1>1. tick.kind \in {"progress", "stopped", "panic"} /\ tick.remaining \in 0 .. MaxCount
    BY DEF LogTicks
  <1>2. CASE tick.kind = "progress"
    <2> DEFINE r == tick.remaining
               m == Marshal(protoTick(tick))
    <2>1. protoTick(tick) = [kind |-> "progress", remaining |-> {r}]
      BY <1>1, <1>2, CountFits DEF protoTick
    <2>2. m = [kind |-> "progress", remaining |-> {r} \ {0}]
      BY <2>1 DEF Marshal
    <2>3. m \in Texts
      BY <1>1, <2>2 DEF Texts
    <2>4. CASE r = 0
      <3>1. m = [kind |-> "progress", remaining |-> {}]
        BY <2>2, <2>4
      <3>2. tickJSON(m) = [kind |-> "progress", remaining |-> {0}]
        BY <3>1 DEF tickJSON
      <3> QED BY <1>2, <2>3, <2>4, <3>2 DEF Says
    <2>5. CASE r # 0
      <3>1. m = [kind |-> "progress", remaining |-> {r}]
        BY <2>2, <2>5
      <3>2. tickJSON(m) = m
        BY <3>1 DEF tickJSON
      <3> QED BY <1>2, <2>3, <3>1, <3>2 DEF Says
    <2> QED BY <2>4, <2>5
  <1>3. CASE tick.kind # "progress"
    <2> DEFINE k == IF tick.kind = "stopped" THEN "stopped" ELSE "failure"
    <2>1. protoTick(tick) = [kind |-> k, remaining |-> {}]
      BY <1>1, <1>3 DEF protoTick, Text
    <2>2. Marshal(protoTick(tick)) = [kind |-> k, remaining |-> {}]
      BY <2>1 DEF Marshal
    <2>3. tickJSON([kind |-> k, remaining |-> {}]) = [kind |-> k, remaining |-> {}]
      BY DEF tickJSON
    <2> QED BY <1>3, <2>2, <2>3 DEF Says, Texts
  <1> QED BY <1>2, <1>3

\* tickJSON makes a line of any message.
LEMMA TickJSONType ==
    ASSUME NEW m \in Texts
    PROVE  tickJSON(m) \in Texts /\ tickJSON(m).kind = m.kind
  BY FizzleAssumption DEF Texts, tickJSON

LEMMA TextKinds ==
    ASSUME NEW m \in Texts
    PROVE  m.kind # "ErrUnknownStatus"
  BY DEF Texts, Statuses, TerminalStatuses, protoStatus

\* What the client makes of a status code.
LEMMA ErrorFacts ==
    ASSUME NEW code \in Codes \ {"none"}
    PROVE  /\ errorFrom(code) \in ExitErrors \ {"errUsage", "ErrConfig"}
           /\ errorFrom(code) = "nil" <=> code = "OK"
           /\ errorFrom(code) = "ErrInvalidArgument" <=> code = "InvalidArgument"
  BY DEF Codes, errorFrom, ExitErrors

----------------------------------------------------------------------------
(* The properties the runs check follow from the invariant. *)

LEMMA PrefixFollows == IInv => PrintedIsPrefix
  <1> SUFFICES ASSUME IInv, NEW p \in Procs, line[p].name = "outputs"
               PROVE  /\ Len(printed[p]) <= Len(log)
                      /\ \A i \in 1 .. Len(printed[p]) : Says(printed[p][i], log[i])
    BY DEF PrintedIsPrefix
  <1>1. OutputsInv(p) /\ FeedInv(p)
    BY DEF IInv, ProcInv
  <1>2. Len(printed[p]) \in Nat /\ Len(hand[p]) \in Nat /\ Len(given[p]) \in Nat /\ Len(log) \in Nat
    BY DEF IInv, TypeInv, TypeOK
  <1>3. /\ Received(p) <= Len(given[p]) /\ Len(given[p]) <= Len(log)
        /\ \A i \in 1 .. Len(printed[p]) : Says(printed[p][i], log[i])
    BY <1>1 DEF OutputsInv, FeedInv
  <1>4. Len(printed[p]) <= Len(log)
    <2> DEFINE k == Len(printed[p])
               n == Len(hand[p])
               m == Len(given[p])
    <2>1. k \in Nat /\ n \in Nat /\ m \in Nat /\ k + n <= m /\ m <= Len(log)
      BY <1>2, <1>3 DEF Received
    <2> HIDE DEF k, n, m
    <2>2. k <= Len(log)
      BY <1>2, <2>1
    <2> QED BY <2>2 DEF k
  <1> QED BY <1>3, <1>4

LEMMA SuccessFollows == IInv => SuccessIsTrue
  <1> SUFFICES ASSUME IInv, NEW p \in Procs, pc[p] = "exited", err[p] = "nil"
               PROVE  CASE line[p].name = "outputs" ->
                             /\ Len(printed[p]) = Len(log)
                             /\ log # << >> /\ IsTerminal(log[Len(log)])
                        [] line[p].name = "stop" -> status # "RUNNING"
                        [] line[p].name = "start" ->
                             printed[p] = <<Text("id")>> /\ count = line[p].number
                        [] line[p].name = "status" ->
                             \E s \in {"RUNNING", status} : printed[p] = <<Text(s)>>
    BY DEF SuccessIsTrue
  <1>1. line[p].name \in Commands
    BY ResolveFacts DEF IInv, ProcInv, StageInv
  <1>2. printed[p] \in Seq(Texts)
    BY DEF IInv, TypeInv, TypeOK
  <1>3. ASSUME line[p].name = "outputs"
        PROVE  Len(printed[p]) = Len(log) /\ log # << >> /\ IsTerminal(log[Len(log)])
    BY <1>3 DEF IInv, ProcInv, OutputsInv, LogInv
  <1>4. ASSUME line[p].name = "stop" PROVE status # "RUNNING"
    BY <1>4 DEF IInv, ProcInv, UnaryInv
  <1>5. ASSUME line[p].name \in {"start", "status"}
        PROVE  printed[p] = <<printed[p][1]>> /\ Prints(p, printed[p][1])
    <2>1. Len(printed[p]) = 1 /\ Prints(p, printed[p][1])
      BY <1>5 DEF IInv, ProcInv, UnaryInv
    <2> QED BY <1>2, <2>1
  <1>6. ASSUME line[p].name = "start" PROVE printed[p] = <<Text("id")>> /\ count = line[p].number
    BY <1>5, <1>6 DEF Prints
  <1>7. ASSUME line[p].name = "status"
        PROVE  \E s \in {"RUNNING", status} : printed[p] = <<Text(s)>>
    BY <1>5, <1>7 DEF Prints
  <1> QED BY <1>1, <1>3, <1>4, <1>6, <1>7 DEF Commands

LEMMA AskedForFollows == IInv => JobIsTheOneAskedFor
  <1> SUFFICES ASSUME IInv, NEW p \in Procs, IsStart(line[p])
               PROVE  /\ count \in {0, line[p].number}
                      /\ pc[p] = "exited" /\ ExitCode(p) = 2 => count = 0
    BY DEF JobIsTheOneAskedFor
  <1>1. StageInv(p) /\ RefusedInv(p)
    BY DEF IInv, ProcInv
  <1>2. ExitCode(p) = 2 => err[p] \in {"errUsage", "ErrInvalidArgument", "ErrConfig"}
    BY DEF ExitCode, exitCodeFor
  <1> QED BY <1>1, <1>2 DEF StageInv, RefusedInv

----------------------------------------------------------------------------
(* The pattern of a step: it is one of a single process, of its handler or of *)
(* the world around it, and the other processes see at most the job go on.    *)

\* The types of what belongs to a process.
LEMMA Locals ==
    ASSUME TypeInv, NEW p \in Procs
    PROVE  /\ wire[p] \in Seq(Messages) /\ Len(wire[p]) \in Nat
           /\ printed[p] \in Seq(Texts) /\ Len(printed[p]) \in Nat
           /\ given[p] \in Seq(LogTicks) /\ Len(given[p]) \in Nat
           /\ log \in Seq(LogTicks) /\ Len(log) \in Nat
           /\ hand[p] \in Seq(Texts) /\ Len(hand[p]) \in {0, 1}
           /\ hand[p] = << >> <=> Len(hand[p]) = 0
           /\ Received(p) \in Nat
           /\ Received(p) = IF hand[p] = << >> THEN Len(printed[p]) ELSE Len(printed[p]) + 1
  <1>1. /\ wire[p] \in Seq(Messages) /\ printed[p] \in Seq(Texts) /\ given[p] \in Seq(LogTicks)
        /\ log \in Seq(LogTicks)
    BY DEF TypeInv, TypeOK, LogTicks
  <1>2. hand[p] \in {<< >>} \cup {<<t>> : t \in Texts}
    BY DEF TypeInv, TypeOK
  <1>3. /\ hand[p] \in Seq(Texts) /\ Len(hand[p]) \in {0, 1}
        /\ hand[p] = << >> <=> Len(hand[p]) = 0
    <2>1. CASE hand[p] = << >>
      BY <2>1
    <2>2. CASE \E t \in Texts : hand[p] = <<t>>
      <3>1. PICK t \in Texts : hand[p] = <<t>>
        BY <2>2
      <3> HIDE DEF Texts
      <3> QED BY <3>1
    <2> QED BY <1>2, <2>1, <2>2
  <1>4. Len(printed[p]) \in Nat
    BY <1>1
  <1>5. /\ Received(p) \in Nat
        /\ Received(p) = IF hand[p] = << >> THEN Len(printed[p]) ELSE Len(printed[p]) + 1
    <2>1. \A m \in Nat, n \in {0, 1} : m + n \in Nat /\ m + n = IF n = 0 THEN m ELSE m + 1
      OBVIOUS
    <2> QED BY <1>3, <1>4, <2>1 DEF Received
  <1> QED BY <1>1, <1>3, <1>5

\* What belongs to a process is left alone,
Same(q) ==
    /\ given'[q] = given[q] /\ outcome'[q] = outcome[q]
    /\ hpc'[q] = hpc[q]
    /\ q \in reset' <=> q \in reset
    /\ q \in cut' <=> q \in cut
    /\ wire'[q] = wire[q]
    /\ pc'[q] = pc[q] /\ hand'[q] = hand[q] /\ printed'[q] = printed[q] /\ err'[q] = err[q]

\* while the job goes on, or is created for somebody else.
Ahead(q) ==
    /\ line' = line
    /\ count' = count \/ (count = 0 /\ ~ IsStart(line[q]))
    /\ \/ status' = status /\ log' = log
       \/ /\ status = "RUNNING"
          /\ Len(log) <= Len(log')
          /\ \A i \in 1 .. Len(log) : log'[i] = log[i]

LEMMA SameKeeps ==
    ASSUME TypeInv, NEW q \in Procs, ProcInv(q), Same(q), Ahead(q), Len(log') \in Nat
    PROVE  ProcInv(q)'
  <1>1. /\ Len(wire[q]) \in Nat /\ Len(printed[q]) \in Nat /\ Len(given[q]) \in Nat
        /\ Len(log) \in Nat /\ Received(q) \in Nat /\ Len(hand[q]) \in {0, 1}
        /\ Received(q) = IF hand[q] = << >> THEN Len(printed[q]) ELSE Len(printed[q]) + 1
    BY Locals
  <1>2. /\ FeedInv(q) /\ StageInv(q) /\ WireInv(q) /\ OutputsInv(q) /\ UnaryInv(q)
        /\ RefusedInv(q)
    BY DEF ProcInv
  <1>3. FeedInv(q)'
    BY <1>1, <1>2 DEF FeedInv, Same, Ahead
  <1>4. StageInv(q)'
    BY <1>2 DEF StageInv, Same, Ahead
  <1>5. WireInv(q)'
    BY <1>2 DEF WireInv, Same, Ahead
  <1>6. OutputsInv(q)'
    <2> SUFFICES ASSUME line[q].name = "outputs" PROVE OutputsInv(q)'
      BY DEF OutputsInv, Ahead
    <2> DEFINE r == Received(q)
    <2>1. Received(q)' = r /\ line' = line
      BY DEF Received, Same, Ahead
    <2>2. r <= Len(given[q]) /\ Len(given[q]) <= Len(log)
      BY <1>2 DEF OutputsInv, FeedInv
    <2>3. \A i \in 1 .. Len(log) : log'[i] = log[i]
      BY DEF Ahead
    <2>4. \A i \in 1 .. Len(printed[q]) : Says(printed[q][i], log'[i])
      <3>1. \A i \in 1 .. Len(printed[q]) : i \in 1 .. Len(log) /\ Says(printed[q][i], log[i])
        BY <1>1, <1>2, <2>2 DEF OutputsInv
      <3> QED BY <2>3, <3>1
    <2>5. hand[q] # << >> => Says(hand[q][1], log'[r])
      <3>1. hand[q] # << >> => r \in 1 .. Len(log) /\ Says(hand[q][1], log[r])
        BY <1>1, <1>2, <2>2 DEF OutputsInv
      <3> QED BY <2>3, <3>1
    <2>6. ASSUME NEW i \in 1 .. Len(wire[q])
          PROVE  /\ wire[q][i].code = "none" =>
                       r + i <= Len(given[q]) /\ Says(tickJSON(wire[q][i].body), log'[r + i])
                 /\ wire[q][i].code = "OK" => r + i = Len(log') + 1 /\ status' # "RUNNING"
      <3>1. wire[q][i].code = "none" =>
              /\ r + i \in 1 .. Len(log) /\ r + i <= Len(given[q])
              /\ Says(tickJSON(wire[q][i].body), log[r + i])
        <4>1. wire[q][i].code = "none" =>
                r + i <= Len(given[q]) /\ Says(tickJSON(wire[q][i].body), log[r + i])
          BY <1>2 DEF OutputsInv
        <4>2. i \in Nat \ {0} /\ r \in Nat /\ Len(given[q]) \in Nat /\ Len(log) \in Nat
          BY <1>1
        <4> HIDE DEF r
        <4>3. r + i <= Len(given[q]) => r + i \in 1 .. Len(log)
          BY <2>2, <4>2
        <4> QED BY <4>1, <4>3
      <3>2. wire[q][i].code = "OK" => r + i = Len(log') + 1 /\ status' # "RUNNING"
        BY <1>2 DEF OutputsInv, Ahead
      <3> QED BY <2>3, <3>1, <3>2
    <2>7. /\ hpc[q] = "streaming" /\ q \notin reset \cup cut /\ ~ Gone(q) =>
                r + Len(wire[q]) = Len(given[q])
          /\ pc[q] = "exited" /\ err[q] = "nil" =>
                Len(printed[q]) = Len(log') /\ status' # "RUNNING"
      BY <1>2 DEF OutputsInv, Ahead
    <2>8. Gone(q)' <=> Gone(q)
      BY DEF Gone, Same
    <2> HIDE DEF r
    <2> QED BY <2>1, <2>2, <2>4, <2>5, <2>6, <2>7, <2>8 DEF OutputsInv, Same
  <1>7. UnaryInv(q)'
    <2>1. \A b : Answers(q, b) => Answers(q, b)'
      BY DEF Answers, Ahead
    <2>2. \A t : Prints(q, t) => Prints(q, t)'
      BY DEF Prints, Ahead
    <2> QED BY <1>2, <2>1, <2>2 DEF UnaryInv, Same, Ahead, Gone
  <1>8. RefusedInv(q)'
    BY <1>2 DEF RefusedInv, Same, Ahead
  <1> QED BY <1>3, <1>4, <1>5, <1>6, <1>7, <1>8 DEF ProcInv

\* A step of one process, or of its handler.
LEMMA OneMoves ==
    ASSUME IInv, NEW p \in Procs, TypeInv', LogInv', ProcInv(p)', line' = line,
           \A q \in Procs \ {p} : Same(q) /\ Ahead(q)
    PROVE  IInv'
  <1>1. LineInv'
    BY DEF IInv, LineInv
  <1>2. Len(log') \in Nat
    BY DEF TypeInv, TypeOK
  <1>3. ASSUME NEW q \in Procs PROVE ProcInv(q)'
    <2>1. CASE q = p
      BY <2>1
    <2>2. CASE q # p
      BY <1>2, <2>2, SameKeeps DEF IInv
    <2> QED BY <2>1, <2>2
  <1> QED BY <1>1, <1>3 DEF IInv

\* A step of the job or of the world, that no process takes part in.
LEMMA NoneMoves ==
    ASSUME IInv, TypeInv', LogInv', line' = line, \A q \in Procs : Same(q) /\ Ahead(q)
    PROVE  IInv'
  <1>1. LineInv'
    BY DEF IInv, LineInv
  <1>2. Len(log') \in Nat
    BY DEF TypeInv, TypeOK
  <1>3. ASSUME NEW q \in Procs PROVE ProcInv(q)'
    BY <1>2, SameKeeps DEF IInv
  <1> QED BY <1>1, <1>3 DEF IInv

\* The types behind a step of a process.
LEMMA ProcessTypes ==
    ASSUME TypeInv, UNCHANGED <<jobVars, isAccepting, reset, cut, line, interrupted, out>>,
           hpc' \in [Procs -> {"none", "request", "lost", "refused", "running",
                              "stopping", "streaming", "returned"}],
           wire' \in [Procs -> Seq(Messages)],
           \A q \in Procs : Len(wire'[q]) <= Window + 1,
           pc' \in [Procs -> {"new", "call", "waiting", "writing", "exited", "killed"}],
           hand' \in [Procs -> {<< >>} \cup {<<t>> : t \in Texts}],
           printed' \in [Procs -> Seq(Texts)],
           err' \in [Procs -> {"none"} \cup ExitErrors]
    PROVE  TypeInv'
  BY DEF TypeInv, TypeOK, jobVars, ExitErrors

----------------------------------------------------------------------------
(* The process. *)

\* execute returns e, with what e promises.
LEMMA ExitKeeps ==
    ASSUME IInv, NEW p \in Procs, NEW e \in ExitErrors, Exit(p, e),
           UNCHANGED <<jobVars, serverVars, cut, line, interrupted, out>>,
           printed' \in [Procs -> Seq(Texts)],
           \A q \in Procs \ {p} : printed'[q] = printed[q],
           line[p].name = "outputs" => printed'[p] = printed[p],
           e = "nil" =>
              /\ Resolve(line[p]) = "nil"
              /\ IF line[p].name = "outputs"
                 THEN Len(printed[p]) = Len(log) /\ status # "RUNNING"
                 ELSE IF line[p].name = "stop" THEN status # "RUNNING"
                 ELSE Len(printed'[p]) = 1 /\ Prints(p, printed'[p][1]),
           IsStart(line[p]) /\ e \in {"errUsage", "ErrInvalidArgument", "ErrConfig"} =>
              count = 0 /\ hpc[p] \in {"none", "refused", "returned"}
    PROVE  IInv'
  <1>1. TypeInv /\ ProcInv(p) /\ LogInv
    BY DEF IInv
  <1>2. /\ pc' = [pc EXCEPT ![p] = "exited"] /\ err' = [err EXCEPT ![p] = e]
        /\ hand' = [hand EXCEPT ![p] = << >>] /\ wire' = [wire EXCEPT ![p] = << >>]
        /\ UNCHANGED <<count, status, log, given, outcome, hpc, reset, cut, line>>
    BY DEF Exit, jobVars, serverVars
  <1>3. /\ pc'[p] = "exited" /\ err'[p] = e /\ hand'[p] = << >> /\ wire'[p] = << >>
        /\ \A q \in Procs \ {p} : /\ pc'[q] = pc[q] /\ err'[q] = err[q]
                                  /\ hand'[q] = hand[q] /\ wire'[q] = wire[q]
    BY <1>1, <1>2 DEF TypeInv, TypeOK
  <1>4. TypeInv'
    <2>1. /\ hpc' \in [Procs -> {"none", "request", "lost", "refused", "running",
                                 "stopping", "streaming", "returned"}]
          /\ wire' \in [Procs -> Seq(Messages)]
          /\ pc' \in [Procs -> {"new", "call", "waiting", "writing", "exited", "killed"}]
      BY <1>1, <1>2 DEF TypeInv, TypeOK
    <2>2. ASSUME NEW q \in Procs PROVE Len(wire'[q]) <= Window + 1
      <3>1. CASE q = p
        <4>1. Len(wire'[p]) = 0
          BY <1>3
        <4> QED BY <3>1, <4>1, FizzleAssumption
      <3>2. CASE q # p
        BY <1>1, <1>3, <3>2 DEF TypeInv, TypeOK
      <3> QED BY <3>1, <3>2
    <2>3. hand' \in [Procs -> {<< >>} \cup {<<t>> : t \in Texts}]
      <3> HIDE DEF Texts
      <3> QED BY <1>1, <1>2 DEF TypeInv, TypeOK
    <2>4. err' \in [Procs -> {"none"} \cup ExitErrors]
      BY <1>1, <1>2 DEF TypeInv, TypeOK, ExitErrors
    <2> QED BY <1>1, <2>1, <2>2, <2>3, <2>4, ProcessTypes DEF serverVars
  <1>5. LogInv'
    BY <1>1, <1>2 DEF LogInv
  <1>6. \A q \in Procs \ {p} : Same(q) /\ Ahead(q)
    BY <1>2, <1>3 DEF Same, Ahead
  <1>7. Gone(p)'
    BY <1>3 DEF Gone
  <1>8. FeedInv(p)' /\ StageInv(p)'
    BY <1>1, <1>2, <1>3 DEF ProcInv, FeedInv, StageInv
  <1>9. WireInv(p)' /\ RefusedInv(p)'
    BY <1>1, <1>2, <1>3 DEF ProcInv, WireInv, RefusedInv
  <1>10. UnaryInv(p)'
    <2>1. \A t : Prints(p, t) => Prints(p, t)'
      BY <1>2 DEF Prints
    <2> QED BY <1>2, <1>3, <1>7, <2>1 DEF UnaryInv
  <1>11. OutputsInv(p)'
    <2> SUFFICES ASSUME line[p].name = "outputs" PROVE OutputsInv(p)'
      BY <1>2 DEF OutputsInv
    <2>1. /\ OutputsInv(p) /\ Len(printed[p]) \in Nat /\ Len(given[p]) \in Nat
          /\ Received(p) = IF hand[p] = << >> THEN Len(printed[p]) ELSE Len(printed[p]) + 1
      BY <1>1, Locals DEF ProcInv
    <2>2. /\ Len(printed'[p]) <= Len(given'[p])
          /\ \A i \in 1 .. Len(printed'[p]) : Says(printed'[p][i], log'[i])
      BY <1>2, <2>1 DEF OutputsInv
    <2>3. Received(p)' = Len(printed'[p])
      <3>1. Len(hand'[p]) = 0 /\ Len(printed'[p]) \in Nat
        BY <1>3, <2>1
      <3>2. \A m \in Nat : m + 0 = m
        OBVIOUS
      <3> QED BY <3>1, <3>2 DEF Received
    <2> QED BY <1>2, <1>3, <1>7, <2>2, <2>3 DEF OutputsInv
  <1>12. ProcInv(p)'
    BY <1>8, <1>9, <1>10, <1>11 DEF ProcInv
  <1> QED BY <1>2, <1>4, <1>5, <1>6, <1>12, OneMoves


LEMMA BeginKeeps ==
    ASSUME IInv, NEW p \in Procs, Begin(p)
    PROVE  IInv'
  <1>1. TypeInv /\ ProcInv(p) /\ LogInv /\ hpc[p] = "none"
    BY DEF IInv, ProcInv, StageInv, Begin
  <1>2. CASE Resolve(line[p]) # "nil"
    <2>1. Resolve(line[p]) \in ExitErrors
      BY ResolveFacts DEF ExitErrors
    <2>2. Exit(p, Resolve(line[p])) /\ printed' = printed
          /\ UNCHANGED <<jobVars, serverVars, cut, line, interrupted, out>>
      BY <1>2 DEF Begin
    <2>3. printed' \in [Procs -> Seq(Texts)]
      BY <1>1, <2>2 DEF TypeInv, TypeOK
    <2>4. ~ IsStart(line[p])
      BY <1>2 DEF IsStart
    <2> QED BY <1>2, <2>1, <2>2, <2>3, <2>4, ExitKeeps
  <1>3. CASE Resolve(line[p]) = "nil"
    <2>1. /\ pc' = [pc EXCEPT ![p] = "call"]
          /\ UNCHANGED <<err, hand, wire, printed, count, status, log, given, outcome, hpc, reset,
                         cut, line>>
      BY <1>3 DEF Begin, jobVars, serverVars
    <2>2. /\ pc[p] = "new" /\ pc'[p] = "call" /\ \A q \in Procs \ {p} : pc'[q] = pc[q]
          /\ pc' \in [Procs -> {"new", "call", "waiting", "writing", "exited", "killed"}]
      BY <1>1, <2>1 DEF TypeInv, TypeOK, Begin
    <2>3. TypeInv'
      BY <1>1, <2>1, <2>2 DEF TypeInv, TypeOK, Begin, jobVars, serverVars
    <2>4. LogInv'
      BY <1>1, <2>1 DEF LogInv
    <2>5. \A q \in Procs \ {p} : Same(q) /\ Ahead(q)
      BY <2>1, <2>2 DEF Same, Ahead
    <2>6. FeedInv(p)' /\ StageInv(p)' /\ WireInv(p)'
      BY <1>1, <1>3, <2>1, <2>2 DEF ProcInv, FeedInv, StageInv, WireInv
    <2>7. Received(p)' = Received(p) /\ ~ Gone(p) /\ ~ Gone(p)'
      BY <2>1, <2>2 DEF Received, Gone
    <2>8. OutputsInv(p)'
      BY <1>1, <2>1, <2>2, <2>7 DEF ProcInv, OutputsInv
    <2>9. UnaryInv(p)'
      BY <1>1, <2>1, <2>2, <2>7 DEF ProcInv, UnaryInv, Answers, Prints
    <2>10. RefusedInv(p)'
      BY <1>1, <2>1, <2>2 DEF ProcInv, RefusedInv
    <2>11. ProcInv(p)'
      BY <2>6, <2>8, <2>9, <2>10 DEF ProcInv
    <2> QED BY <2>1, <2>3, <2>4, <2>5, <2>11, OneMoves
  <1> QED BY <1>2, <1>3

LEMMA CallKeeps ==
    ASSUME IInv, NEW p \in Procs, Call(p)
    PROVE  IInv'
  <1>1. TypeInv /\ ProcInv(p) /\ LogInv /\ pc[p] = "call" /\ hpc[p] = "none"
        /\ Resolve(line[p]) = "nil" /\ printed' = printed
        /\ UNCHANGED <<jobVars, cut, line, interrupted, out>>
    BY DEF IInv, ProcInv, StageInv, Call
  <1>2. CASE line[p].name = "start" /\ line[p].number \notin MinInt32 .. MaxInt32
    <2>1. Exit(p, "ErrInvalidArgument") /\ UNCHANGED serverVars
      BY <1>2 DEF Call, serverVars
    <2>2. printed' \in [Procs -> Seq(Texts)]
      BY <1>1 DEF TypeInv, TypeOK
    <2>3. IsStart(line[p]) => count = 0
      BY <1>1 DEF ProcInv, StageInv
    <2>4. "ErrInvalidArgument" \in ExitErrors
      BY DEF ExitErrors
    <2> QED BY <1>1, <2>1, <2>2, <2>3, <2>4, ExitKeeps
  <1>3. CASE ~ (line[p].name = "start" /\ line[p].number \notin MinInt32 .. MaxInt32)
    <2>1. /\ pc' = [pc EXCEPT ![p] = "waiting"] /\ hpc' = [hpc EXCEPT ![p] = "request"]
          /\ UNCHANGED <<err, hand, wire, printed, count, status, log, given, outcome, reset,
                         cut, line>>
      BY <1>3 DEF Call, Request, jobVars
    <2>2. /\ pc'[p] = "waiting" /\ \A q \in Procs \ {p} : pc'[q] = pc[q] /\ hpc'[q] = hpc[q]
          /\ hpc'[p] = "request"
          /\ pc' \in [Procs -> {"new", "call", "waiting", "writing", "exited", "killed"}]
          /\ hpc' \in [Procs -> {"none", "request", "lost", "refused", "running",
                                "stopping", "streaming", "returned"}]
      BY <1>1, <2>1 DEF TypeInv, TypeOK
    <2>3. TypeInv'
      <3>1. UNCHANGED <<count, status, log, given, outcome, answer, cancelled, isAccepting, reset,
                        cut, wire, line, interrupted, out, hand, printed, err>>
        BY <2>1 DEF Call, jobVars
      <3> QED BY <1>1, <2>2, <3>1 DEF TypeInv, TypeOK
    <2>4. LogInv'
      BY <1>1, <2>1 DEF LogInv
    <2>5. \A q \in Procs \ {p} : Same(q) /\ Ahead(q)
      BY <2>1, <2>2 DEF Same, Ahead
    <2>6. FeedInv(p)' /\ StageInv(p)'
      BY <1>1, <1>3, <2>1, <2>2 DEF ProcInv, FeedInv, StageInv
    <2>7. /\ WireInv(p)' /\ wire[p] = << >>
      BY <1>1, <2>1, <2>2 DEF ProcInv, WireInv
    <2>8. Received(p)' = Received(p) /\ ~ Gone(p) /\ ~ Gone(p)'
      BY <1>1, <2>1, <2>2 DEF Received, Gone
    <2>9. OutputsInv(p)'
      BY <1>1, <2>1, <2>2, <2>8 DEF ProcInv, OutputsInv
    <2>10. UnaryInv(p)'
      BY <1>1, <2>1, <2>2, <2>8 DEF ProcInv, UnaryInv, Answers, Prints
    <2>11. RefusedInv(p)'
      BY <1>1, <2>1, <2>2 DEF ProcInv, RefusedInv
    <2>12. ProcInv(p)'
      BY <2>6, <2>7, <2>9, <2>10, <2>11 DEF ProcInv
    <2> QED BY <2>1, <2>3, <2>4, <2>5, <2>12, OneMoves
  <1> QED BY <1>2, <1>3

\* The head of the wire, and what is behind it.
LEMMA HeadFacts ==
    ASSUME IInv, NEW p \in Procs, wire[p] # << >>
    PROVE  /\ Head(wire[p]) = wire[p][1] /\ wire[p][1] \in Messages
           /\ 1 \in 1 .. Len(wire[p])
           /\ Tail(wire[p]) \in Seq(Messages)
           /\ Len(Tail(wire[p])) = Len(wire[p]) - 1
           /\ \A i \in 1 .. Len(Tail(wire[p])) :
                i + 1 \in 1 .. Len(wire[p]) /\ Tail(wire[p])[i] = wire[p][i + 1]
  <1> DEFINE w == wire[p]
  <1>1. w \in Seq(Messages) /\ w # << >>
    BY Locals DEF IInv
  <1> HIDE DEF w, Messages
  <1>2. /\ Head(w) = w[1] /\ w[1] \in Messages /\ 1 \in 1 .. Len(w)
        /\ Tail(w) \in Seq(Messages) /\ Len(Tail(w)) = Len(w) - 1
        /\ \A i \in 1 .. Len(Tail(w)) : i + 1 \in 1 .. Len(w) /\ Tail(w)[i] = w[i + 1]
    BY <1>1
  <1> QED BY <1>2 DEF w

\* The RPC ends for the client, however it does.
LEMMA ReceiveEndKeeps ==
    ASSUME IInv, NEW p \in Procs, ReceiveEnd(p)
    PROVE  IInv'
  <1> DEFINE m == Head(wire[p])
  <1>1. TypeInv /\ ProcInv(p) /\ LogInv /\ pc[p] = "waiting" /\ wire[p] # << >>
        /\ printed' = printed /\ hpc[p] # "none" /\ Resolve(line[p]) = "nil"
        /\ UNCHANGED <<jobVars, serverVars, cut, line, interrupted, out>>
    BY DEF IInv, ProcInv, StageInv, ReceiveEnd
  <1>2. m = wire[p][1] /\ 1 \in 1 .. Len(wire[p]) /\ m.code \in Codes \ {"none"} /\ m.body \in Texts
        /\ (m.code = "OK" => line[p].name \in {"stop", "outputs"})
    BY <1>1, HeadFacts DEF Messages, ReceiveEnd
  <1>3. printed' \in [Procs -> Seq(Texts)]
    BY <1>1 DEF TypeInv, TypeOK
  <1>4. CASE m.code = "OK"
    <2>1. ASSUME line[p].name = "stop"
          PROVE  status # "RUNNING" /\ statusFrom(m.body.kind) # "ErrUnknownStatus"
      <3>1. Answers(p, m.body)
        BY <1>1, <1>2, <1>4, <2>1 DEF ProcInv, UnaryInv
      <3>2. status # "RUNNING" /\ m.body.kind = protoStatus(status)
        BY <2>1, <3>1 DEF Answers, Text
      <3>3. status \in Statuses /\ "ErrUnknownStatus" \notin Statuses
        BY <1>1 DEF TypeInv, TypeOK, Statuses, TerminalStatuses
      <3> QED BY <3>2, <3>3, StatusRoundTrip
    <2>2. ASSUME line[p].name = "outputs"
          PROVE  Len(printed[p]) = Len(log) /\ status # "RUNNING"
      <3>1. Received(p) + 1 = Len(log) + 1 /\ status # "RUNNING"
        BY <1>1, <1>2, <1>4, <2>2 DEF ProcInv, OutputsInv
      <3>2. hand[p] = << >>
        BY <1>1 DEF ProcInv, StageInv
      <3>3. Received(p) = Len(printed[p]) /\ Received(p) \in Nat /\ Len(log) \in Nat
        BY <1>1, <3>2, Locals
      <3>4. \A i, j \in Nat : i + 1 = j + 1 => i = j
        OBVIOUS
      <3> QED BY <3>1, <3>3, <3>4
    <2>3. Exit(p, "nil")
      <3>1. Exit(p, errorFrom(m.code))
        BY <1>4, <2>1 DEF ReceiveEnd
      <3> QED BY <1>4, <3>1 DEF errorFrom
    <2>4. "nil" \in ExitErrors
      BY DEF ExitErrors
    <2> QED BY <1>1, <1>2, <1>3, <1>4, <2>1, <2>2, <2>3, <2>4, ExitKeeps
  <1>5. CASE m.code # "OK"
    <2>1. Exit(p, errorFrom(m.code))
      BY <1>5 DEF ReceiveEnd
    <2>2. errorFrom(m.code) \in ExitErrors \ {"errUsage", "ErrConfig"} /\ errorFrom(m.code) # "nil"
          /\ (errorFrom(m.code) = "ErrInvalidArgument" <=> m.code = "InvalidArgument")
      BY <1>2, <1>5, ErrorFacts
    <2>3. ASSUME IsStart(line[p]), m.code = "InvalidArgument"
          PROVE  count = 0 /\ hpc[p] \in {"refused", "returned"}
      BY <1>1, <1>2, <2>3 DEF ProcInv, WireInv, RefusedInv
    <2> HIDE DEF m
    <2> QED BY <1>1, <1>3, <2>1, <2>2, <2>3, ExitKeeps
  <1> QED BY <1>4, <1>5

LEMMA GiveUpKeeps ==
    ASSUME IInv, NEW p \in Procs, GiveUp(p)
    PROVE  IInv'
  <1>1. Exit(p, "ErrCanceled") /\ printed' = printed /\ "ErrCanceled" \in ExitErrors
        /\ UNCHANGED <<jobVars, serverVars, cut, line, interrupted, out>>
    BY DEF GiveUp, errorFrom, ExitErrors
  <1>2. printed' \in [Procs -> Seq(Texts)]
    BY <1>1 DEF IInv, TypeInv, TypeOK
  <1> QED BY <1>1, <1>2, ExitKeeps

\* A line is received: the wire, the hand and the output stay one behind the
\* other.
LEMMA ReceiveKeeps ==
    ASSUME IInv, NEW p \in Procs, Receive(p)
    PROVE  IInv'
  <1> DEFINE m == wire[p][1]
             name == line[p].name
             text == IF name = "outputs" THEN tickJSON(m.body)
                     ELSE IF name = "status" THEN Text(statusFrom(m.body.kind)) ELSE m.body
  <1>1. TypeInv /\ ProcInv(p) /\ LogInv /\ pc[p] = "waiting" /\ wire[p] # << >>
        /\ printed' = printed /\ hpc[p] # "none" /\ Resolve(line[p]) = "nil" /\ hand[p] = << >>
        /\ UNCHANGED <<jobVars, serverVars, cut, line, interrupted, out>>
    BY DEF IInv, ProcInv, StageInv, Receive
  <1>2. /\ Head(wire[p]) = m /\ 1 \in 1 .. Len(wire[p]) /\ m.code \in Codes /\ m.body \in Texts
        /\ Tail(wire[p]) \in Seq(Messages)
        /\ Len(Tail(wire[p])) = Len(wire[p]) - 1
        /\ \A i \in 1 .. Len(Tail(wire[p])) :
             i + 1 \in 1 .. Len(wire[p]) /\ Tail(wire[p])[i] = wire[p][i + 1]
    BY <1>1, HeadFacts DEF Messages
  <1>3. m.code = "none" \/ (m.code = "OK" /\ name \in {"start", "status"})
    BY <1>2 DEF Receive
  <1>4. m.code = "none" => name = "outputs"
    BY <1>1, <1>2 DEF ProcInv, WireInv
  <1>5. ASSUME name \in {"start", "status"} PROVE Prints(p, text) /\ text \in Texts
    <2>1. Answers(p, m.body)
      BY <1>1, <1>2, <1>3, <1>4, <1>5 DEF ProcInv, UnaryInv
    <2>2. CASE name = "start"
      BY <2>1, <2>2, TextTypes DEF Answers, Prints
    <2>3. CASE name = "status"
      <3>1. PICK s \in {"RUNNING", status} : m.body = Text(protoStatus(s))
        BY <2>1, <2>3 DEF Answers
      <3>2. s \in Statuses
        BY <1>1, <3>1 DEF TypeInv, TypeOK, Statuses
      <3>3. m.body.kind = protoStatus(s)
        BY <3>1 DEF Text
      <3>4. text = Text(s)
        BY <2>3, <3>2, <3>3, StatusRoundTrip
      <3> QED BY <2>3, <3>1, <3>2, <3>4, TextTypes DEF Prints
    <2> QED BY <1>5, <2>2, <2>3
  <1>6. text \in Texts /\ text.kind # "ErrUnknownStatus" /\ name \in {"outputs", "start", "status"}
    <2>1. CASE name = "outputs"
      BY <1>2, <2>1, TickJSONType, TextKinds
    <2>2. CASE name \in {"start", "status"}
      BY <1>5, <2>2, TextKinds
    <2> QED BY <1>3, <1>4, <2>1, <2>2
  <1>7. /\ pc' = [pc EXCEPT ![p] = "writing"]
        /\ hand' = [hand EXCEPT ![p] = <<text>>]
        /\ wire' = [wire EXCEPT ![p] = Tail(@)]
        /\ err' = err
    <2>1. Head(wire[p]) = m
      BY <1>2
    <2> QED BY <1>6, <2>1 DEF Receive
  <1> HIDE DEF text
  <1>8. /\ pc'[p] = "writing" /\ hand'[p] = <<text>> /\ wire'[p] = Tail(wire[p])
        /\ \A q \in Procs \ {p} : pc'[q] = pc[q] /\ hand'[q] = hand[q] /\ wire'[q] = wire[q]
        /\ UNCHANGED <<count, status, log, given, outcome, hpc, reset, cut, line, printed, err>>
    BY <1>1, <1>7 DEF TypeInv, TypeOK, jobVars, serverVars
  <1>9. TypeInv'
    <2>1. /\ hpc' \in [Procs -> {"none", "request", "lost", "refused", "running",
                                 "stopping", "streaming", "returned"}]
          /\ wire' \in [Procs -> Seq(Messages)]
          /\ pc' \in [Procs -> {"new", "call", "waiting", "writing", "exited", "killed"}]
          /\ printed' \in [Procs -> Seq(Texts)]
      BY <1>1, <1>2, <1>7, <1>8 DEF TypeInv, TypeOK
    <2>2. ASSUME NEW q \in Procs PROVE Len(wire'[q]) <= Window + 1
      <3>1. Len(wire[q]) <= Window + 1 /\ Len(wire[q]) \in Nat
        BY <1>1, Locals DEF TypeInv, TypeOK
      <3>2. CASE q = p
        <4>1. Len(wire'[q]) = Len(wire[q]) - 1
          BY <1>2, <1>8, <3>2
        <4>2. \A j, k \in Int : j <= k => j - 1 <= k
          OBVIOUS
        <4>3. Len(wire[q]) \in Int /\ Window + 1 \in Int
          BY <3>1, FizzleAssumption
        <4> QED BY <3>1, <4>1, <4>2, <4>3
      <3>3. CASE q # p
        BY <1>8, <3>1, <3>3
      <3> QED BY <3>2, <3>3
    <2>3. hand' \in [Procs -> {<< >>} \cup {<<t>> : t \in Texts}]
      <3>1. hand \in [Procs -> {<< >>} \cup {<<t>> : t \in Texts}]
        BY <1>1 DEF TypeInv, TypeOK
      <3>2. <<text>> \in {<< >>} \cup {<<t>> : t \in Texts}
        BY <1>6
      <3> QED BY <1>7, <3>1, <3>2
    <2>4. err' \in [Procs -> {"none"} \cup ExitErrors]
      BY <1>1, <1>7 DEF TypeInv, TypeOK, ExitErrors
    <2> QED BY <1>1, <2>1, <2>2, <2>3, <2>4, ProcessTypes DEF serverVars
  <1>10. LogInv'
    BY <1>1, <1>8 DEF LogInv
  <1>11. \A q \in Procs \ {p} : Same(q) /\ Ahead(q)
    BY <1>8 DEF Same, Ahead
  <1>12. hand'[p] # << >> /\ hand'[p][1] = text /\ Len(hand'[p]) = 1
    BY <1>8
  <1>13. FeedInv(p)' /\ StageInv(p)'
    BY <1>1, <1>8, <1>12 DEF ProcInv, FeedInv, StageInv
  <1>14. Len(wire[p]) \in Nat /\ Len(printed[p]) \in Nat /\ Received(p) = Len(printed[p])
         /\ Len(given[p]) \in Nat /\ Len(log) \in Nat
    BY <1>1, Locals
  <1>15. \A i \in 1 .. Len(wire'[p]) :
           i \in Nat /\ i + 1 \in 1 .. Len(wire[p]) /\ wire'[p][i] = wire[p][i + 1]
    BY <1>2, <1>8
  <1>16. Len(wire'[p]) = Len(wire[p]) - 1
    BY <1>2, <1>8
  <1>17. WireInv(p)'
    <2>1. wire'[p] # << >> => pc'[p] \in {"waiting", "writing"}
      BY <1>8
    <2>2. p \in cut \/ hpc[p] \in {"streaming", "refused", "returned"}
      BY <1>1 DEF ProcInv, WireInv
    <2>3. ASSUME NEW i \in 1 .. Len(wire'[p])
          PROVE  /\ wire'[p][i].code = "none" => i <= Window /\ name = "outputs"
                 /\ wire'[p][i].code # "none" =>
                       i = Len(wire'[p]) /\ (p \in cut \/ hpc[p] \in {"refused", "returned"})
                 /\ wire'[p][i].code \notin {"none", "Unavailable"} =>
                       hpc[p] \in {"refused", "returned"}
      <3>1. i \in Nat /\ i + 1 \in 1 .. Len(wire[p]) /\ wire'[p][i] = wire[p][i + 1]
        BY <1>15
      <3>2. /\ wire[p][i + 1].code = "none" => i + 1 <= Window /\ name = "outputs"
            /\ wire[p][i + 1].code # "none" =>
                  i + 1 = Len(wire[p]) /\ (p \in cut \/ hpc[p] \in {"refused", "returned"})
            /\ wire[p][i + 1].code \notin {"none", "Unavailable"} =>
                  hpc[p] \in {"refused", "returned"}
        BY <1>1, <3>1 DEF ProcInv, WireInv
      <3>3. i + 1 <= Window => i <= Window
        BY <3>1, FizzleAssumption
      <3>4. i + 1 = Len(wire[p]) => i = Len(wire'[p])
        BY <1>14, <1>16, <3>1
      <3> QED BY <3>1, <3>2, <3>3, <3>4
    <2> QED BY <1>8, <2>1, <2>2, <2>3 DEF WireInv
  <1>18. ~ Gone(p) /\ ~ Gone(p)'
    BY <1>1, <1>8 DEF Gone
  <1>19. OutputsInv(p)'
    <2> SUFFICES ASSUME name = "outputs" PROVE OutputsInv(p)'
      BY <1>8 DEF OutputsInv
    <2> DEFINE r == Len(printed[p])
    <2>1. Received(p)' = r + 1 /\ Received(p) = r /\ r \in Nat
      BY <1>8, <1>12, <1>14 DEF Received
    <2> HIDE DEF r
    <2>2. m.code = "none" /\ text = tickJSON(m.body)
      BY <1>3 DEF text
    <2>3. OutputsInv(p)
      BY <1>1 DEF ProcInv
    <2>4. r + 1 <= Len(given[p]) /\ Says(text, log[r + 1])
      BY <1>2, <2>1, <2>2, <2>3 DEF OutputsInv
    <2>5. ASSUME NEW i \in 1 .. Len(wire'[p])
          PROVE  /\ wire'[p][i].code = "none" =>
                       /\ (r + 1) + i <= Len(given[p])
                       /\ Says(tickJSON(wire'[p][i].body), log[(r + 1) + i])
                 /\ wire'[p][i].code = "OK" =>
                       (r + 1) + i = Len(log) + 1 /\ status # "RUNNING"
      <3>1. i \in Nat /\ i + 1 \in 1 .. Len(wire[p]) /\ wire'[p][i] = wire[p][i + 1]
        BY <1>15
      <3>2. /\ wire[p][i + 1].code = "none" =>
                  /\ r + (i + 1) <= Len(given[p])
                  /\ Says(tickJSON(wire[p][i + 1].body), log[r + (i + 1)])
            /\ wire[p][i + 1].code = "OK" =>
                  r + (i + 1) = Len(log) + 1 /\ status # "RUNNING"
        BY <2>1, <2>3, <3>1 DEF OutputsInv
      <3>3. r + (i + 1) = (r + 1) + i
        BY <2>1, <3>1
      <3> QED BY <3>1, <3>2, <3>3
    <2>6. hpc[p] = "streaming" /\ p \notin reset \cup cut =>
            (r + 1) + Len(wire'[p]) = Len(given[p])
      <3> SUFFICES ASSUME hpc[p] = "streaming", p \notin reset \cup cut
                   PROVE  (r + 1) + Len(wire'[p]) = Len(given[p])
        OBVIOUS
      <3> DEFINE j == Len(wire[p])
                 k == Len(wire'[p])
                 g == Len(given[p])
      <3>1. r + j = g
        BY <1>18, <2>1, <2>3 DEF OutputsInv
      <3>2. r \in Int /\ j \in Int /\ g \in Int /\ k = j - 1
        BY <1>14, <1>16, <2>1
      <3> HIDE DEF j, k, g
      <3>3. (r + 1) + k = g
        BY <3>1, <3>2
      <3> QED BY <3>3 DEF k, g
    <2>7. \A i \in 1 .. Len(printed[p]) : Says(printed[p][i], log[i])
      BY <2>3 DEF OutputsInv
    <2> QED BY <1>8, <1>12, <2>1, <2>4, <2>5, <2>6, <2>7 DEF OutputsInv
  <1>20. UnaryInv(p)'
    <2> SUFFICES ASSUME name # "outputs" PROVE UnaryInv(p)'
      BY <1>8 DEF UnaryInv
    <2>1. \A b : Answers(p, b) => Answers(p, b)'
      BY <1>8 DEF Answers
    <2>2. \A t : Prints(p, t) => Prints(p, t)'
      BY <1>8 DEF Prints
    <2>3. Prints(p, hand[p][1])'
      BY <1>5, <1>6, <1>12, <2>2
    <2>4. ASSUME NEW i \in 1 .. Len(wire'[p]), wire'[p][i].code = "OK"
          PROVE  Answers(p, wire[p][i].body)'
      <3>1. i + 1 \in 1 .. Len(wire[p]) /\ wire'[p][i] = wire[p][i + 1]
        BY <1>15
      <3>2. Answers(p, wire[p][i + 1].body)
        BY <1>1, <2>4, <3>1 DEF ProcInv, UnaryInv
      <3> QED BY <2>1, <3>1, <3>2
    <2> QED BY <1>1, <1>8, <1>18, <2>3, <2>4 DEF ProcInv, UnaryInv
  <1>21. RefusedInv(p)'
    BY <1>1, <1>8, <1>15 DEF ProcInv, RefusedInv
  <1>22. ProcInv(p)'
    BY <1>13, <1>17, <1>19, <1>20, <1>21 DEF ProcInv
  <1> QED BY <1>8, <1>9, <1>10, <1>11, <1>22, OneMoves

\* A line in hand is printed behind the others, or the command ends with it.
LEMMA WriteKeeps ==
    ASSUME IInv, NEW p \in Procs, Write(p)
    PROVE  IInv'
  <1>1. TypeInv /\ ProcInv(p) /\ LogInv /\ pc[p] = "writing"
        /\ hpc[p] # "none" /\ Resolve(line[p]) = "nil" /\ hand[p] # << >>
        /\ UNCHANGED <<jobVars, serverVars, cut, line, interrupted, out>>
    BY DEF IInv, ProcInv, StageInv, Write
  <1>2. PICK t \in Texts : hand[p] = <<t>>
    <2>1. hand[p] \in {<< >>} \cup {<<u>> : u \in Texts}
      BY <1>1 DEF TypeInv, TypeOK
    <2> QED BY <1>1, <2>1
  <1>3. printed[p] \in Seq(Texts) /\ Len(printed[p]) \in Nat /\ <<t>> \in Seq(Texts)
        /\ Received(p) = Len(printed[p]) + 1 /\ Len(wire[p]) \in Nat /\ Len(given[p]) \in Nat
    BY <1>1, <1>2, Locals
  <1>4. hand[p][1] = t
    BY <1>2
  <1>5. /\ printed[p] \o hand[p] = Append(printed[p], t)
        /\ Append(printed[p], t) \in Seq(Texts)
        /\ Len(Append(printed[p], t)) = Len(printed[p]) + 1
        /\ Append(printed[p], t)[Len(printed[p]) + 1] = t
        /\ \A i \in 1 .. Len(printed[p]) : Append(printed[p], t)[i] = printed[p][i]
    <2> DEFINE s == printed[p]
    <2>1. s \in Seq(Texts) /\ t \in Texts
      BY <1>3
    <2> HIDE DEF s, Texts
    <2>2. s \o <<t>> = Append(s, t)
      BY <2>1
    <2>3. Append(s, t) \in Seq(Texts) /\ Len(Append(s, t)) = Len(s) + 1
      BY <2>1
    <2>4. Append(s, t)[Len(s) + 1] = t /\ \A i \in 1 .. Len(s) : Append(s, t)[i] = s[i]
      BY <2>1
    <2> QED BY <1>2, <2>2, <2>3, <2>4 DEF s
  <1>6. ASSUME out[p] = "open"
        PROVE  /\ printed' = [printed EXCEPT ![p] = Append(printed[p], t)]
               /\ printed'[p] = Append(printed[p], t)
               /\ \A q \in Procs \ {p} : printed'[q] = printed[q]
               /\ printed' \in [Procs -> Seq(Texts)]
    <2>1. printed \in [Procs -> Seq(Texts)]
      BY <1>1 DEF TypeInv, TypeOK
    <2>2. printed' = [printed EXCEPT ![p] = Append(printed[p], t)]
      BY <1>5, <1>6 DEF Write
    <2> QED BY <1>5, <2>1, <2>2
  <1>7. CASE out[p] # "open"
    <2>1. Exit(p, "errWrite") /\ printed' = printed /\ "errWrite" \in ExitErrors
      BY <1>7 DEF Write, ExitErrors
    <2>2. printed' \in [Procs -> Seq(Texts)]
      BY <1>1, <2>1 DEF TypeInv, TypeOK
    <2> QED BY <1>1, <2>1, <2>2, ExitKeeps
  <1>8. CASE out[p] = "open" /\ line[p].name # "outputs"
    <2>1. Exit(p, "nil") /\ "nil" \in ExitErrors
      BY <1>8 DEF Write, ExitErrors
    <2>2. printed[p] = << >> /\ Prints(p, t)
      <3>1. ~ Gone(p)
        BY <1>1 DEF Gone
      <3> QED BY <1>1, <1>4, <1>8, <3>1 DEF ProcInv, UnaryInv
    <2>3. Len(printed'[p]) = 1 /\ printed'[p][1] = t
      BY <1>5, <1>6, <1>8, <2>2
    <2>4. line[p].name \in {"start", "status"}
      BY <2>2 DEF Prints
    <2>5. Prints(p, printed'[p][1])
      BY <2>2, <2>3
    <2> QED BY <1>1, <1>6, <1>8, <2>1, <2>3, <2>4, <2>5, ExitKeeps
  <1>9. CASE out[p] = "open" /\ line[p].name = "outputs"
    <2>1. /\ pc' = [pc EXCEPT ![p] = "waiting"] /\ hand' = [hand EXCEPT ![p] = << >>]
          /\ UNCHANGED <<err, wire>>
      BY <1>9 DEF Write
    <2>2. /\ pc'[p] = "waiting" /\ hand'[p] = << >>
          /\ \A q \in Procs \ {p} : pc'[q] = pc[q] /\ hand'[q] = hand[q] /\ printed'[q] = printed[q]
          /\ UNCHANGED <<count, status, log, given, outcome, hpc, reset, cut, line, wire, err>>
      BY <1>1, <1>6, <1>9, <2>1 DEF TypeInv, TypeOK, jobVars, serverVars
    <2>3. TypeInv'
      <3>1. /\ hpc' \in [Procs -> {"none", "request", "lost", "refused", "running",
                                   "stopping", "streaming", "returned"}]
            /\ wire' \in [Procs -> Seq(Messages)]
            /\ \A q \in Procs : Len(wire'[q]) <= Window + 1
            /\ pc' \in [Procs -> {"new", "call", "waiting", "writing", "exited", "killed"}]
        BY <1>1, <2>1, <2>2 DEF TypeInv, TypeOK
      <3>2. hand' \in [Procs -> {<< >>} \cup {<<u>> : u \in Texts}]
        <4>1. hand \in [Procs -> {<< >>} \cup {<<u>> : u \in Texts}]
          BY <1>1 DEF TypeInv, TypeOK
        <4> QED BY <2>1, <4>1
      <3>3. err' \in [Procs -> {"none"} \cup ExitErrors]
        BY <1>1, <2>1 DEF TypeInv, TypeOK, ExitErrors
      <3> QED BY <1>1, <1>6, <1>9, <3>1, <3>2, <3>3, ProcessTypes DEF serverVars
    <2>4. LogInv'
      BY <1>1, <2>2 DEF LogInv
    <2>5. \A q \in Procs \ {p} : Same(q) /\ Ahead(q)
      BY <2>2 DEF Same, Ahead
    <2>6. FeedInv(p)' /\ StageInv(p)' /\ WireInv(p)'
      BY <1>1, <2>2 DEF ProcInv, FeedInv, StageInv, WireInv
    <2>7. Received(p)' = Received(p) /\ ~ Gone(p) /\ ~ Gone(p)' /\ Len(printed'[p]) = Received(p)
      <3>1. Len(hand'[p]) = 0 /\ Len(printed'[p]) = Received(p) /\ Received(p) \in Nat
        BY <1>3, <1>5, <1>6, <1>9, <2>2
      <3>2. \A k \in Nat : k + 0 = k
        OBVIOUS
      <3>3. Received(p)' = Received(p)
        BY <3>1, <3>2 DEF Received
      <3> QED BY <1>1, <2>2, <3>1, <3>3 DEF Gone
    <2>8. OutputsInv(p)'
      <3>1. OutputsInv(p)
        BY <1>1 DEF ProcInv
      <3>2. ASSUME NEW i \in 1 .. Len(printed'[p]) PROVE Says(printed'[p][i], log[i])
        <4>1. CASE i \in 1 .. Len(printed[p])
          BY <1>5, <1>6, <1>9, <3>1, <4>1 DEF OutputsInv
        <4>2. CASE i = Len(printed[p]) + 1
          BY <1>1, <1>3, <1>4, <1>5, <1>6, <1>9, <3>1, <4>2 DEF OutputsInv
        <4> QED BY <1>3, <2>7, <4>1, <4>2
      <3> QED BY <2>2, <2>7, <3>1, <3>2 DEF OutputsInv
    <2>9. UnaryInv(p)' /\ RefusedInv(p)'
      BY <1>1, <1>9, <2>2 DEF ProcInv, UnaryInv, RefusedInv
    <2>10. ProcInv(p)'
      BY <2>6, <2>8, <2>9 DEF ProcInv
    <2> QED BY <2>2, <2>3, <2>4, <2>5, <2>10, OneMoves
  <1> QED BY <1>7, <1>8, <1>9

----------------------------------------------------------------------------
(* The handler. *)

\* The types behind a step of a handler.
LEMMA HandlerTypes ==
    ASSUME TypeInv, UNCHANGED <<status, log, isAccepting, cut, procVars>>,
           count' \in 0 .. MaxCount,
           given' \in [Procs -> Seq(LogTicks)],
           outcome' \in [Procs -> {"open", "complete", "left"}],
           answer' \in [Procs -> TerminalStatuses \cup {"NONE"}],
           cancelled' \in BOOLEAN, reset' \subseteq Procs,
           hpc' \in [Procs -> {"none", "request", "lost", "refused", "running",
                              "stopping", "streaming", "returned"}],
           wire' \in [Procs -> Seq(Messages)],
           \A q \in Procs : Len(wire'[q]) <= Window + 1
    PROVE  TypeInv'
  BY DEF TypeInv, TypeOK, procVars, LogTicks

\* What Append does to a wire.
LEMMA AppendFacts ==
    ASSUME TypeInv, NEW p \in Procs, NEW m \in Messages
    PROVE  /\ Append(wire[p], m) \in Seq(Messages)
           /\ Len(wire[p]) \in Nat
           /\ Len(Append(wire[p], m)) = Len(wire[p]) + 1
           /\ Append(wire[p], m)[Len(wire[p]) + 1] = m
           /\ \A i \in 1 .. Len(wire[p]) : Append(wire[p], m)[i] = wire[p][i]
           /\ \A i \in 1 .. Len(Append(wire[p], m)) :
                i \in 1 .. Len(wire[p]) \/ i = Len(wire[p]) + 1
           /\ Append(wire[p], m) # << >>
  <1> DEFINE w == wire[p]
  <1>1. w \in Seq(Messages) /\ Len(w) \in Nat
    BY Locals
  <1> HIDE DEF w, Messages
  <1>2. Append(w, m) \in Seq(Messages) /\ Len(Append(w, m)) = Len(w) + 1
    BY <1>1
  <1>3. Append(w, m)[Len(w) + 1] = m /\ \A i \in 1 .. Len(w) : Append(w, m)[i] = w[i]
    BY <1>1
  <1>4. \A i \in 1 .. Len(Append(w, m)) : i \in 1 .. Len(w) \/ i = Len(w) + 1
    BY <1>1, <1>2
  <1>5. Append(w, m) # << >>
    BY <1>1, <1>2
  <1> QED BY <1>1, <1>2, <1>3, <1>4, <1>5 DEF w

\* What is sent arrives behind the rest, or nowhere; there is room for it as
\* long as the handler has not returned.
LEMMA SendFacts ==
    ASSUME IInv, NEW p \in Procs, NEW m \in Messages, Send(p, m),
           hpc[p] \in {"request", "running", "stopping", "streaming"}
    PROVE  /\ wire' \in [Procs -> Seq(Messages)]
           /\ \A q \in Procs \ {p} : wire'[q] = wire[q]
           /\ \/ wire'[p] = wire[p]
              \/ /\ p \notin reset \cup cut /\ ~ Gone(p) /\ wire'[p] = Append(wire[p], m)
                 /\ pc[p] \in {"waiting", "writing"}
                 /\ \A i \in 1 .. Len(wire[p]) : wire[p][i].code = "none"
                 /\ Len(wire[p]) <= Window
           /\ \A q \in Procs : Len(wire'[q]) <= Window + 1
           /\ p \notin reset \cup cut /\ ~ Gone(p) => wire'[p] = Append(wire[p], m)
  <1>1. TypeInv /\ ProcInv(p) /\ wire \in [Procs -> Seq(Messages)]
        /\ \A q \in Procs : Len(wire[q]) <= Window + 1
    BY DEF IInv, TypeInv, TypeOK
  <1>2. CASE p \in reset \cup cut \/ Gone(p)
    <2>1. wire' = wire
      BY <1>2 DEF Send
    <2> QED BY <1>1, <1>2, <2>1
  <1>3. CASE ~ (p \in reset \cup cut \/ Gone(p))
    <2>1. wire' = [wire EXCEPT ![p] = Append(wire[p], m)]
      BY <1>3 DEF Send
    <2>2. /\ Append(wire[p], m) \in Seq(Messages) /\ Len(wire[p]) \in Nat
          /\ Len(Append(wire[p], m)) = Len(wire[p]) + 1
      BY <1>1, AppendFacts
    <2>3. /\ wire' \in [Procs -> Seq(Messages)] /\ wire'[p] = Append(wire[p], m)
          /\ \A q \in Procs \ {p} : wire'[q] = wire[q]
      BY <1>1, <2>1, <2>2
    <2>4. pc[p] \in {"waiting", "writing"}
      BY <1>1, <1>3 DEF ProcInv, StageInv, Gone, TypeInv, TypeOK
    <2>5. \A i \in 1 .. Len(wire[p]) : wire[p][i].code = "none" /\ i <= Window
      BY <1>1, <1>3 DEF ProcInv, WireInv
    <2>6. Len(wire[p]) <= Window
      <3>1. CASE Len(wire[p]) = 0
        BY <3>1, FizzleAssumption
      <3>2. CASE Len(wire[p]) # 0
        <4>1. Len(wire[p]) \in 1 .. Len(wire[p])
          BY <2>2, <3>2
        <4> QED BY <2>5, <4>1
      <3> QED BY <3>1, <3>2
    <2>7. Len(wire'[p]) <= Window + 1
      <3>1. \A j, k \in Int : j <= k => j + 1 <= k + 1
        OBVIOUS
      <3> QED BY <2>2, <2>3, <2>6, <3>1, FizzleAssumption
    <2> QED BY <1>1, <1>3, <2>3, <2>4, <2>5, <2>6, <2>7
  <1> QED BY <1>2, <1>3

\* The handler returns, or the interceptor refuses, with what the code promises.
LEMMA ReturnKeeps ==
    ASSUME IInv, NEW p \in Procs, NEW code \in Codes \ {"none"}, NEW body \in Texts,
           NEW h \in {"refused", "returned"},
           hpc[p] \in {"request", "running", "stopping", "streaming"},
           Goto(p, h), Send(p, Status(code, body)),
           UNCHANGED <<status, log, cancelled, isAccepting, reset, cut, procVars>>,
           count' \in 0 .. MaxCount,
           \/ count' = count
           \/ count = 0 /\ IsStart(line[p]) /\ h = "returned" /\ count' = line[p].number,
           given' \in [Procs -> Seq(LogTicks)],
           outcome' \in [Procs -> {"open", "complete", "left"}],
           answer' \in [Procs -> TerminalStatuses \cup {"NONE"}],
           \A q \in Procs \ {p} : given'[q] = given[q] /\ outcome'[q] = outcome[q],
           Len(given[p]) <= Len(given'[p]),
           FeedInv(p)',
           code = "OK" /\ line[p].name = "outputs" /\ p \notin reset \cup cut /\ ~ Gone(p) =>
              Received(p) + Len(wire[p]) = Len(log) /\ status # "RUNNING",
           code = "OK" /\ line[p].name = "start" =>
              body = Text("id") /\ count' = line[p].number /\ count' # 0,
           code = "OK" /\ line[p].name = "status" => body = Text(protoStatus(status)),
           code = "OK" /\ line[p].name = "stop" =>
              status # "RUNNING" /\ body = Text(protoStatus(status)),
           code = "InvalidArgument" /\ IsStart(line[p]) => count' = 0
    PROVE  IInv'
  <1> DEFINE m == Status(code, body)
  <1>1. TypeInv /\ ProcInv(p) /\ LogInv /\ LineInv
    BY DEF IInv
  <1>2. m \in Messages /\ m.code = code /\ m.body = body
    BY DEF Status, Messages
  <1> HIDE DEF m
  <1>3. /\ wire' \in [Procs -> Seq(Messages)]
        /\ \A q \in Procs \ {p} : wire'[q] = wire[q]
        /\ \/ wire'[p] = wire[p]
           \/ /\ p \notin reset \cup cut /\ ~ Gone(p) /\ wire'[p] = Append(wire[p], m)
              /\ pc[p] \in {"waiting", "writing"}
              /\ \A i \in 1 .. Len(wire[p]) : wire[p][i].code = "none"
        /\ \A q \in Procs : Len(wire'[q]) <= Window + 1
    <2>1. Send(p, m)
      BY DEF m
    <2> QED BY <1>2, <2>1, SendFacts
  <1>4. /\ UNCHANGED <<status, log, reset, cut, line, pc, hand, printed, err>>
        /\ hpc' = [hpc EXCEPT ![p] = h] /\ hpc'[p] = h
        /\ \A q \in Procs \ {p} : hpc'[q] = hpc[q]
        /\ hpc' \in [Procs -> {"none", "request", "lost", "refused", "running",
                              "stopping", "streaming", "returned"}]
    BY <1>1 DEF Goto, procVars, TypeInv, TypeOK
  <1>5. TypeInv'
    <2>1. cancelled' \in BOOLEAN /\ reset' \subseteq Procs
      BY <1>1 DEF TypeInv, TypeOK
    <2> QED BY <1>1, <1>3, <1>4, <2>1, HandlerTypes
  <1>6. LogInv'
    BY <1>1, <1>4 DEF LogInv
  <1>7. \A q \in Procs \ {p} : Same(q) /\ Ahead(q)
    BY <1>1, <1>3, <1>4 DEF Same, Ahead, LineInv
  <1>8. StageInv(p)'
    BY <1>1, <1>4 DEF ProcInv, StageInv
  <1>9. /\ Append(wire[p], m) \in Seq(Messages) /\ Len(wire[p]) \in Nat
        /\ Len(Append(wire[p], m)) = Len(wire[p]) + 1
        /\ Append(wire[p], m)[Len(wire[p]) + 1] = m
        /\ \A i \in 1 .. Len(wire[p]) : Append(wire[p], m)[i] = wire[p][i]
        /\ \A i \in 1 .. Len(Append(wire[p], m)) :
             i \in 1 .. Len(wire[p]) \/ i = Len(wire[p]) + 1
    BY <1>1, <1>2, AppendFacts
  \* An entry of the new wire is an old one, neither OK nor InvalidArgument, or
  \* the status, behind ticks only.
  <1>10. ASSUME NEW i \in 1 .. Len(wire'[p])
         PROVE  \/ /\ i \in 1 .. Len(wire[p]) /\ wire'[p][i] = wire[p][i]
                   /\ wire[p][i].code \in {"none", "Unavailable"}
                   /\ wire[p][i].code # "none" => wire'[p] = wire[p]
                \/ /\ i = Len(wire[p]) + 1 /\ wire'[p][i] = m /\ wire'[p] = Append(wire[p], m)
                   /\ p \notin reset \cup cut /\ ~ Gone(p)
    <2>1. \A j \in 1 .. Len(wire[p]) : wire[p][j].code \in {"none", "Unavailable"}
      BY <1>1 DEF ProcInv, WireInv
    <2>2. CASE wire'[p] = wire[p]
      BY <2>1, <2>2
    <2>3. CASE /\ p \notin reset \cup cut /\ ~ Gone(p) /\ wire'[p] = Append(wire[p], m)
               /\ \A j \in 1 .. Len(wire[p]) : wire[p][j].code = "none"
      BY <1>9, <2>1, <2>3
    <2> QED BY <1>3, <2>2, <2>3
  <1>11. WireInv(p)'
    <2>1. wire'[p] # << >> => pc'[p] \in {"waiting", "writing"}
      BY <1>1, <1>3, <1>4 DEF ProcInv, WireInv
    <2>2. ASSUME NEW i \in 1 .. Len(wire'[p])
          PROVE  /\ wire'[p][i].code = "none" => i <= Window /\ line[p].name = "outputs"
                 /\ wire'[p][i].code # "none" => i = Len(wire'[p])
      <3>1. CASE /\ i \in 1 .. Len(wire[p]) /\ wire'[p][i] = wire[p][i]
                 /\ wire[p][i].code # "none" => wire'[p] = wire[p]
        BY <1>1, <3>1 DEF ProcInv, WireInv
      <3>2. CASE i = Len(wire[p]) + 1 /\ wire'[p][i] = m /\ wire'[p] = Append(wire[p], m)
        BY <1>2, <1>9, <3>2
      <3> QED BY <1>10, <3>1, <3>2
    <2> QED BY <1>4, <2>1, <2>2 DEF WireInv
  <1>12. Received(p)' = Received(p) /\ (Gone(p)' <=> Gone(p))
    BY <1>4 DEF Received, Gone
  <1>13. OutputsInv(p)'
    <2> SUFFICES ASSUME line[p].name = "outputs" PROVE OutputsInv(p)'
      BY <1>4 DEF OutputsInv
    <2> DEFINE r == Received(p)
    <2>1. OutputsInv(p) /\ r \in Nat /\ Len(given[p]) \in Nat /\ Len(log) \in Nat
      BY <1>1, Locals DEF ProcInv
    <2>2. Len(given'[p]) \in Nat
      OBVIOUS
    <2>3. r <= Len(given'[p])
      <3>1. r <= Len(given[p])
        BY <2>1 DEF OutputsInv
      <3> HIDE DEF r
      <3> QED BY <2>1, <2>2, <3>1
    <2>4. ASSUME NEW i \in 1 .. Len(wire'[p])
          PROVE  /\ wire'[p][i].code = "none" =>
                       /\ r + i <= Len(given'[p])
                       /\ Says(tickJSON(wire'[p][i].body), log[r + i])
                 /\ wire'[p][i].code = "OK" =>
                       r + i = Len(log) + 1 /\ status # "RUNNING"
      <3>1. CASE /\ i \in 1 .. Len(wire[p]) /\ wire'[p][i] = wire[p][i]
                 /\ wire[p][i].code \in {"none", "Unavailable"}
        <4>1. wire[p][i].code = "none" =>
                r + i <= Len(given[p]) /\ Says(tickJSON(wire[p][i].body), log[r + i])
          BY <2>1, <3>1 DEF OutputsInv
        <4> HIDE DEF r
        <4>2. r + i <= Len(given[p]) => r + i <= Len(given'[p])
          BY <2>1, <2>2, <3>1
        <4> QED BY <3>1, <4>1, <4>2
      <3>2. CASE /\ i = Len(wire[p]) + 1 /\ wire'[p][i] = m
                 /\ p \notin reset \cup cut /\ ~ Gone(p)
        <4>1. code = "OK" => r + Len(wire[p]) = Len(log) /\ status # "RUNNING"
          BY <3>2
        <4>2. r + Len(wire[p]) = Len(log) => r + i = Len(log) + 1
          <5> DEFINE w == Len(wire[p])
          <5>1. w \in Nat /\ i = w + 1
            BY <1>9, <3>2
          <5> HIDE DEF r, w
          <5>2. r + w = Len(log) => r + i = Len(log) + 1
            BY <2>1, <5>1
          <5> QED BY <5>2 DEF w
        <4> QED BY <1>2, <3>2, <4>1, <4>2
      <3> QED BY <1>10, <3>1, <3>2
    <2>5. /\ \A i \in 1 .. Len(printed[p]) : Says(printed[p][i], log[i])
          /\ hand[p] # << >> => Says(hand[p][1], log[r])
          /\ pc[p] = "exited" /\ err[p] = "nil" => Len(printed[p]) = Len(log) /\ status # "RUNNING"
      BY <2>1 DEF OutputsInv
    <2> HIDE DEF r
    <2>6. Received(p)' = r
      BY <1>12 DEF r
    <2> QED BY <1>4, <2>3, <2>4, <2>5, <2>6 DEF OutputsInv
  <1>14. UnaryInv(p)'
    <2> SUFFICES ASSUME line[p].name # "outputs" PROVE UnaryInv(p)'
      BY <1>4 DEF UnaryInv
    <2>1. \A t : Prints(p, t) => Prints(p, t)'
      BY <1>4 DEF Prints
    <2>2. ASSUME NEW i \in 1 .. Len(wire'[p]), wire'[p][i].code = "OK"
          PROVE  Answers(p, wire[p][i].body)'
      <3>1. wire'[p][i] = m
        BY <1>10, <2>2
      <3>2. code = "OK" /\ wire'[p][i].body = body
        BY <1>2, <2>2, <3>1
      <3> QED BY <1>4, <3>2 DEF Answers
    <2> QED BY <1>1, <1>4, <1>12, <2>1, <2>2 DEF ProcInv, UnaryInv
  <1>15. RefusedInv(p)'
    <2> SUFFICES ASSUME IsStart(line[p]) PROVE RefusedInv(p)'
      BY <1>4 DEF RefusedInv
    <2>1. ASSUME NEW i \in 1 .. Len(wire'[p]), wire'[p][i].code = "InvalidArgument"
          PROVE  count' = 0
      BY <1>2, <1>10, <2>1
    <2>2. ~ (pc[p] = "exited" /\ err[p] \in {"errUsage", "ErrInvalidArgument", "ErrConfig"})
      BY <1>1 DEF ProcInv, RefusedInv
    <2> QED BY <1>4, <2>1, <2>2 DEF RefusedInv
  <1>16. ProcInv(p)'
    BY <1>8, <1>11, <1>13, <1>14, <1>15 DEF ProcInv
  <1> QED BY <1>4, <1>5, <1>6, <1>7, <1>16, OneMoves

\* The handler goes on to wait for the job, or is never reached.
LEMMA GotoKeeps ==
    ASSUME IInv, NEW p \in Procs, NEW h \in {"running", "stopping", "streaming", "lost"},
           hpc[p] \in {"request", "running"}, Goto(p, h),
           h = "stopping" => line[p].name = "stop",
           h = "streaming" => line[p].name = "outputs",
           UNCHANGED <<count, status, log, given, outcome, answer, isAccepting, cut, wire, procVars>>,
           cancelled' \in BOOLEAN, reset' \in {reset, reset \cup {p}}
    PROVE  IInv'
  <1>1. TypeInv /\ ProcInv(p) /\ LogInv
    BY DEF IInv
  <1>2. /\ UNCHANGED <<count, status, log, given, outcome, cut, wire, line, pc, hand, printed, err>>
        /\ hpc'[p] = h
        /\ \A q \in Procs \ {p} : hpc'[q] = hpc[q] /\ (q \in reset' <=> q \in reset)
        /\ hpc' \in [Procs -> {"none", "request", "lost", "refused", "running",
                              "stopping", "streaming", "returned"}]
    BY <1>1 DEF Goto, procVars, TypeInv, TypeOK
  <1>3. TypeInv'
    <2>1. /\ count' \in 0 .. MaxCount /\ given' \in [Procs -> Seq(LogTicks)]
          /\ outcome' \in [Procs -> {"open", "complete", "left"}]
          /\ answer' \in [Procs -> TerminalStatuses \cup {"NONE"}]
          /\ reset' \subseteq Procs /\ wire' \in [Procs -> Seq(Messages)]
          /\ \A q \in Procs : Len(wire'[q]) <= Window + 1
      BY <1>1 DEF TypeInv, TypeOK, LogTicks
    <2> QED BY <1>1, <1>2, <2>1, HandlerTypes
  <1>4. LogInv'
    BY <1>1, <1>2 DEF LogInv
  <1>5. \A q \in Procs \ {p} : Same(q) /\ Ahead(q)
    BY <1>2 DEF Same, Ahead
  <1>6. FeedInv(p)' /\ StageInv(p)' /\ given[p] = << >>
    BY <1>1, <1>2 DEF ProcInv, FeedInv, StageInv
  <1>7. WireInv(p)' /\ (p \notin cut => wire[p] = << >>)
    BY <1>1, <1>2 DEF ProcInv, WireInv
  <1>8. Received(p)' = Received(p) /\ (Gone(p)' <=> Gone(p))
    BY <1>2 DEF Received, Gone
  <1>9. OutputsInv(p)'
    <2>1. ASSUME line[p].name = "outputs", p \notin cut
          PROVE  Received(p) + Len(wire[p]) = Len(given[p])
      <3>1. Received(p) <= Len(given[p]) /\ Received(p) \in Nat
        BY <1>1, <2>1, Locals DEF ProcInv, OutputsInv
      <3>2. Len(given[p]) = 0 /\ Len(wire[p]) = 0
        BY <1>6, <1>7, <2>1
      <3>3. Received(p) = 0
        BY <3>1, <3>2
      <3> QED BY <3>2, <3>3
    <2> QED BY <1>1, <1>2, <1>8, <2>1 DEF ProcInv, OutputsInv
  <1>10. UnaryInv(p)'
    BY <1>1, <1>2, <1>8 DEF ProcInv, UnaryInv, Answers, Prints
  <1>11. RefusedInv(p)'
    BY <1>1, <1>2 DEF ProcInv, RefusedInv
  <1>12. ProcInv(p)'
    BY <1>6, <1>7, <1>9, <1>10, <1>11 DEF ProcInv
  <1> QED BY <1>2, <1>3, <1>4, <1>5, <1>12, OneMoves

LEMMA DispatchKeeps ==
    ASSUME IInv, NEW p \in Procs, Dispatch(p)
    PROVE  IInv'
  <1>1. TypeInv /\ ProcInv(p) /\ hpc[p] = "request"
        /\ UNCHANGED <<jobVars, isAccepting, reset, cut, procVars>>
    BY DEF IInv, Dispatch
  <1>2. UNCHANGED <<count, status, log, given, outcome, answer, cancelled>>
    BY <1>1 DEF jobVars
  <1>3. CASE Goto(p, "running") /\ UNCHANGED wire
    <2>1. cancelled' \in BOOLEAN
      BY <1>1, <1>2 DEF TypeInv, TypeOK
    <2> QED BY <1>1, <1>2, <1>3, <2>1, GotoKeeps
  <1>4. CASE \E code \in Refusals : Goto(p, "refused") /\ Send(p, Status(code, Text("none")))
    <2>1. PICK code \in Refusals : Goto(p, "refused") /\ Send(p, Status(code, Text("none")))
      BY <1>4
    <2>2. code \in {"Unauthenticated", "PermissionDenied", "Internal"}
      BY FizzleAssumption
    <2>3. code \in Codes \ {"none"} /\ Text("none") \in Texts
      BY <2>2, TextTypes DEF Codes
    <2>4. /\ count' \in 0 .. MaxCount /\ given' \in [Procs -> Seq(LogTicks)]
          /\ outcome' \in [Procs -> {"open", "complete", "left"}]
          /\ answer' \in [Procs -> TerminalStatuses \cup {"NONE"}]
      BY <1>1, <1>2 DEF TypeInv, TypeOK, LogTicks
    <2>5. FeedInv(p)' /\ Len(given[p]) <= Len(given'[p])
      <3>1. given[p] = << >> /\ FeedInv(p)
        BY <1>1 DEF ProcInv, FeedInv
      <3>2. hpc'[p] = "refused"
        BY <1>1, <2>1 DEF Goto, TypeInv, TypeOK
      <3> QED BY <1>2, <3>1, <3>2 DEF FeedInv
    <2> QED BY <1>1, <1>2, <2>1, <2>2, <2>3, <2>4, <2>5, ReturnKeeps
  <1> QED BY <1>3, <1>4 DEF Dispatch

\* What returning does not change.
LEMMA ReturnFrame ==
    ASSUME IInv, NEW p \in Procs, NEW code, NEW body, Return(p, code, body),
           UNCHANGED <<given, outcome, answer>>, status' = status, log' = log,
           hpc[p] \in {"running", "stopping", "streaming"}
    PROVE  /\ Goto(p, "returned") /\ Send(p, Status(code, body))
           /\ given' \in [Procs -> Seq(LogTicks)]
           /\ outcome' \in [Procs -> {"open", "complete", "left"}]
           /\ answer' \in [Procs -> TerminalStatuses \cup {"NONE"}]
           /\ \A q \in Procs \ {p} : given'[q] = given[q] /\ outcome'[q] = outcome[q]
           /\ Len(given[p]) <= Len(given'[p])
           /\ FeedInv(p)'
  <1>1. TypeInv /\ FeedInv(p)
    BY DEF IInv, ProcInv
  <1>2. hpc'[p] = "returned"
    BY <1>1 DEF Return, Goto, TypeInv, TypeOK
  <1>3. FeedInv(p)'
    BY <1>1, <1>2 DEF FeedInv
  <1>4. Len(given[p]) \in Nat
    BY <1>1, Locals
  <1>5. Len(given[p]) <= Len(given'[p])
    BY <1>4
  <1>6. /\ given' \in [Procs -> Seq(LogTicks)]
        /\ outcome' \in [Procs -> {"open", "complete", "left"}]
        /\ answer' \in [Procs -> TerminalStatuses \cup {"NONE"}]
    BY <1>1 DEF TypeInv, TypeOK, LogTicks
  <1> QED BY <1>3, <1>5, <1>6 DEF Return

LEMMA HandleStartKeeps ==
    ASSUME IInv, NEW p \in Procs, HandleStart(p)
    PROVE  IInv'
  <1> DEFINE n == Int32(line[p].number)
             code == IF ~ isAccepting THEN "Unavailable"
                     ELSE IF n \notin 1 .. MaxCount THEN "InvalidArgument" ELSE "OK"
  <1>1. TypeInv /\ ProcInv(p) /\ hpc[p] = "running" /\ line[p].name = "start"
        /\ count' = (IF code = "OK" THEN n ELSE count) /\ Return(p, code, Text("id"))
        /\ UNCHANGED <<status, log, given, outcome, answer, cancelled, isAccepting, reset, cut,
                       procVars>>
    BY DEF IInv, HandleStart
  <1>2. n = line[p].number
    BY <1>1, Int32Fits DEF ProcInv, StageInv
  <1>3. IsStart(line[p]) /\ count = 0
    BY <1>1 DEF ProcInv, StageInv, IsStart
  <1>4. code \in {"Unavailable", "InvalidArgument", "OK"} /\ (code = "OK" => n \in 1 .. MaxCount)
    OBVIOUS
  <1> HIDE DEF code, n
  <1>5. code \in Codes \ {"none"} /\ Text("id") \in Texts
    BY <1>4, TextTypes DEF Codes
  <1>6. /\ count' \in 0 .. MaxCount
        /\ count' = count \/ count' = line[p].number
        /\ code = "OK" => count' = line[p].number /\ count' # 0
        /\ code = "InvalidArgument" => count' = 0
    <2>1. CASE code = "OK"
      <3>1. count' = n /\ n \in 1 .. MaxCount
        BY <1>1, <1>4, <2>1
      <3>2. n \in 0 .. MaxCount /\ n # 0
        BY <3>1, FizzleAssumption
      <3> QED BY <1>2, <2>1, <3>1, <3>2
    <2>2. CASE code # "OK"
      <3>1. count' = count /\ count \in 0 .. MaxCount
        BY <1>1, <2>2 DEF TypeInv, TypeOK
      <3> QED BY <1>3, <2>2, <3>1
    <2> QED BY <2>1, <2>2
  <1>7. /\ Goto(p, "returned") /\ Send(p, Status(code, Text("id")))
        /\ given' \in [Procs -> Seq(LogTicks)]
        /\ outcome' \in [Procs -> {"open", "complete", "left"}]
        /\ answer' \in [Procs -> TerminalStatuses \cup {"NONE"}]
        /\ \A q \in Procs \ {p} : given'[q] = given[q] /\ outcome'[q] = outcome[q]
        /\ Len(given[p]) <= Len(given'[p])
        /\ FeedInv(p)'
    BY <1>1, ReturnFrame
  <1> QED BY <1>1, <1>3, <1>5, <1>6, <1>7, ReturnKeeps

\* The handlers that return at once, or when the job has ended.
LEMMA UnaryKeeps ==
    ASSUME IInv, NEW p \in Procs,
           HandleNotFound(p) \/ HandleStatus(p) \/ StopReturns(p)
    PROVE  IInv'
  <1>1. TypeInv /\ ProcInv(p) /\ count \in 0 .. MaxCount /\ status \in Statuses
    BY DEF IInv, TypeInv, TypeOK
  <1>2. CASE HandleNotFound(p)
    <2>1. /\ hpc[p] = "running" /\ Return(p, "NotFound", Text("none"))
          /\ UNCHANGED <<count, status, log, given, outcome, answer, cancelled, isAccepting, reset,
                         cut, procVars>>
      BY <1>2 DEF HandleNotFound, jobVars
    <2>2. "NotFound" \in Codes \ {"none"} /\ Text("none") \in Texts
      BY TextTypes DEF Codes
    <2> QED BY <1>1, <2>1, <2>2, ReturnFrame, ReturnKeeps
  <1>3. CASE HandleStatus(p)
    <2>1. /\ hpc[p] = "running" /\ Return(p, "OK", Text(protoStatus(status)))
          /\ line[p].name = "status"
          /\ UNCHANGED <<count, status, log, given, outcome, answer, cancelled, isAccepting, reset,
                         cut, procVars>>
      BY <1>3 DEF HandleStatus, jobVars
    <2>2. "OK" \in Codes \ {"none"} /\ Text(protoStatus(status)) \in Texts
      BY <1>1, TextTypes DEF Codes
    <2>3. "OK" # "InvalidArgument" /\ "returned" \in {"refused", "returned"}
      OBVIOUS
    <2> QED BY <1>1, <2>1, <2>2, <2>3, ReturnFrame, ReturnKeeps
  <1>4. CASE StopReturns(p)
    <2>1. /\ hpc[p] = "stopping" /\ line[p].name = "stop" /\ status # "RUNNING"
          /\ answer' = [answer EXCEPT ![p] = status]
          /\ Return(p, "OK", Text(protoStatus(answer'[p])))
          /\ UNCHANGED <<count, status, log, given, outcome, cancelled, isAccepting, reset,
                         cut, procVars>>
      BY <1>1, <1>4 DEF StopReturns, Feed!Answer, ProcInv, StageInv
    <2>2. answer'[p] = status /\ answer' \in [Procs -> TerminalStatuses \cup {"NONE"}]
      BY <1>1, <2>1 DEF TypeInv, TypeOK, Statuses
    <2>3. "OK" \in Codes \ {"none"} /\ Text(protoStatus(status)) \in Texts
      BY <1>1, TextTypes DEF Codes
    <2>4. Goto(p, "returned") /\ Send(p, Status("OK", Text(protoStatus(status))))
      BY <2>1, <2>2 DEF Return
    <2>5. hpc'[p] = "returned"
      BY <1>1, <2>4 DEF Goto, TypeInv, TypeOK
    <2>6. /\ given' \in [Procs -> Seq(LogTicks)]
          /\ outcome' \in [Procs -> {"open", "complete", "left"}]
      BY <1>1, <2>1 DEF TypeInv, TypeOK, LogTicks
    <2>7. FeedInv(p)' /\ Len(given[p]) <= Len(given'[p])
      <3>1. Len(given[p]) \in Nat
        BY <1>1, Locals
      <3> QED BY <1>1, <2>1, <2>5, <3>1 DEF ProcInv, FeedInv
    <2> QED BY <1>1, <2>1, <2>2, <2>3, <2>4, <2>6, <2>7, ReturnKeeps
  <1> QED BY <1>2, <1>3, <1>4

LEMMA HandleStopKeeps ==
    ASSUME IInv, NEW p \in Procs, HandleStop(p)
    PROVE  IInv'
  BY GotoKeeps DEF HandleStop

LEMMA HandleOutputsKeeps ==
    ASSUME IInv, NEW p \in Procs, HandleOutputs(p)
    PROVE  IInv'
  <1>1. cancelled' \in BOOLEAN
    BY DEF HandleOutputs, jobVars, IInv, TypeInv, TypeOK
  <1> QED BY <1>1, GotoKeeps DEF HandleOutputs, jobVars

\* A reader is given the next tick of the log; behind the terminal one there is
\* none.
LEMMA GiveFacts ==
    ASSUME IInv, NEW p \in Procs, Feed!Give(p)
    PROVE  /\ given' \in [Procs -> Seq(LogTicks)]
           /\ outcome' \in [Procs -> {"open", "complete", "left"}]
           /\ \A q \in Procs \ {p} : given'[q] = given[q] /\ outcome'[q] = outcome[q]
           /\ Len(given'[p]) = Len(given[p]) + 1
           /\ Len(given'[p]) \in 1 .. Len(log)
           /\ log[Len(given'[p])] \in LogTicks
           /\ outcome'[p] = "complete" => status # "RUNNING" /\ Len(given'[p]) = Len(log)
           /\ UNCHANGED <<count, status, log, answer>>
  <1> DEFINE g == given[p]
             k == Len(g) + 1
  <1>1. TypeInv /\ LogInv /\ given \in [Procs -> Seq(LogTicks)]
        /\ outcome \in [Procs -> {"open", "complete", "left"}]
    BY DEF IInv, TypeInv, TypeOK, LogTicks
  <1>2. g \in Seq(LogTicks) /\ Len(g) \in Nat /\ log \in Seq(LogTicks) /\ Len(log) \in Nat
    BY <1>1, Locals
  <1>3. /\ Len(g) < Len(log)
        /\ given' = [given EXCEPT ![p] = Append(g, log[k])]
        /\ UNCHANGED <<count, status, log, answer>>
    BY DEF Feed!Give
  <1>4. k \in 1 .. Len(log) /\ k \in Nat
    BY <1>2, <1>3
  <1>5. log[k] \in LogTicks
    BY <1>2, <1>4
  <1>6. Append(g, log[k]) \in Seq(LogTicks) /\ Len(Append(g, log[k])) = k
    <2> HIDE DEF g, LogTicks
    <2> QED BY <1>2, <1>5
  <1>7. /\ given' \in [Procs -> Seq(LogTicks)] /\ Len(given'[p]) = k
        /\ \A q \in Procs \ {p} : given'[q] = given[q]
    BY <1>1, <1>3, <1>6
  <1>8. /\ outcome' \in [Procs -> {"open", "complete", "left"}]
        /\ \A q \in Procs \ {p} : outcome'[q] = outcome[q]
        /\ outcome'[p] = "complete" => IsTerminal(log[k])
    <2>1. CASE outcome' = [outcome EXCEPT ![p] = IF IsTerminal(log[k]) THEN "complete" ELSE "open"]
      BY <1>1, <2>1
    <2>2. CASE outcome' = [outcome EXCEPT ![p] = "left"]
      BY <1>1, <2>2
    <2>3. \/ outcome' = [outcome EXCEPT ![p] = IF IsTerminal(log[k]) THEN "complete" ELSE "open"]
          \/ outcome' = [outcome EXCEPT ![p] = "left"]
      BY DEF Feed!Give, Feed!IsTerminal, IsTerminal
    <2> QED BY <2>1, <2>2, <2>3
  <1>9. outcome'[p] = "complete" => status # "RUNNING" /\ k = Len(log)
    BY <1>1, <1>4, <1>8 DEF LogInv
  <1> HIDE DEF k
  <1>10. k = Len(given[p]) + 1
    BY DEF k, g
  <1> QED BY <1>3, <1>4, <1>5, <1>7, <1>8, <1>9, <1>10

\* The ways a stream's handler returns.
LEMMA StreamEndKeeps ==
    ASSUME IInv, NEW p \in Procs,
           StreamSendFails(p) \/ StreamContextDone(p) \/ StreamReturns(p)
    PROVE  IInv'
  <1>1. TypeInv /\ ProcInv(p) /\ count \in 0 .. MaxCount /\ hpc[p] = "streaming"
        /\ line[p].name = "outputs" /\ Text("none") \in Texts
        /\ Len(given[p]) \in Nat /\ Len(log) \in Nat
    BY TextTypes, Locals DEF IInv, TypeInv, TypeOK, StreamSendFails, StreamContextDone, StreamReturns,
          ProcInv, StageInv
  <1>2. "OK" \in Codes \ {"none"} /\ "Canceled" \in Codes \ {"none"}
    BY DEF Codes
  <1>3. ASSUME NEW code, Return(p, code, Text("none"))
        PROVE  /\ Goto(p, "returned") /\ Send(p, Status(code, Text("none")))
               /\ hpc'[p] = "returned"
    BY <1>1, <1>3 DEF Return, Goto, TypeInv, TypeOK
  <1>4. CASE StreamSendFails(p)
    <2>1. /\ Return(p, "Canceled", Text("none")) /\ Feed!Give(p)
          /\ outcome'[p] = "left"
          /\ UNCHANGED <<cancelled, isAccepting, reset, cut, procVars>>
      BY <1>4 DEF StreamSendFails
    <2>2. /\ given' \in [Procs -> Seq(LogTicks)]
          /\ outcome' \in [Procs -> {"open", "complete", "left"}]
          /\ \A q \in Procs \ {p} : given'[q] = given[q] /\ outcome'[q] = outcome[q]
          /\ Len(given'[p]) = Len(given[p]) + 1
          /\ Len(given'[p]) \in 1 .. Len(log)
          /\ UNCHANGED <<count, status, log, answer>>
      BY <2>1, GiveFacts
    <2>3. Len(given[p]) <= Len(given'[p]) /\ Len(given'[p]) <= Len(log)
      BY <1>1, <2>2
    <2>4. FeedInv(p)'
      BY <1>3, <2>1, <2>2, <2>3 DEF FeedInv
    <2>5. answer' \in [Procs -> TerminalStatuses \cup {"NONE"}]
      BY <1>1, <2>2 DEF TypeInv, TypeOK
    <2> QED BY <1>1, <1>2, <1>3, <2>1, <2>2, <2>3, <2>4, <2>5, ReturnKeeps
  <1>5. CASE StreamContextDone(p)
    <2>1. /\ Return(p, "OK", Text("none")) /\ p \in reset
          /\ outcome' = [outcome EXCEPT ![p] = "left"]
          /\ UNCHANGED <<count, status, log, given, answer, cancelled, isAccepting, reset, cut,
                         procVars>>
      BY <1>5 DEF StreamContextDone, Feed!Leave
    <2>2. /\ outcome' \in [Procs -> {"open", "complete", "left"}] /\ outcome'[p] = "left"
          /\ \A q \in Procs \ {p} : given'[q] = given[q] /\ outcome'[q] = outcome[q]
          /\ given' \in [Procs -> Seq(LogTicks)]
          /\ answer' \in [Procs -> TerminalStatuses \cup {"NONE"}]
      BY <1>1, <2>1 DEF TypeInv, TypeOK, LogTicks
    <2>3. Len(given[p]) <= Len(given'[p])
      BY <1>1, <2>1
    <2>4. FeedInv(p)'
      BY <1>1, <1>3, <2>1, <2>2 DEF ProcInv, FeedInv
    <2> QED BY <1>1, <1>2, <1>3, <2>1, <2>2, <2>3, <2>4, ReturnKeeps
  <1>6. CASE StreamReturns(p)
    <2>1. /\ Return(p, "OK", Text("none")) /\ outcome[p] = "complete"
          /\ UNCHANGED <<count, status, log, given, outcome, answer, cancelled, isAccepting, reset,
                         cut, procVars>>
      BY <1>6 DEF StreamReturns, jobVars
    <2>2. status # "RUNNING" /\ Len(given[p]) = Len(log)
      BY <1>1, <2>1 DEF ProcInv, FeedInv
    <2>3. p \notin reset \cup cut /\ ~ Gone(p) => Received(p) + Len(wire[p]) = Len(log)
      BY <1>1, <2>2 DEF ProcInv, OutputsInv
    <2> QED BY <1>1, <1>2, <2>1, <2>2, <2>3, ReturnFrame, ReturnKeeps
  <1> QED BY <1>4, <1>5, <1>6

\* The next tick is sent behind those under way, and keeps its meaning.
LEMMA StreamSendKeeps ==
    ASSUME IInv, NEW p \in Procs, StreamSend(p)
    PROVE  IInv'
  <1> DEFINE tick == log[Len(given'[p])]
             m == Message(Marshal(protoTick(tick)))
  <1>1. TypeInv /\ ProcInv(p) /\ LogInv /\ hpc[p] = "streaming" /\ p \notin reset
        /\ line[p].name = "outputs" /\ Len(wire[p]) < Window
        /\ Feed!Give(p) /\ Send(p, m)
        /\ UNCHANGED <<cancelled, serverVars, cut, procVars>>
    BY DEF IInv, StreamSend, ProcInv, StageInv
  <1>2. /\ given' \in [Procs -> Seq(LogTicks)]
        /\ outcome' \in [Procs -> {"open", "complete", "left"}]
        /\ \A q \in Procs \ {p} : given'[q] = given[q] /\ outcome'[q] = outcome[q]
        /\ Len(given'[p]) = Len(given[p]) + 1
        /\ Len(given'[p]) \in 1 .. Len(log)
        /\ tick \in LogTicks
        /\ outcome'[p] = "complete" => status # "RUNNING" /\ Len(given'[p]) = Len(log)
        /\ UNCHANGED <<count, status, log, answer>>
    BY <1>1, GiveFacts
  <1>3. /\ m \in Messages /\ m.code = "none"
        /\ Says(tickJSON(m.body), tick)
    <2>1. Marshal(protoTick(tick)) \in Texts /\ Says(tickJSON(Marshal(protoTick(tick))), tick)
      BY <1>2, TickRoundTrip
    <2>2. m.code = "none" /\ m.body = Marshal(protoTick(tick))
      BY DEF Message
    <2>3. m \in Messages
      BY <2>1 DEF Message, Messages, Codes
    <2> QED BY <2>1, <2>2, <2>3
  <1> HIDE DEF m
  <1>4. /\ wire' \in [Procs -> Seq(Messages)]
        /\ \A q \in Procs \ {p} : wire'[q] = wire[q]
        /\ \/ wire'[p] = wire[p]
           \/ /\ p \notin reset \cup cut /\ ~ Gone(p) /\ wire'[p] = Append(wire[p], m)
              /\ pc[p] \in {"waiting", "writing"}
              /\ \A i \in 1 .. Len(wire[p]) : wire[p][i].code = "none"
        /\ \A q \in Procs : Len(wire'[q]) <= Window + 1
        /\ p \notin reset \cup cut /\ ~ Gone(p) => wire'[p] = Append(wire[p], m)
    BY <1>1, <1>3, SendFacts
  <1>5. UNCHANGED <<count, status, log, answer, cancelled, isAccepting, hpc, reset, cut, line, pc,
                    hand, printed, err>>
    BY <1>1, <1>2 DEF serverVars, procVars
  <1>6. TypeInv'
    <2>1. /\ count' \in 0 .. MaxCount /\ answer' \in [Procs -> TerminalStatuses \cup {"NONE"}]
          /\ cancelled' \in BOOLEAN /\ reset' \subseteq Procs
          /\ hpc' \in [Procs -> {"none", "request", "lost", "refused", "running",
                                "stopping", "streaming", "returned"}]
      BY <1>1, <1>5 DEF TypeInv, TypeOK
    <2> QED BY <1>1, <1>2, <1>4, <1>5, <2>1, HandlerTypes
  <1>7. LogInv'
    BY <1>1, <1>5 DEF LogInv
  <1>8. \A q \in Procs \ {p} : Same(q) /\ Ahead(q)
    BY <1>2, <1>4, <1>5 DEF Same, Ahead
  <1>9. Len(given[p]) \in Nat /\ Len(log) \in Nat /\ Received(p) \in Nat
    BY <1>1, Locals
  <1>10. FeedInv(p)' /\ StageInv(p)'
    <2>1. Len(given'[p]) <= Len(log)
      BY <1>2, <1>9
    <2>2. FeedInv(p)'
      BY <1>1, <1>2, <1>5, <2>1 DEF FeedInv
    <2>3. StageInv(p)'
      BY <1>1, <1>5 DEF ProcInv, StageInv
    <2> QED BY <2>2, <2>3
  <1>11. /\ Len(wire[p]) \in Nat
         /\ Len(Append(wire[p], m)) = Len(wire[p]) + 1
         /\ Append(wire[p], m)[Len(wire[p]) + 1] = m
         /\ \A i \in 1 .. Len(wire[p]) : Append(wire[p], m)[i] = wire[p][i]
         /\ \A i \in 1 .. Len(Append(wire[p], m)) :
              i \in 1 .. Len(wire[p]) \/ i = Len(wire[p]) + 1
    BY <1>1, <1>3, AppendFacts
  <1>12. ASSUME NEW i \in 1 .. Len(wire'[p])
         PROVE  \/ /\ i \in 1 .. Len(wire[p]) /\ wire'[p][i] = wire[p][i]
                   /\ wire[p][i].code # "none" => wire'[p] = wire[p]
                \/ /\ i = Len(wire[p]) + 1 /\ wire'[p][i] = m
                   /\ p \notin reset \cup cut /\ ~ Gone(p)
    <2>1. CASE wire'[p] = wire[p]
      BY <2>1
    <2>2. CASE /\ p \notin reset \cup cut /\ ~ Gone(p) /\ wire'[p] = Append(wire[p], m)
               /\ \A j \in 1 .. Len(wire[p]) : wire[p][j].code = "none"
      BY <1>11, <2>2
    <2> QED BY <1>4, <2>1, <2>2
  <1>13. WireInv(p)'
    <2>1. wire'[p] # << >> => pc'[p] \in {"waiting", "writing"}
      BY <1>1, <1>4, <1>5 DEF ProcInv, WireInv
    <2>2. ASSUME NEW i \in 1 .. Len(wire'[p])
          PROVE  /\ wire'[p][i].code = "none" => i <= Window
                 /\ wire'[p][i].code # "none" => i = Len(wire'[p]) /\ p \in cut
                 /\ wire'[p][i].code \in {"none", "Unavailable"}
      <3>1. CASE /\ i \in 1 .. Len(wire[p]) /\ wire'[p][i] = wire[p][i]
                 /\ wire[p][i].code # "none" => wire'[p] = wire[p]
        BY <1>1, <3>1 DEF ProcInv, WireInv
      <3>2. CASE i = Len(wire[p]) + 1 /\ wire'[p][i] = m
        <4>1. i <= Window
          BY <1>1, <1>11, <3>2, FizzleAssumption
        <4> QED BY <1>3, <3>2, <4>1
      <3> QED BY <1>12, <3>1, <3>2
    <2> QED BY <1>1, <1>5, <2>1, <2>2 DEF WireInv
  <1>14. Received(p)' = Received(p) /\ (Gone(p)' <=> Gone(p))
    BY <1>5 DEF Received, Gone
  <1>15. OutputsInv(p)'
    <2> DEFINE r == Received(p)
               g == Len(given[p])
               k == Len(given'[p])
               w == Len(wire[p])
    <2>1. OutputsInv(p)
      BY <1>1 DEF ProcInv
    <2>2. r \in Nat /\ g \in Nat /\ w \in Nat /\ k = g + 1 /\ r <= g
      BY <1>1, <1>2, <1>9, <1>11, <2>1 DEF OutputsInv
    <2>3. p \notin reset \cup cut /\ ~ Gone(p) => r + w = g
      BY <1>1, <2>1 DEF OutputsInv
    <2>4. /\ \A i \in 1 .. w : wire[p][i].code = "none" =>
                r + i <= g /\ Says(tickJSON(wire[p][i].body), log[r + i])
          /\ \A i \in 1 .. w : wire[p][i].code # "OK"
      BY <1>1, <2>1 DEF ProcInv, OutputsInv, WireInv
    <2>5. tick = log[k] /\ Received(p)' = r
      BY <1>14
    <2>6. /\ \A i \in 1 .. Len(printed[p]) : Says(printed[p][i], log[i])
          /\ hand[p] # << >> => Says(hand[p][1], log[r])
          /\ pc[p] = "exited" /\ err[p] = "nil" => Len(printed[p]) = Len(log) /\ status # "RUNNING"
      BY <1>1, <2>1 DEF OutputsInv
    <2>7. p \notin reset \cup cut /\ ~ Gone(p) => Len(wire'[p]) = w + 1
      BY <1>4, <1>11
    <2>8. \A i \in 1 .. Len(wire'[p]) :
            \/ i \in 1 .. w /\ wire'[p][i] = wire[p][i]
            \/ i = w + 1 /\ wire'[p][i] = m /\ p \notin reset \cup cut /\ ~ Gone(p)
      BY <1>12
    <2> HIDE DEF r, g, k, w, tick
    <2>9. ASSUME NEW i \in 1 .. Len(wire'[p])
          PROVE  /\ wire'[p][i].code = "none" =>
                       r + i <= k /\ Says(tickJSON(wire'[p][i].body), log[r + i])
                 /\ wire'[p][i].code # "OK"
      <3>1. CASE i \in 1 .. w /\ wire'[p][i] = wire[p][i]
        <4>1. r + i <= g => r + i <= k
          BY <2>2, <3>1
        <4> QED BY <2>4, <3>1, <4>1
      <3>2. CASE i = w + 1 /\ wire'[p][i] = m /\ p \notin reset \cup cut /\ ~ Gone(p)
        <4>1. r + i = k /\ r + i <= k
          BY <2>2, <2>3, <3>2
        <4> QED BY <1>3, <2>5, <3>2, <4>1
      <3> QED BY <2>8, <3>1, <3>2
    <2>10. p \notin reset \cup cut /\ ~ Gone(p) => r + Len(wire'[p]) = k
      <3> SUFFICES ASSUME p \notin reset \cup cut, ~ Gone(p) PROVE r + Len(wire'[p]) = k
        OBVIOUS
      <3>1. r + w = g /\ Len(wire'[p]) = w + 1
        BY <2>3, <2>7
      <3> QED BY <2>2, <3>1
    <2>11. r <= k
      BY <2>2
    <2>12. /\ Received(p)' <= Len(given'[p])
           /\ hand'[p] # << >> => Says(hand'[p][1], log'[Received(p)'])
           /\ p \notin reset' \cup cut' /\ ~ Gone(p)' => Received(p)' + Len(wire'[p]) = Len(given'[p])
      BY <1>5, <1>14, <2>5, <2>6, <2>10, <2>11 DEF k
    <2>13. \A i \in 1 .. Len(wire'[p]) :
             /\ wire'[p][i].code = "none" =>
                   /\ Received(p)' + i <= Len(given'[p])
                   /\ Says(tickJSON(wire'[p][i].body), log'[Received(p)' + i])
             /\ wire'[p][i].code # "OK"
      BY <1>5, <2>5, <2>9 DEF k
    <2> QED BY <1>5, <2>6, <2>12, <2>13 DEF OutputsInv
  <1>16. UnaryInv(p)' /\ RefusedInv(p)'
    BY <1>1, <1>5 DEF UnaryInv, RefusedInv, IsStart
  <1>17. ProcInv(p)'
    BY <1>10, <1>13, <1>15, <1>16 DEF ProcInv
  <1> QED BY <1>5, <1>6, <1>7, <1>8, <1>17, OneMoves

----------------------------------------------------------------------------
(* The world and the job. *)

\* The news of a client's end only takes from what its handler may do.
LEMMA ContextEndsKeeps ==
    ASSUME IInv, NEW p \in Procs, ContextEnds(p)
    PROVE  IInv'
  <1>1. /\ TypeInv /\ ProcInv(p) /\ LogInv /\ reset' = reset \cup {p}
        /\ UNCHANGED <<count, status, log, given, outcome, answer, cancelled, isAccepting, cut, wire,
                       procVars>>
    BY DEF IInv, ContextEnds, jobVars
  <1>2. cancelled' \in BOOLEAN
    BY <1>1 DEF TypeInv, TypeOK
  <1>3. CASE hpc[p] = "request" /\ Goto(p, "lost")
    BY <1>1, <1>2, <1>3, GotoKeeps
  <1>4. CASE UNCHANGED hpc
    <2>1. UNCHANGED <<count, status, log, given, outcome, hpc, cut, wire, line, pc, hand, printed, err>>
      BY <1>1, <1>4 DEF procVars
    <2>2. TypeInv'
      <3>1. reset' \subseteq Procs
        BY <1>1 DEF TypeInv, TypeOK
      <3> QED BY <1>1, <1>2, <1>4, <3>1 DEF TypeInv, TypeOK, procVars
    <2>3. LogInv'
      BY <1>1 DEF LogInv
    <2>4. \A q \in Procs \ {p} : Same(q) /\ Ahead(q)
      BY <1>1, <2>1 DEF Same, Ahead
    <2>5. FeedInv(p)' /\ StageInv(p)' /\ WireInv(p)'
      BY <1>1, <2>1 DEF ProcInv, FeedInv, StageInv, WireInv
    <2>6. Received(p)' = Received(p) /\ (Gone(p)' <=> Gone(p))
      BY <2>1 DEF Received, Gone
    <2>7. OutputsInv(p)'
      BY <1>1, <2>1, <2>6 DEF ProcInv, OutputsInv
    <2>8. UnaryInv(p)' /\ RefusedInv(p)'
      BY <1>1, <2>1, <2>6 DEF ProcInv, UnaryInv, RefusedInv, Answers, Prints
    <2>9. ProcInv(p)'
      BY <2>5, <2>7, <2>8 DEF ProcInv
    <2> QED BY <2>1, <2>2, <2>3, <2>4, <2>9, OneMoves
  <1> QED BY <1>3, <1>4 DEF ContextEnds

\* What a cut leaves of a wire: ticks, and the transport's status.
LEMMA CutFacts ==
    ASSUME IInv, NEW p \in Procs, NEW m \in Messages, NEW k \in 0 .. Len(wire[p]),
           k = 0 \/ wire[p][k].code = "none"
    PROVE  LET w == SubSeq(wire[p], 1, k) \o <<m>> IN
           /\ w \in Seq(Messages)
           /\ Len(w) = k + 1
           /\ w[k + 1] = m
           /\ \A i \in 1 .. k : i \in 1 .. Len(wire[p]) /\ w[i] = wire[p][i] /\ w[i].code = "none"
           /\ k <= Window
  <1> DEFINE s == wire[p]
             u == SubSeq(s, 1, k)
             w == u \o <<m>>
  <1>1. s \in Seq(Messages) /\ Len(s) \in Nat /\ k \in Nat /\ k <= Len(s) /\ WireInv(p)
    BY Locals DEF IInv, ProcInv
  <1>2. \A i \in 1 .. k : i \in 1 .. Len(s)
    BY <1>1
  <1>3. \A i \in 1 .. k : s[i].code = "none"
    <2> SUFFICES ASSUME NEW i \in 1 .. k, s[i].code # "none" PROVE FALSE
      OBVIOUS
    <2>1. i = Len(s)
      BY <1>1, <1>2 DEF WireInv
    <2>2. i = k /\ k # 0
      BY <1>1, <2>1
    <2> QED BY <2>2
  <1>4. k <= Window
    <2>1. CASE k = 0
      BY <2>1, FizzleAssumption
    <2>2. CASE k # 0
      <3>1. k \in 1 .. Len(s) /\ s[k].code = "none"
        BY <1>1, <2>2
      <3> QED BY <1>1, <3>1 DEF WireInv
    <2> QED BY <2>1, <2>2
  <1>5. u \in Seq(Messages) /\ Len(u) = k /\ \A i \in 1 .. k : u[i] = s[i]
    <2> HIDE DEF s, Messages
    <2> QED BY <1>1, <1>2
  <1>6. w \in Seq(Messages) /\ Len(w) = k + 1 /\ w[k + 1] = m /\ \A i \in 1 .. k : w[i] = u[i]
    <2>1. <<m>> \in Seq(Messages) /\ Len(<<m>>) = 1 /\ <<m>>[1] = m
      OBVIOUS
    <2> HIDE DEF u, Messages
    <2> QED BY <1>1, <1>5, <2>1
  <1>7. \A i \in 1 .. k : i \in 1 .. Len(s) /\ w[i] = s[i] /\ w[i].code = "none"
    BY <1>2, <1>3, <1>5, <1>6
  <1> QED BY <1>4, <1>6, <1>7

LEMMA CutKeeps ==
    ASSUME IInv, NEW p \in Procs, Cut(p)
    PROVE  IInv'
  <1> DEFINE m == Status("Unavailable", Text("none"))
  <1>1. /\ TypeInv /\ ProcInv(p) /\ LogInv /\ cut' = cut \cup {p} /\ pc[p] \in {"waiting", "writing"}
        /\ UNCHANGED <<jobVars, serverVars, procVars>>
    BY DEF IInv, Cut
  <1>2. m \in Messages /\ m.code = "Unavailable"
    BY TextTypes DEF Status, Messages, Codes
  <1>3. PICK k \in 0 .. Len(wire[p]) :
          /\ k = 0 \/ wire[p][k].code = "none"
          /\ wire' = [wire EXCEPT ![p] = SubSeq(wire[p], 1, k) \o <<m>>]
    BY DEF Cut
  <1> HIDE DEF m
  <1> DEFINE w == SubSeq(wire[p], 1, k) \o <<m>>
  <1>4. /\ w \in Seq(Messages) /\ Len(w) = k + 1 /\ w[k + 1] = m
        /\ \A i \in 1 .. k : i \in 1 .. Len(wire[p]) /\ w[i] = wire[p][i] /\ w[i].code = "none"
        /\ k <= Window
    BY <1>2, <1>3, CutFacts
  <1>5. /\ wire' = [wire EXCEPT ![p] = w] /\ wire'[p] = w
        /\ \A q \in Procs \ {p} : wire'[q] = wire[q] /\ (q \in cut' <=> q \in cut)
        /\ UNCHANGED <<count, status, log, given, outcome, hpc, reset, line, pc, hand, printed, err>>
    BY <1>1, <1>3 DEF TypeInv, TypeOK, jobVars, serverVars, procVars
  <1> HIDE DEF w
  <1>6. TypeInv'
    <2>1. cut' \subseteq Procs /\ wire' \in [Procs -> Seq(Messages)]
      BY <1>1, <1>4, <1>5 DEF TypeInv, TypeOK
    <2>2. ASSUME NEW q \in Procs PROVE Len(wire'[q]) <= Window + 1
      <3>1. CASE q = p
        BY <1>4, <1>5, <3>1, FizzleAssumption
      <3>2. CASE q # p
        BY <1>1, <1>5, <3>2 DEF TypeInv, TypeOK
      <3> QED BY <3>1, <3>2
    <2>3. UNCHANGED <<count, status, log, given, outcome, answer, cancelled, isAccepting, hpc, reset,
                      line, pc, interrupted, out, hand, printed, err>>
      BY <1>1 DEF jobVars, serverVars, procVars
    <2> QED BY <1>1, <2>1, <2>2, <2>3 DEF TypeInv, TypeOK
  <1>7. LogInv'
    BY <1>1, <1>5 DEF LogInv
  <1>8. \A q \in Procs \ {p} : Same(q) /\ Ahead(q)
    BY <1>5 DEF Same, Ahead
  <1>9. FeedInv(p)' /\ StageInv(p)'
    BY <1>1, <1>5 DEF ProcInv, FeedInv, StageInv
  <1>10. \A i \in 1 .. Len(wire'[p]) :
            \/ /\ i \in 1 .. k /\ i \in 1 .. Len(wire[p]) /\ wire'[p][i] = wire[p][i]
               /\ wire'[p][i].code = "none"
            \/ i = Len(wire'[p]) /\ wire'[p][i].code = "Unavailable"
    <2>1. \A i \in 1 .. k + 1 : i \in 1 .. k \/ i = k + 1
      OBVIOUS
    <2> QED BY <1>2, <1>4, <1>5, <2>1
  <1>11. WireInv(p)'
    <2>1. ASSUME NEW i \in 1 .. Len(wire'[p])
          PROVE  /\ wire'[p][i].code = "none" => i <= Window /\ line[p].name = "outputs"
                 /\ wire'[p][i].code # "none" => i = Len(wire'[p])
                 /\ wire'[p][i].code \in {"none", "Unavailable"}
      BY <1>1, <1>10 DEF ProcInv, WireInv
    <2> QED BY <1>1, <1>5, <2>1 DEF WireInv
  <1>12. Received(p)' = Received(p) /\ (Gone(p)' <=> Gone(p))
    BY <1>5 DEF Received, Gone
  <1>13. OutputsInv(p)'
    BY <1>1, <1>5, <1>10, <1>12 DEF ProcInv, OutputsInv
  <1>14. UnaryInv(p)'
    BY <1>1, <1>5, <1>10, <1>12 DEF ProcInv, UnaryInv, Prints
  <1>15. RefusedInv(p)'
    BY <1>1, <1>5, <1>10 DEF ProcInv, RefusedInv
  <1>16. ProcInv(p)'
    BY <1>9, <1>11, <1>13, <1>14, <1>15 DEF ProcInv
  <1> QED BY <1>5, <1>6, <1>7, <1>8, <1>16, OneMoves

LEMMA KillKeeps ==
    ASSUME IInv, NEW p \in Procs, Kill(p)
    PROVE  IInv'
  <1>1. /\ TypeInv /\ ProcInv(p) /\ LogInv
        /\ pc' = [pc EXCEPT ![p] = "killed"] /\ hand' = [hand EXCEPT ![p] = << >>]
        /\ wire' = [wire EXCEPT ![p] = << >>]
        /\ UNCHANGED <<jobVars, serverVars, cut, line, interrupted, out, printed, err>>
    BY DEF IInv, Kill
  <1>2. /\ pc'[p] = "killed" /\ hand'[p] = << >> /\ wire'[p] = << >>
        /\ \A q \in Procs \ {p} : pc'[q] = pc[q] /\ hand'[q] = hand[q] /\ wire'[q] = wire[q]
        /\ UNCHANGED <<count, status, log, given, outcome, hpc, reset, cut, line, printed, err>>
    BY <1>1 DEF TypeInv, TypeOK, jobVars, serverVars
  <1>3. TypeInv'
    <2>1. /\ hpc' \in [Procs -> {"none", "request", "lost", "refused", "running",
                                 "stopping", "streaming", "returned"}]
          /\ wire' \in [Procs -> Seq(Messages)] /\ printed' \in [Procs -> Seq(Texts)]
          /\ pc' \in [Procs -> {"new", "call", "waiting", "writing", "exited", "killed"}]
      BY <1>1, <1>2 DEF TypeInv, TypeOK
    <2>2. ASSUME NEW q \in Procs PROVE Len(wire'[q]) <= Window + 1
      <3>1. CASE q = p
        <4>1. Len(wire'[p]) = 0
          BY <1>2
        <4> QED BY <3>1, <4>1, FizzleAssumption
      <3>2. CASE q # p
        BY <1>1, <1>2, <3>2 DEF TypeInv, TypeOK
      <3> QED BY <3>1, <3>2
    <2>3. hand' \in [Procs -> {<< >>} \cup {<<t>> : t \in Texts}]
      <3>1. hand \in [Procs -> {<< >>} \cup {<<t>> : t \in Texts}]
        BY <1>1 DEF TypeInv, TypeOK
      <3> QED BY <1>1, <3>1
    <2>4. err' \in [Procs -> {"none"} \cup ExitErrors]
      BY <1>1 DEF TypeInv, TypeOK, ExitErrors
    <2> QED BY <1>1, <2>1, <2>2, <2>3, <2>4, ProcessTypes DEF serverVars
  <1>4. LogInv'
    BY <1>1, <1>2 DEF LogInv
  <1>5. \A q \in Procs \ {p} : Same(q) /\ Ahead(q)
    BY <1>2 DEF Same, Ahead
  <1>6. Gone(p)'
    BY <1>2 DEF Gone
  <1>7. FeedInv(p)' /\ StageInv(p)' /\ WireInv(p)'
    BY <1>1, <1>2 DEF ProcInv, FeedInv, StageInv, WireInv
  <1>8. UnaryInv(p)' /\ RefusedInv(p)'
    BY <1>1, <1>2, <1>6 DEF ProcInv, UnaryInv, RefusedInv
  <1>9. OutputsInv(p)'
    <2> SUFFICES ASSUME line[p].name = "outputs" PROVE OutputsInv(p)'
      BY <1>2 DEF OutputsInv
    <2>1. /\ OutputsInv(p) /\ Len(printed[p]) \in Nat /\ Len(given[p]) \in Nat
          /\ Received(p) = IF hand[p] = << >> THEN Len(printed[p]) ELSE Len(printed[p]) + 1
      BY <1>1, Locals DEF ProcInv
    <2>2. /\ Len(printed'[p]) <= Len(given'[p])
          /\ \A i \in 1 .. Len(printed'[p]) : Says(printed'[p][i], log'[i])
      BY <1>2, <2>1 DEF OutputsInv
    <2>3. Received(p)' = Len(printed'[p])
      <3>1. Len(hand'[p]) = 0 /\ Len(printed'[p]) \in Nat
        BY <1>2, <2>1
      <3>2. \A n \in Nat : n + 0 = n
        OBVIOUS
      <3> QED BY <3>1, <3>2 DEF Received
    <2> QED BY <1>2, <1>6, <2>2, <2>3 DEF OutputsInv
  <1>10. ProcInv(p)'
    BY <1>7, <1>8, <1>9 DEF ProcInv
  <1> QED BY <1>2, <1>3, <1>4, <1>5, <1>10, OneMoves

\* Signals, outputs and the shutdown of the registry touch no invariant.
LEMMA WorldKeeps ==
    ASSUME IInv,
           \/ \E p \in Procs : Interrupt(p) \/ OutputFails(p) \/ OutputResumes(p)
           \/ Shutdown
           \/ UNCHANGED vars
    PROVE  IInv'
  <1>1. TypeInv /\ LogInv
    BY DEF IInv
  <1>2. UNCHANGED <<count, status, log, given, outcome, answer, hpc, reset, cut, wire, line, pc,
                    hand, printed, err>>
    BY DEF Interrupt, OutputFails, OutputResumes, Shutdown, vars, jobVars, serverVars, procVars
  <1>3. interrupted' \subseteq Procs /\ out' \in [Procs -> {"open", "stalled", "broken"}]
        /\ cancelled' \in BOOLEAN /\ isAccepting' \in BOOLEAN
    <2>1. /\ interrupted \subseteq Procs /\ out \in [Procs -> {"open", "stalled", "broken"}]
          /\ cancelled \in BOOLEAN /\ isAccepting \in BOOLEAN
      BY <1>1 DEF TypeInv, TypeOK
    <2>2. CASE \E p \in Procs : Interrupt(p)
      BY <2>1, <2>2 DEF Interrupt, jobVars, serverVars
    <2>3. CASE \E p \in Procs : OutputFails(p)
      BY <2>1, <2>3 DEF OutputFails, jobVars, serverVars
    <2>4. CASE \E p \in Procs : OutputResumes(p)
      BY <2>1, <2>4 DEF OutputResumes, jobVars, serverVars
    <2>5. CASE Shutdown
      <3>1. UNCHANGED <<interrupted, out>> /\ isAccepting' = FALSE /\ cancelled' = (count # 0)
        BY <2>5 DEF Shutdown, procVars
      <3> QED BY <2>1, <3>1
    <2>6. CASE UNCHANGED vars
      BY <2>1, <2>6 DEF vars, jobVars, serverVars, procVars
    <2> QED BY <2>2, <2>3, <2>4, <2>5, <2>6
  <1>4. TypeInv'
    BY <1>1, <1>2, <1>3 DEF TypeInv, TypeOK
  <1>5. LogInv'
    BY <1>1, <1>2 DEF LogInv
  <1>6. \A q \in Procs : Same(q) /\ Ahead(q)
    BY <1>2 DEF Same, Ahead
  <1> QED BY <1>2, <1>4, <1>5, <1>6, NoneMoves

\* A tick goes behind the log, and only a sentinel is terminal.
LEMMA JobKeeps ==
    ASSUME IInv, JobStep
    PROVE  IInv'
  <1>1. TypeInv /\ LogInv /\ log \in Seq(LogTicks) /\ Len(log) \in Nat /\ count \in 0 .. MaxCount
        /\ UNCHANGED <<count, given, outcome, answer, cancelled, serverVars, cut, wire, procVars>>
    <2>1. TypeInv /\ LogInv /\ log \in Seq(LogTicks) /\ count \in 0 .. MaxCount
      BY DEF IInv, TypeInv, TypeOK, LogTicks
    <2>2. Len(log) \in Nat
      BY <2>1
    <2>3. UNCHANGED <<count, given, outcome, answer, cancelled, serverVars, cut, wire, procVars>>
      BY DEF JobStep, Publish, End, Feed!Publish, Feed!End
    <2> QED BY <2>1, <2>2, <2>3
  <1>2. PICK t \in LogTicks :
          /\ status = "RUNNING" /\ count # 0 /\ log' = Append(log, t) /\ status' \in Statuses
          /\ IsTerminal(t) <=> status' # "RUNNING"
    <2>1. CASE Publish
      <3> DEFINE n == count - Len(log)
      <3>1. n \in 0 .. MaxCount /\ n # 0
        BY <1>1, <2>1, FizzleAssumption DEF Publish, Feed!Publish
      <3>2. /\ status = "RUNNING" /\ count # 0 /\ status' = status
            /\ log' = Append(log, [kind |-> "progress", remaining |-> n])
        BY <2>1 DEF Publish, Feed!Publish, Feed!Progress
      <3> HIDE DEF n
      <3>3. /\ [kind |-> "progress", remaining |-> n] \in LogTicks
            /\ ~ IsTerminal([kind |-> "progress", remaining |-> n])
        BY <3>1 DEF LogTicks, IsTerminal
      <3> QED BY <3>2, <3>3 DEF Statuses
    <2>2. CASE \E s \in TerminalStatuses : End(s)
      <3>1. PICK s \in TerminalStatuses : End(s)
        BY <2>2
      <3>2. /\ status = "RUNNING" /\ count # 0 /\ status' = s /\ log' = Append(log, Feed!Sentinel(s))
        BY <3>1 DEF End, Feed!End
      <3>3. Feed!Sentinel(s) \in LogTicks /\ IsTerminal(Feed!Sentinel(s))
        BY FizzleAssumption DEF Feed!Sentinel, Feed!Progress, Feed!Stopped, Feed!PanicError, LogTicks,
              IsTerminal
      <3> QED BY <3>2, <3>3 DEF Statuses, TerminalStatuses
    <2> QED BY <2>1, <2>2 DEF JobStep
  <1>3. /\ log' \in Seq(LogTicks) /\ Len(log') = Len(log) + 1 /\ log'[Len(log) + 1] = t
        /\ \A i \in 1 .. Len(log) : log'[i] = log[i]
        /\ log' # << >>
    <2> HIDE DEF LogTicks
    <2>1. log' \in Seq(LogTicks) /\ Len(log') = Len(log) + 1
      BY <1>1, <1>2
    <2>2. log'[Len(log) + 1] = t /\ \A i \in 1 .. Len(log) : log'[i] = log[i]
      BY <1>1, <1>2
    <2>3. log' # << >>
      BY <1>1, <2>1
    <2> QED BY <2>1, <2>2, <2>3
  <1>4. UNCHANGED <<hpc, reset, isAccepting, line, pc, interrupted, out, hand, printed, err>>
    BY <1>1 DEF serverVars, procVars
  <1>5. TypeInv'
    BY <1>1, <1>2, <1>3, <1>4 DEF TypeInv, TypeOK, LogTicks
  <1>6. LogInv'
    <2>1. ASSUME NEW i \in 1 .. Len(log'), IsTerminal(log'[i])
          PROVE  i = Len(log') /\ status' # "RUNNING"
      <3>1. CASE i \in 1 .. Len(log)
        BY <1>1, <1>2, <1>3, <2>1, <3>1 DEF LogInv
      <3>2. CASE i = Len(log) + 1
        BY <1>2, <1>3, <2>1, <3>2
      <3>3. i \in 1 .. Len(log) \/ i = Len(log) + 1
        BY <1>1, <1>3
      <3> QED BY <3>1, <3>2, <3>3
    <2>2. status' # "RUNNING" => log' # << >> /\ IsTerminal(log'[Len(log')])
      BY <1>2, <1>3
    <2>3. count' # 0
      BY <1>1, <1>2
    <2> QED BY <2>1, <2>2, <2>3 DEF LogInv
  <1>7. \A q \in Procs : Same(q) /\ Ahead(q)
    <2>1. Len(log) <= Len(log')
      BY <1>1, <1>3
    <2>2. \A q \in Procs : Same(q)
      BY <1>1, <1>4 DEF Same
    <2>3. \A q \in Procs : Ahead(q)
      BY <1>1, <1>2, <1>3, <1>4, <2>1 DEF Ahead
    <2> QED BY <2>2, <2>3
  <1> QED BY <1>4, <1>5, <1>6, <1>7, NoneMoves

----------------------------------------------------------------------------
(* The theorems. *)

LEMMA InitInv == Init => IInv
  <1> SUFFICES ASSUME Init PROVE IInv
    OBVIOUS
  <1>1. /\ count \in 0 .. MaxCount /\ status = "RUNNING" /\ log = << >> /\ Len(log) = 0
        /\ \A p \in Procs : IsStart(line[p]) => count = 0
    BY FizzleAssumption DEF Init
  <1>2. TypeInv
    <2>1. << >> \in Seq(Texts) /\ << >> \in Seq(LogTicks) /\ << >> \in Seq(Messages)
      OBVIOUS
    <2>2. /\ log \in Seq(LogTicks)
          /\ given \in [Procs -> Seq(LogTicks)]
          /\ printed \in [Procs -> Seq(Texts)]
          /\ wire \in [Procs -> Seq(Messages)]
      BY <2>1 DEF Init
    <2>3. \A p \in Procs : Len(wire[p]) <= Window + 1
      <3>1. \A p \in Procs : Len(wire[p]) = 0
        BY DEF Init
      <3> QED BY <3>1, FizzleAssumption
    <2>4. hand \in [Procs -> {<< >>} \cup {<<t>> : t \in Texts}]
      BY DEF Init
    <2>5. /\ outcome \in [Procs -> {"open", "complete", "left"}]
          /\ answer \in [Procs -> TerminalStatuses \cup {"NONE"}]
          /\ cancelled \in BOOLEAN /\ isAccepting \in BOOLEAN /\ status \in Statuses
          /\ hpc \in [Procs -> {"none", "request", "lost", "refused", "running",
                               "stopping", "streaming", "returned"}]
          /\ reset \subseteq Procs /\ cut \subseteq Procs /\ interrupted \subseteq Procs
      BY DEF Init, Statuses
    <2>6. /\ line \in [Procs -> Lines]
          /\ pc \in [Procs -> {"new", "call", "waiting", "writing", "exited", "killed"}]
          /\ out \in [Procs -> {"open", "stalled", "broken"}]
          /\ err \in [Procs -> {"none"} \cup ExitErrors]
      BY DEF Init
    <2> QED BY <1>1, <2>2, <2>3, <2>4, <2>5, <2>6 DEF TypeInv, TypeOK, LogTicks, ExitErrors
  <1>3. LineInv
    BY DEF Init, LineInv
  <1>4. LogInv
    BY <1>1 DEF LogInv
  <1>5. ASSUME NEW p \in Procs PROVE ProcInv(p)
    <2>1. /\ given[p] = << >> /\ outcome[p] = "open" /\ hpc[p] = "none" /\ wire[p] = << >>
          /\ pc[p] = "new" /\ hand[p] = << >> /\ printed[p] = << >> /\ err[p] = "none"
      BY DEF Init
    <2>2. Len(given[p]) = 0 /\ Len(wire[p]) = 0 /\ Len(hand[p]) = 0 /\ Len(printed[p]) = 0
      BY <2>1
    <2>3. FeedInv(p) /\ StageInv(p) /\ WireInv(p)
      BY <1>1, <2>1, <2>2 DEF FeedInv, StageInv, WireInv
    <2>4. Received(p) = 0
      BY <2>2 DEF Received
    <2>5. OutputsInv(p) /\ UnaryInv(p) /\ RefusedInv(p)
      BY <1>1, <2>1, <2>2, <2>4 DEF OutputsInv, UnaryInv, RefusedInv
    <2> QED BY <2>3, <2>5 DEF ProcInv
  <1> QED BY <1>2, <1>3, <1>4, <1>5 DEF IInv

LEMMA NextInv == IInv /\ [Next]_vars => IInv'
  <1> SUFFICES ASSUME IInv, [Next]_vars PROVE IInv'
    OBVIOUS
  <1>1. ASSUME NEW p \in Procs, ProcessStep(p) PROVE IInv'
    BY <1>1, BeginKeeps, CallKeeps, ReceiveKeeps, ReceiveEndKeeps, GiveUpKeeps, WriteKeeps
       DEF ProcessStep
  <1>2. ASSUME NEW p \in Procs, HandlerStep(p) PROVE IInv'
    BY <1>2, DispatchKeeps, HandleStartKeeps, UnaryKeeps, HandleStopKeeps, HandleOutputsKeeps,
       StreamSendKeeps, StreamEndKeeps DEF HandlerStep
  <1>3. ASSUME NEW p \in Procs, ContextEnds(p) \/ Cut(p) \/ Kill(p) PROVE IInv'
    BY <1>3, ContextEndsKeeps, CutKeeps, KillKeeps
  <1>4. ASSUME NEW p \in Procs, Interrupt(p) \/ OutputFails(p) \/ OutputResumes(p) PROVE IInv'
    BY <1>4, WorldKeeps
  <1>5. ASSUME JobStep PROVE IInv'
    BY <1>5, JobKeeps
  <1>6. ASSUME Shutdown \/ Done \/ UNCHANGED vars PROVE IInv'
    BY <1>6, WorldKeeps DEF Done
  <1> QED BY <1>1, <1>2, <1>3, <1>4, <1>5, <1>6 DEF Next

\* The inductive invariant holds in every state of every behaviour of module
\* Fizzle, whatever is cut, lost, killed or stalled, and however often.
THEOREM Invariance == Spec => []IInv
  BY InitInv, NextInv, PTL DEF Spec

\* Every variable keeps its type; above all no wire of a command holds more than
\* its window and the status behind it, and execute returns no error but those
\* of cmd/fizzle and internal/client.
THEOREM TypeCorrect == Spec => []TypeOK
  <1>1. IInv => TypeOK
    BY DEF IInv, TypeInv
  <1> QED BY <1>1, Invariance, PTL

\* What an outputs command has printed is a prefix of the job's ticks, each line
\* saying what its tick says, through protoTick, proto3 and tickJSON.
THEOREM Prefix == Spec => []PrintedIsPrefix
  BY PrefixFollows, Invariance, PTL

\* An exit code of 0 is the truth about the job, for each of the four commands.
THEOREM Success == Spec => []SuccessIsTrue
  BY SuccessFollows, Invariance, PTL

\* The job is the one on the command line, to the digit, or there is none; exit
\* code 2 of a start means that there is none.
THEOREM AskedFor == Spec => []JobIsTheOneAskedFor
  BY AskedForFollows, Invariance, PTL

----------------------------------------------------------------------------
(* The job of this module is the one of module JobFeed. *)

\* Before there is a job nobody uses it.
FreshInv ==
    count = 0 =>
        /\ given = [p \in Procs |-> << >>]
        /\ outcome = [p \in Procs |-> "open"]
        /\ answer = [p \in Procs |-> "NONE"]
        /\ \A p \in Procs : hpc[p] \notin {"stopping", "streaming"}

\* No step of a process, a handler or the world does to the job what JobFeed
\* does not allow, and a job that Service.Start makes is as JobFeed begins.
FeedStep ==
    /\ count # 0 => [Feed!Next]_(Feed!feedVars)
    /\ count = 0 => UNCHANGED Feed!feedVars \/ Feed!Init'

UsesTheFeed == [][FeedStep]_vars

LEMMA FreshStep ==
    ASSUME IInv, FreshInv, [Next]_vars
    PROVE  FreshInv' /\ FeedStep
  <1>1. TypeInv /\ LogInv /\ \A p \in Procs : ProcInv(p)
    BY DEF IInv
  \* The steps that leave the job alone.
  <1>2. ASSUME UNCHANGED <<count, status, log, given, outcome, answer>>,
               \A q \in Procs : \/ hpc'[q] = hpc[q]
                                \/ hpc'[q] \notin {"stopping", "streaming"}
                                \/ count # 0
        PROVE  FreshInv' /\ FeedStep
    BY <1>2 DEF FreshInv, FeedStep, Feed!feedVars
  <1>3. ASSUME NEW p \in Procs, NEW h, Goto(p, h)
        PROVE  hpc'[p] = h /\ \A q \in Procs \ {p} : hpc'[q] = hpc[q]
    BY <1>1, <1>3 DEF Goto, TypeInv, TypeOK
  <1>4. ASSUME NEW p \in Procs, ProcessStep(p) PROVE FreshInv' /\ FeedStep
    <2>1. UNCHANGED <<count, status, log, given, outcome, answer>>
      BY <1>4 DEF ProcessStep, Begin, Call, Receive, ReceiveEnd, GiveUp, Write, jobVars
    <2>2. hpc' = hpc \/ Goto(p, "request")
      BY <1>4 DEF ProcessStep, Begin, Call, Receive, ReceiveEnd, GiveUp, Write, serverVars, Request, Goto
    <2>3. \A q \in Procs : hpc'[q] = hpc[q] \/ hpc'[q] \notin {"stopping", "streaming"}
      <3>1. CASE hpc' = hpc
        BY <3>1
      <3>2. CASE Goto(p, "request")
        BY <1>3, <3>2
      <3> QED BY <2>2, <3>1, <3>2
    <2> QED BY <1>2, <2>1, <2>3
  <1>5. ASSUME NEW p \in Procs, Dispatch(p) \/ HandleNotFound(p) \/ HandleStatus(p) \/ StreamReturns(p)
        PROVE  FreshInv' /\ FeedStep
    <2>1. UNCHANGED <<count, status, log, given, outcome, answer>>
      BY <1>5 DEF Dispatch, HandleNotFound, HandleStatus, StreamReturns, jobVars
    <2>2. Goto(p, "running") \/ Goto(p, "refused") \/ Goto(p, "returned")
      BY <1>5 DEF Dispatch, HandleNotFound, HandleStatus, StreamReturns, Return
    <2>3. \A q \in Procs : hpc'[q] = hpc[q] \/ hpc'[q] \notin {"stopping", "streaming"}
      BY <1>3, <2>2
    <2> QED BY <1>2, <2>1, <2>3
  <1>6. ASSUME NEW p \in Procs, HandleStop(p) \/ HandleOutputs(p) PROVE FreshInv' /\ FeedStep
    <2>1. UNCHANGED <<count, status, log, given, outcome, answer>> /\ count # 0
      BY <1>6 DEF HandleStop, HandleOutputs, Found, jobVars
    <2> QED BY <1>2, <2>1
  <1>7. ASSUME NEW p \in Procs, HandleStart(p) PROVE FreshInv' /\ FeedStep
    <2> DEFINE n == Int32(line[p].number)
    <2>1. UNCHANGED <<status, log, given, outcome, answer>> /\ Goto(p, "returned")
      BY <1>7 DEF HandleStart, Return
    <2>2. count' = count \/ (n \in 1 .. MaxCount /\ count' = n)
      BY <1>7 DEF HandleStart
    <2>3. count = 0
      BY <1>1, <1>7 DEF HandleStart, ProcInv, StageInv, IsStart
    <2>4. log = << >> /\ status = "RUNNING"
      BY <1>1, <2>3 DEF LogInv
    <2>5. CASE count' = count
      <3>1. \A q \in Procs : hpc'[q] = hpc[q] \/ hpc'[q] \notin {"stopping", "streaming"}
        BY <1>3, <2>1
      <3> QED BY <1>2, <2>1, <2>5, <3>1
    <2>6. CASE n \in 1 .. MaxCount /\ count' = n
      <3> HIDE DEF n
      <3>1. count' \in Nat \ {0}
        BY <2>6, FizzleAssumption
      <3>2. Feed!Init'
        BY <2>1, <2>3, <2>4, <3>1 DEF FreshInv, Feed!Init
      <3> QED BY <2>3, <3>1, <3>2 DEF FreshInv, FeedStep
    <2> QED BY <2>2, <2>5, <2>6
  <1>8. ASSUME NEW p \in Procs,
               StopReturns(p) \/ StreamSend(p) \/ StreamSendFails(p) \/ StreamContextDone(p)
        PROVE  FreshInv' /\ FeedStep
    <2>1. count # 0
      BY <1>8 DEF FreshInv, StopReturns, StreamSend, StreamSendFails, StreamContextDone
    <2>2. Feed!Answer(p) \/ Feed!Give(p) \/ Feed!Leave(p)
      BY <1>8 DEF StopReturns, StreamSend, StreamSendFails, StreamContextDone
    <2>3. count' = count
      BY <2>2 DEF Feed!Answer, Feed!Give, Feed!Leave
    <2>4. Feed!Next
      BY <2>2 DEF Feed!Next
    <2> QED BY <2>1, <2>3, <2>4 DEF FreshInv, FeedStep
  <1>9. ASSUME NEW p \in Procs, ContextEnds(p) PROVE FreshInv' /\ FeedStep
    <2>1. UNCHANGED <<count, status, log, given, outcome, answer>>
      BY <1>9 DEF ContextEnds, jobVars
    <2>2. \A q \in Procs : hpc'[q] = hpc[q] \/ hpc'[q] \notin {"stopping", "streaming"}
      <3>1. CASE hpc' = hpc
        BY <3>1
      <3>2. CASE Goto(p, "lost")
        BY <1>3, <3>2
      <3> QED BY <1>9, <3>1, <3>2 DEF ContextEnds
    <2> QED BY <1>2, <2>1, <2>2
  <1>10. ASSUME \/ \E p \in Procs : Cut(p) \/ Interrupt(p) \/ Kill(p) \/ OutputFails(p) \/ OutputResumes(p)
                \/ Shutdown \/ Done \/ UNCHANGED vars
         PROVE  FreshInv' /\ FeedStep
    <2>1. UNCHANGED <<count, status, log, given, outcome, answer, hpc>>
      BY <1>10 DEF Cut, Interrupt, Kill, OutputFails, OutputResumes, Shutdown, Done, vars, jobVars,
            serverVars
    <2> QED BY <1>2, <2>1
  <1>11. ASSUME JobStep PROVE FreshInv' /\ FeedStep
    <2>1. count # 0 /\ count' = count
      BY <1>11 DEF JobStep, Publish, End, Feed!Publish, Feed!End
    <2>2. Feed!Publish \/ \E s \in Feed!TerminalStatuses : Feed!End(s)
      BY <1>11 DEF JobStep, Publish, End, TerminalStatuses, Feed!TerminalStatuses
    <2>3. Feed!Next
      BY <2>2 DEF Feed!Next
    <2> QED BY <2>1, <2>3 DEF FreshInv, FeedStep
  <1> QED BY <1>4, <1>5, <1>6, <1>7, <1>8, <1>9, <1>10, <1>11 DEF Next, HandlerStep

\* Whatever processes, handlers and the world do, the job does what JobFeed
\* promises and module Job implements, from the moment Service.Start made it.
THEOREM TheJobIsTheFeed == Spec => UsesTheFeed
  <1>1. Init => FreshInv
    BY DEF Init, FreshInv
  <1>2. IInv /\ FreshInv /\ [Next]_vars => FreshInv' /\ FeedStep
    BY FreshStep
  <1>3. Spec => []FreshInv
    BY <1>1, <1>2, Invariance, PTL DEF Spec
  <1> QED BY <1>2, <1>3, Invariance, PTL DEF Spec, UsesTheFeed
=============================================================================
