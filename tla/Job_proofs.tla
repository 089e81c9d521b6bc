---------------------------- MODULE Job_proofs ----------------------------
(***************************************************************************)
(* Proofs, for every MaxCount, every set of readers and every set of       *)
(* stoppers, of the safety properties of module Job, and that Job          *)
(* implements JobFeed.                                                     *)
(***************************************************************************)
EXTENDS Job, TLAPS

----------------------------------------------------------------------------
(* The inductive invariant. *)

\* How far the worker is, against what it has published.
WorkerInv ==
    /\ wpc = "start" => Len(ticks) = 0
    /\ wpc = "select" => currentCount < count /\ Len(ticks) = count - currentCount
    /\ wpc \in {"start", "select"} <=> status = "RUNNING"
    /\ Len(ticks) <= count + 1
    /\ finished <=> wpc \in {"cancel", "done"}

\* The channels that are closed are those that were replaced, and the last one
\* when the job has ended.
ChannelInv ==
    \A g \in Nat : g \in closedChans <=> g < changed \/ (g = changed /\ status # "RUNNING")

\* How many ticks a reader was given, wherever it is, and what it waits for.
ReaderInv ==
    \A r \in Readers :
        /\ cursor[r] <= Len(ticks)
        /\ rpc[r] = "idle" => cursor[r] = 0
        /\ rpc[r] \in {"idle", "lock", "select"} => Len(yielded[r]) = cursor[r]
        /\ rpc[r] = "yield" => /\ index[r] \in 1 .. cursor[r]
                               /\ Len(yielded[r]) = index[r] - 1
        /\ rpc[r] = "select" => /\ wait[r] <= changed
                                /\ wait[r] = changed /\ status = "RUNNING"
                                      => cursor[r] = Len(ticks)

StopInv ==
    /\ \A s \in Stoppers : spc[s] \in {"read", "returned"} => finished
    /\ \A s \in Stoppers : result[s] = IF spc[s] = "returned" THEN status ELSE "NONE"
    /\ status = "STOPPED" => cancelled

AuditInv ==
    /\ wpc \in {"start", "select", "audit"} => auditLog = << >>
    /\ wpc \in {"start", "select"} => ~ panicked
    /\ wpc = "audit" => (panicked <=> status = "FAILED")
    /\ wpc \in {"close", "cancel", "done"} =>
          auditLog = <<status>> \/ (auditLog = << >> /\ panicked /\ status # "FAILED")

IInv ==
    /\ TypeOK
    /\ WorkerInv
    /\ TicksMatchStatus
    /\ ChannelInv
    /\ ReaderInv
    /\ ReadersSeePrefix
    /\ StopInv
    /\ AuditInv

----------------------------------------------------------------------------
(* Lemmas about the operators the worker is built from. *)

\* The ticks of the code are ticks, and the terminal ones are the sentinels.
LEMMA TickFacts ==
    /\ \A n \in Nat : Progress(n) \in Ticks
    /\ Stopped \in Ticks /\ PanicError \in Ticks
    /\ \A n \in Nat : IsTerminal(Progress(n)) <=> n = 0
    /\ \A s \in TerminalStatuses : Sentinel(s) \in Ticks /\ IsTerminal(Sentinel(s))
  BY DEF Progress, Stopped, PanicError, Ticks, IsTerminal, Sentinel, TerminalStatuses

\* An append keeps what was there.
LEMMA AppendFacts ==
    ASSUME NEW S, NEW q \in Seq(S), NEW e \in S
    PROVE  /\ Append(q, e) \in Seq(S)
           /\ Len(Append(q, e)) = Len(q) + 1
           /\ \A i \in 1 .. Len(q) : Append(q, e)[i] = q[i]
           /\ Append(q, e)[Len(q) + 1] = e
  OBVIOUS

\* The only terminal tick there can be is the last one of a job that has ended.
LEMMA TerminalIsLast ==
    ASSUME TypeOK, TicksMatchStatus, NEW i \in 1 .. Len(ticks), IsTerminal(ticks[i])
    PROVE  i = Len(ticks) /\ status # "RUNNING"
  <1>1. ~ IsTerminal(Progress(count - i + 1)) \/ ~ (count - i + 1 > 0)
    <2>1. count \in Nat /\ i \in Nat /\ Len(ticks) \in Nat
      BY MaxCountAssumption DEF TypeOK, WorkerTypeOK
    <2> QED BY <2>1, TickFacts
  <1> QED BY <1>1 DEF TicksMatchStatus, CountdownThenSentinel

\* The initial state satisfies the invariant.
LEMMA InitInv == Init => IInv
  <1> SUFFICES ASSUME Init PROVE IInv OBVIOUS
  <1>1. TypeOK
    <2>1. << >> \in Seq(Ticks) /\ << >> \in Seq(TerminalStatuses)
      OBVIOUS
    <2>2. WorkerTypeOK
      <3>1. finished \in BOOLEAN /\ cancelled \in BOOLEAN /\ panicked \in BOOLEAN
        BY Zenon DEF Init
      <3>2. ticks \in Seq(Ticks) /\ auditLog \in Seq(TerminalStatuses)
        BY <2>1 DEF Init
      <3>3. count \in 1 .. MaxCount /\ currentCount \in Nat
        BY MaxCountAssumption DEF Init
      <3> QED BY <3>1, <3>2, <3>3 DEF Init, WorkerTypeOK, Statuses
    <2>3. ReaderTypeOK
      BY <2>1 DEF Init, ReaderTypeOK
    <2>4. StopTypeOK
      BY DEF Init, StopTypeOK
    <2> QED BY <2>2, <2>3, <2>4 DEF TypeOK
  <1>2. WorkerInv /\ TicksMatchStatus /\ ChannelInv
    BY MaxCountAssumption
    DEF Init, WorkerInv, TicksMatchStatus, CountdownThenSentinel, SentinelWithStatus, ChannelInv
  <1>3. ReaderInv /\ ReadersSeePrefix
    BY MaxCountAssumption DEF Init, ReaderInv, ReadersSeePrefix
  <1>4. StopInv /\ AuditInv
    BY DEF Init, StopInv, AuditInv
  <1> QED BY <1>1, <1>2, <1>3, <1>4 DEF IInv

----------------------------------------------------------------------------
(* What a publication preserves. *)

\* A tick that is appended while the job runs, with the readers' channel either
\* replaced or closed for good, leaves every reader where it was.
LEMMA AppendKeepsReaders ==
    ASSUME IInv, UNCHANGED readerVars, status = "RUNNING",
           NEW t \in Ticks, ticks' = Append(ticks, t),
           \/ changed' = changed + 1
           \/ changed' = changed /\ status' # "RUNNING"
    PROVE  ReaderTypeOK' /\ ReaderInv' /\ ReadersSeePrefix'
  <1> USE DEF IInv, TypeOK
  <1>1. ReaderTypeOK'
    BY DEF ReaderTypeOK, readerVars
  <1>2. /\ ticks \in Seq(Ticks) /\ Len(ticks) \in Nat
        /\ Len(ticks') = Len(ticks) + 1
        /\ \A i \in 1 .. Len(ticks) : ticks'[i] = ticks[i]
    BY AppendFacts DEF WorkerTypeOK
  <1>3. ReaderInv'
    <2> SUFFICES ASSUME NEW r \in Readers
                 PROVE  /\ cursor[r] <= Len(ticks')
                        /\ rpc[r] = "idle" => cursor[r] = 0
                        /\ rpc[r] \in {"idle", "lock", "select"} => Len(yielded[r]) = cursor[r]
                        /\ rpc[r] = "yield" => /\ index[r] \in 1 .. cursor[r]
                                               /\ Len(yielded[r]) = index[r] - 1
                        /\ rpc[r] = "select" =>
                              /\ wait[r] <= changed'
                              /\ wait[r] = changed' /\ status' = "RUNNING"
                                    => cursor[r] = Len(ticks')
      BY DEF ReaderInv, readerVars
    <2>1. cursor[r] \in Nat /\ wait[r] \in Nat /\ changed \in Nat
      BY DEF ReaderTypeOK, WorkerTypeOK
    <2> QED BY <1>2, <2>1 DEF ReaderInv
  <1>4. ReadersSeePrefix'
    <2> SUFFICES ASSUME NEW r \in Readers
                 PROVE  /\ Len(yielded[r]) <= Len(ticks')
                        /\ \A i \in 1 .. Len(yielded[r]) : yielded[r][i] = ticks'[i]
                        /\ rpc[r] # "terminal"
      BY DEF ReadersSeePrefix, readerVars
    <2>1. Len(yielded[r]) \in Nat
      BY DEF ReaderTypeOK
    <2> QED BY <1>2, <2>1 DEF ReadersSeePrefix
  <1> QED BY <1>1, <1>3, <1>4

\* The next number of the countdown may be published.
LEMMA ReportKeeps ==
    ASSUME IInv, status = "RUNNING", NEW n \in Nat \ {0}, Len(ticks) = count - n,
           ReportProgress(Progress(n)), UNCHANGED readerVars
    PROVE  /\ ticks' \in Seq(Ticks) /\ Len(ticks') = Len(ticks) + 1
           /\ changed' \in Nat /\ closedChans' \in SUBSET Nat
           /\ TicksMatchStatus' /\ ChannelInv'
           /\ ReaderTypeOK' /\ ReaderInv' /\ ReadersSeePrefix'
  <1> USE DEF IInv, TypeOK
  <1>1. /\ count' = count /\ status' = status
        /\ ticks' = Append(ticks, Progress(n))
        /\ closedChans' = closedChans \cup {changed}
        /\ changed' = changed + 1
    BY DEF ReportProgress
  <1>2. count \in Nat /\ changed \in Nat /\ closedChans \in SUBSET Nat
    BY MaxCountAssumption DEF WorkerTypeOK
  <1>3. Progress(n) \in Ticks /\ ticks \in Seq(Ticks) /\ Len(ticks) \in Nat
    BY TickFacts DEF WorkerTypeOK
  <1>4. /\ ticks' \in Seq(Ticks) /\ Len(ticks') = Len(ticks) + 1
        /\ \A i \in 1 .. Len(ticks) : ticks'[i] = ticks[i]
        /\ ticks'[Len(ticks) + 1] = Progress(n)
    BY <1>1, <1>3, AppendFacts
  <1>5. TicksMatchStatus'
    <2>1. ASSUME NEW i \in 1 .. Len(ticks')
          PROVE  ticks'[i] = Progress(count - i + 1) /\ count - i + 1 > 0
      <3>1. CASE i = Len(ticks) + 1
        <4>1. count - i + 1 = n
          BY <1>2, <1>3, <3>1
        <4> QED BY <1>4, <3>1, <4>1
      <3>2. CASE i \in 1 .. Len(ticks)
        BY <1>4, <3>2 DEF TicksMatchStatus, CountdownThenSentinel
      <3> QED BY <1>3, <1>4, <3>1, <3>2
    <2> QED BY <1>1, <2>1 DEF TicksMatchStatus, CountdownThenSentinel, SentinelWithStatus
  <1>6. ChannelInv'
    BY <1>1, <1>2 DEF ChannelInv
  <1>7. ReaderTypeOK' /\ ReaderInv' /\ ReadersSeePrefix'
    BY <1>1, <1>3, AppendKeepsReaders
  <1> QED BY <1>1, <1>2, <1>4, <1>5, <1>6, <1>7

\* The job may end with the sentinel of the status it ends in.
LEMMA FinishKeeps ==
    ASSUME IInv, status = "RUNNING", Len(ticks) <= count,
           NEW s \in TerminalStatuses, Finish(s, Sentinel(s)), UNCHANGED readerVars
    PROVE  /\ ticks' \in Seq(Ticks) /\ Len(ticks') = Len(ticks) + 1
           /\ closedChans' \in SUBSET Nat
           /\ count' = count /\ changed' = changed /\ status' = s /\ wpc' = "audit"
           /\ TicksMatchStatus' /\ ChannelInv'
           /\ ReaderTypeOK' /\ ReaderInv' /\ ReadersSeePrefix'
  <1> USE DEF IInv, TypeOK
  <1>1. /\ count' = count /\ status' = s /\ s # "RUNNING"
        /\ ticks' = Append(ticks, Sentinel(s))
        /\ closedChans' = closedChans \cup {changed}
        /\ changed' = changed /\ wpc' = "audit"
    BY DEF Finish, TerminalStatuses
  <1>2. count \in Nat /\ changed \in Nat /\ closedChans \in SUBSET Nat
    BY MaxCountAssumption DEF WorkerTypeOK
  <1>3. Sentinel(s) \in Ticks /\ ticks \in Seq(Ticks) /\ Len(ticks) \in Nat
    BY TickFacts DEF WorkerTypeOK
  <1>4. /\ ticks' \in Seq(Ticks) /\ Len(ticks') = Len(ticks) + 1
        /\ \A i \in 1 .. Len(ticks) : ticks'[i] = ticks[i]
        /\ ticks'[Len(ticks) + 1] = Sentinel(s)
    BY <1>1, <1>3, AppendFacts
  <1>5. TicksMatchStatus'
    <2>1. CountdownThenSentinel'
      BY <1>1, <1>3, <1>4 DEF TicksMatchStatus, CountdownThenSentinel
    <2>2. SentinelWithStatus'
      BY <1>1, <1>3, <1>4 DEF SentinelWithStatus
    <2> QED BY <2>1, <2>2 DEF TicksMatchStatus
  <1>6. ChannelInv'
    BY <1>1, <1>2 DEF ChannelInv
  <1>7. ReaderTypeOK' /\ ReaderInv' /\ ReadersSeePrefix'
    BY <1>1, <1>3, AppendKeepsReaders
  <1> QED BY <1>1, <1>2, <1>4, <1>5, <1>6, <1>7

----------------------------------------------------------------------------
(* The steps of the worker preserve the invariant. *)

\* The countdown's first report, before its loop, keeps the invariant.
LEMMA ReportStartInv == IInv /\ ReportStart => IInv'
  <1> SUFFICES ASSUME IInv, ReportStart PROVE IInv' OBVIOUS
  <1> USE DEF IInv, TypeOK
  <1>1. /\ status = "RUNNING" /\ count \in Nat \ {0} /\ Len(ticks) = count - count
        /\ ReportProgress(Progress(count)) /\ UNCHANGED readerVars
    BY MaxCountAssumption DEF ReportStart, WorkerInv, WorkerTypeOK
  <1>2. /\ ticks' \in Seq(Ticks) /\ Len(ticks') = Len(ticks) + 1
        /\ changed' \in Nat /\ closedChans' \in SUBSET Nat
        /\ TicksMatchStatus' /\ ChannelInv'
        /\ ReaderTypeOK' /\ ReaderInv' /\ ReadersSeePrefix'
    BY <1>1, ReportKeeps
  <1>3. count' = count /\ status' = status
    BY <1>1 DEF ReportProgress
  <1>4. WorkerTypeOK' /\ StopTypeOK'
    BY <1>1, <1>2, <1>3 DEF ReportStart, WorkerTypeOK, StopTypeOK, stopVars
  <1>5. WorkerInv'
    BY <1>1, <1>2, <1>3 DEF ReportStart, WorkerInv
  <1>6. StopInv' /\ AuditInv'
    BY <1>1, <1>3 DEF ReportStart, StopInv, AuditInv, stopVars
  <1> QED BY <1>2, <1>4, <1>5, <1>6

\* A tick of the countdown that is not its last keeps the invariant.
LEMMA TimerTickInv == IInv /\ TimerTick => IInv'
  <1> SUFFICES ASSUME IInv, TimerTick PROVE IInv' OBVIOUS
  <1> USE DEF IInv, TypeOK
  <1>1. /\ status = "RUNNING" /\ currentCount \in Nat \ {0}
        /\ count \in Nat /\ Len(ticks) = count - currentCount /\ currentCount < count
        /\ ReportProgress(Progress(currentCount)) /\ UNCHANGED readerVars
    BY MaxCountAssumption, TickFacts DEF TimerTick, WorkerInv, WorkerTypeOK
  <1>2. /\ ticks' \in Seq(Ticks) /\ Len(ticks') = Len(ticks) + 1
        /\ changed' \in Nat /\ closedChans' \in SUBSET Nat
        /\ TicksMatchStatus' /\ ChannelInv'
        /\ ReaderTypeOK' /\ ReaderInv' /\ ReadersSeePrefix'
    BY <1>1, ReportKeeps
  <1>3. count' = count /\ status' = status
    BY <1>1 DEF ReportProgress
  <1>4. WorkerTypeOK' /\ StopTypeOK'
    BY <1>1, <1>2, <1>3 DEF TimerTick, WorkerTypeOK, StopTypeOK, stopVars
  <1>5. WorkerInv'
    BY <1>1, <1>2, <1>3 DEF TimerTick, WorkerInv
  <1>6. StopInv' /\ AuditInv'
    BY <1>1, <1>3 DEF TimerTick, StopInv, AuditInv, stopVars
  <1> QED BY <1>2, <1>4, <1>5, <1>6

\* What the three ways to end a running job have in common.
LEMMA EndInv ==
    ASSUME IInv, wpc \in {"start", "select"},
           NEW s \in TerminalStatuses, Finish(s, Sentinel(s)),
           s = "STOPPED" => cancelled,
           panicked' \in BOOLEAN, panicked' <=> s = "FAILED", auditLog' = auditLog,
           UNCHANGED <<finished, cancelled, currentCount, readerVars, stopVars>>
    PROVE  IInv'
  <1> USE DEF IInv, TypeOK
  <1>1. /\ status = "RUNNING" /\ Len(ticks) <= count
        /\ count \in Nat /\ Len(ticks) \in Nat
    BY MaxCountAssumption DEF WorkerInv, WorkerTypeOK
  <1>2. /\ ticks' \in Seq(Ticks) /\ Len(ticks') = Len(ticks) + 1
        /\ closedChans' \in SUBSET Nat
        /\ count' = count /\ changed' = changed /\ status' = s /\ wpc' = "audit"
        /\ TicksMatchStatus' /\ ChannelInv'
        /\ ReaderTypeOK' /\ ReaderInv' /\ ReadersSeePrefix'
    BY <1>1, FinishKeeps
  <1>3. s # "RUNNING" /\ s \in Statuses
    BY DEF TerminalStatuses, Statuses
  <1>4. WorkerTypeOK' /\ StopTypeOK'
    BY <1>2, <1>3 DEF WorkerTypeOK, StopTypeOK, stopVars
  <1>5. WorkerInv'
    BY <1>1, <1>2, <1>3 DEF WorkerInv
  <1>6. StopInv'
    BY <1>2, <1>3 DEF StopInv, WorkerInv, stopVars
  <1>7. AuditInv'
    BY <1>2 DEF AuditInv
  <1> QED BY <1>2, <1>4, <1>5, <1>6, <1>7

\* The countdown's last tick, which completes the job, keeps the invariant.
LEMMA TimerCompleteInv == IInv /\ TimerComplete => IInv'
  <1> SUFFICES ASSUME IInv, TimerComplete PROVE IInv' OBVIOUS
  <1>1. currentCount = 0 /\ wpc = "select"
    BY TickFacts DEF TimerComplete, IInv, TypeOK, WorkerTypeOK
  <1>2. "COMPLETED" \in TerminalStatuses /\ Finish("COMPLETED", Sentinel("COMPLETED"))
    BY <1>1 DEF TimerComplete, Sentinel, TerminalStatuses
  <1>3. ~ panicked /\ panicked' = panicked /\ panicked \in BOOLEAN
    BY <1>1 DEF IInv, TypeOK, WorkerTypeOK, AuditInv, TimerComplete
  <1>4. panicked' \in BOOLEAN /\ (panicked' <=> "COMPLETED" = "FAILED")
    BY <1>3
  <1>5. auditLog' = auditLog /\ UNCHANGED <<finished, cancelled, currentCount, readerVars, stopVars>>
    BY DEF TimerComplete
  <1> QED BY <1>1, <1>2, <1>4, <1>5, EndInv

\* The ctx.Done branch of countdown's select keeps the invariant.
LEMMA StopBranchInv == IInv /\ StopBranch => IInv'
  <1> SUFFICES ASSUME IInv, StopBranch PROVE IInv' OBVIOUS
  <1>1. "STOPPED" \in TerminalStatuses /\ Finish("STOPPED", Sentinel("STOPPED"))
    BY DEF StopBranch, Sentinel, TerminalStatuses
  <1>2. ~ panicked /\ panicked' = panicked /\ panicked \in BOOLEAN
    BY DEF IInv, TypeOK, WorkerTypeOK, AuditInv, StopBranch
  <1>3. panicked' \in BOOLEAN /\ (panicked' <=> "STOPPED" = "FAILED")
    BY <1>2
  <1>4. /\ wpc = "select" /\ cancelled /\ auditLog' = auditLog
        /\ UNCHANGED <<finished, cancelled, currentCount, readerVars, stopVars>>
    BY DEF StopBranch
  <1> QED BY <1>1, <1>3, <1>4, EndInv

\* A panic recovered by countdown's deferred function keeps the invariant.
LEMMA PanicInv == IInv /\ Panic => IInv'
  <1> SUFFICES ASSUME IInv, Panic PROVE IInv' OBVIOUS
  <1>1. CASE wpc \in {"start", "select"}
    <2>1. "FAILED" \in TerminalStatuses /\ Finish("FAILED", Sentinel("FAILED"))
      BY DEF Panic, Sentinel, TerminalStatuses
    <2>2. auditLog' = auditLog /\ panicked' = TRUE
      BY <1>1 DEF Panic
    <2> QED BY <1>1, <2>1, <2>2, EndInv DEF Panic
  <1>2. CASE wpc = "audit"
    <2> USE DEF IInv, TypeOK
    <2>1. /\ status \in TerminalStatuses /\ status # "RUNNING" /\ ~ panicked
          /\ auditLog = << >> /\ status # "FAILED"
      BY <1>2 DEF Panic, WorkerInv, AuditInv, WorkerTypeOK, Statuses
    <2>2. /\ UNCHANGED <<count, status, ticks, changed, closedChans>> /\ wpc' = "close"
          /\ panicked' = TRUE
          /\ UNCHANGED <<finished, cancelled, currentCount, readerVars, stopVars>>
      BY <2>1 DEF Panic, Finish
    <2>3. auditLog' = << >> \/ auditLog' = <<status>>
      BY <1>2, <2>1 DEF Panic
    <2>4. auditLog' \in Seq(TerminalStatuses)
      <3>1. << >> \in Seq(TerminalStatuses) /\ <<status>> \in Seq(TerminalStatuses)
        BY <2>1
      <3> QED BY <2>3, <3>1
    <2>5. WorkerTypeOK' /\ ReaderTypeOK' /\ StopTypeOK'
      BY <2>2, <2>4 DEF WorkerTypeOK, ReaderTypeOK, StopTypeOK, readerVars, stopVars
    <2>6. WorkerInv' /\ TicksMatchStatus' /\ ChannelInv'
      BY <1>2, <2>2 DEF WorkerInv, TicksMatchStatus, CountdownThenSentinel,
                        SentinelWithStatus, ChannelInv
    <2>7. ReaderInv' /\ ReadersSeePrefix'
      BY <2>2 DEF ReaderInv, ReadersSeePrefix, readerVars
    <2>8. StopInv' /\ AuditInv'
      BY <2>1, <2>2, <2>3 DEF StopInv, AuditInv, stopVars
    <2> QED BY <2>5, <2>6, <2>7, <2>8
  <1> QED BY <1>1, <1>2 DEF Panic

\* The worker's last steps and the cancellation publish nothing.
LEMMA QuietWorkerInv ==
    ASSUME IInv, AuditTransition \/ CloseFinished \/ ReleaseContext \/ CancelParent
    PROVE  IInv'
  <1> USE DEF IInv, TypeOK
  <1>1. UNCHANGED <<jobVars, readerVars, stopVars>>
    BY DEF AuditTransition, CloseFinished, ReleaseContext, CancelParent
  <1>2. status # "RUNNING" /\ wpc = "audit" => status \in TerminalStatuses
    BY DEF WorkerTypeOK, Statuses
  <1>3. WorkerInv'
    BY <1>1 DEF WorkerInv, jobVars, workerVars, AuditTransition, CloseFinished,
                ReleaseContext, CancelParent
  <1>4. auditLog' \in Seq(TerminalStatuses)
    BY <1>2 DEF WorkerInv, WorkerTypeOK, workerVars, AuditTransition, CloseFinished,
                ReleaseContext, CancelParent
  <1>5. finished' \in BOOLEAN /\ cancelled' \in BOOLEAN /\ panicked' \in BOOLEAN
    BY DEF WorkerTypeOK, workerVars, AuditTransition, CloseFinished,
           ReleaseContext, CancelParent
  <1>6. WorkerTypeOK'
    BY <1>1, <1>4, <1>5 DEF WorkerTypeOK, jobVars, workerVars, AuditTransition, CloseFinished,
                ReleaseContext, CancelParent
  <1>7. ReaderTypeOK' /\ StopTypeOK' /\ TicksMatchStatus' /\ ChannelInv'
    BY <1>1 DEF ReaderTypeOK, StopTypeOK, TicksMatchStatus, CountdownThenSentinel,
                SentinelWithStatus, ChannelInv, jobVars, readerVars, stopVars
  <1>8. ReaderInv' /\ ReadersSeePrefix'
    BY <1>1 DEF ReaderInv, ReadersSeePrefix, jobVars, readerVars
  <1>9. StopInv'
    BY <1>1 DEF StopInv, jobVars, stopVars, AuditTransition, CloseFinished,
                ReleaseContext, CancelParent
  <1>10. AuditInv'
    <2>1. CASE AuditTransition
      BY <1>1, <2>1 DEF AuditTransition, AuditInv, jobVars
    <2>2. CASE CloseFinished \/ ReleaseContext \/ CancelParent
      BY <1>1, <2>2 DEF CloseFinished, ReleaseContext, CancelParent, AuditInv, jobVars, workerVars
    <2> QED BY <2>1, <2>2
  <1> QED BY <1>3, <1>6, <1>7, <1>8, <1>9, <1>10

----------------------------------------------------------------------------
(* The steps of readers and stoppers preserve the invariant. *)

\* A step of a reader or a stopper leaves the worker's part alone.
LEMMA WorkerFrame ==
    ASSUME IInv, UNCHANGED <<jobVars, finished, workerVars>>,
           cancelled' \in BOOLEAN, cancelled => cancelled'
    PROVE  /\ WorkerTypeOK' /\ WorkerInv' /\ TicksMatchStatus' /\ ChannelInv'
           /\ AuditInv' /\ (status' = "STOPPED" => cancelled')
  <1> USE DEF IInv, TypeOK
  <1>1. WorkerTypeOK'
    BY DEF WorkerTypeOK, jobVars, workerVars
  <1>2. WorkerInv' /\ TicksMatchStatus' /\ ChannelInv'
    BY DEF WorkerInv, TicksMatchStatus, CountdownThenSentinel, SentinelWithStatus,
           ChannelInv, jobVars, workerVars
  <1>3. AuditInv' /\ (status' = "STOPPED" => cancelled')
    BY DEF AuditInv, StopInv, jobVars, workerVars
  <1> QED BY <1>1, <1>2, <1>3

\* One step of reader r: the invariant has to be shown for r only.
LEMMA ReaderStepInv ==
    ASSUME IInv, NEW r \in Readers,
           OpenTicks(r) \/ ReaderStep(r) \/ YieldBreak(r) \/ EndContext(r)
    PROVE  IInv'
  <1> USE DEF IInv, TypeOK
  <1>1. UNCHANGED <<jobVars, finished, cancelled, workerVars, stopVars>>
    BY DEF OpenTicks, ReaderStep, Capture, Yield, YieldBreak, WakeChanged, WakeDone, EndContext
  <1>2. /\ WorkerTypeOK' /\ WorkerInv' /\ TicksMatchStatus' /\ ChannelInv'
        /\ AuditInv' /\ (status' = "STOPPED" => cancelled')
    <2>1. cancelled' \in BOOLEAN /\ (cancelled => cancelled')
      BY <1>1 DEF WorkerTypeOK
    <2> QED BY <1>1, <2>1, WorkerFrame
  <1>3. StopTypeOK' /\ StopInv'
    BY <1>1, <1>2 DEF StopTypeOK, StopInv, stopVars, jobVars
  <1>4. ticks' = ticks /\ status' = status /\ changed' = changed /\ closedChans' = closedChans
    BY <1>1 DEF jobVars
  <1>5. ticks \in Seq(Ticks) /\ Len(ticks) \in Nat /\ changed \in Nat
    BY DEF WorkerTypeOK
  <1>6. CASE OpenTicks(r) \/ WakeChanged(r) \/ WakeDone(r) \/ EndContext(r)
    <2>1. ReaderTypeOK'
      BY <1>6 DEF ReaderTypeOK, OpenTicks, WakeChanged, WakeDone, EndContext
    <2>2. UNCHANGED <<cursor, index, wait, yielded>>
      BY <1>6 DEF OpenTicks, WakeChanged, WakeDone, EndContext
    <2>3. \A q \in Readers :
              rpc'[q] = rpc[q] \/ (rpc[q] \in {"idle", "select"} /\ rpc'[q] \in {"lock", "cancelled"})
      BY <1>6 DEF ReaderTypeOK, OpenTicks, WakeChanged, WakeDone, EndContext
    <2>4. ReaderInv'
      BY <1>4, <2>2, <2>3 DEF ReaderInv
    <2>5. ReadersSeePrefix'
      BY <1>4, <2>2, <2>3 DEF ReadersSeePrefix
    <2> QED BY <1>2, <1>3, <2>1, <2>4, <2>5
  <1>7. CASE Capture(r)
    <2>1. ReaderTypeOK'
      BY <1>5, <1>7 DEF ReaderTypeOK, WorkerTypeOK, Capture
    <2>2. ReaderInv'
      BY <1>4, <1>5, <1>7 DEF ReaderInv, ReaderTypeOK, Capture
    <2>3. ReadersSeePrefix'
      BY <1>4, <1>7 DEF ReadersSeePrefix, ReaderTypeOK, Capture
    <2> QED BY <1>2, <1>3, <2>1, <2>2, <2>3
  <1>8. CASE Yield(r) \/ YieldBreak(r)
    <2> DEFINE t == ticks[index[r]]
    <2>1. /\ index[r] \in 1 .. Len(ticks) /\ index[r] \in 1 .. cursor[r]
          /\ index[r] \in Nat /\ cursor[r] \in Nat
          /\ Len(yielded[r]) = index[r] - 1
      BY <1>5, <1>8 DEF Yield, YieldBreak, ReaderInv, ReaderTypeOK
    <2>2. t \in Ticks /\ yielded[r] \in Seq(Ticks)
      BY <1>5, <2>1 DEF ReaderTypeOK
    <2>3. /\ Append(yielded[r], t) \in Seq(Ticks)
          /\ Len(Append(yielded[r], t)) = index[r]
          /\ \A i \in 1 .. Len(yielded[r]) : Append(yielded[r], t)[i] = yielded[r][i]
          /\ Append(yielded[r], t)[index[r]] = t
      BY <2>1, <2>2, AppendFacts
    <2>4. yielded' = [yielded EXCEPT ![r] = Append(yielded[r], t)]
      BY <1>8 DEF Yield, YieldBreak
    <2>5. /\ yielded'[r] = Append(yielded[r], t)
          /\ \A q \in Readers \ {r} : yielded'[q] = yielded[q]
      BY <2>4 DEF ReaderTypeOK
    <2>6. ReaderTypeOK'
      <3>1. yielded' \in [Readers -> Seq(Ticks)]
        BY <2>3, <2>4 DEF ReaderTypeOK
      <3>2. rpc' \in [Readers -> {"idle", "lock", "yield", "select", "terminal", "broke", "cancelled"}]
        BY <1>8 DEF ReaderTypeOK, Yield, YieldBreak
      <3>3. index' \in [Readers -> Nat] /\ UNCHANGED <<cursor, wait, ctxDone>>
        BY <1>8 DEF ReaderTypeOK, Yield, YieldBreak
      <3> QED BY <3>1, <3>2, <3>3 DEF ReaderTypeOK
    <2>7. IsTerminal(t) => index[r] = Len(ticks) /\ status # "RUNNING"
      BY <2>1, TerminalIsLast
    <2>8. /\ rpc'[r] = "yield" => index[r] + 1 \in 1 .. cursor[r]
          /\ rpc'[r] = "lock" => index[r] = cursor[r]
          /\ rpc'[r] = "terminal" => IsTerminal(t)
          /\ rpc'[r] \in {"yield", "lock", "terminal", "broke"}
          /\ index'[r] = index[r] + 1 /\ cursor' = cursor /\ wait' = wait
          /\ \A q \in Readers \ {r} : rpc'[q] = rpc[q] /\ index'[q] = index[q]
      BY <1>8, <2>1 DEF Yield, YieldBreak, ReaderTypeOK
    <2>9. ReaderInv'
      <3> SUFFICES ASSUME NEW q \in Readers
                   PROVE  /\ cursor[q] <= Len(ticks)
                          /\ rpc'[q] = "idle" => cursor[q] = 0
                          /\ rpc'[q] \in {"idle", "lock", "select"} => Len(yielded'[q]) = cursor[q]
                          /\ rpc'[q] = "yield" => /\ index'[q] \in 1 .. cursor[q]
                                                  /\ Len(yielded'[q]) = index'[q] - 1
                          /\ rpc'[q] = "select" =>
                                /\ wait[q] <= changed
                                /\ wait[q] = changed /\ status = "RUNNING"
                                      => cursor[q] = Len(ticks)
        BY <1>4, <2>8 DEF ReaderInv
      <3>1. CASE q = r
        <4>1. Len(yielded'[r]) = index[r] /\ cursor[r] <= Len(ticks)
          BY <2>3, <2>5 DEF ReaderInv
        <4>2. /\ rpc'[r] = "yield" => index'[r] \in 1 .. cursor[r] /\ index[r] = index'[r] - 1
              /\ rpc'[r] = "lock" => index[r] = cursor[r]
              /\ rpc'[r] \notin {"idle", "select"}
          BY <2>1, <2>8
        <4> QED BY <3>1, <4>1, <4>2
      <3>2. CASE q # r
        BY <2>5, <2>8, <3>2 DEF ReaderInv
      <3> QED BY <3>1, <3>2
    <2>10. ReadersSeePrefix'
      <3> SUFFICES ASSUME NEW q \in Readers
                   PROVE  /\ Len(yielded'[q]) <= Len(ticks)
                          /\ \A i \in 1 .. Len(yielded'[q]) : yielded'[q][i] = ticks[i]
                          /\ rpc'[q] = "terminal" =>
                                status # "RUNNING" /\ Len(yielded'[q]) = Len(ticks)
        BY <1>4 DEF ReadersSeePrefix
      <3>1. CASE q = r
        <4>1. \A i \in 1 .. index[r] : yielded'[r][i] = ticks[i]
          BY <2>1, <2>3, <2>5 DEF ReadersSeePrefix
        <4>2. Len(yielded'[r]) = index[r] /\ index[r] <= Len(ticks)
          BY <2>1, <2>3, <2>5
        <4>3. rpc'[r] = "terminal" => status # "RUNNING" /\ index[r] = Len(ticks)
          BY <2>7, <2>8
        <4> QED BY <3>1, <4>1, <4>2, <4>3
      <3>2. CASE q # r
        BY <2>5, <2>8, <3>2 DEF ReadersSeePrefix
      <3> QED BY <3>1, <3>2
    <2> QED BY <1>2, <1>3, <2>6, <2>9, <2>10
  <1> QED BY <1>6, <1>7, <1>8 DEF ReaderStep

\* What a Stop call does after it has cancelled keeps the invariant.
LEMMA StopStepInv ==
    ASSUME IInv, NEW s \in Stoppers, StopCancel(s) \/ StopStep(s)
    PROVE  IInv'
  <1> USE DEF IInv, TypeOK
  <1>1. UNCHANGED <<jobVars, finished, workerVars, readerVars>>
    BY DEF StopCancel, StopStep, StopWait, StopReturn
  <1>2. cancelled' \in BOOLEAN /\ (cancelled => cancelled')
    BY DEF StopCancel, StopStep, StopWait, StopReturn, WorkerTypeOK
  <1>3. /\ WorkerTypeOK' /\ WorkerInv' /\ TicksMatchStatus' /\ ChannelInv'
        /\ AuditInv' /\ (status' = "STOPPED" => cancelled')
    BY <1>1, <1>2, WorkerFrame
  <1>4. ReaderTypeOK' /\ ReaderInv' /\ ReadersSeePrefix'
    BY <1>1 DEF ReaderTypeOK, ReaderInv, ReadersSeePrefix, readerVars, jobVars
  <1>5. StopTypeOK'
    BY DEF StopTypeOK, WorkerTypeOK, StopCancel, StopStep, StopWait, StopReturn
  <1>6. StopInv'
    BY <1>1, <1>3 DEF StopInv, StopTypeOK, jobVars, StopCancel, StopStep, StopWait, StopReturn
  <1> QED BY <1>3, <1>4, <1>5, <1>6

\* Every step preserves the invariant.
LEMMA NextInv == IInv /\ [Next]_vars => IInv'
  <1> SUFFICES ASSUME IInv, [Next]_vars PROVE IInv' OBVIOUS
  <1>1. CASE WorkerStep \/ Panic \/ CancelParent
    BY <1>1, ReportStartInv, TimerTickInv, TimerCompleteInv, StopBranchInv, PanicInv,
       QuietWorkerInv DEF WorkerStep
  <1>2. ASSUME NEW r \in Readers,
               OpenTicks(r) \/ ReaderStep(r) \/ YieldBreak(r) \/ EndContext(r)
        PROVE  IInv'
    BY <1>2, ReaderStepInv
  <1>3. ASSUME NEW s \in Stoppers, StopCancel(s) \/ StopStep(s)
        PROVE  IInv'
    BY <1>3, StopStepInv
  <1>4. CASE UNCHANGED vars
    <2> USE DEF IInv, TypeOK
    <2>1. UNCHANGED <<jobVars, finished, cancelled, workerVars, readerVars, stopVars>>
      BY <1>4 DEF vars
    <2>2. cancelled' \in BOOLEAN /\ (cancelled => cancelled')
      BY <2>1 DEF WorkerTypeOK
    <2>3. /\ WorkerTypeOK' /\ WorkerInv' /\ TicksMatchStatus' /\ ChannelInv'
          /\ AuditInv' /\ (status' = "STOPPED" => cancelled')
      BY <2>1, <2>2, WorkerFrame
    <2>4. ReaderTypeOK' /\ ReaderInv' /\ ReadersSeePrefix'
      BY <2>1 DEF ReaderTypeOK, ReaderInv, ReadersSeePrefix, readerVars, jobVars
    <2>5. StopTypeOK' /\ StopInv'
      BY <2>1, <2>3 DEF StopTypeOK, StopInv, stopVars, jobVars
    <2> QED BY <2>3, <2>4, <2>5
  <1> QED BY <1>1, <1>2, <1>3, <1>4 DEF Next

\* The invariant holds in every behaviour of the job.
THEOREM Invariance == Spec => []IInv
  BY InitInv, NextInv, PTL DEF Spec

----------------------------------------------------------------------------
(* The properties the runs check, for every value of the constants. *)

\* The type invariant of the job, its readers and its stoppers.
THEOREM TypeCorrect == Spec => []TypeOK
  BY Invariance, PTL DEF IInv

\* The countdown and its one sentinel always match the status.
THEOREM SentinelCorrect == Spec => []TicksMatchStatus
  BY Invariance, PTL DEF IInv

\* Every reader sees a prefix of the ticks, and all of them before it ends.
THEOREM ReplayCorrect == Spec => []ReadersSeePrefix
  BY Invariance, PTL DEF IInv

\* append never moves the array, and readers stay inside what they captured.
THEOREM SliceCorrect == Spec => []ReadsStayInCapturedSlice
  <1>1. IInv => ReadsStayInCapturedSlice
    BY DEF IInv, WorkerInv, ReaderInv, ReadsStayInCapturedSlice
  <1> QED BY <1>1, Invariance, PTL

\* The wake-up between a reader's unlock and its select is never lost.
THEOREM WakeupCorrect == Spec => []NoLostWakeup
  <1>1. IInv => NoLostWakeup
    <2> SUFFICES ASSUME IInv, NEW r \in Readers,
                        rpc[r] = "select", wait[r] \notin closedChans
                 PROVE  status = "RUNNING" /\ wait[r] = changed /\ Len(yielded[r]) = Len(ticks)
      BY DEF NoLostWakeup
    <2>1. wait[r] \in Nat /\ changed \in Nat /\ wait[r] <= changed
      BY DEF IInv, TypeOK, ReaderTypeOK, WorkerTypeOK, ReaderInv
    <2>2. wait[r] = changed /\ status = "RUNNING"
      BY <2>1 DEF IInv, ChannelInv
    <2> QED BY <2>2 DEF IInv, ReaderInv
  <1> QED BY <1>1, Invariance, PTL

\* No channel is closed twice.
THEOREM ChannelCorrect == Spec => []ChangedOpenWhileRunning
  <1>1. IInv => ChangedOpenWhileRunning
    BY DEF IInv, TypeOK, WorkerTypeOK, ChannelInv, ChangedOpenWhileRunning
  <1> QED BY <1>1, Invariance, PTL

\* Concurrent Stop calls agree on the status the job ended with.
THEOREM StopCorrect == Spec => []StopsAgree
  <1>1. IInv => StopsAgree
    BY DEF IInv, StopInv, WorkerInv, StopsAgree
  <1> QED BY <1>1, Invariance, PTL

\* The end of the job is logged once, under its status.
THEOREM AuditCorrect == Spec => []AuditedOnce
  <1>1. IInv => AuditedOnce
    <2> SUFFICES ASSUME IInv PROVE AuditedOnce OBVIOUS
    <2>1. wpc \in {"start", "select", "audit", "close", "cancel", "done"}
      BY DEF IInv, TypeOK, WorkerTypeOK
    <2>2. auditLog = << >> \/ auditLog = <<status>>
      BY <2>1 DEF IInv, AuditInv
    <2>3. finished /\ (panicked => status = "FAILED") => auditLog = <<status>>
      BY DEF IInv, WorkerInv, AuditInv
    <2> QED BY <2>2, <2>3 DEF AuditedOnce
  <1> QED BY <1>1, Invariance, PTL

----------------------------------------------------------------------------
(* What a step may do to what was published, and the refinement. *)

\* A step either leaves the published ticks and the status alone, or appends
\* one tick while the job runs.
LEMMA TicksStep ==
    ASSUME IInv, [Next]_vars
    PROVE  \/ ticks' = ticks /\ status' = status
           \/ status = "RUNNING" /\ \E t \in Ticks : ticks' = Append(ticks, t)
  <1>1. CASE ReportStart \/ TimerTick
    <2>1. status = "RUNNING"
      BY <1>1 DEF IInv, WorkerInv, ReportStart, TimerTick
    <2>2. count \in Nat /\ currentCount \in Nat
      BY MaxCountAssumption DEF IInv, TypeOK, WorkerTypeOK
    <2>3. Progress(count) \in Ticks /\ Progress(currentCount) \in Ticks
      BY <2>2, TickFacts
    <2> QED BY <1>1, <2>1, <2>3 DEF ReportStart, TimerTick, ReportProgress
  <1>2. CASE TimerComplete \/ StopBranch \/ Panic
    <2>1. currentCount \in Nat
      BY DEF IInv, TypeOK, WorkerTypeOK
    <2>2. Progress(currentCount) \in Ticks /\ Stopped \in Ticks /\ PanicError \in Ticks
      BY <2>1, TickFacts
    <2> QED BY <1>2, <2>2 DEF TimerComplete, StopBranch, Panic, Finish
  <1>3. CASE AuditTransition \/ CloseFinished \/ ReleaseContext \/ CancelParent
    BY <1>3 DEF AuditTransition, CloseFinished, ReleaseContext, CancelParent, jobVars
  <1>4. CASE \E r \in Readers : OpenTicks(r) \/ ReaderStep(r) \/ YieldBreak(r) \/ EndContext(r)
    BY <1>4 DEF OpenTicks, ReaderStep, Capture, Yield, YieldBreak, WakeChanged, WakeDone,
                EndContext, jobVars
  <1>5. CASE \E s \in Stoppers : StopCancel(s) \/ StopStep(s)
    BY <1>5 DEF StopCancel, StopStep, StopWait, StopReturn, jobVars
  <1>6. CASE UNCHANGED vars
    BY <1>6 DEF vars, jobVars
  <1> QED BY <1>1, <1>2, <1>3, <1>4, <1>5, <1>6 DEF Next, WorkerStep

\* Published ticks stay, and a terminal status freezes them.
THEOREM PublishedCorrect == Spec => PublishedIsFinal
  <1>1. IInv /\ [Next]_vars =>
            [ /\ Len(ticks') >= Len(ticks)
              /\ \A i \in 1 .. Len(ticks) : ticks'[i] = ticks[i]
              /\ status # "RUNNING" => status' = status /\ ticks' = ticks ]_vars
    <2> SUFFICES ASSUME IInv, [Next]_vars
                 PROVE  /\ Len(ticks') >= Len(ticks)
                        /\ \A i \in 1 .. Len(ticks) : ticks'[i] = ticks[i]
                        /\ status # "RUNNING" => status' = status /\ ticks' = ticks
      OBVIOUS
    <2>1. ticks \in Seq(Ticks) /\ Len(ticks) \in Nat
      BY DEF IInv, TypeOK, WorkerTypeOK
    <2>2. CASE ticks' = ticks /\ status' = status
      BY <2>1, <2>2
    <2>3. CASE status = "RUNNING" /\ \E t \in Ticks : ticks' = Append(ticks, t)
      BY <2>1, <2>3, AppendFacts
    <2> QED BY <2>2, <2>3, TicksStep
  <1> QED BY <1>1, Invariance, PTL DEF Spec, PublishedIsFinal

\* A job that NewJob has just returned is a feed nobody has read yet.
LEMMA FeedInit == Init => Feed!Init
  BY MaxCountAssumption DEF Init, Feed!Init, rangeOutcome

\* Publications map to Publish.
LEMMA FeedPublish ==
    ASSUME IInv, ReportStart \/ TimerTick
    PROVE  Feed!Publish
  <1>1. /\ status = "RUNNING" /\ count \in Nat \ {0} /\ Len(ticks) \in Nat
        /\ UNCHANGED <<readerVars, stopVars>>
    BY MaxCountAssumption
    DEF IInv, TypeOK, WorkerTypeOK, WorkerInv, ReportStart, TimerTick
  <1>2. PICK n \in Nat : n > 0 /\ n = count - Len(ticks) /\ ReportProgress(Progress(n))
    <2>1. CASE ReportStart
      <3>1. count = count - Len(ticks) /\ ReportProgress(Progress(count))
        BY <1>1, <2>1 DEF IInv, WorkerInv, ReportStart
      <3> QED BY <1>1, <3>1
    <2>2. CASE TimerTick
      <3>1. currentCount \in Nat /\ currentCount # 0
        BY <2>2, TickFacts DEF IInv, TypeOK, WorkerTypeOK, TimerTick
      <3>2. currentCount = count - Len(ticks) /\ ReportProgress(Progress(currentCount))
        BY <1>1, <2>2, <3>1 DEF IInv, WorkerInv, TimerTick
      <3> QED BY <3>1, <3>2
    <2> QED BY <2>1, <2>2
  <1>3. /\ ticks' = Append(ticks, Progress(count - Len(ticks)))
        /\ count' = count /\ status' = status /\ Len(ticks) < count
    BY <1>1, <1>2 DEF ReportProgress
  <1> QED BY <1>1, <1>3 DEF Feed!Publish, Feed!Progress, Progress, rangeOutcome, readerVars, stopVars

\* The end of the job maps to End, and a panic out of the log to a stutter.
LEMMA FeedEnd ==
    ASSUME IInv, TimerComplete \/ StopBranch \/ Panic
    PROVE  (\E s \in TerminalStatuses : Feed!End(s)) \/ UNCHANGED Feed!feedVars
  <1>1. UNCHANGED <<readerVars, stopVars>>
    BY DEF TimerComplete, StopBranch, Panic
  <1>2. CASE status # "RUNNING"
    BY <1>1, <1>2
    DEF TimerComplete, StopBranch, Panic, Finish, Feed!feedVars, rangeOutcome, readerVars, stopVars
  <1>3. CASE status = "RUNNING"
    <2>1. PICK s \in TerminalStatuses :
              Finish(s, Sentinel(s)) /\ (s = "COMPLETED" => Len(ticks) = count)
      <3>1. CASE TimerComplete
        <4>1. currentCount = 0 /\ count \in Nat
          BY <3>1, TickFacts, MaxCountAssumption DEF TimerComplete, IInv, TypeOK, WorkerTypeOK
        <4>2. Len(ticks) = count
          BY <3>1, <4>1 DEF TimerComplete, IInv, WorkerInv
        <4>3. Finish("COMPLETED", Sentinel("COMPLETED"))
          BY <3>1, <4>1 DEF TimerComplete, Sentinel
        <4> QED BY <4>2, <4>3 DEF TerminalStatuses
      <3>2. CASE StopBranch
        <4>1. Finish("STOPPED", Sentinel("STOPPED"))
          BY <3>2 DEF StopBranch, Sentinel
        <4> QED BY <4>1 DEF TerminalStatuses
      <3>3. CASE Panic
        <4>1. Finish("FAILED", Sentinel("FAILED"))
          BY <3>3 DEF Panic, Sentinel
        <4> QED BY <4>1 DEF TerminalStatuses
      <3> QED BY <3>1, <3>2, <3>3
    <2>2. Feed!End(s)
      BY <1>1, <1>3, <2>1 DEF Finish, Feed!End, rangeOutcome, readerVars, stopVars, Sentinel,
                              Feed!Sentinel, Progress, Feed!Progress, Stopped, Feed!Stopped,
                              PanicError, Feed!PanicError
    <2> QED BY <2>1, <2>2
  <1> QED BY <1>2, <1>3

\* A yielded tick maps to Give, a reader that gives up to Leave, and its other
\* steps to stutters.
LEMMA FeedReader ==
    ASSUME IInv, NEW r \in Readers,
           OpenTicks(r) \/ ReaderStep(r) \/ YieldBreak(r) \/ EndContext(r)
    PROVE  Feed!Give(r) \/ Feed!Leave(r) \/ UNCHANGED Feed!feedVars
  <1>1. UNCHANGED <<count, status, ticks, result>>
    BY DEF OpenTicks, ReaderStep, Capture, Yield, YieldBreak, WakeChanged, WakeDone, EndContext,
           jobVars, stopVars
  <1>2. CASE OpenTicks(r) \/ Capture(r) \/ WakeChanged(r) \/ EndContext(r)
    <2>1. yielded' = yielded /\ rangeOutcome' = rangeOutcome
      BY <1>2 DEF IInv, TypeOK, ReaderTypeOK, OpenTicks, Capture, WakeChanged, EndContext,
                  rangeOutcome
    <2> QED BY <1>1, <2>1 DEF Feed!feedVars
  <1>3. CASE WakeDone(r)
    <2>1. /\ rangeOutcome[r] = "open" /\ yielded' = yielded
          /\ rangeOutcome' = [rangeOutcome EXCEPT ![r] = "left"]
      BY <1>3 DEF IInv, TypeOK, ReaderTypeOK, WakeDone, rangeOutcome
    <2> QED BY <1>1, <2>1 DEF Feed!Leave
  <1>4. CASE Yield(r) \/ YieldBreak(r)
    <2>1. /\ index[r] \in Nat /\ index[r] <= Len(ticks) /\ Len(yielded[r]) \in Nat
          /\ Len(yielded[r]) + 1 = index[r] /\ Len(ticks) \in Nat
      BY <1>4 DEF IInv, TypeOK, ReaderTypeOK, WorkerTypeOK, ReaderInv, Yield, YieldBreak
    <2>2. yielded' = [yielded EXCEPT ![r] = Append(@, ticks[Len(@) + 1])]
      BY <1>4, <2>1 DEF Yield, YieldBreak
    <2>3. rangeOutcome[r] = "open"
      BY <1>4 DEF Yield, YieldBreak, rangeOutcome
    <2>4. \/ rangeOutcome' = [rangeOutcome EXCEPT ![r] = IF IsTerminal(ticks[index[r]])
                                                         THEN "complete" ELSE "open"]
          \/ rangeOutcome' = [rangeOutcome EXCEPT ![r] = "left"]
      <3>1. CASE Yield(r)
        BY <3>1 DEF IInv, TypeOK, ReaderTypeOK, Yield, rangeOutcome
      <3>2. CASE YieldBreak(r)
        BY <3>2 DEF IInv, TypeOK, ReaderTypeOK, YieldBreak, rangeOutcome
      <3> QED BY <1>4, <3>1, <3>2
    <2> QED BY <1>1, <2>1, <2>2, <2>3, <2>4 DEF Feed!Give, Feed!IsTerminal, IsTerminal
  <1> QED BY <1>2, <1>3, <1>4 DEF ReaderStep

\* The return of a Stop call maps to Answer.
LEMMA FeedStop ==
    ASSUME IInv, NEW s \in Stoppers, StopCancel(s) \/ StopStep(s)
    PROVE  Feed!Answer(s) \/ UNCHANGED Feed!feedVars
  <1>1. UNCHANGED <<count, status, ticks, yielded, rpc>>
    BY DEF StopCancel, StopStep, StopWait, StopReturn, jobVars, readerVars
  <1>2. CASE StopCancel(s) \/ StopWait(s)
    BY <1>1, <1>2 DEF StopCancel, StopWait, Feed!feedVars, rangeOutcome
  <1>3. CASE StopReturn(s)
    <2>1. status # "RUNNING"
      BY <1>3 DEF StopReturn, IInv, StopInv, WorkerInv
    <2>2. result[s] = "NONE"
      BY <1>3 DEF StopReturn, IInv, StopInv
    <2> QED BY <1>1, <1>3, <2>1, <2>2 DEF StopReturn, Feed!Answer, rangeOutcome
  <1> QED BY <1>2, <1>3 DEF StopStep

\* Every step of the job is a step of the feed or leaves it alone.
LEMMA FeedNext == IInv /\ [Next]_vars => [Feed!Next]_(Feed!feedVars)
  <1> SUFFICES ASSUME IInv, [Next]_vars PROVE [Feed!Next]_(Feed!feedVars) OBVIOUS
  <1>1. CASE ReportStart \/ TimerTick
    BY <1>1, FeedPublish DEF Feed!Next
  <1>2. CASE TimerComplete \/ StopBranch \/ Panic
    BY <1>2, FeedEnd DEF Feed!Next, Feed!TerminalStatuses, TerminalStatuses
  <1>3. CASE AuditTransition \/ CloseFinished \/ ReleaseContext \/ CancelParent
    BY <1>3 DEF AuditTransition, CloseFinished, ReleaseContext, CancelParent,
                Feed!feedVars, rangeOutcome, jobVars, readerVars, stopVars
  <1>4. CASE \E r \in Readers : OpenTicks(r) \/ ReaderStep(r) \/ YieldBreak(r) \/ EndContext(r)
    BY <1>4, FeedReader DEF Feed!Next
  <1>5. CASE \E s \in Stoppers : StopCancel(s) \/ StopStep(s)
    BY <1>5, FeedStop DEF Feed!Next
  <1>6. CASE UNCHANGED vars
    BY <1>6 DEF vars, jobVars, readerVars, stopVars, Feed!feedVars, rangeOutcome
  <1> QED BY <1>1, <1>2, <1>3, <1>4, <1>5, <1>6 DEF Next, WorkerStep

\* The goroutines, locks and channels of job.go implement the feed.
THEOREM FeedCorrect == Spec => ImplementsFeed
  BY Invariance, FeedInit, FeedNext, PTL DEF Spec, ImplementsFeed, Feed!Spec

----------------------------------------------------------------------------
(* The job as its owner sees it. *)

\* The worker's end, its deferred calls, and whoever cancels the context: each
\* maps to the step of JobLife of the same kind, or to a stutter.
LEMMA LifeNext == IInv /\ [Next]_vars => [Life!Next]_(Life!lifeVars)
  <1> SUFFICES ASSUME IInv, [Next]_vars PROVE [Life!Next]_(Life!lifeVars) OBVIOUS
  <1>0. cancelled \in BOOLEAN /\ finished \in BOOLEAN
    BY DEF IInv, TypeOK, WorkerTypeOK
  <1>1. CASE TimerComplete \/ StopBranch \/ Panic
    <2>1. UNCHANGED <<cancelled, finished>>
      BY <1>1 DEF TimerComplete, StopBranch, Panic
    <2>2. CASE status # "RUNNING"
      BY <1>1, <2>1, <2>2 DEF TimerComplete, StopBranch, Panic, Finish, Life!lifeVars
    <2>3. CASE status = "RUNNING"
      <3>1. PICK s \in TerminalStatuses : status' = s /\ (s = "STOPPED" => cancelled)
        BY <1>1, <2>3 DEF TimerComplete, StopBranch, Panic, Finish, TerminalStatuses
      <3>2. Life!End(s)
        BY <2>1, <2>3, <3>1 DEF Life!End
      <3> QED BY <3>2 DEF Life!Next, Life!Work, Life!TerminalStatuses, TerminalStatuses
    <2> QED BY <2>2, <2>3
  <1>2. CASE CloseFinished
    <2>1. status # "RUNNING" /\ ~ finished
      BY <1>2 DEF CloseFinished, IInv, WorkerInv
    <2>2. Life!Close
      BY <1>2, <2>1 DEF CloseFinished, jobVars, Life!Close
    <2> QED BY <2>2 DEF Life!Next, Life!Work
  <1>3. CASE ReleaseContext \/ CancelParent \/ \E s \in Stoppers : StopCancel(s)
    <2>1. cancelled' = TRUE /\ UNCHANGED <<status, finished>>
      BY <1>3 DEF ReleaseContext, CancelParent, StopCancel, jobVars
    <2>2. CASE cancelled
      BY <1>0, <2>1, <2>2 DEF Life!lifeVars
    <2>3. CASE ~ cancelled
      BY <2>1, <2>3 DEF Life!Cancel, Life!Next
    <2> QED BY <2>2, <2>3
  <1>4. CASE \/ ReportStart \/ TimerTick \/ AuditTransition
             \/ \E r \in Readers : OpenTicks(r) \/ ReaderStep(r) \/ YieldBreak(r) \/ EndContext(r)
             \/ \E s \in Stoppers : StopStep(s)
             \/ UNCHANGED vars
    BY <1>4 DEF ReportStart, TimerTick, ReportProgress, AuditTransition, OpenTicks, ReaderStep,
                Capture, Yield, YieldBreak, WakeChanged, WakeDone, EndContext, StopStep, StopWait,
                StopReturn, vars, jobVars, Life!lifeVars
  <1> QED BY <1>1, <1>2, <1>3, <1>4 DEF Next, WorkerStep

\* The safety half of ImplementsLife: to its owner the job ends once, STOPPED
\* only behind a cancellation, and closes finished only behind its status.
THEOREM LifeCorrect == Spec => Life!Spec
  <1>1. Init => Life!Init
    BY DEF Init, Life!Init
  <1> QED BY <1>1, Invariance, LifeNext, PTL DEF Spec, Life!Spec
=============================================================================
