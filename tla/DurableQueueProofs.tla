-------------------------- MODULE DurableQueueProofs --------------------------
(***************************************************************************)
(* Proofs about DurableQueue, for any number of jobs and workers, all      *)
(* lease, heartbeat and lock times the assumption admits, and any number   *)
(* of failures.                                                            *)
(***************************************************************************)
EXTENDS DurableQueue, Integers, TLAPS

-----------------------------------------------------------------------------
(* Types                                                                    *)

LEMMA InitTypeOK == Init => TypeOK
BY ConstantsAssumption DEF Init, TypeOK, JobStatus, Busy, Hazard

\* Spending one failure leaves a natural number of them.
LEMMA SpendType ==
    ASSUME TypeOK, NEW hazard \in Hazard, Spend(hazard)
    PROVE  budget' \in [Hazard -> Nat]
BY DEF TypeOK, Spend

\* A busy worker has a job to be busy with.
LEMMA BusyTask ==
    ASSUME TypeOK, NEW w \in Workers, pc[w] \in Busy
    PROVE  task[w] \in Jobs
BY DEF TypeOK

LEMMA DownType ==
    ASSUME NEW m \in Nat, NEW n \in 0..m
    PROVE  Down(n) \in 0..m /\ Down(n) = IF n = 0 THEN 0 ELSE n - 1
BY DEF Down

\* What settling a job leaves of its row.
LEMMA SettleType ==
    ASSUME TypeOK, NEW j \in Jobs, NEW s \in JobStatus, NEW wait \in Nat, Settle(j, s, wait)
    PROVE  /\ status' \in [Jobs -> JobStatus]
           /\ leasedBy' \in [Jobs -> Workers \cup {NoWorker}]
           /\ leaseLeft' \in [Jobs -> 0..LeaseTicks]
           /\ delay' \in [Jobs -> Nat]
BY ConstantsAssumption DEF TypeOK, Settle

LEMMA GoIdleType ==
    ASSUME TypeOK, NEW w \in Workers, GoIdle(w)
    PROVE  /\ pc' \in [Workers -> Busy \cup {"idle"}]
           /\ task' \in [Workers -> Jobs \cup {NoJob}]
           /\ \A v \in Workers : pc'[v] \in Busy <=> task'[v] # NoJob
BY DEF TypeOK, GoIdle, Busy

\* The retry delay is a number, whatever the attempts.
LEMMA RetryDelayType == ASSUME TypeOK, NEW j \in Jobs PROVE RetryDelay(j) \in Nat
<1>1. attempts[j] \in Nat
  BY ConstantsAssumption DEF TypeOK
<1>2. (IF attempts[j] < 6 THEN attempts[j] ELSE 6) \in 0..6
  BY <1>1
<1>3. ASSUME NEW n \in 0..6 PROVE 2 ^ n \in Nat
  <2>1. n \in {0, 1, 2, 3, 4, 5, 6}
    OBVIOUS
  <2>2. /\ 2 ^ 0 \in Nat /\ 2 ^ 1 \in Nat /\ 2 ^ 2 \in Nat /\ 2 ^ 3 \in Nat
        /\ 2 ^ 4 \in Nat /\ 2 ^ 5 \in Nat /\ 2 ^ 6 \in Nat
    OBVIOUS
  <2> QED
    BY <2>1, <2>2
<1> QED
  BY <1>2, <1>3, ConstantsAssumption DEF RetryDelay

\* A job that is not settled has an attempt left: without it TypeOK's bound of
\* the attempts is not inductive.
AttemptsLeft == \A j \in Jobs : ~Settled(j) => attempts[j] < MaxAttempts

\* Every step keeps the queue, the locks and the workers in their types.
LEMMA NextTypeOK == TypeOK /\ AttemptsLeft /\ [Next]_vars => TypeOK'
<1> SUFFICES ASSUME TypeOK, AttemptsLeft, [Next]_vars PROVE TypeOK'
    OBVIOUS
<1> USE ConstantsAssumption
<1>1. ASSUME NEW j \in Jobs, Enqueue(j) PROVE TypeOK'
  BY <1>1 DEF Enqueue, TypeOK, JobStatus, lockVars, workerVars
<1>2. ASSUME NEW j \in Jobs, CancelWaiting(j) PROVE TypeOK'
  <2>1. delay[j] \in Nat /\ "dead_letter" \in JobStatus /\ "cancel" \in Hazard
    BY DEF TypeOK, JobStatus, Hazard
  <2> QED
    BY <1>2, <2>1, SettleType, SpendType DEF CancelWaiting, TypeOK, lockVars, workerVars
<1>3. ASSUME NEW w \in Workers, NEW j \in Jobs, Claim(w, j) PROVE TypeOK'
  BY <1>3 DEF Claim, TypeOK, JobStatus, Busy, lockVars
<1>4. ASSUME NEW w \in Workers, EnterHandler(w) \/ RefusedLock(w) PROVE TypeOK'
  <2>1. pc[w] \in Busy /\ task[w] \in Jobs
    BY <1>4, BusyTask DEF EnterHandler, RefusedLock, Busy
  <2> QED
    BY <1>4, <2>1 DEF EnterHandler, RefusedLock, TypeOK, Busy, jobVars, lockVars
<1>5. ASSUME NEW w \in Workers, HandlerReturns(w) \/ HandlerThrows(w) \/ HandlerDefers(w)
      PROVE  TypeOK'
  <2>1. PICK next \in {"succeeding", "failing", "deferring"} : LeaveHandler(w, next)
    BY <1>5 DEF HandlerReturns, HandlerThrows, HandlerDefers
  <2>2. task[w] \in Jobs
    BY <2>1, BusyTask DEF LeaveHandler, Busy
  <2>3. /\ lockOwner' \in [Jobs -> Workers \cup {NoWorker}]
        /\ lockLeft' \in [Jobs -> 0..LockTicks]
    BY <2>1, <2>2 DEF LeaveHandler, ReleaseLock, lockVars, TypeOK
  <2>4. /\ pc' \in [Workers -> Busy \cup {"idle"}]
        /\ \A v \in Workers : pc'[v] \in Busy <=> task'[v] # NoJob
    BY <2>1, <2>2 DEF LeaveHandler, TypeOK, Busy
  <2>5. handled' \in [Jobs -> BOOLEAN] /\ budget' \in [Hazard -> Nat]
    BY <1>5, <2>2, SpendType DEF HandlerReturns, HandlerThrows, HandlerDefers, TypeOK, Hazard
  <2> QED
    BY <2>1, <2>3, <2>4, <2>5 DEF LeaveHandler, TypeOK
<1>6. ASSUME NEW w \in Workers,
             Complete(w) \/ Fail(w) \/ Defer(w) \/ CompleteTooLate(w) \/ SettleTooLate(w)
      PROVE  TypeOK'
  <2>1. task[w] \in Jobs /\ {"succeeded", "dead_letter", "failed", "queued"} \subseteq JobStatus
    BY <1>6, BusyTask
       DEF Complete, Fail, Defer, CompleteTooLate, SettleTooLate, Busy, JobStatus
  <2>2. CASE Complete(w)
    BY <2>1, <2>2, SettleType, GoIdleType DEF Complete, TypeOK, lockVars
  <2>3. CASE Fail(w)
    <3>1. attempts[task[w]] < MaxAttempts
      BY <2>1, <2>3 DEF Fail, HoldsLease, AttemptsLeft, Settled
    <3>2. attempts' \in [Jobs -> 0..MaxAttempts]
      BY <2>1, <2>3, <3>1 DEF Fail, TypeOK
    <3> QED
      BY <2>1, <2>3, <3>2, SettleType, GoIdleType, RetryDelayType DEF Fail, TypeOK, lockVars
  <2>4. CASE Defer(w)
    BY <2>1, <2>4, SettleType, GoIdleType DEF Defer, TypeOK, lockVars
  <2>5. CASE CompleteTooLate(w)
    BY <2>1, <2>5 DEF CompleteTooLate, TypeOK, Busy, jobVars, lockVars
  <2>6. CASE SettleTooLate(w)
    BY <2>1, <2>6, GoIdleType DEF SettleTooLate, TypeOK, jobVars, lockVars
  <2> QED
    BY <1>6, <2>2, <2>3, <2>4, <2>5, <2>6
<1>7. ASSUME NEW w \in Workers, Heartbeat(w) PROVE TypeOK'
  <2>1. task[w] \in Jobs
    BY <1>7, BusyTask DEF Heartbeat
  <2> QED
    BY <1>7, <2>1 DEF Heartbeat, TypeOK, lockVars
<1>8. ASSUME NEW w \in Workers, Stall(w) \/ Wake(w) PROVE TypeOK'
  <2>1. budget' \in [Hazard -> Nat]
    BY <1>8, SpendType DEF Stall, Wake, Hazard, TypeOK
  <2>2. /\ stalled' \in [Workers -> BOOLEAN] /\ steady' \in [Workers -> BOOLEAN]
        /\ UNCHANGED <<jobVars, lockVars, pc, task, beat, held>>
    BY <1>8 DEF Stall, Wake, TypeOK
  <2> QED
    BY <2>1, <2>2 DEF TypeOK, jobVars, lockVars
<1>9. ASSUME NEW w \in Workers, Crash(w) PROVE TypeOK'
  <2>1. budget' \in [Hazard -> Nat]
    BY <1>9, SpendType DEF Crash, Hazard
  <2> QED
    BY <1>9, <2>1, GoIdleType DEF Crash, TypeOK
<1>10. CASE Tick
  <2>1. /\ leaseLeft' \in [Jobs -> 0..LeaseTicks]
        /\ lockLeft' \in [Jobs -> 0..LockTicks]
        /\ beat' \in [Workers -> 0..HeartbeatTicks]
    BY <1>10, DownType DEF Tick, TypeOK
  <2>2. delay' \in [Jobs -> Nat]
    BY <1>10 DEF Tick, TypeOK, Down
  <2>3. held' \in [Workers -> 0..LockTicks]
    BY <1>10 DEF Tick, TypeOK
  <2>4. lockOwner' \in [Jobs -> Workers \cup {NoWorker}]
    BY <1>10 DEF Tick, TypeOK
  <2> QED
    BY <1>10, <2>1, <2>2, <2>3, <2>4 DEF Tick, TypeOK
<1>11. CASE UNCHANGED vars
  BY <1>11 DEF vars, jobVars, lockVars, workerVars, TypeOK
<1> QED
  BY <1>1, <1>2, <1>3, <1>4, <1>5, <1>6, <1>7, <1>8, <1>9, <1>10, <1>11
     DEF Next, WorkerStep, PollEmpty

\* Failing a job for the last time settles it.
LEMMA NextAttemptsLeft == TypeOK /\ AttemptsLeft /\ [Next]_vars => AttemptsLeft'
<1> SUFFICES ASSUME TypeOK, AttemptsLeft, [Next]_vars PROVE AttemptsLeft'
    OBVIOUS
<1>1. ASSUME NEW w \in Workers, Fail(w) PROVE AttemptsLeft'
  <2>1. task[w] \in Jobs /\ attempts[task[w]] \in Nat /\ MaxAttempts \in Nat
    BY <1>1, BusyTask, ConstantsAssumption DEF Fail, Busy, TypeOK
  <2>2. CASE Exhausted(task[w])
    BY <1>1, <2>1, <2>2 DEF Fail, Settle, AttemptsLeft, Settled, TypeOK
  <2>3. CASE ~Exhausted(task[w])
    BY <1>1, <2>1, <2>3 DEF Fail, HoldsLease, Settle, Exhausted, AttemptsLeft, Settled, TypeOK
  <2> QED
    BY <2>2, <2>3
<1>2. ASSUME NEW j \in Jobs, Enqueue(j) \/ CancelWaiting(j) PROVE AttemptsLeft'
  BY <1>2 DEF Enqueue, CancelWaiting, Settle, AttemptsLeft, Settled, TypeOK
<1>3. ASSUME NEW w \in Workers, NEW j \in Jobs, Claim(w, j) PROVE AttemptsLeft'
  BY <1>3 DEF Claim, Claimable, AttemptsLeft, Settled, TypeOK
<1>4. ASSUME NEW w \in Workers, Complete(w) \/ Defer(w) PROVE AttemptsLeft'
  BY <1>4 DEF Complete, Defer, HoldsLease, Settle, AttemptsLeft, Settled, TypeOK
<1>5. CASE UNCHANGED <<status, attempts>>
  BY <1>5 DEF AttemptsLeft, Settled
<1>6. ASSUME NEW w \in Workers,
             \/ EnterHandler(w) \/ RefusedLock(w) \/ HandlerReturns(w) \/ HandlerThrows(w)
             \/ HandlerDefers(w) \/ CompleteTooLate(w) \/ SettleTooLate(w)
             \/ Heartbeat(w) \/ Stall(w) \/ Wake(w) \/ Crash(w)
      PROVE  UNCHANGED <<status, attempts>>
  BY <1>6 DEF EnterHandler, RefusedLock, HandlerReturns, HandlerThrows, HandlerDefers,
       LeaveHandler, CompleteTooLate, SettleTooLate, Heartbeat, Stall, Wake, Crash, jobVars
<1>7. CASE Tick \/ PollEmpty \/ UNCHANGED vars
  BY <1>5, <1>7 DEF Tick, PollEmpty, vars, jobVars
<1> QED
  BY <1>1, <1>2, <1>3, <1>4, <1>5, <1>6, <1>7 DEF Next, WorkerStep

\* Leases, locks, delays and attempts stay within their ranges, and a worker
\* has a job exactly while it is busy: in particular a job never fails more
\* often than max_attempts.
THEOREM TypeCorrect == Spec => [](TypeOK /\ AttemptsLeft)
<1>1. Init => AttemptsLeft
  BY ConstantsAssumption DEF Init, AttemptsLeft
<1> QED
  BY <1>1, InitTypeOK, NextTypeOK, NextAttemptsLeft, PTL DEF Spec

-----------------------------------------------------------------------------
(* Leases                                                                   *)

\* The strengthening of RunningWorkerKeepsLease: a worker that has not stalled
\* since its claim has a heartbeat due strictly before its lease runs out.
BeatsInTime(w) ==
    pc[w] \in Busy /\ steady[w] =>
        /\ ~stalled[w]
        /\ status[task[w]] = "leased"
        /\ leasedBy[task[w]] = w
        /\ leaseLeft[task[w]] > beat[w]

AllBeatInTime == \A w \in Workers : BeatsInTime(w)

\* A worker whose own state and whose job's row do not change keeps its lease.
LEMMA BeatsInTimeStutters ==
    ASSUME NEW w \in Workers, BeatsInTime(w),
           pc'[w] \in Busy => pc[w] \in Busy /\ task'[w] = task[w],
           stalled'[w] = stalled[w], steady'[w] = steady[w], beat'[w] = beat[w],
           pc'[w] \in Busy =>
             /\ status'[task[w]] = status[task[w]]
             /\ leasedBy'[task[w]] = leasedBy[task[w]]
             /\ leaseLeft'[task[w]] = leaseLeft[task[w]]
    PROVE  BeatsInTime(w)'
BY DEF BeatsInTime

\* The statements that settle worker v's job leave every other worker's job alone.
LEMMA SettleKeepsOthers ==
    ASSUME TypeOK, AllBeatInTime, NEW v \in Workers, NEW s \in JobStatus, NEW wait \in Nat,
           HoldsLease(v, task[v]), Settle(task[v], s, wait), GoIdle(v),
           pc[v] \in Busy, UNCHANGED <<beat, stalled, steady>>
    PROVE  AllBeatInTime'
<1> SUFFICES ASSUME NEW w \in Workers PROVE BeatsInTime(w)'
    BY DEF AllBeatInTime
<1>1. BeatsInTime(w) /\ task[v] \in Jobs
  BY BusyTask DEF AllBeatInTime
<1>2. CASE w = v
  BY <1>2 DEF GoIdle, BeatsInTime, Busy, TypeOK
<1>3. CASE w # v /\ pc[w] \in Busy /\ steady[w]
  <2>1. task[w] # task[v]
    BY <1>1, <1>3 DEF BeatsInTime, HoldsLease
  <2>2. task[w] \in Jobs
    BY <1>3, BusyTask
  <2> QED
    BY <1>1, <1>3, <2>1, <2>2 DEF BeatsInTime, Settle, GoIdle, TypeOK
<1>4. CASE w # v /\ ~(pc[w] \in Busy /\ steady[w])
  BY <1>4 DEF BeatsInTime, GoIdle, TypeOK
<1> QED
  BY <1>2, <1>3, <1>4

LEMMA NextBeatsInTime == TypeOK /\ AllBeatInTime /\ [Next]_vars => AllBeatInTime'
<1> SUFFICES ASSUME TypeOK, AllBeatInTime, [Next]_vars PROVE AllBeatInTime'
    OBVIOUS
<1> USE ConstantsAssumption
<1>1. ASSUME NEW j \in Jobs, Enqueue(j) \/ CancelWaiting(j) PROVE AllBeatInTime'
  <2> SUFFICES ASSUME NEW w \in Workers PROVE BeatsInTime(w)'
      BY DEF AllBeatInTime
  <2>1. BeatsInTime(w) /\ (pc[w] \in Busy => task[w] \in Jobs)
    BY BusyTask DEF AllBeatInTime
  <2> QED
    BY <1>1, <2>1 DEF Enqueue, CancelWaiting, Settle, workerVars, BeatsInTime, TypeOK
<1>2. ASSUME NEW v \in Workers, NEW j \in Jobs, Claim(v, j) PROVE AllBeatInTime'
  <2> SUFFICES ASSUME NEW w \in Workers PROVE BeatsInTime(w)'
      BY DEF AllBeatInTime
  <2>1. CASE w = v
    BY <1>2, <2>1 DEF Claim, BeatsInTime, TypeOK
  <2>2. CASE w # v
    <3>1. BeatsInTime(w) /\ (pc[w] \in Busy => task[w] \in Jobs)
      BY BusyTask DEF AllBeatInTime
    <3>2. pc[w] \in Busy /\ steady[w] => task[w] # j
      <4>1. beat[w] \in Nat
        BY DEF TypeOK
      <4> QED
        BY <1>2, <3>1, <4>1 DEF Claim, Claimable, BeatsInTime
    <3> QED
      BY <1>2, <2>2, <3>1, <3>2 DEF Claim, BeatsInTime, TypeOK
  <2> QED
    BY <2>1, <2>2
<1>3. ASSUME NEW v \in Workers,
             \/ EnterHandler(v) \/ RefusedLock(v) \/ HandlerReturns(v) \/ HandlerThrows(v)
             \/ HandlerDefers(v) \/ CompleteTooLate(v) \/ SettleTooLate(v)
      PROVE  AllBeatInTime'
  <2>1. /\ UNCHANGED <<status, leasedBy, leaseLeft, beat, stalled, steady>>
        /\ pc[v] \in Busy
    BY <1>3 DEF EnterHandler, RefusedLock, HandlerReturns, HandlerThrows, HandlerDefers,
         LeaveHandler, CompleteTooLate, SettleTooLate, Busy, jobVars
  <2>2. \A w \in Workers : pc'[w] \in Busy => pc[w] \in Busy /\ task'[w] = task[w]
    BY <1>3, <2>1 DEF EnterHandler, RefusedLock, HandlerReturns, HandlerThrows, HandlerDefers,
         LeaveHandler, CompleteTooLate, SettleTooLate, GoIdle, TypeOK, Busy
  <2> QED
    BY <2>1, <2>2 DEF AllBeatInTime, BeatsInTime
<1>4. ASSUME NEW v \in Workers, Complete(v) \/ Fail(v) \/ Defer(v) PROVE AllBeatInTime'
  <2>1. pc[v] \in Busy /\ task[v] \in Jobs
    BY <1>4, BusyTask DEF Complete, Fail, Defer, Busy
  <2>2. /\ HoldsLease(v, task[v]) /\ GoIdle(v) /\ UNCHANGED <<beat, stalled, steady>>
        /\ \E s \in JobStatus, wait \in Nat : Settle(task[v], s, wait)
    BY <1>4, <2>1, RetryDelayType DEF Complete, Fail, Defer, JobStatus, TypeOK
  <2> QED
    BY <2>1, <2>2, SettleKeepsOthers
<1>5. ASSUME NEW v \in Workers, Heartbeat(v) PROVE AllBeatInTime'
  <2> SUFFICES ASSUME NEW w \in Workers PROVE BeatsInTime(w)'
      BY DEF AllBeatInTime
  <2>1. /\ BeatsInTime(w) /\ BeatsInTime(v) /\ task[v] \in Jobs
        /\ pc[w] \in Busy => task[w] \in Jobs
    BY <1>5, BusyTask DEF AllBeatInTime, Heartbeat
  <2>2. CASE w = v
    BY <1>5, <2>1, <2>2 DEF Heartbeat, HoldsLease, BeatsInTime, TypeOK
  <2>3. CASE w # v
    BY <1>5, <2>1, <2>3 DEF Heartbeat, HoldsLease, BeatsInTime, TypeOK
  <2> QED
    BY <2>2, <2>3
<1>6. CASE Tick
  <2> SUFFICES ASSUME NEW w \in Workers, pc[w] \in Busy, steady[w] PROVE BeatsInTime(w)'
      BY <1>6 DEF AllBeatInTime, BeatsInTime, Tick
  <2>1. BeatsInTime(w) /\ task[w] \in Jobs /\ beat[w] > 0
    BY <1>6, BusyTask DEF AllBeatInTime, BeatsInTime, Tick
  <2>2. beat[w] \in Nat /\ leaseLeft[task[w]] \in Nat
    BY <2>1 DEF TypeOK
  <2> QED
    BY <1>6, <2>1, <2>2 DEF Tick, Down, BeatsInTime
<1>7. ASSUME NEW v \in Workers, Stall(v) \/ Wake(v) PROVE AllBeatInTime'
  BY <1>7 DEF Stall, Wake, AllBeatInTime, BeatsInTime, TypeOK, jobVars
<1>8. ASSUME NEW v \in Workers, Crash(v) PROVE AllBeatInTime'
  <2> SUFFICES ASSUME NEW w \in Workers PROVE BeatsInTime(w)'
      BY DEF AllBeatInTime
  <2>1. BeatsInTime(w) /\ (pc[w] \in Busy => task[w] \in Jobs)
    BY BusyTask DEF AllBeatInTime
  <2>2. CASE w = v
    BY <1>8, <2>2 DEF Crash, GoIdle, BeatsInTime, Busy, TypeOK
  <2>3. CASE w # v
    BY <1>8, <2>1, <2>3 DEF Crash, GoIdle, BeatsInTime, TypeOK
  <2> QED
    BY <2>2, <2>3
<1>9. CASE PollEmpty \/ UNCHANGED vars
  BY <1>9 DEF PollEmpty, vars, jobVars, workerVars, AllBeatInTime, BeatsInTime
<1> QED
  BY <1>1, <1>2, <1>3, <1>4, <1>5, <1>6, <1>7, <1>8, <1>9 DEF Next, WorkerStep

\* While a worker's timers run, its lease does not run out, however long the
\* handler takes and whatever other workers and the API do: the heartbeat
\* period is shorter than the lease (PollingWorker's timer at leaseMs / 3).
THEOREM LeaseKept == Spec => []RunningWorkerKeepsLease
<1>1. Init => AllBeatInTime
  BY DEF Init, AllBeatInTime, BeatsInTime, Busy
<1>2. TypeOK /\ AllBeatInTime => RunningWorkerKeepsLease
  <2> SUFFICES ASSUME TypeOK, AllBeatInTime, NEW w \in Workers, pc[w] \in Busy, steady[w]
               PROVE  HoldsLease(w, task[w])
      BY DEF RunningWorkerKeepsLease
  <2>1. task[w] \in Jobs /\ BeatsInTime(w)
    BY BusyTask DEF AllBeatInTime
  <2>2. beat[w] \in Nat /\ leaseLeft[task[w]] \in Nat
    BY <2>1, ConstantsAssumption DEF TypeOK
  <2> QED
    BY <2>1, <2>2 DEF BeatsInTime, HoldsLease
<1> QED
  BY <1>1, <1>2, NextBeatsInTime, TypeCorrect, PTL DEF Spec

-----------------------------------------------------------------------------
(* Locks                                                                    *)

\* The strengthening of LockExcludesUntilItExpires: a handler's lock is its own
\* for exactly the ticks that its time to live has left.
OwnsLock(w) ==
    pc[w] = "handling" /\ held[w] < LockTicks =>
        /\ lockOwner[task[w]] = w
        /\ lockLeft[task[w]] = LockTicks - held[w]

HandlersOwnLocks == \A w \in Workers : OwnsLock(w)

\* A handler keeps its lock through any step that leaves locks alone.
LEMMA OwnsLockStutters ==
    ASSUME HandlersOwnLocks, UNCHANGED <<lockVars, held>>,
           \A w \in Workers : pc'[w] = "handling" => pc[w] = "handling" /\ task'[w] = task[w]
    PROVE  HandlersOwnLocks'
BY DEF HandlersOwnLocks, OwnsLock, lockVars

\* Releasing a lock that is no longer one's own takes it from nobody.
LEMMA LeaveKeepsOthers ==
    ASSUME TypeOK, HandlersOwnLocks, NEW v \in Workers, NEW next, next # "handling",
           LeaveHandler(v, next)
    PROVE  HandlersOwnLocks'
<1> SUFFICES ASSUME NEW w \in Workers PROVE OwnsLock(w)'
    BY DEF HandlersOwnLocks
<1>1. OwnsLock(w) /\ task[v] \in Jobs /\ (pc[w] = "handling" => task[w] \in Jobs)
  BY BusyTask DEF HandlersOwnLocks, LeaveHandler, Busy
<1>2. CASE w = v
  BY <1>2 DEF LeaveHandler, OwnsLock, TypeOK
<1>3. CASE w # v
  BY <1>1, <1>3 DEF LeaveHandler, ReleaseLock, MayRelease, OwnsLock, lockVars, TypeOK
<1> QED
  BY <1>2, <1>3

LEMMA NextHandlersOwnLocks == TypeOK /\ HandlersOwnLocks /\ [Next]_vars => HandlersOwnLocks'
<1> SUFFICES ASSUME TypeOK, HandlersOwnLocks, [Next]_vars PROVE HandlersOwnLocks'
    OBVIOUS
<1> USE ConstantsAssumption
<1>1. ASSUME NEW v \in Workers, EnterHandler(v) PROVE HandlersOwnLocks'
  <2> SUFFICES ASSUME NEW w \in Workers PROVE OwnsLock(w)'
      BY DEF HandlersOwnLocks
  <2>1. OwnsLock(w) /\ task[v] \in Jobs /\ (pc[w] = "handling" => task[w] \in Jobs)
    BY <1>1, BusyTask DEF HandlersOwnLocks, EnterHandler, Busy
  <2>2. CASE w = v
    BY <1>1, <2>1, <2>2 DEF EnterHandler, OwnsLock, TypeOK
  <2>3. CASE w # v
    <3>1. held[w] \in Nat
      BY DEF TypeOK
    <3> QED
      BY <1>1, <2>1, <2>3, <3>1 DEF EnterHandler, LockFree, OwnsLock, TypeOK
  <2> QED
    BY <2>2, <2>3
<1>2. ASSUME NEW v \in Workers, HandlerReturns(v) \/ HandlerThrows(v) \/ HandlerDefers(v)
      PROVE  HandlersOwnLocks'
  BY <1>2, LeaveKeepsOthers DEF HandlerReturns, HandlerThrows, HandlerDefers
<1>3. CASE Tick
  <2> SUFFICES ASSUME NEW w \in Workers PROVE OwnsLock(w)'
      BY DEF HandlersOwnLocks
  <2>1. OwnsLock(w) /\ (pc[w] = "handling" => task[w] \in Jobs) /\ held[w] \in Nat
    BY BusyTask DEF HandlersOwnLocks, Busy, TypeOK
  <2> QED
    BY <1>3, <2>1 DEF Tick, Down, OwnsLock, TypeOK
<1>4. ASSUME NEW v \in Workers, Crash(v) PROVE HandlersOwnLocks'
  <2> SUFFICES ASSUME NEW w \in Workers PROVE OwnsLock(w)'
      BY DEF HandlersOwnLocks
  <2>1. OwnsLock(w) /\ (pc[w] = "handling" => task[w] \in Jobs)
    BY BusyTask DEF HandlersOwnLocks, Busy
  <2> QED
    BY <1>4, <2>1 DEF Crash, GoIdle, OwnsLock, TypeOK
<1>5. ASSUME NEW j \in Jobs,
             Enqueue(j) \/ CancelWaiting(j) \/ \E w \in Workers : Claim(w, j)
      PROVE  HandlersOwnLocks'
  BY <1>5, OwnsLockStutters DEF Enqueue, CancelWaiting, Claim, workerVars, lockVars, TypeOK
<1>6. ASSUME NEW v \in Workers,
             \/ RefusedLock(v) \/ Complete(v) \/ CompleteTooLate(v) \/ Fail(v) \/ Defer(v)
             \/ SettleTooLate(v) \/ Heartbeat(v) \/ Stall(v) \/ Wake(v)
      PROVE  HandlersOwnLocks'
  BY <1>6, OwnsLockStutters DEF RefusedLock, Complete, CompleteTooLate, Fail, Defer,
       SettleTooLate, Heartbeat, Stall, Wake, GoIdle, TypeOK
<1>7. CASE PollEmpty \/ UNCHANGED vars
  BY <1>7, OwnsLockStutters DEF PollEmpty, vars, workerVars
<1> QED
  BY <1>1, <1>2, <1>3, <1>4, <1>5, <1>6, <1>7 DEF Next, WorkerStep

\* Until the time to live of its lock is over a handler runs alone on its job:
\* the lock script compares tokens, so a late release frees nobody else's lock
\* (acquireLock, RELEASE_LOCK_SCRIPT).
THEOREM LockExcludes == Spec => []LockExcludesUntilItExpires
<1>1. Init => HandlersOwnLocks
  BY DEF Init, HandlersOwnLocks, OwnsLock
<1>2. TypeOK /\ HandlersOwnLocks => LockExcludesUntilItExpires
  <2> SUFFICES ASSUME TypeOK, HandlersOwnLocks, NEW w \in Workers,
                      pc[w] = "handling", held[w] < LockTicks
               PROVE  /\ lockOwner[task[w]] = w
                      /\ \A v \in Workers \ {w} :
                           pc[v] = "handling" /\ task[v] = task[w] => held[v] = LockTicks
      BY DEF LockExcludesUntilItExpires
  <2>1. lockOwner[task[w]] = w
    BY DEF HandlersOwnLocks, OwnsLock
  <2>2. ASSUME NEW v \in Workers \ {w}, pc[v] = "handling", task[v] = task[w]
        PROVE  held[v] = LockTicks
    <3>1. ~(held[v] < LockTicks)
      BY <2>1, <2>2 DEF HandlersOwnLocks, OwnsLock
    <3>2. held[v] \in 0..LockTicks
      BY DEF TypeOK
    <3> QED
      BY <3>1, <3>2, ConstantsAssumption
  <2> QED
    BY <2>1, <2>2
<1> QED
  BY <1>1, <1>2, NextHandlersOwnLocks, TypeCorrect, PTL DEF Spec

-----------------------------------------------------------------------------
(* Crashes                                                                  *)

\* The code's times (a lock of 60 s, retry delays that double from one second
\* up to a minute, ten attempts), as far as the argument needs them, and the
\* number of crashes they absorb: with ten attempts, four.
RetriesOutlastLock ==
    LockTicks <= 63 /\ LockTicks <= MaxDelay /\ 32 <= MaxDelay /\ MaxCrashes + 6 <= MaxAttempts

\* Budgets are only spent, so what has been disturbed stays disturbed.
Disturbed ==
    \/ budget["throw"] < MaxThrows \/ budget["stall"] < MaxStalls
    \/ budget["cancel"] < MaxCancels

Crashes == MaxCrashes - budget["crash"]

Calm ==
    /\ Undisturbed
    /\ budget["crash"] \in 0 .. MaxCrashes
    /\ \A w \in Workers : steady[w]

NoDeadLetter == \A j \in Jobs : status[j] # "dead_letter"

LeasedIsDue == \A j \in Jobs : status[j] = "leased" => delay[j] = 0

\* A lock that names a worker is the lock of that worker's handler: the one a
\* crash leaves behind names nobody.
LocksOfHandlers ==
    \A j \in Jobs : lockLeft[j] > 0 /\ lockOwner[j] # NoWorker =>
        pc[lockOwner[j]] = "handling" /\ task[lockOwner[j]] = j

Power(n) == 2 ^ n

\* The ticks that n failed attempts have waited at least for an orphaned lock:
\* after the first crash the doubling delays of all of them, after a later one
\* the delay of the last, which alone outlasts a lock.
Waited(n) ==
    IF Crashes = 1 THEN Power(n) - 1
    ELSE IF n <= 4 + Crashes THEN 0 ELSE LockTicks

OrphansRunOut ==
    \A j \in Jobs : lockLeft[j] > 0 /\ lockOwner[j] = NoWorker =>
        Crashes > 0 /\ lockLeft[j] + Waited(attempts[j]) <= LockTicks + delay[j]

FewAttempts ==
    /\ \A j \in Jobs : attempts[j] <= IF Crashes = 0 THEN 0 ELSE 5 + Crashes
    /\ \A w \in Workers : pc[w] = "failing" => Crashes > 0 /\ attempts[task[w]] <= 4 + Crashes

OrphanInv ==
    /\ Calm /\ LeasedIsDue /\ LocksOfHandlers /\ OrphansRunOut /\ FewAttempts
    /\ NoDeadLetter

LEMMA Powers ==
    /\ Power(0) = 1 /\ Power(1) = 2 /\ Power(2) = 4 /\ Power(3) = 8
    /\ Power(4) = 16 /\ Power(5) = 32 /\ Power(6) = 64
  BY DEF Power

LEMMA Doubling ==
    ASSUME NEW n \in 0 .. 5
    PROVE  Power(n) \in 1 .. 32 /\ Power(n + 1) = Power(n) + Power(n)
<1>1. n \in {0, 1, 2, 3, 4, 5}
  OBVIOUS
<1> QED
  BY <1>1, Powers

\* A calm system counts its crashes; a thrown handler, a stall or a
\* cancellation disturbs it.
LEMMA CrashesCounted ==
    ASSUME TypeOK, Calm
    PROVE  /\ Crashes \in Nat /\ Crashes <= MaxCrashes /\ MaxCrashes \in Nat /\ LockTicks \in Nat
           /\ \A j \in Jobs : attempts[j] \in Nat /\ delay[j] \in Nat /\ lockLeft[j] \in 0 .. LockTicks
           /\ \A hazard \in {"throw", "stall", "cancel"} : Spend(hazard) => ~Undisturbed'
           /\ Spend("defer") => budget'["crash"] = budget["crash"]
           /\ Spend("crash") => Crashes' = Crashes + 1
<1>1. MaxCrashes \in Nat /\ LockTicks \in Nat /\ MaxAttempts \in Nat
  BY ConstantsAssumption
<1>2. budget["crash"] \in 0 .. MaxCrashes
  BY DEF Calm
<1>3. \A j \in Jobs : attempts[j] \in Nat /\ delay[j] \in Nat /\ lockLeft[j] \in 0 .. LockTicks
  BY <1>1 DEF TypeOK
<1>5. budget \in [Hazard -> Nat] /\ {"throw", "stall", "cancel", "defer", "crash"} \subseteq Hazard
  BY DEF TypeOK, Hazard
<1>4. ASSUME NEW hazard \in {"throw", "stall", "cancel"}, Spend(hazard) PROVE ~Undisturbed'
  <2>1. budget[hazard] \in Nat /\ budget'[hazard] = budget[hazard] - 1
    BY <1>4, <1>5 DEF Spend
  <2> QED
    BY <1>4, <2>1 DEF Calm, Undisturbed
<1>6. Spend("defer") => budget'["crash"] = budget["crash"]
  BY <1>5 DEF Spend
<1>7. Spend("crash") => budget'["crash"] = budget["crash"] - 1
  BY <1>5 DEF Spend
<1> QED
  BY <1>1, <1>2, <1>3, <1>4, <1>6, <1>7 DEF Crashes

\* The steps that leave a system calm: the crashes are counted, everything else leaves
\* the count and the workers' steadiness as they are.
LEMMA CalmStep ==
    ASSUME TypeOK, Calm, Undisturbed', [Next]_vars
    PROVE  Calm' /\ (Crashes' = Crashes \/ \E w \in Workers : Crash(w))
<1>1. CASE UNCHANGED <<budget, steady>>
  BY <1>1 DEF Calm, Undisturbed, Crashes
<1>2. ASSUME NEW j \in Jobs, Enqueue(j) \/ CancelWaiting(j) PROVE UNCHANGED <<budget, steady>>
  BY <1>2, CrashesCounted DEF Enqueue, CancelWaiting, workerVars
<1>3. ASSUME NEW w \in Workers, NEW j \in Jobs, Claim(w, j)
      PROVE  Calm' /\ Crashes' = Crashes
  BY <1>3 DEF Claim, Calm, Undisturbed, Crashes, TypeOK
<1>4. ASSUME NEW w \in Workers,
             \/ EnterHandler(w) \/ RefusedLock(w) \/ HandlerReturns(w) \/ Complete(w)
             \/ CompleteTooLate(w) \/ Fail(w) \/ Defer(w) \/ SettleTooLate(w) \/ Heartbeat(w) \/ Wake(w)
      PROVE  UNCHANGED <<budget, steady>>
  BY <1>4 DEF EnterHandler, RefusedLock, HandlerReturns, LeaveHandler, Complete, CompleteTooLate,
              Fail, Defer, SettleTooLate, Heartbeat, Wake
<1>5. ASSUME NEW w \in Workers, HandlerDefers(w) PROVE Calm' /\ Crashes' = Crashes
  <2>1. Spend("defer") /\ UNCHANGED steady
    BY <1>5 DEF HandlerDefers, LeaveHandler
  <2>2. /\ budget'["throw"] = budget["throw"] /\ budget'["stall"] = budget["stall"]
        /\ budget'["cancel"] = budget["cancel"] /\ budget'["crash"] = budget["crash"]
    BY <2>1 DEF Spend, TypeOK, Hazard
  <2> QED
    BY <2>1, <2>2 DEF Calm, Undisturbed, Crashes
<1>6. ASSUME NEW w \in Workers, HandlerThrows(w) \/ Stall(w) PROVE FALSE
  BY <1>6, CrashesCounted DEF HandlerThrows, Stall
<1>7. ASSUME NEW w \in Workers, Crash(w) PROVE Calm'
  <2>1. Spend("crash") /\ UNCHANGED steady
    BY <1>7 DEF Crash
  <2>2. /\ budget'["throw"] = budget["throw"] /\ budget'["stall"] = budget["stall"]
        /\ budget'["cancel"] = budget["cancel"]
        /\ budget["crash"] > 0 /\ budget'["crash"] = budget["crash"] - 1
    BY <2>1 DEF Spend, TypeOK, Hazard
  <2>3. MaxCrashes \in Nat
    BY ConstantsAssumption
  <2> QED
    BY <2>1, <2>2, <2>3 DEF Calm, Undisturbed
<1>8. CASE Tick \/ PollEmpty \/ UNCHANGED vars
  BY <1>1, <1>8 DEF Tick, PollEmpty, vars, workerVars
<1> QED
  BY <1>1, <1>2, <1>3, <1>4, <1>5, <1>6, <1>7, <1>8 DEF Next, WorkerStep

LEMMA WaitedType ==
    ASSUME TypeOK, OrphanInv, NEW j \in Jobs
    PROVE  Waited(attempts[j]) \in Nat
<1>1. Crashes \in Nat /\ LockTicks \in Nat /\ attempts[j] \in Nat
  BY CrashesCounted DEF OrphanInv
<1>2. attempts[j] <= IF Crashes = 0 THEN 0 ELSE 5 + Crashes
  BY DEF OrphanInv, FewAttempts
<1>3. CASE Crashes = 1
  <2>1. attempts[j] \in 0 .. 5 \/ attempts[j] = 6
    BY <1>1, <1>2, <1>3
  <2>2. Power(attempts[j]) \in Nat \ {0}
    BY <2>1, Doubling, Powers
  <2> QED
    BY <1>3, <2>2 DEF Waited
<1>4. CASE Crashes # 1
  BY <1>1, <1>4 DEF Waited
<1> QED
  BY <1>3, <1>4

\* A worker is refused only by a lock that a crash left behind.
LEMMA RefusedByOrphan ==
    ASSUME TypeOK, AllBeatInTime, OrphanInv, NEW w \in Workers, RefusedLock(w)
    PROVE  /\ task[w] \in Jobs /\ status[task[w]] = "leased" /\ delay[task[w]] = 0
           /\ lockLeft[task[w]] > 0 /\ lockOwner[task[w]] = NoWorker
<1>1. pc[w] = "claimed" /\ pc[w] \in Busy /\ lockLeft[task[w]] # 0 /\ steady[w]
  BY DEF RefusedLock, LockFree, Busy, OrphanInv, Calm
<1>2. task[w] \in Jobs
  BY <1>1, BusyTask
<1>3. status[task[w]] = "leased" /\ leasedBy[task[w]] = w
  BY <1>1 DEF AllBeatInTime, BeatsInTime
<1>4. delay[task[w]] = 0
  BY <1>2, <1>3 DEF OrphanInv, LeasedIsDue
<1>5. lockLeft[task[w]] > 0
  BY <1>1, <1>2, CrashesCounted DEF OrphanInv
<1>6. ASSUME lockOwner[task[w]] # NoWorker PROVE FALSE
  <2>1. PICK v \in Workers : v = lockOwner[task[w]]
    BY <1>2, <1>6 DEF TypeOK
  <2>2. pc[v] = "handling" /\ task[v] = task[w]
    BY <1>2, <1>5, <1>6, <2>1 DEF OrphanInv, LocksOfHandlers
  <2>3. leasedBy[task[v]] = v
    BY <2>2 DEF AllBeatInTime, BeatsInTime, Busy, OrphanInv, Calm
  <2> QED
    BY <1>1, <1>3, <2>2, <2>3
<1> QED
  BY <1>2, <1>3, <1>4, <1>5, <1>6

\* A lock that still refuses was waited for by few attempts.
LEMMA RefusedEarly ==
    ASSUME TypeOK, OrphanInv, RetriesOutlastLock, NEW j \in Jobs,
           lockLeft[j] > 0, lockOwner[j] = NoWorker, delay[j] = 0
    PROVE  Crashes > 0 /\ attempts[j] <= 4 + Crashes
<1>1. /\ Crashes \in Nat /\ LockTicks \in Nat /\ attempts[j] \in Nat /\ lockLeft[j] \in Nat
      /\ LockTicks <= 63
  BY CrashesCounted DEF OrphanInv, RetriesOutlastLock
<1>2. Crashes > 0 /\ lockLeft[j] + Waited(attempts[j]) <= LockTicks
  BY <1>1 DEF OrphanInv, OrphansRunOut
<1>3. attempts[j] <= 5 + Crashes
  BY <1>1, <1>2 DEF OrphanInv, FewAttempts
<1>4. CASE Crashes = 1
  <2>1. attempts[j] \in 0 .. 6
    BY <1>1, <1>3, <1>4
  <2>2. Waited(attempts[j]) = Power(attempts[j]) - 1
    BY <1>4 DEF Waited
  <2>3. attempts[j] = 6 => Waited(attempts[j]) = 63
    BY <2>2, Powers
  <2> QED
    BY <1>1, <1>2, <1>4, <2>1, <2>3
<1>5. CASE Crashes # 1
  BY <1>1, <1>2, <1>5 DEF Waited
<1> QED
  BY <1>4, <1>5

\* What a failed attempt adds to the time waited it also adds to the delay.
LEMMA FailedWaits ==
    ASSUME TypeOK, OrphanInv, RetriesOutlastLock, NEW j \in Jobs,
           Crashes > 0, attempts[j] <= 4 + Crashes
    PROVE  /\ RetryDelay(j) \in Nat /\ Waited(attempts[j]) \in Int /\ Waited(attempts[j] + 1) \in Int
           /\ Waited(attempts[j] + 1) <= Waited(attempts[j]) + RetryDelay(j)
<1>1. /\ Crashes \in Nat /\ LockTicks \in Nat /\ attempts[j] \in Nat /\ MaxDelay \in Nat
      /\ LockTicks <= 63 /\ LockTicks <= MaxDelay /\ 32 <= MaxDelay
  BY CrashesCounted, ConstantsAssumption DEF OrphanInv, RetriesOutlastLock
<1>2. RetryDelay(j) \in Nat
  BY RetryDelayType
<1>3. CASE Crashes = 1
  <2>1. attempts[j] \in 0 .. 5 /\ attempts[j] \in 0 .. 6 /\ attempts[j] + 1 \in 0 .. 6
    BY <1>1, <1>3
  <2>2. /\ Waited(attempts[j]) = Power(attempts[j]) - 1
        /\ Waited(attempts[j] + 1) = Power(attempts[j] + 1) - 1
    BY <1>3 DEF Waited
  <2>3. PICK m \in 1 .. 32 : m = Power(attempts[j]) /\ Power(attempts[j] + 1) = m + m
    BY <2>1, Doubling
  <2>4. RetryDelay(j) = IF m < MaxDelay THEN m ELSE MaxDelay
    <3>1. attempts[j] < 6
      BY <2>1
    <3> QED
      BY <2>3, <3>1 DEF RetryDelay, Power
  <2>5. RetryDelay(j) = m
    BY <1>1, <2>4
  <2> QED
    BY <1>2, <2>2, <2>3, <2>5
<1>4. CASE Crashes # 1
  <2>1. Waited(attempts[j]) = 0 /\ Waited(attempts[j] + 1) \in {0, LockTicks}
    BY <1>1, <1>4 DEF Waited
  <2>2. CASE attempts[j] + 1 <= 4 + Crashes
    <3>1. Waited(attempts[j] + 1) = 0
      BY <1>4, <2>2 DEF Waited
    <3> QED
      BY <1>2, <2>1, <3>1
  <2>3. CASE ~(attempts[j] + 1 <= 4 + Crashes)
    <3>1. ~(attempts[j] < 6)
      BY <1>1, <1>4, <2>3
    <3>2. RetryDelay(j) = IF 64 < MaxDelay THEN 64 ELSE MaxDelay
      BY <3>1, Powers DEF RetryDelay, Power
    <3>3. LockTicks <= RetryDelay(j)
      BY <1>1, <3>2
    <3> QED
      BY <1>1, <1>2, <2>1, <3>3
  <2> QED
    BY <2>2, <2>3
<1> QED
  BY <1>3, <1>4

\* A step that leaves attempts, locks and handlers alone, and takes no delay away.
LEMMA OrphanFrame ==
    ASSUME TypeOK, OrphanInv, Calm', Crashes' = Crashes, UNCHANGED <<attempts, lockVars>>,
           \A j \in Jobs : /\ delay'[j] \in Nat /\ delay'[j] >= delay[j]
                           /\ status'[j] = "leased" => delay'[j] = 0
                           /\ status'[j] # "dead_letter",
           \A v \in Workers :
                /\ pc[v] = "handling" => pc'[v] = "handling" /\ task'[v] = task[v]
                /\ pc'[v] = "failing" => Crashes > 0 /\ attempts[task'[v]] <= 4 + Crashes
    PROVE  OrphanInv'
<1>1. LeasedIsDue' /\ NoDeadLetter'
  BY DEF LeasedIsDue, NoDeadLetter
<1>2. LocksOfHandlers'
  <2>1. \A j \in Jobs : lockOwner[j] \in Workers \cup {NoWorker}
    BY DEF TypeOK
  <2> QED
    BY <2>1 DEF OrphanInv, LocksOfHandlers, lockVars
<1>3. OrphansRunOut'
  <2> SUFFICES ASSUME NEW j \in Jobs, lockLeft[j] > 0, lockOwner[j] = NoWorker
               PROVE  Crashes > 0 /\ lockLeft[j] + Waited(attempts[j]) <= LockTicks + delay'[j]
    BY DEF OrphansRunOut, Waited, lockVars
  <2>1. Crashes > 0 /\ lockLeft[j] + Waited(attempts[j]) <= LockTicks + delay[j]
    BY DEF OrphanInv, OrphansRunOut
  <2>2. delay[j] \in Nat /\ lockLeft[j] \in Nat /\ LockTicks \in Nat
    BY CrashesCounted DEF OrphanInv
  <2>3. Waited(attempts[j]) \in Nat
    BY WaitedType
  <2> QED
    BY <2>1, <2>2, <2>3
<1>4. FewAttempts'
  BY DEF OrphanInv, FewAttempts
<1> QED
  BY <1>1, <1>2, <1>3, <1>4 DEF OrphanInv

LEMMA EnterKeepsOrphans ==
    ASSUME TypeOK, OrphanInv, Calm', Crashes' = Crashes, NEW w \in Workers, EnterHandler(w)
    PROVE  OrphanInv'
<1>1. /\ pc[w] = "claimed" /\ task[w] \in Jobs /\ w # NoWorker
      /\ UNCHANGED <<status, delay, attempts, task>> /\ pc'[w] = "handling"
      /\ lockOwner'[task[w]] = w
      /\ \A v \in Workers \ {w} : pc'[v] = pc[v]
      /\ \A j \in Jobs \ {task[w]} : lockOwner'[j] = lockOwner[j] /\ lockLeft'[j] = lockLeft[j]
  <2>1. pc[w] = "claimed" /\ task[w] \in Jobs /\ w # NoWorker
    BY BusyTask, ConstantsAssumption DEF EnterHandler, Busy
  <2> QED
    BY <2>1 DEF EnterHandler, TypeOK, jobVars
<1>2. LeasedIsDue' /\ NoDeadLetter'
  BY <1>1 DEF OrphanInv, LeasedIsDue, NoDeadLetter
<1>3. LocksOfHandlers'
  BY <1>1 DEF OrphanInv, LocksOfHandlers, TypeOK
<1>4. OrphansRunOut'
  <2> SUFFICES ASSUME NEW j \in Jobs, lockLeft'[j] > 0, lockOwner'[j] = NoWorker
               PROVE  Crashes > 0 /\ lockLeft'[j] + Waited(attempts[j]) <= LockTicks + delay[j]
    BY <1>1 DEF OrphansRunOut, Waited
  <2>1. j # task[w]
    BY <1>1
  <2> QED
    BY <1>1, <2>1 DEF OrphanInv, OrphansRunOut
<1>5. FewAttempts'
  BY <1>1 DEF OrphanInv, FewAttempts
<1> QED
  BY <1>2, <1>3, <1>4, <1>5 DEF OrphanInv

LEMMA LeaveKeepsOrphans ==
    ASSUME TypeOK, OrphanInv, Calm', Crashes' = Crashes, NEW w \in Workers,
           NEW next, next \notin {"handling", "failing"}, LeaveHandler(w, next)
    PROVE  OrphanInv'
<1>1. /\ pc[w] = "handling" /\ task[w] \in Jobs
      /\ UNCHANGED <<status, delay, attempts, task>> /\ pc'[w] = next
      /\ \A v \in Workers \ {w} : pc'[v] = pc[v]
      /\ \A j \in Jobs : \/ lockOwner'[j] = lockOwner[j] /\ lockLeft'[j] = lockLeft[j]
                         \/ lockLeft'[j] = 0
      /\ lockOwner[task[w]] = w => lockLeft'[task[w]] = 0
  <2>1. pc[w] = "handling" /\ task[w] \in Jobs
    BY BusyTask DEF LeaveHandler, Busy
  <2> QED
    BY <2>1 DEF LeaveHandler, ReleaseLock, MayRelease, TypeOK, lockVars
<1>2. LeasedIsDue' /\ NoDeadLetter'
  BY <1>1 DEF OrphanInv, LeasedIsDue, NoDeadLetter
<1>3. LocksOfHandlers'
  <2> SUFFICES ASSUME NEW j \in Jobs, lockLeft'[j] > 0, lockOwner'[j] # NoWorker
               PROVE  pc'[lockOwner'[j]] = "handling" /\ task[lockOwner'[j]] = j
    BY <1>1 DEF LocksOfHandlers
  <2>1. lockOwner'[j] = lockOwner[j] /\ lockLeft'[j] = lockLeft[j]
    BY <1>1
  <2>2. pc[lockOwner[j]] = "handling" /\ task[lockOwner[j]] = j
    BY <2>1 DEF OrphanInv, LocksOfHandlers
  <2>3. lockOwner[j] # w
    BY <1>1, <2>1, <2>2
  <2>4. lockOwner[j] \in Workers
    BY <2>1 DEF TypeOK
  <2> QED
    BY <1>1, <2>1, <2>2, <2>3, <2>4
<1>4. OrphansRunOut'
  <2> SUFFICES ASSUME NEW j \in Jobs, lockLeft'[j] > 0, lockOwner'[j] = NoWorker
               PROVE  Crashes > 0 /\ lockLeft'[j] + Waited(attempts[j]) <= LockTicks + delay[j]
    BY <1>1 DEF OrphansRunOut, Waited
  <2>1. lockOwner'[j] = lockOwner[j] /\ lockLeft'[j] = lockLeft[j]
    BY <1>1
  <2> QED
    BY <2>1 DEF OrphanInv, OrphansRunOut
<1>5. FewAttempts'
  BY <1>1 DEF OrphanInv, FewAttempts
<1> QED
  BY <1>2, <1>3, <1>4, <1>5 DEF OrphanInv

LEMMA FailKeepsOrphans ==
    ASSUME TypeOK, AllBeatInTime, OrphanInv, RetriesOutlastLock, Calm', Crashes' = Crashes,
           NEW w \in Workers, Fail(w)
    PROVE  OrphanInv'
<1> DEFINE k == task[w]
<1>1. /\ k \in Jobs /\ pc[w] = "failing" /\ pc[w] \in Busy
      /\ status[k] = "leased" /\ delay[k] = 0 /\ attempts[k] \in Nat
      /\ Crashes > 0 /\ attempts[k] <= 4 + Crashes
  <2>1. k \in Jobs
    BY BusyTask DEF Fail, Busy
  <2>2. pc[w] = "failing" /\ status[k] = "leased"
    BY DEF Fail, HoldsLease
  <2> QED
    BY <2>1, <2>2, CrashesCounted DEF OrphanInv, LeasedIsDue, FewAttempts, Busy
<1>2. /\ UNCHANGED lockVars
      /\ attempts'[k] = attempts[k] + 1 /\ delay'[k] = RetryDelay(k)
      /\ status'[k] = IF Exhausted(k) THEN "dead_letter" ELSE "failed"
      /\ \A j \in Jobs \ {k} : /\ attempts'[j] = attempts[j] /\ delay'[j] = delay[j]
                               /\ status'[j] = status[j]
      /\ pc'[w] = "idle"
      /\ \A v \in Workers \ {w} : pc'[v] = pc[v] /\ task'[v] = task[v]
  BY <1>1 DEF Fail, Settle, GoIdle, TypeOK
<1>3. ~Exhausted(k)
  <2>1. /\ Crashes \in Nat /\ Crashes <= MaxCrashes /\ MaxCrashes \in Nat /\ MaxAttempts \in Nat
        /\ MaxCrashes + 6 <= MaxAttempts
    BY CrashesCounted, ConstantsAssumption DEF OrphanInv, RetriesOutlastLock
  <2> QED
    BY <1>1, <2>1 DEF Exhausted
<1>4. LeasedIsDue' /\ NoDeadLetter'
  BY <1>2, <1>3 DEF OrphanInv, LeasedIsDue, NoDeadLetter
<1>5. LocksOfHandlers'
  <2>1. \A j \in Jobs : lockOwner[j] \in Workers \cup {NoWorker}
    BY DEF TypeOK
  <2> QED
    BY <1>1, <1>2, <2>1 DEF OrphanInv, LocksOfHandlers, lockVars
<1>6. OrphansRunOut'
  <2> SUFFICES ASSUME NEW j \in Jobs, lockLeft[j] > 0, lockOwner[j] = NoWorker
               PROVE  Crashes > 0 /\ lockLeft[j] + Waited(attempts'[j]) <= LockTicks + delay'[j]
    BY <1>2 DEF OrphansRunOut, Waited, lockVars
  <2>1. Crashes > 0 /\ lockLeft[j] + Waited(attempts[j]) <= LockTicks + delay[j]
    BY DEF OrphanInv, OrphansRunOut
  <2>2. CASE j = k
    <3>1. /\ RetryDelay(k) \in Nat /\ Waited(attempts[k]) \in Int /\ Waited(attempts[k] + 1) \in Int
          /\ Waited(attempts[k] + 1) <= Waited(attempts[k]) + RetryDelay(k)
      BY <1>1, FailedWaits
    <3>2. lockLeft[k] \in Nat /\ LockTicks \in Nat
      BY <1>1, CrashesCounted DEF OrphanInv
    <3>3. lockLeft[k] + Waited(attempts[k]) <= LockTicks
      BY <1>1, <2>1, <2>2, <3>2
    <3>4. attempts'[j] = attempts[k] + 1 /\ delay'[j] = RetryDelay(k)
      BY <1>2, <2>2
    <3> HIDE DEF k
    <3> QED
      BY <2>1, <2>2, <3>1, <3>2, <3>3, <3>4
  <2>3. CASE j # k
    BY <1>2, <2>1, <2>3
  <2> QED
    BY <2>2, <2>3
<1>7. FewAttempts'
  <2>1. ASSUME NEW j \in Jobs PROVE attempts'[j] <= IF Crashes = 0 THEN 0 ELSE 5 + Crashes
    <3>1. Crashes \in Nat
      BY CrashesCounted DEF OrphanInv
    <3>2. CASE j = k
      BY <1>1, <1>2, <3>1, <3>2
    <3>3. CASE j # k
      BY <1>2, <3>3 DEF OrphanInv, FewAttempts
    <3> QED
      BY <3>2, <3>3
  <2>2. ASSUME NEW v \in Workers, pc'[v] = "failing"
        PROVE  Crashes > 0 /\ attempts'[task'[v]] <= 4 + Crashes
    <3>1. v # w /\ pc[v] = "failing" /\ task'[v] = task[v]
      BY <1>2, <2>2
    <3>2. task[v] \in Jobs
      BY <3>1, BusyTask DEF Busy
    <3>3. task[v] # k
      BY <1>1, <3>1 DEF AllBeatInTime, BeatsInTime, OrphanInv, Calm, Busy
    <3> QED
      BY <1>2, <3>1, <3>2, <3>3 DEF OrphanInv, FewAttempts
  <2> QED
    BY <2>1, <2>2 DEF FewAttempts
<1> QED
  BY <1>4, <1>5, <1>6, <1>7 DEF OrphanInv

LEMMA TickKeepsOrphans ==
    ASSUME TypeOK, OrphanInv, Calm', Crashes' = Crashes, Tick
    PROVE  OrphanInv'
<1>1. /\ UNCHANGED <<status, attempts, pc, task>>
      /\ \A j \in Jobs : delay'[j] = Down(delay[j]) /\ lockLeft'[j] = Down(lockLeft[j])
      /\ \A j \in Jobs : lockOwner'[j] = IF lockLeft[j] <= 1 THEN NoWorker ELSE lockOwner[j]
  BY DEF Tick
<1>2. ASSUME NEW j \in Jobs
      PROVE  /\ delay[j] \in Nat /\ lockLeft[j] \in Nat /\ delay'[j] \in Nat
             /\ delay[j] = 0 => delay'[j] = 0
             /\ delay[j] <= delay'[j] + 1
             /\ lockLeft'[j] > 0 => lockLeft'[j] = lockLeft[j] - 1 /\ lockOwner'[j] = lockOwner[j]
  <2>1. delay[j] \in Nat /\ lockLeft[j] \in Nat
    BY CrashesCounted DEF OrphanInv
  <2> QED
    BY <1>1, <2>1 DEF Down
<1>3. LeasedIsDue' /\ NoDeadLetter'
  BY <1>1, <1>2 DEF OrphanInv, LeasedIsDue, NoDeadLetter
<1>4. LocksOfHandlers'
  <2> SUFFICES ASSUME NEW j \in Jobs, lockLeft'[j] > 0, lockOwner'[j] # NoWorker
               PROVE  pc[lockOwner'[j]] = "handling" /\ task[lockOwner'[j]] = j
    BY <1>1 DEF LocksOfHandlers
  <2>1. lockOwner'[j] = lockOwner[j] /\ lockLeft[j] > 0
    BY <1>2
  <2> QED
    BY <2>1 DEF OrphanInv, LocksOfHandlers
<1>5. OrphansRunOut'
  <2> SUFFICES ASSUME NEW j \in Jobs, lockLeft'[j] > 0, lockOwner'[j] = NoWorker
               PROVE  Crashes > 0 /\ lockLeft'[j] + Waited(attempts[j]) <= LockTicks + delay'[j]
    BY <1>1 DEF OrphansRunOut, Waited
  <2>1. lockOwner[j] = NoWorker /\ lockLeft[j] > 0 /\ lockLeft'[j] = lockLeft[j] - 1
    BY <1>2
  <2>2. Crashes > 0 /\ lockLeft[j] + Waited(attempts[j]) <= LockTicks + delay[j]
    BY <2>1 DEF OrphanInv, OrphansRunOut
  <2>3. Waited(attempts[j]) \in Nat /\ LockTicks \in Nat
    BY WaitedType, CrashesCounted DEF OrphanInv
  <2> QED
    BY <1>2, <2>1, <2>2, <2>3
<1>6. FewAttempts'
  BY <1>1 DEF OrphanInv, FewAttempts
<1> QED
  BY <1>3, <1>4, <1>5, <1>6 DEF OrphanInv

\* The lock a crash leaves behind has its whole wait before it.
LEMMA CrashKeepsOrphans ==
    ASSUME TypeOK, OrphanInv, RetriesOutlastLock, Calm', NEW w \in Workers, Crash(w)
    PROVE  OrphanInv'
<1>1. /\ UNCHANGED <<status, delay, attempts, lockLeft>> /\ pc'[w] = "idle"
      /\ \A v \in Workers \ {w} : pc'[v] = pc[v] /\ task'[v] = task[v]
      /\ \A j \in Jobs : lockOwner'[j] = IF lockOwner[j] = w THEN NoWorker ELSE lockOwner[j]
  BY DEF Crash, GoIdle, TypeOK
<1>2. /\ Crashes \in Nat /\ Crashes' = Crashes + 1 /\ LockTicks \in Nat
      /\ \A j \in Jobs : attempts[j] \in Nat /\ delay[j] \in Nat /\ lockLeft[j] \in 0 .. LockTicks
  BY CrashesCounted DEF OrphanInv, Crash
<1>3. LeasedIsDue' /\ NoDeadLetter'
  BY <1>1 DEF OrphanInv, LeasedIsDue, NoDeadLetter
<1>4. LocksOfHandlers'
  <2> SUFFICES ASSUME NEW j \in Jobs, lockLeft[j] > 0, lockOwner'[j] # NoWorker
               PROVE  pc'[lockOwner'[j]] = "handling" /\ task'[lockOwner'[j]] = j
    BY <1>1 DEF LocksOfHandlers
  <2>1. lockOwner'[j] = lockOwner[j] /\ lockOwner[j] \in Workers \ {w}
    BY <1>1 DEF TypeOK
  <2> QED
    BY <1>1, <2>1 DEF OrphanInv, LocksOfHandlers
<1>5. ASSUME NEW j \in Jobs PROVE attempts[j] <= IF Crashes = 0 THEN 0 ELSE 5 + Crashes
  BY DEF OrphanInv, FewAttempts
<1>6. ASSUME NEW j \in Jobs PROVE Waited(attempts[j])' = 0
  <2>1. CASE Crashes = 0
    <3>1. attempts'[j] = 0 /\ Crashes' = 1
      BY <1>1, <1>2, <1>5, <2>1
    <3> QED
      BY <3>1, Powers DEF Waited
  <2>2. CASE Crashes # 0
    <3>1. attempts'[j] <= 4 + Crashes' /\ Crashes' # 1
      BY <1>1, <1>2, <1>5, <2>2
    <3> QED
      BY <3>1 DEF Waited
  <2> QED
    BY <2>1, <2>2
<1>7. OrphansRunOut'
  <2> SUFFICES ASSUME NEW j \in Jobs
               PROVE  Crashes' > 0 /\ lockLeft'[j] + Waited(attempts[j])' <= LockTicks + delay'[j]
    BY DEF OrphansRunOut
  <2> QED
    BY <1>1, <1>2, <1>6
<1>8. FewAttempts'
  <2>1. ASSUME NEW j \in Jobs PROVE attempts'[j] <= IF Crashes' = 0 THEN 0 ELSE 5 + Crashes'
    BY <1>1, <1>2, <1>5
  <2>2. ASSUME NEW v \in Workers, pc'[v] = "failing"
        PROVE  Crashes' > 0 /\ attempts'[task'[v]] <= 4 + Crashes'
    <3>1. pc[v] = "failing" /\ task'[v] = task[v] /\ task[v] \in Jobs
      BY <1>1, <2>2, BusyTask DEF Busy
    <3>2. attempts[task[v]] <= 4 + Crashes
      BY <3>1 DEF OrphanInv, FewAttempts
    <3> QED
      BY <1>1, <1>2, <3>1, <3>2
  <2> QED
    BY <2>1, <2>2 DEF FewAttempts
<1> QED
  BY <1>3, <1>4, <1>7, <1>8 DEF OrphanInv

LEMMA NextOrphans ==
    ASSUME TypeOK, AllBeatInTime, OrphanInv, RetriesOutlastLock, Undisturbed', [Next]_vars
    PROVE  OrphanInv'
<1>1. Calm' /\ (Crashes' = Crashes \/ \E w \in Workers : Crash(w))
  BY CalmStep DEF OrphanInv
<1>2. CASE \E w \in Workers : Crash(w)
  BY <1>1, <1>2, CrashKeepsOrphans
<1> SUFFICES ASSUME Crashes' = Crashes PROVE OrphanInv'
  BY <1>1, <1>2
<1>3. /\ \A j \in Jobs : delay[j] \in Nat /\ (status[j] = "leased" => delay[j] = 0)
      /\ \A j \in Jobs : status[j] # "dead_letter"
      /\ \A v \in Workers : pc[v] = "failing" => Crashes > 0 /\ attempts[task[v]] <= 4 + Crashes
  BY DEF TypeOK, OrphanInv, LeasedIsDue, NoDeadLetter, FewAttempts
<1>4. ASSUME NEW j \in Jobs, Enqueue(j) PROVE OrphanInv'
  <2>1. /\ UNCHANGED <<attempts, lockVars, delay, pc, task>>
        /\ \A i \in Jobs : status'[i] = status[i] \/ status'[i] = "queued"
    BY <1>4 DEF Enqueue, workerVars, TypeOK
  <2> QED
    BY <1>1, <1>3, <2>1, OrphanFrame
<1>5. ASSUME NEW w \in Workers, NEW j \in Jobs, Claim(w, j) PROVE OrphanInv'
  <2>1. /\ UNCHANGED <<attempts, lockVars, delay>> /\ pc[w] = "idle" /\ delay[j] = 0
        /\ \A i \in Jobs : status'[i] = "leased" => i = j \/ status[i] = "leased"
        /\ \A i \in Jobs : status'[i] # "dead_letter"
        /\ pc'[w] = "claimed"
        /\ \A v \in Workers \ {w} : pc'[v] = pc[v] /\ task'[v] = task[v]
    BY <1>3, <1>5 DEF Claim, Claimable, TypeOK
  <2> QED
    BY <1>1, <1>3, <2>1, OrphanFrame
<1>6. ASSUME NEW w \in Workers, EnterHandler(w) PROVE OrphanInv'
  BY <1>1, <1>6, EnterKeepsOrphans
<1>7. ASSUME NEW w \in Workers, RefusedLock(w) PROVE OrphanInv'
  <2>1. Crashes > 0 /\ attempts[task[w]] <= 4 + Crashes
    BY <1>7, RefusedByOrphan, RefusedEarly
  <2>2. /\ UNCHANGED <<attempts, lockVars, status, delay, task>>
        /\ pc[w] = "claimed"
        /\ \A v \in Workers \ {w} : pc'[v] = pc[v]
    BY <1>7 DEF RefusedLock, jobVars, TypeOK
  <2> QED
    BY <1>1, <1>3, <2>1, <2>2, OrphanFrame
<1>8. ASSUME NEW w \in Workers, HandlerReturns(w) \/ HandlerDefers(w) PROVE OrphanInv'
  <2>1. PICK next \in {"succeeding", "deferring"} : LeaveHandler(w, next)
    BY <1>8 DEF HandlerReturns, HandlerDefers
  <2> QED
    BY <1>1, <2>1, LeaveKeepsOrphans
<1>9. ASSUME NEW w \in Workers, Fail(w) PROVE OrphanInv'
  BY <1>1, <1>9, FailKeepsOrphans
<1>10. ASSUME NEW w \in Workers, HandlerThrows(w) \/ Stall(w) PROVE FALSE
  BY <1>10, CrashesCounted DEF HandlerThrows, Stall, OrphanInv
<1>11. ASSUME NEW j \in Jobs, CancelWaiting(j) PROVE FALSE
  BY <1>11, CrashesCounted DEF CancelWaiting, OrphanInv
<1>12. ASSUME NEW w \in Workers, CompleteTooLate(w) PROVE FALSE
  <2>1. pc[w] = "succeeding" /\ ~HoldsLease(w, task[w])
    BY <1>12 DEF CompleteTooLate
  <2>2. /\ status[task[w]] = "leased" /\ leasedBy[task[w]] = w
        /\ leaseLeft[task[w]] > beat[w] /\ task[w] \in Jobs
    BY <2>1, BusyTask DEF AllBeatInTime, BeatsInTime, OrphanInv, Calm, Busy
  <2>3. leaseLeft[task[w]] \in Nat /\ beat[w] \in Nat
    BY <2>2, ConstantsAssumption DEF TypeOK
  <2> QED
    BY <2>1, <2>2, <2>3 DEF HoldsLease
<1>13. ASSUME NEW w \in Workers, Complete(w) PROVE OrphanInv'
  <2>1. /\ UNCHANGED <<attempts, lockVars>> /\ pc[w] = "succeeding" /\ task[w] \in Jobs
        /\ \A i \in Jobs : delay'[i] = delay[i]
        /\ \A i \in Jobs : status'[i] = status[i] \/ status'[i] = "succeeded"
        /\ pc'[w] = "idle"
        /\ \A v \in Workers \ {w} : pc'[v] = pc[v] /\ task'[v] = task[v]
    BY <1>13, BusyTask DEF Complete, Settle, GoIdle, TypeOK, Busy
  <2> QED
    BY <1>1, <1>3, <2>1, OrphanFrame
<1>14. ASSUME NEW w \in Workers, Defer(w) PROVE OrphanInv'
  <2>1. pc[w] = "deferring" /\ task[w] \in Jobs /\ status[task[w]] = "leased" /\ DeferTicks \in Nat
    BY <1>14, BusyTask, ConstantsAssumption DEF Defer, HoldsLease, Busy
  <2>2. /\ UNCHANGED <<attempts, lockVars>>
        /\ \A i \in Jobs : delay'[i] = IF i = task[w] THEN DeferTicks ELSE delay[i]
        /\ \A i \in Jobs : status'[i] = IF i = task[w] THEN "queued" ELSE status[i]
        /\ pc'[w] = "idle"
        /\ \A v \in Workers \ {w} : pc'[v] = pc[v] /\ task'[v] = task[v]
    BY <1>14, <2>1 DEF Defer, Settle, GoIdle, TypeOK
  <2>3. \A i \in Jobs : /\ delay'[i] \in Nat /\ delay'[i] >= delay[i]
                        /\ status'[i] = "leased" => delay'[i] = 0
                        /\ status'[i] # "dead_letter"
    BY <1>3, <2>1, <2>2
  <2>4. \A v \in Workers :
             /\ pc[v] = "handling" => pc'[v] = "handling" /\ task'[v] = task[v]
             /\ pc'[v] = "failing" => Crashes > 0 /\ attempts[task'[v]] <= 4 + Crashes
    BY <1>3, <2>1, <2>2
  <2> QED
    BY <1>1, <2>2, <2>3, <2>4, OrphanFrame
<1>15. ASSUME NEW w \in Workers, SettleTooLate(w) PROVE OrphanInv'
  <2>1. /\ UNCHANGED <<attempts, lockVars, status, delay>>
        /\ pc[w] \in {"failing", "deferring"} /\ pc'[w] = "idle"
        /\ \A v \in Workers \ {w} : pc'[v] = pc[v] /\ task'[v] = task[v]
    BY <1>15 DEF SettleTooLate, GoIdle, jobVars, TypeOK
  <2> QED
    BY <1>1, <1>3, <2>1, OrphanFrame
<1>16. CASE (\E w \in Workers : Heartbeat(w) \/ Wake(w)) \/ PollEmpty \/ UNCHANGED vars
  <2>1. UNCHANGED <<attempts, lockVars, status, delay, pc, task>>
    BY <1>16 DEF Heartbeat, Wake, PollEmpty, vars, jobVars, workerVars
  <2> QED
    BY <1>1, <1>3, <2>1, OrphanFrame
<1>17. CASE Tick
  BY <1>1, <1>17, TickKeepsOrphans
<1> QED
  BY <1>2, <1>4, <1>5, <1>6, <1>7, <1>8, <1>9, <1>10, <1>11, <1>12, <1>13, <1>14, <1>15, <1>16, <1>17
     DEF Next, WorkerStep

LEMMA InitOrphans == ASSUME Init PROVE OrphanInv
<1>1. MaxCrashes \in Nat
  BY ConstantsAssumption
<1>2. Undisturbed /\ budget["crash"] = MaxCrashes
  BY DEF Init, Undisturbed, Hazard
<1>3. Calm /\ Crashes = 0
  <2>1. \A w \in Workers : steady[w]
    BY DEF Init
  <2> QED
    BY <1>1, <1>2, <2>1 DEF Calm, Crashes
<1>4. LeasedIsDue /\ NoDeadLetter
  BY DEF Init, LeasedIsDue, NoDeadLetter
<1>5. LocksOfHandlers /\ OrphansRunOut
  BY DEF Init, LocksOfHandlers, OrphansRunOut
<1>6. FewAttempts
  BY <1>3 DEF Init, FewAttempts
<1> QED
  BY <1>3, <1>4, <1>5, <1>6 DEF OrphanInv

\* No step gives a failure back.
LEMMA BudgetsShrink ==
    ASSUME TypeOK, [Next]_vars, NEW hazard \in Hazard
    PROVE  budget[hazard] \in Nat /\ budget'[hazard] \in Int /\ budget'[hazard] <= budget[hazard]
<1>1. budget \in [Hazard -> Nat]
  BY DEF TypeOK
<1>2. CASE UNCHANGED budget
  BY <1>1, <1>2
<1>3. ASSUME NEW spent \in Hazard, Spend(spent)
      PROVE  budget'[hazard] \in Int /\ budget'[hazard] <= budget[hazard]
  BY <1>1, <1>3 DEF Spend
<1>4. {"throw", "defer", "stall", "crash", "cancel"} \subseteq Hazard
  BY DEF Hazard
<1>5. UNCHANGED budget \/ \E spent \in Hazard : Spend(spent)
  BY <1>4 DEF Next, WorkerStep, Enqueue, CancelWaiting, Claim, EnterHandler, RefusedLock,
       HandlerReturns, HandlerThrows, HandlerDefers, Complete, CompleteTooLate, Fail, Defer,
       SettleTooLate, Heartbeat, Stall, Wake, Crash, Tick, PollEmpty, vars
<1> QED
  BY <1>1, <1>2, <1>3, <1>5

\* Until a step disturbs the system the invariant holds, and afterwards the
\* system stays disturbed.
LEMMA NextOrphansOrDisturbed ==
    ASSUME TypeOK, AllBeatInTime, Disturbed \/ OrphanInv, RetriesOutlastLock, [Next]_vars
    PROVE  (Disturbed \/ OrphanInv)'
<1>1. {"throw", "stall", "cancel"} \subseteq Hazard /\ {MaxThrows, MaxStalls, MaxCancels} \subseteq Nat
  BY ConstantsAssumption DEF Hazard
<1>2. CASE Disturbed
  BY <1>1, <1>2, BudgetsShrink DEF Disturbed
<1>3. CASE ~Disturbed /\ ~Undisturbed'
  <2>1. Undisturbed
    BY <1>3 DEF OrphanInv, Calm
  <2> QED
    BY <1>1, <1>3, <2>1, BudgetsShrink DEF Undisturbed, Disturbed
<1>4. CASE ~Disturbed /\ Undisturbed'
  BY <1>4, NextOrphans
<1> QED
  BY <1>2, <1>3, <1>4

\* PollingWorker and withExecutionLock: whatever crashes happen, up to four
\* with the code's ten attempts, the retries that the dead workers' locks
\* refuse do not use up the attempts of a job whose handler never fails.
THEOREM CrashHarmless == RetriesOutlastLock => (Spec => []CrashNeverDeadLetters)
<1> SUFFICES ASSUME RetriesOutlastLock PROVE Spec => []CrashNeverDeadLetters
  OBVIOUS
<1>1. Init => AllBeatInTime
  BY DEF Init, AllBeatInTime, BeatsInTime, Busy
<1>2. Init => Disturbed \/ OrphanInv
  BY InitOrphans
<1>3. TypeOK /\ AllBeatInTime /\ (Disturbed \/ OrphanInv) /\ [Next]_vars => (Disturbed \/ OrphanInv)'
  BY NextOrphansOrDisturbed
<1>4. Disturbed \/ OrphanInv => CrashNeverDeadLetters
  <2>1. Undisturbed => ~Disturbed
    BY ConstantsAssumption DEF Undisturbed, Disturbed
  <2> QED
    BY <2>1 DEF OrphanInv, NoDeadLetter, CrashNeverDeadLetters
<1> QED
  BY <1>1, <1>2, <1>3, <1>4, NextBeatsInTime, TypeCorrect, PTL DEF Spec

-----------------------------------------------------------------------------
(* The abstract contract                                                    *)

\* What connects workers and jobs to the contract: a busy worker's job was
\* enqueued, and a worker about to report success has run the handler.
ReportsWhatRan ==
    \A w \in Workers :
        /\ pc[w] \in Busy => status[task[w]] # "absent"
        /\ pc[w] = "succeeding" => handled[task[w]]

LEMMA NextReportsWhatRan == TypeOK /\ ReportsWhatRan /\ [Next]_vars => ReportsWhatRan'
<1> SUFFICES ASSUME TypeOK, ReportsWhatRan, [Next]_vars PROVE ReportsWhatRan'
    OBVIOUS
<1>0. \A w \in Workers : pc[w] \in Busy => task[w] \in Jobs
  BY BusyTask
<1>1. ASSUME NEW j \in Jobs, Enqueue(j) \/ CancelWaiting(j) PROVE ReportsWhatRan'
  BY <1>0, <1>1 DEF Enqueue, CancelWaiting, Settle, workerVars, ReportsWhatRan, TypeOK, Busy
<1>2. ASSUME NEW w \in Workers, NEW j \in Jobs, Claim(w, j) PROVE ReportsWhatRan'
  BY <1>0, <1>2 DEF Claim, ReportsWhatRan, TypeOK, Busy
<1>3. ASSUME NEW w \in Workers, EnterHandler(w) \/ RefusedLock(w) \/ CompleteTooLate(w)
      PROVE  ReportsWhatRan'
  BY <1>3 DEF EnterHandler, RefusedLock, CompleteTooLate, ReportsWhatRan, TypeOK, Busy, jobVars
<1>4. ASSUME NEW w \in Workers, HandlerReturns(w) \/ HandlerThrows(w) \/ HandlerDefers(w)
      PROVE  ReportsWhatRan'
  BY <1>0, <1>4 DEF HandlerReturns, HandlerThrows, HandlerDefers, LeaveHandler,
       ReportsWhatRan, TypeOK, Busy
<1>5. ASSUME NEW w \in Workers, Complete(w) \/ Fail(w) \/ Defer(w) PROVE ReportsWhatRan'
  BY <1>0, <1>5 DEF Complete, Fail, Defer, Settle, GoIdle, ReportsWhatRan, TypeOK, Busy
<1>6. ASSUME NEW w \in Workers,
             SettleTooLate(w) \/ Heartbeat(w) \/ Stall(w) \/ Wake(w) \/ Crash(w)
      PROVE  ReportsWhatRan'
  BY <1>6 DEF SettleTooLate, Heartbeat, Stall, Wake, Crash, GoIdle, ReportsWhatRan,
       TypeOK, Busy, jobVars
<1>7. CASE Tick \/ PollEmpty \/ UNCHANGED vars
  BY <1>7 DEF Tick, PollEmpty, vars, jobVars, workerVars, ReportsWhatRan
<1> QED
  BY <1>1, <1>2, <1>3, <1>4, <1>5, <1>6, <1>7 DEF Next, WorkerStep

\* Leases, locks, stalls and crashes implement the contract's safety: a job is
\* settled once and for good, and succeeds only after its handler has run.
THEOREM QueueKeepsContract == Spec => Delivery!Spec
<1>1. Init => ReportsWhatRan /\ Delivery!Init
  BY DEF Init, ReportsWhatRan, Busy, Delivery!Init
<1>2. ASSUME TypeOK, ReportsWhatRan, [Next]_vars PROVE [Delivery!Next]_(Delivery!vars)
  <2>0. \A w \in Workers : pc[w] \in Busy => task[w] \in Jobs
    BY <1>2, BusyTask
  <2>1. ASSUME NEW j \in Jobs, Enqueue(j) PROVE Delivery!Enqueue(j)
    BY <1>2, <2>1 DEF Enqueue, Delivery!Enqueue, TypeOK
  <2>2. ASSUME NEW j \in Jobs, CancelWaiting(j) PROVE Delivery!GiveUp(j)
    BY <1>2, <2>2 DEF CancelWaiting, Settle, Delivery!GiveUp, TypeOK
  <2>3. ASSUME NEW w \in Workers, HandlerReturns(w) PROVE Delivery!Next
    <3>1. PICK j \in Jobs : j = task[w] /\ status[j] # "absent"
      BY <1>2, <2>0, <2>3 DEF HandlerReturns, LeaveHandler, ReportsWhatRan, Busy
    <3>2. Delivery!Handle(j)
      BY <1>2, <2>3, <3>1 DEF HandlerReturns, LeaveHandler, Delivery!Handle, TypeOK
    <3> QED
      BY <3>2 DEF Delivery!Next
  <2>4. ASSUME NEW w \in Workers, Complete(w) PROVE Delivery!Next
    <3>1. PICK j \in Jobs : j = task[w] /\ handled[j]
      BY <1>2, <2>0, <2>4 DEF Complete, ReportsWhatRan, Busy
    <3>2. Delivery!Succeed(j)
      BY <1>2, <2>4, <3>1 DEF Complete, HoldsLease, Settle, Delivery!Succeed, TypeOK
    <3> QED
      BY <3>2 DEF Delivery!Next
  <2>5. ASSUME NEW w \in Workers, Fail(w) PROVE Delivery!Next \/ UNCHANGED Delivery!vars
    <3>1. PICK j \in Jobs : j = task[w]
      BY <2>0, <2>5 DEF Fail, Busy
    <3>2. CASE Exhausted(j)
      <4>1. Delivery!GiveUp(j)
        BY <1>2, <2>5, <3>1, <3>2 DEF Fail, HoldsLease, Settle, Delivery!GiveUp, TypeOK
      <4> QED
        BY <4>1 DEF Delivery!Next
    <3>3. CASE ~Exhausted(j)
      BY <1>2, <2>5, <3>1, <3>3 DEF Fail, HoldsLease, Settle, Delivery!vars, TypeOK
    <3> QED
      BY <3>2, <3>3
  <2>6. ASSUME NEW w \in Workers, Defer(w) PROVE UNCHANGED Delivery!vars
    BY <1>2, <2>0, <2>6 DEF Defer, HoldsLease, Settle, Delivery!vars, TypeOK, Busy
  <2>7. ASSUME NEW w \in Workers, NEW j \in Jobs, Claim(w, j) PROVE UNCHANGED Delivery!vars
    BY <1>2, <2>7 DEF Claim, Claimable, Delivery!vars, TypeOK
  <2>8. ASSUME NEW w \in Workers,
               \/ EnterHandler(w) \/ RefusedLock(w) \/ HandlerThrows(w) \/ HandlerDefers(w)
               \/ CompleteTooLate(w) \/ SettleTooLate(w) \/ Heartbeat(w)
               \/ Stall(w) \/ Wake(w) \/ Crash(w)
        PROVE  UNCHANGED Delivery!vars
    BY <2>8 DEF EnterHandler, RefusedLock, HandlerThrows, HandlerDefers, LeaveHandler,
         CompleteTooLate, SettleTooLate, Heartbeat, Stall, Wake, Crash, jobVars, Delivery!vars
  <2>9. CASE Tick \/ PollEmpty \/ UNCHANGED vars
    BY <2>9 DEF Tick, PollEmpty, vars, jobVars, Delivery!vars
  <2>10. ASSUME NEW w \in Workers, WorkerStep(w)
         PROVE  Delivery!Next \/ UNCHANGED Delivery!vars
    BY <2>3, <2>4, <2>5, <2>6, <2>8, <2>10 DEF WorkerStep
  <2> QED
    BY <1>2, <2>1, <2>2, <2>7, <2>8, <2>9, <2>10 DEF Next, Delivery!Next
<1> QED
  BY <1>1, <1>2, NextReportsWhatRan, TypeCorrect, PTL DEF Spec, Delivery!Spec
=============================================================================
