---------------------------- MODULE DurableQueue ----------------------------
(***************************************************************************)
(* The durable job queue (queue_jobs), the polling workers that serve it   *)
(* and the coordination lock the execution worker's handler takes.         *)
(*                                                                         *)
(* A worker claims a job under a lease, renews the lease from a timer that *)
(* runs beside the handler, and settles the job (complete, fail or defer)  *)
(* only while it still holds the lease.  The handler runs under a Redis    *)
(* lock of its own with a longer time to live that is never renewed.  A    *)
(* worker may stall (its timers and calls stop, its lease and lock run     *)
(* out) and go on later, or crash.                                         *)
(*                                                                         *)
(* Time is counted in ticks.  Instants are kept as the ticks left until    *)
(* they are reached (leaseLeft, delay, lockLeft, beat), which is all the   *)
(* code's comparisons with the clock can tell.                             *)
(***************************************************************************)
EXTENDS Naturals

CONSTANTS
    Jobs, Workers,
    NoJob, NoWorker,    \* model values
    LeaseTicks,         \* leaseMs
    HeartbeatTicks,     \* period of the heartbeat timer, leaseMs / 3
    LockTicks,          \* time to live of the handler's lock
    MaxAttempts,        \* max_attempts of a job
    MaxDelay,           \* cap of the retry delay
    DeferTicks,         \* how far ahead a handler defers its job
    MaxThrows, MaxDefers, MaxStalls, MaxCrashes, MaxCancels
                        \* bounds of the failures a run explores

ASSUME ConstantsAssumption ==
    /\ LeaseTicks \in Nat \ {0}
    /\ HeartbeatTicks \in 1..(LeaseTicks - 1)
    /\ LockTicks \in Nat \ {0}
    /\ MaxAttempts \in Nat \ {0}
    /\ MaxDelay \in Nat
    /\ DeferTicks \in Nat \ {0}
    /\ {MaxThrows, MaxDefers, MaxStalls, MaxCrashes, MaxCancels} \subseteq Nat
    /\ NoJob \notin Jobs
    /\ NoWorker \notin Workers

VARIABLES
    status,     \* queue_jobs.status, or "absent"
    leasedBy, leaseLeft, delay, attempts,      \* the other columns
    handled,    \* history: the handler returned normally at least once
    lockOwner, lockLeft,                       \* Redis: job:<id>
    pc, task,   \* what each worker does and with which job
    beat,       \* ticks until its heartbeat timer fires
    stalled,    \* its timers and calls do not run at present
    held,       \* history: ticks since it took the lock, up to LockTicks
    steady,     \* history: it has not stalled since it claimed its task
    budget      \* how many more failures of each kind may happen

jobVars == <<status, leasedBy, leaseLeft, delay, attempts, handled>>
lockVars == <<lockOwner, lockLeft>>
workerVars == <<pc, task, beat, stalled, held, steady>>
vars == <<jobVars, lockVars, workerVars, budget>>

JobStatus == {"absent", "queued", "leased", "succeeded", "failed", "dead_letter"}
Busy == {"claimed", "handling", "succeeding", "failing", "deferring"}
Hazard == {"throw", "defer", "stall", "crash", "cancel"}
Settled(j) == status[j] \in {"succeeded", "dead_letter"}

Init ==
    /\ status = [j \in Jobs |-> "absent"]
    /\ leasedBy = [j \in Jobs |-> NoWorker]
    /\ leaseLeft = [j \in Jobs |-> 0]
    /\ delay = [j \in Jobs |-> 0]
    /\ attempts = [j \in Jobs |-> 0]
    /\ handled = [j \in Jobs |-> FALSE]
    /\ lockOwner = [j \in Jobs |-> NoWorker]
    /\ lockLeft = [j \in Jobs |-> 0]
    /\ pc = [w \in Workers |-> "idle"]
    /\ task = [w \in Workers |-> NoJob]
    /\ beat = [w \in Workers |-> 0]
    /\ stalled = [w \in Workers |-> FALSE]
    /\ held = [w \in Workers |-> 0]
    /\ steady = [w \in Workers |-> TRUE]
    /\ budget = [h \in Hazard |->
                    CASE h = "throw" -> MaxThrows  [] h = "defer" -> MaxDefers
                      [] h = "stall" -> MaxStalls  [] h = "crash" -> MaxCrashes
                      [] h = "cancel" -> MaxCancels]

Spend(hazard) ==
    /\ budget[hazard] > 0
    /\ budget' = [budget EXCEPT ![hazard] = @ - 1]

-----------------------------------------------------------------------------
(* The queue's operations                                                   *)

\* enqueue: the first use of a key inserts the row; every later use of it,
\* whatever became of the job, returns the existing id and changes nothing.
Enqueue(j) ==
    /\ status[j] = "absent"
    /\ status' = [status EXCEPT ![j] = "queued"]
    /\ UNCHANGED <<leasedBy, leaseLeft, delay, attempts, handled,
                   lockVars, workerVars, budget>>

\* Mutant: leased jobs are claimed before their lease runs out.
ClaimableWhileLeased(j) ==
    /\ status[j] \in {"queued", "failed", "leased"}
    /\ delay[j] = 0

Claimable(j) ==
    /\ \/ status[j] \in {"queued", "failed"}
       \/ status[j] = "leased" /\ leaseLeft[j] = 0
    /\ delay[j] = 0

\* claim, and the heartbeat timer PollingWorker starts with it.  A claim does
\* not count as an attempt.
Claim(w, j) ==
    /\ pc[w] = "idle" /\ ~stalled[w]
    /\ Claimable(j)
    /\ status' = [status EXCEPT ![j] = "leased"]
    /\ leasedBy' = [leasedBy EXCEPT ![j] = w]
    /\ leaseLeft' = [leaseLeft EXCEPT ![j] = LeaseTicks]
    /\ pc' = [pc EXCEPT ![w] = "claimed"]
    /\ task' = [task EXCEPT ![w] = j]
    /\ beat' = [beat EXCEPT ![w] = HeartbeatTicks]
    /\ steady' = [steady EXCEPT ![w] = TRUE]
    /\ UNCHANGED <<delay, attempts, handled, lockVars, stalled, held, budget>>

\* Mutant: a settling statement that matches the job's id alone.
HoldsJob(w, j) == task[w] = j

\* The predicate of every settling statement: leased_by, status and leased_until.
HoldsLease(w, j) ==
    /\ status[j] = "leased"
    /\ leasedBy[j] = w
    /\ leaseLeft[j] > 0

Settle(j, newStatus, wait) ==
    /\ status' = [status EXCEPT ![j] = newStatus]
    /\ leasedBy' = [leasedBy EXCEPT ![j] = NoWorker]
    /\ leaseLeft' = [leaseLeft EXCEPT ![j] = 0]
    /\ delay' = [delay EXCEPT ![j] = wait]

\* Mutant: retries at a constant pace.
ConstantRetryDelay(j) == 1

RetryDelay(j) ==
    LET growth == 2 ^ (IF attempts[j] < 6 THEN attempts[j] ELSE 6)
    IN  IF growth < MaxDelay THEN growth ELSE MaxDelay

\* Mutant: one attempt too many.
ExhaustedTooLate(j) == attempts[j] + 1 > MaxAttempts

Exhausted(j) == attempts[j] + 1 >= MaxAttempts

GoIdle(w) ==
    /\ pc' = [pc EXCEPT ![w] = "idle"]
    /\ task' = [task EXCEPT ![w] = NoJob]

Complete(w) ==
    /\ pc[w] = "succeeding" /\ ~stalled[w]
    /\ HoldsLease(w, task[w])
    /\ Settle(task[w], "succeeded", delay[task[w]])
    /\ GoIdle(w)
    /\ UNCHANGED <<attempts, handled, lockVars, beat, stalled, held, steady, budget>>

\* complete throws QUEUE_LEASE_LOST into the catch block, which calls fail.
CompleteTooLate(w) ==
    /\ pc[w] = "succeeding" /\ ~stalled[w]
    /\ ~HoldsLease(w, task[w])
    /\ pc' = [pc EXCEPT ![w] = "failing"]
    /\ UNCHANGED <<jobVars, lockVars, task, beat, stalled, held, steady, budget>>

Fail(w) ==
    /\ pc[w] = "failing" /\ ~stalled[w]
    /\ HoldsLease(w, task[w])
    /\ attempts' = [attempts EXCEPT ![task[w]] = @ + 1]
    /\ Settle(task[w],
              IF Exhausted(task[w]) THEN "dead_letter" ELSE "failed",
              RetryDelay(task[w]))
    /\ GoIdle(w)
    /\ UNCHANGED <<handled, lockVars, beat, stalled, held, steady, budget>>

Defer(w) ==
    /\ pc[w] = "deferring" /\ ~stalled[w]
    /\ HoldsLease(w, task[w])
    /\ Settle(task[w], "queued", DeferTicks)
    /\ GoIdle(w)
    /\ UNCHANGED <<attempts, handled, lockVars, beat, stalled, held, steady, budget>>

\* fail and defer that find the lease gone only degrade the worker's health.
SettleTooLate(w) ==
    /\ pc[w] \in {"failing", "deferring"} /\ ~stalled[w]
    /\ ~HoldsLease(w, task[w])
    /\ GoIdle(w)
    /\ UNCHANGED <<jobVars, lockVars, beat, stalled, held, steady, budget>>

\* The API dead-letters the waiting jobs of a canceled proposal or order; a
\* leased job is left alone.
CancelWaiting(j) ==
    /\ status[j] \in {"queued", "failed"}
    /\ Spend("cancel")
    /\ Settle(j, "dead_letter", delay[j])
    /\ UNCHANGED <<attempts, handled, lockVars, workerVars>>

-----------------------------------------------------------------------------
(* The handler and its lock                                                 *)

LockFree(j) == lockLeft[j] = 0

\* acquireLock: SET NX PX with a random token, here the worker itself.
EnterHandler(w) ==
    /\ pc[w] = "claimed" /\ ~stalled[w]
    /\ LockFree(task[w])
    /\ lockOwner' = [lockOwner EXCEPT ![task[w]] = w]
    /\ lockLeft' = [lockLeft EXCEPT ![task[w]] = LockTicks]
    /\ pc' = [pc EXCEPT ![w] = "handling"]
    /\ held' = [held EXCEPT ![w] = 0]
    /\ UNCHANGED <<jobVars, task, beat, stalled, steady, budget>>

\* EXECUTION_JOB_LOCKED: thrown before the try, so no lock is released.
RefusedLock(w) ==
    /\ pc[w] = "claimed" /\ ~stalled[w]
    /\ ~LockFree(task[w])
    /\ pc' = [pc EXCEPT ![w] = "failing"]
    /\ UNCHANGED <<jobVars, lockVars, task, beat, stalled, held, steady, budget>>

\* Mutant: the key is deleted whoever set it.
MayDelete(w, j) == task[w] = j

\* RELEASE_LOCK_SCRIPT: compare the token, then delete.
MayRelease(w, j) == lockOwner[j] = w

ReleaseLock(w, j) ==
    IF MayRelease(w, j)
    THEN /\ lockOwner' = [lockOwner EXCEPT ![j] = NoWorker]
         /\ lockLeft' = [lockLeft EXCEPT ![j] = 0]
    ELSE UNCHANGED lockVars

LeaveHandler(w, next) ==
    /\ pc[w] = "handling" /\ ~stalled[w]
    /\ ReleaseLock(w, task[w])
    /\ pc' = [pc EXCEPT ![w] = next]
    /\ UNCHANGED <<status, leasedBy, leaseLeft, delay, attempts,
                   task, beat, stalled, held, steady>>

HandlerReturns(w) ==
    /\ LeaveHandler(w, "succeeding")
    /\ handled' = [handled EXCEPT ![task[w]] = TRUE]
    /\ UNCHANGED budget

HandlerThrows(w) == LeaveHandler(w, "failing") /\ Spend("throw") /\ UNCHANGED handled

HandlerDefers(w) == LeaveHandler(w, "deferring") /\ Spend("defer") /\ UNCHANGED handled

-----------------------------------------------------------------------------
(* Time, heartbeats and failures of workers                                 *)

\* The heartbeat statement has the same predicate; a refused one only degrades.
Heartbeat(w) ==
    /\ pc[w] \in Busy /\ ~stalled[w]
    /\ beat[w] = 0
    /\ beat' = [beat EXCEPT ![w] = HeartbeatTicks]
    /\ leaseLeft' = IF HoldsLease(w, task[w])
                    THEN [leaseLeft EXCEPT ![task[w]] = LeaseTicks]
                    ELSE leaseLeft
    /\ UNCHANGED <<status, leasedBy, delay, attempts, handled, lockVars,
                   pc, task, stalled, held, steady, budget>>

Down(n) == IF n > 0 THEN n - 1 ELSE 0

ClockRuns ==
    \/ \E j \in Jobs : leaseLeft[j] > 0 \/ delay[j] > 0 \/ lockLeft[j] > 0
    \/ \E w \in Workers : beat[w] > 0

\* Time passes, but not beyond the due heartbeat of a worker that is running.
\* An expired Redis key is gone.
Tick ==
    /\ ClockRuns
    /\ \A w \in Workers : pc[w] \in Busy /\ ~stalled[w] => beat[w] > 0
    /\ leaseLeft' = [j \in Jobs |-> Down(leaseLeft[j])]
    /\ delay' = [j \in Jobs |-> Down(delay[j])]
    /\ lockLeft' = [j \in Jobs |-> Down(lockLeft[j])]
    /\ lockOwner' = [j \in Jobs |-> IF lockLeft[j] <= 1 THEN NoWorker ELSE lockOwner[j]]
    /\ beat' = [w \in Workers |-> Down(beat[w])]
    /\ held' = [w \in Workers |-> IF pc[w] = "handling" /\ held[w] < LockTicks
                                  THEN held[w] + 1 ELSE held[w]]
    /\ UNCHANGED <<status, leasedBy, attempts, handled, pc, task, stalled, steady, budget>>

Stall(w) ==
    /\ pc[w] \in Busy /\ ~stalled[w]
    /\ Spend("stall")
    /\ stalled' = [stalled EXCEPT ![w] = TRUE]
    /\ steady' = [steady EXCEPT ![w] = FALSE]
    /\ UNCHANGED <<jobVars, lockVars, pc, task, beat, held>>

Wake(w) ==
    /\ stalled[w]
    /\ stalled' = [stalled EXCEPT ![w] = FALSE]
    /\ UNCHANGED <<jobVars, lockVars, pc, task, beat, held, steady, budget>>

\* The process dies: nothing is settled and no lock released.  What comes back
\* is a new process with a new workerId, which no row of the queue names.
Crash(w) ==
    /\ pc[w] \in Busy
    /\ Spend("crash")
    /\ GoIdle(w)
    /\ stalled' = [stalled EXCEPT ![w] = FALSE]
    /\ leasedBy' = [j \in Jobs |-> IF leasedBy[j] = w THEN NoWorker ELSE leasedBy[j]]
    /\ lockOwner' = [j \in Jobs |-> IF lockOwner[j] = w THEN NoWorker ELSE lockOwner[j]]
    /\ UNCHANGED <<status, leaseLeft, delay, attempts, handled, lockLeft,
                   beat, held, steady>>

\* Every job is settled: the workers go on polling an empty queue.
PollEmpty ==
    /\ \A j \in Jobs : Settled(j)
    /\ \A w \in Workers : pc[w] = "idle"
    /\ UNCHANGED vars

WorkerStep(w) ==
    \/ EnterHandler(w) \/ RefusedLock(w)
    \/ HandlerReturns(w) \/ HandlerThrows(w) \/ HandlerDefers(w)
    \/ Complete(w) \/ CompleteTooLate(w) \/ Fail(w) \/ Defer(w) \/ SettleTooLate(w)

Next ==
    \/ \E j \in Jobs : Enqueue(j) \/ CancelWaiting(j)
    \/ \E w \in Workers, j \in Jobs : Claim(w, j)
    \/ \E w \in Workers :
         WorkerStep(w) \/ Heartbeat(w) \/ Stall(w) \/ Wake(w) \/ Crash(w)
    \/ Tick
    \/ PollEmpty

Spec == Init /\ [][Next]_vars

\* Timers fire, time passes, a running worker goes on, a stalled one wakes,
\* and the poll loop of some idle worker picks up a job that stays claimable.
Fairness ==
    /\ WF_vars(Tick)
    /\ \A w \in Workers :
         WF_vars(WorkerStep(w)) /\ WF_vars(Heartbeat(w)) /\ WF_vars(Wake(w))
    /\ \A j \in Jobs : WF_vars(\E w \in Workers : Claim(w, j))

FairSpec == Spec /\ Fairness

-----------------------------------------------------------------------------
(* Properties                                                               *)

TypeOK ==
    /\ status \in [Jobs -> JobStatus]
    /\ leasedBy \in [Jobs -> Workers \cup {NoWorker}]
    /\ leaseLeft \in [Jobs -> 0..LeaseTicks]
    /\ delay \in [Jobs -> Nat]
    /\ attempts \in [Jobs -> 0..MaxAttempts]
    /\ handled \in [Jobs -> BOOLEAN]
    /\ lockOwner \in [Jobs -> Workers \cup {NoWorker}]
    /\ lockLeft \in [Jobs -> 0..LockTicks]
    /\ pc \in [Workers -> Busy \cup {"idle"}]
    /\ task \in [Workers -> Jobs \cup {NoJob}]
    /\ beat \in [Workers -> 0..HeartbeatTicks]
    /\ stalled \in [Workers -> BOOLEAN]
    /\ held \in [Workers -> 0..LockTicks]
    /\ steady \in [Workers -> BOOLEAN]
    /\ budget \in [Hazard -> Nat]
    /\ \A w \in Workers : pc[w] \in Busy <=> task[w] # NoJob

\* However long a handler takes, a worker whose timers kept running since it
\* claimed a job still holds that job's lease: nobody else was given the job,
\* and its result will be accepted (worker-runtime's heartbeat).
RunningWorkerKeepsLease ==
    \A w \in Workers : pc[w] \in Busy /\ steady[w] => HoldsLease(w, task[w])

\* Two handlers of one job overlap only when the earlier one has outlived the
\* time to live of its lock: until then the lock is its own, whatever stalled
\* or late workers release meanwhile.
LockExcludesUntilItExpires ==
    \A w \in Workers :
        pc[w] = "handling" /\ held[w] < LockTicks =>
            /\ lockOwner[task[w]] = w
            /\ \A v \in Workers \ {w} :
                 pc[v] = "handling" /\ task[v] = task[w] => held[v] = LockTicks

\* So far no handler has thrown, no process stalled and nobody canceled a job.
Undisturbed ==
    /\ budget["throw"] = MaxThrows
    /\ budget["stall"] = MaxStalls
    /\ budget["cancel"] = MaxCancels

\* A job whose handler never fails survives crashes: the retries refused
\* because a dead worker's lock outlives its lease do not use up the job's
\* attempts.
CrashNeverDeadLetters == Undisturbed => \A j \in Jobs : status[j] # "dead_letter"

\* The queue keeps the abstract contract: settled once and for good, success
\* only after the handler ran to the end, every job settled eventually.
Delivery == INSTANCE AtLeastOnceDelivery WITH
    phase <- [j \in Jobs |-> IF status[j] \in {"queued", "leased", "failed"}
                             THEN "open" ELSE status[j]],
    handled <- handled

DeliversAtLeastOnce == Delivery!FairSpec
=============================================================================
