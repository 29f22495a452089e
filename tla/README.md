# Formal models of Yield

Yield lets a user assign trading agents to a (Paper) brokerage account. Agents analyse
markets, propose trades, and after the user's approval (or an automatic gate) an
execution worker places the order and keeps reconciling it until it is done. The system
is a set of TypeScript services over one PostgreSQL database and one Redis: there is no
in-process state worth the name that survives, so correctness lives in transactions,
leases, idempotency keys and in the order in which independent processes commit.

This directory holds TLA+ models of that core, TLC configurations that check them, and
proofs checked by TLAPS. Line numbers refer to the files under `src/` of the repository.

## 1. Inventory

| Component | State it keeps | Operations | Hard part | Correct when |
|---|---|---|---|---|
| Proposal state machine and store (`services/agent-orchestrator/src/index.ts`, `packages/contracts`) | proposals: status, version, history, idempotency keys | create, get, transition | concurrent callers with old information, retries, expiry | no submission without the approval the mode demands, in time; a key acts once; terminal is final |
| Durable queue, polling workers, lock (`durable-queue.ts`, `worker-runtime.ts`, `coordination.ts`) | `queue_jobs` rows, Redis keys | enqueue, claim, heartbeat, defer, complete, fail; acquire, release | leases and locks that expire under a running, stalled or dead worker | at-least-once delivery, one lease holder, exclusion while the lock lives |
| Execution worker and Paper broker (`services/execution-worker`) | orders, fills, reconciliation jobs; the broker's in-memory submissions | submit an approved proposal, reconcile an order, poll for reconciliations | a crash or a redelivery between any two of eight transactions | rows agree, fills bounded, an open order closes |
| API: approvals, pause, orders (`services/api/src/postgres-store.ts`) | proposals, approvals, agents' status, reservations | approve, reject, pause, remove, resume, configure, cancel an order | races with a worker that has already read the rows | what the user withdrew does not trade; verdicts stick |
| Agent run pipeline, reservations (`persistent-pipeline.ts`) | runs, proposals, capital reservations | run an agent, replay a run, check a submission | concurrent runs reserving the same capital; a pause while a run is open | one live proposal a symbol; capital reserved once and given back; a run decided once |
| Risk engine (`packages/risk-schemas`) | none | evaluate a proposal, validate a policy | some forty limits, their boundaries, the exemptions of a protective exit | a user's policy never opens what the platform's limits close |
| Scheduler, plan cycles, research (`paper-scheduler.ts`, `plan-cycle.ts`, `plan-research*.ts`, `hermes-research.ts`, `014_plan_cycle_research_and_fanout.sql`) | cycles, frozen inputs, artifacts, schedule states | tick, claim, ask, save, fan out | zombie research workers, retries, a cohort of different cadences | one artifact per cycle, data as fresh as promised, no tick beyond the ceiling, each agent at its own pace |
| Pairing, broker authorization (`postgres-pairings.ts`, `server.ts`, `contracts`, `broker-sync-service`) | pairings, exchange attempts, sagas, connection; the connector's credential files | create, claim, start, callback, cancel, disconnect, reconcile, janitor | tokens at a connector outside the database; lost answers, several reconcilers | every authorization asked for ends revoked or in use, no row says so early, and a revoked one stays revoked |
| Broker sync (`services/broker-sync-service`) | connection, accounts, snapshots, receipts | hydrate, refresh, retry, revoke | a snapshot fetched before and written after a revocation; a job repeated after its commit | committed once; a pairing is verified by its own authorization or taken back |
| Market data service | snapshots | refresh quotes | partial saves, provider's clock | freshness is never overstated |
| Step-up, subscriptions, notifications, HTTP API, identity, configuration, rate limits, OAuth/MCP/vault, apps | proofs, subscriptions, windows | requests | signatures, parsing, configuration | see section 5 |

How they interact: the API, the pipeline and the pollers *enqueue* jobs in the
transaction (or right after it) that makes them necessary; workers *claim* them under a
lease. A scheduler tick elects a plan cycle and queues market data, research and agent
runs; a run reads the cycle's research, the account the broker sync wrote and the quotes,
and in one serializable transaction leaves a proposal with its reservation; the user
approves it; the handler of an execution job takes a Redis lock, reads the proposal,
assesses it, and then writes proposal, order, broker and reconciliation rows in separate
transactions. The API writes the same proposal, order, reservation and queue rows when
the user acts, without going through the worker. Row locks, version comparisons and
serializable isolation are the only synchronisation. The broker connection is shared by
the API's pairing handlers, the broker-sync worker and, over RPC, the connector, whose
files no transaction covers: a row that owns the outcome is written before each call, and
whoever finds it later reconciles it.

`PROJECT.json` lists every component with what is modelled of it, the hazards at their
lines, and for each definition the lines it stands for.

## 2. Modules

| Module | What it is |
|---|---|
| `ProposalStates` | statuses, transition graph, authorized actors (constants) |
| `ProposalLifecycle` | `transitionProposal` behind its store, against concurrent callers |
| `AtLeastOnceDelivery` | abstract: what a job's producer may rely on |
| `DurableQueue` | queue, polling workers, heartbeat timer and handler lock; implements `AtLeastOnceDelivery` |
| `OrderContract` | abstract: what the order path promises a user |
| `Execution` | API transactions, execution worker, Paper broker, poller over the shared rows; implements `OrderContract` |
| `RiskEngine` | `evaluateRisk` and the validation of a policy, as operators |
| `RunContract` | abstract: what the agent runs promise their user |
| `AgentPipeline` | the runs of one user's agents with the user's own actions around them; EXTENDS `RiskEngine`, implements `RunContract` |
| `HermesResearch` | request, reply and artifact of plan-cycle research, as operators |
| `PlanCycles` | scheduler, market data, research workers, fan-out, start of a run; uses `HermesResearch` |
| `BrokerAuthorization` | pairings, callback, reconcilers, janitor and the connector |
| `BrokerHydration` | hydration jobs from the check of the connection to the committed snapshot |
| `*Proofs` | the theorems of the module they are named after |
| `MC*` | instances for TLC |

`Execution` uses `ProposalStates` for the graph, and sees the queue through what
`DurableQueue` establishes: at most one lease holder per job (`holder`), a holder that
stalls and loses its lease but runs on (`Lapse`), a holder that dies (`Crash`), results
accepted from the holder only (`Settle`), attempts that run out. Retry delays are left
out: a waiting job may be claimed at any time. `AgentPipeline`, `PlanCycles`,
`BrokerAuthorization` and `BrokerHydration` see it through the same contract; leases lapse
under a running holder wherever what the holder does next matters (`Lapse` of `Execution`
and `BrokerHydration`, `LeaseLapses` of `PlanCycles`).

### ProposalLifecycle

One action per store operation; `Transition` is the whole critical section of
`InMemoryProposalStore.transition`: key lookup, version comparison, then the checks of
`transitionProposal` in the code's order, then every assignment. Refusals change nothing
and are therefore not actions. A caller `Compose`s a command from what it reads and may
send it any time later, again after a lost answer, or with the version read again
(`Reread`): the key's fingerprint covers the command and not the expected version, so the
last one is possible. The actor and the approval evidence are chosen when the command is
sent, which is at least as strong as any caller. A caller has one live key, because the
store keeps a key for ever and only a caller that still holds it can repeat it. The
proposal's immutable history is kept as the set of statuses entered and the times of the
first approval and submission.

### DurableQueue

Instants are kept as the ticks left until they are reached, which is all that the SQL
comparisons with `clock_timestamp()` can tell and keeps the state finite. `Tick` never
passes the due heartbeat of a worker that is running: timers of a live Node process
fire; a worker that is blocked, paused or partitioned is `stalled`, and for it nothing
happens until `Wake`. A crashed worker returns under a new `workerId`, so rows and keys
that name the old one are owned by nobody. `complete` that finds the lease gone throws
into the catch block, which calls `fail` (`CompleteTooLate`, then `SettleTooLate`).
`held` and `steady` are history variables of the properties.

### Execution

One action is one database transaction or one call of the broker; the handler's local
variables (`late`: whether the captured `now` is past the expiration; `persisted`, `agg`,
`sub`) live between them, and `EndCall` clears them. The steps of `submit_approved`:

    claimed -> reading -> loading -> assessing -> beginning -> recording -> placing
                                        |                                     |
                                        +-> recovering (-> resubmitting)      v
                                                |                         applying -> persisting
                                                +----------------------------^

with `expiring` (stale analysis), `deferring` (missing quote), `marking` (ambiguous
placement) and `failing` on the side. `HandlerThrows` stands for what any call may raise:
database errors, a failed risk recheck, a bad quote, an event time behind the row's. It
is budgeted, with deferrals, lapsed leases and crashes: `Budgets` is the set of the
combinations of failures a run explores, one of which is chosen at the start; refusals that follow from the state (status, version, expiry,
pause, receipt, outcome) are not budgeted and follow from the code's conditions.

The Paper broker decides from the quote whether an order rests, fills or, above
`partialFillThresholdShares`, fills by half; this is a choice. Its memory belongs to the
process and goes with a crash. It rejects nothing, so REJECTED is unreachable, and live
mode is refused at start-up (`worker-main.ts:23`): both are left out. Proposals are in
`confirm_every_trade` mode, of one agent; the order's, reconciliation's and reservation's
rows exist once per proposal. The quote refresh job the worker queues is a job of the
market data service (`RefreshForOrder` of `PlanCycles`); here it is only the deferral that
follows.

### RiskEngine

Each check of `evaluateRisk` is one `Failing(code, passed)`, the source's `check`; the
checks with arithmetic are grouped by what they look at (exposure, ages, options, the
rest) and the some twenty-five checks of one database fact are their codes, raised by
whoever supplies the context. Amounts are whole units and ratios percentages, so a ratio
is compared by multiplication. A protective exit waives exactly the checks that carry
`isProtectiveExit ||` in the code.

### AgentPipeline

A run is `#executeRun` in one `BEGIN ISOLATION LEVEL SERIALIZABLE`: `Begin` fixes what the
snapshot shows and decides, `Commit` writes run, proposal, reservation and approval
request, `Abort` is a rollback or a death. PostgreSQL's rule is `MustAbort`: of two
concurrent transactions each of which read what the other wrote, the second to commit
fails; `Sees` says what a run reads (the sum of reservations, the live proposals of its
symbol). The screens before the risk engine are sets of codes from `Circumstances`, split
by what they do: those that throw leave the run undecided, the others complete it as
failed. The user's side is `approveProposal`, `proposalAction`, `setAgentStatus`,
`pauseAll`, `resumeAll`, `deleteUserAgent` and `patchUserAgent` of the API; `Check` is the
second risk evaluation, `Submit`, `Place`, `Fill` and `CancelOrder` are Execution's steps
reduced to what a run's checks read. Agents begin active in confirm-every-trade mode with
no positions. `RunContract` knows no transactions, snapshots, clocks or money: a run is
one decision at one instant, an offer is made only while no other of its symbol stands, and
stopping an agent withdraws its offers and their capital for good. `Contract` maps the
pipeline to it.

### PlanCycles and HermesResearch

`Tick` is one call of `app.schedule_paper_agent_jobs`: it elects the cycle of the current
bucket, queues refresh and research while no artifact is on record, picks the batch,
decides who is due, queues quotes and runs within the ceiling in the SQL's order, and
moves the schedule states (`Serve`). The scheduler is not the only producer of the queues
whose backlog it counts: the execution worker queues a quote refresh on `market-data` when
an order of a run finds no fresh quote (`RefreshForOrder`, `execution-prerequisites.ts:56-69`),
outside the scheduler's lock and whatever the ceiling, so the backlog may exceed it. That
is why `TicksKeepCeiling` speaks of ticks: one that queues anything ends within the
ceiling, and one that finds it reached queues nothing and moves no agent's due time
(`Room` is the SQL's `greatest(0, ...)`). A research worker claims (`ClaimContext` freezes the quotes
once), calls, saves and ends; `LeaseLapses` makes it a zombie that may also have lost its
lock. Hermes may answer with anything `Deviations` lists: another model, a truncated
reply, an old one, one of another request, one that lacks a symbol. `RunAgent` is the part
of an agent run that reads the research (`#validatePlanCycleResearch`) and `RunThenCrash`
its redelivery.

### BrokerAuthorization

A pairing carries at most one exchange attempt and one saga, so a pairing names all
three, and its transaction at the connector. One action is one database transaction or
one step of the connector: a call is a record in `calls` that goes through `TokenAnswer`,
`ReadCredential`, `CheckTombstone`, `WriteCredential`, `Unlink`, `WriteTombstone` on its
own, whether or not its caller still waits (`GiveUp`). The same reconciliation
(`Load...`, `Stage`, `Acknowledge...`) is run by the callback, a disconnect and a queue
worker. `Clock` makes cleanup and confirmation deadlines pass; `Janitor` is
`requeueStuckAuthorizationWork`. The owner may sign out or close the account at any time, in
every run: this is no fault and has no budget.

### BrokerHydration

A binding is one authorization of the connection; jobs are initial (of a binding) or
scheduled (of a bucket). `RequireReady`, `ReadCredential`, `EndFetch`, `Persist` or
`PersistRefused`, `Dispatch`, `Complete` are the handler's steps in order, each a transaction
or a call of its own. `Bind` and `Disconnect` happen whatever the workers are doing: no code
waits for an open call. The connector looks the credential up again, so a call may use
another authorization than the one that was checked; a snapshot carries whose credential
it was fetched with (`of`), and the next refresh may be queued, fail to be queued
(`DispatchFails`, in the same `try` block as the commit) or be beyond the bound. A connection
that is not ready is looked at first and retried; what ends an initial job hopelessly
(`terminalInitialHydrationCodes`) revokes its authorization in `RevokeInitial`, and
what fails is retried until `LastAttempt`. Staging that revocation finds no saga that is not
revoked yet, or fails: then `DeferInitial` runs the whole job again in 30 s without using an
attempt. A lease may lapse under a worker that goes on (`Lapse`), whose `complete`, `fail` or
`defer` then counts for nothing. The clock only moves with what is stamped.

## 3. Runs

| Run | Question | Instance | Result |
|---|---|---|---|
| `proposal_lifecycle` | can stale, repeated or late commands do harm? | 1 proposal in each mode, 2 callers, times 0..2, 9 versions | no |
| `queue_delivery` | does the queue exclude and deliver (refinement, with liveness), and survive a crash? | lease 2, heartbeat 1, lock 4, delays 1 and 2, 3 attempts, one failure of each kind | yes |
| `execution` | do rows, fills and the contract hold, and does what rests close, for an order that may fill in part? | quantity 3, threshold 2, 2 attempts; a lapsed lease, or a throw, a deferral and a crash; fairness | yes |
| `execution_overfill` | fills within the quantity, small order? | quantity 2, a lapsed lease | **violated** |
| `execution_orphan` | does a small order close in the end? | quantity 2, a lapsed lease, fairness | **violated** |
| `agent_pipeline` | do concurrent runs and a busy user keep proposals and capital in order? | 2 agents, 1 run each, 2 symbols, 2 workers, power for one order, times 0..2, 1 change | yes |
| `plan_cycles` | one artifact, fresh data, own cadence, ticks within the ceiling? | 2 agents (cadence 2 and 4), 2 research workers, times 0..3, 2 catalogs, 2 faults, 1 change, ceiling 2 | yes |
| `broker_authorization` | does every authorization end revoked or in use, and stay revoked? | 1 pairing, 1 worker, 1 fault, fairness | yes |
| `broker_pairings` | do pairings side by side keep the tables consistent, and is a disconnect answered only when all are revoked? | 2 pairings, 1 worker, sign-out and closing at any time, no fault | yes |
| `broker_late_confirmation` | does a revocation win over a late confirmation? | 1 pairing, 1 worker, no fault | **violated** |
| `broker_hydration` | is each snapshot committed once, and each pairing verified by itself or taken back? | 2 bindings, 2 refreshes, 2 workers, 2 attempts, 2 failures (calls, leases, crashes) | yes |
| `broker_replay` | is a repeated hydration job idempotent? | 1 worker, 1 failure | **violated** |

**Bounds.** Two callers or workers suffice for every race the code guards against: the
guards are per row, and each property relates one actor to one other. One proposal (job)
is enough in the first components because no row of one is read for another, except in
a pause, which treats each alike; runs do read each other's rows, hence two agents that
may want one symbol. Nine versions let a proposal traverse the longest path including a
repeated reconciliation. The `Max...` constants bound the failures of a run and never the
code's own steps: within the budget a failure may happen at any step. `MaxAttempts = 2`
lets a job be retried once and then dead-lettered. `queue_delivery` scales the code's times
down so that they keep their order: the lock outlives the lease, and the delays of the
attempts before the last one just outlast a dead worker's lock (with a lock of 5 TLC finds a
dead letter, and so it does with a constant delay). For the code's own times, a lock of 60 s
and ten attempts, the same property is the theorem `CrashHarmless`. The quantity 3 of
`execution` is above the threshold, so that an order may fill in part; the two runs with
quantity 2 show what happens to an order below it. There, and only there, is a proposal
FILLED while its order is open, so the refusing branch of `ReconcileUnfillable` is met in those two
runs alone; the theorems of `ExecutionProofs` that do not assume `PartiallyFills` cover it.
In `agent_pipeline` the buying power of 7 pays one order of 4 and the policy's reserve, so
two uncoordinated reservations would show; three instants let data go stale, an approval
come late and a reservation lapse. In `plan_cycles` the paces 2 and 4 make the slower
agent skip a cycle, the ages are the code's in their order (`UserQuoteAge < CycleAge <
QuoteWindow`), and `MCInit` splits the budgets over four starting points (two agents; one
agent with all faults; an agent that joins or leaves; a new catalog), each of which is a
start of `Init`: together they reach every action. `broker_authorization` holds one of
everything because its state is mostly the connector's interleaving; what two
authorizations do to each other is `broker_pairings`. Two bindings let a snapshot of one
meet the connection of the other; four instants stamp
two snapshots of each. Symmetry is used where workers, pairings, agents or
symbols are interchangeable and no liveness is checked.

**Fairness.** `DurableQueue`: a running process takes its next step and its timers fire,
a stalled one wakes, time passes, and some idle worker polls a job that stays claimable
(`PollingWorker.run` polls every 750 ms). `Execution` adds the poller's interval timer.
`BrokerAuthorization`: a worker goes on with what it has begun, the queue gives it every
live job in the end (strong fairness, because a failed job waits out a backoff in
between), the last of a job's attempts comes, the connector answers a call of the
worker's, deadlines pass and the janitor's interval timer fires; nothing is assumed of
the API, whose requests may stop anywhere. Nothing is assumed of users, of quotes or of
failures. Deadlock is checked in `ProposalLifecycle` and `DurableQueue`, where polling an
empty queue (`PollEmpty`) is only possible when all is settled. Elsewhere a system whose
jobs are settled and whose users and budgets are done really stops, so those runs do not
check deadlock.

### What the violated runs show

* `execution_overfill` - an order rests, its outcome is persisted, the job's lease lapses
  before `complete`, reconciliation fills the order, and the redelivered submission
  reaches a process whose broker has no memory: it places the order again
  (`brokers.ts:62`), the outcome `filled` equals the row's status, and a second fill is
  inserted beside the reconciled one (`persistence.ts:686`). The API then refuses to show
  the order (`postgres-store.ts:536-539`). For a large order the second outcome is
  `partially_filled`, which regresses a FILLED proposal and is refused: `execution`
  checks `FillsWithinQuantity` with success there.
* `execution_orphan` - the same repetition *before* reconciliation. The first worker stalls
  with its placement under way, the job is claimed again, and both place the order, each at
  a broker that remembers nothing of the other's. One outcome is stored as `submitted`, the
  other moves the proposal to FILLED and is then refused, because the order row is no longer
  `pending`; the submission is dead-lettered. Reconciliation refuses a FILLED proposal whose order is
  open until it is dead-lettered too, and its key `reconcile:<job>` was enqueued once
  (`worker-main.ts:50`): the poller claims the row for ever and nothing runs. The order never
  reaches the terminal state `docs/architecture/agent-architecture.md:13` speaks of.
  `OpenOrderCloses` therefore holds with the limits its comment names: a large order, and
  fewer exceptions than attempts.
* `broker_late_confirmation` - a confirmation has looked for the tombstone and found none;
  the owner closes the account, the authorization is revoked (the file unlinked, the tombstone
  written, the row acknowledged), and then the confirmation renames its temporary file into place
  (`robinhood-connector.ts:251-255`). The confirmed credential is back, and `#read`
  (`robinhood-connector.ts:242-247`) does not look at the tombstone.
  `packages/contracts/src/index.ts:337` demands that a revocation is "terminal-wins over a
  concurrent late confirmation". `RevokedStaysRevoked` says what does hold: once no call past its
  check is left, no other comes, and a file that is gone stays gone.
* `broker_replay` - a snapshot is committed and the next refresh cannot be queued (or the
  worker stops before, or loses its lease). The job runs again, fetches a snapshot with a new instant, whose
  fingerprint is not that of the receipt, and is refused as a reuse of its key until its
  attempts are used up; an initial job then revokes the authorization it had connected,
  a scheduled one ends the chain of refreshes. `docs/operations/broker-account-sync.md:15`
  calls replays idempotent.

Further deviations the modelling met, which no run here repeats:

* The handler's lock is keyed by the queue job, so the submit and the reconcile handler of
  one proposal may overlap; safety rests on row locks and versions, as the passing runs show.
* Cancelling a SUBMITTING order writes CANCELED over an edge the transition graph does not
  have.
* A proposal that is SUBMITTING without an `orders` row counts neither as a live proposal nor
  as an open order, so a second buy of the symbol may be decided beside it, although
  `docs/architecture/agent-architecture.md:21` says duplicates are rejected.
  `OneLiveProposal` therefore speaks of what the query looks at.
* A scheduled refresh that straddles a disconnect and a new authorization is committed to the
  new one, fetched with the old one's credential: `persistHydration` compares no binding, and a
  snapshot up to five seconds older than the binding passes, a later stamped one anyway. Only the initial job is
  tied to its saga (`PairingVerifiedByItself`).
* An initial job whose saga is already `revoked` is deferred every 30 s for ever:
  `requestInitialAuthorizationRevocation` finds no saga (`persistence.ts:467-479`), the handler
  defers (`runtime.ts:291-293`), and a deferral uses no attempt, although
  `docs/operations/broker-account-sync.md:15` says that failures retry until the bounded
  queue policy is exhausted. `HydratedOrRevoked` holds, the job merely never ends.

## 4. Proofs

The theorems hold for every value of the constants that satisfies the modules' named
assumptions (`ConstantsAssumption`, `NoSubmissionAssumption`, `PlanAssumption`,
`PairingsAssumption`, `HydrationAssumption`, `PipelineAssumption`, `BoundsAssumption`:
natural bounds, a heartbeat period below the lease, null values outside the sets,
finitely many agents, a policy that passes the platform's validation).

*Proposal lifecycle.* `OnlyAuthorizedSubmission` is not inductive: from a status alone one
cannot tell how a proposal got there. The invariant adds, for each status, which statuses
must be in its trail (a proposal in APPROVED or beyond has been checked and reviewed, and
its evidence fits its mode), that a proposal never passes AWAITING_USER_APPROVAL on the
automatic path, that the times recorded are ordered and below the expiration for the
first submission, and that an unused key has no effect yet. The only step that matters is
`Transition`; each of its cases is one edge of the graph.

*Durable queue.* `LeaseKept` rests on: the holder of a job is the only worker with that
task whose timers have run throughout; its next heartbeat is due no later than its lease
runs out (`beat < leaseLeft`), because the period is shorter than the lease and `Tick` stops
at a due heartbeat. `LockExcludes` rests on: while a handler has run less than the lock's
time to live, the key is its own and `lockLeft = LockTicks - held`; a second handler starts only on a
free key. `QueueKeepsContract` maps each action to a step of the abstract
specification or to a stutter; `Complete` needs that a worker in `succeeding` has run its
handler.

`CrashHarmless` says that crashes alone never dead-letter a job, although the lock a dead
worker leaves behind refuses every handler until it expires, and each refusal costs an
attempt. Its hypothesis is the code's times as far as the argument needs them
(`RetriesOutlastLock`: a lock of at most 63 ticks and of at most the longest delay, a longest
delay of at least 32 ticks, `MaxCrashes + 6 <= MaxAttempts`, which for ten attempts is
four crashes; with a fifth TLC finds a dead letter). The property speaks of a system in which
no handler has thrown, no process stalled and nobody canceled so far (`Undisturbed`: a
handler that throws uses up attempts by design); what has been disturbed stays so
(`BudgetsShrink`), and until then the invariant
`OrphanInv` relates three quantities: what is left of an orphaned lock and what the attempts
since have waited are together at most the lock's time and the present delay
(`OrphansRunOut`). After the first crash the waiting is the sum of the doubling delays, which passes the
lock's time at the sixth refusal; after a later crash the sixth delay alone outlasts it, so
each later crash adds one attempt at most (`FewAttempts`). That only a crash leaves a lock
without a handler is `LocksOfHandlers`.

*Execution.* Three lemmas say what a step does to a proposal's row (`RowSteps`), to an
order and its fills (`OrderSteps`) and to the aggregate a worker holds
(`AggregateSteps`); the invariants build on them.

* `ReceiptFirst`: a worker that is about to place, or that read a status no proposal
  reaches without a receipt (`Committed`), works on a proposal whose order row exists. A
  placement authorization read before a pause or a cancellation is harmless because the
  receipt is refused unless the row is still SUBMITTING.
* `RowsAgree` is not inductive for the rows alone: RECONCILIATION_ERROR may only be written
  over SUBMITTING, which the graph does not say (it has the edge from SUBMITTED too). What
  excludes it is that a worker in `marking` holds a SUBMITTING aggregate and that its
  version, if still equal, means that the row is unchanged (`Control`, `Fresh`). For
  the outcome it persists, `Fresh` adds that an order which it saw working was not taken
  back (`Evolution`).
* `OpenOrdersFindable`: an order without an outcome has no reconciliation row, job or
  handler yet (`Unseen`), so none can close the row that the outcome is about to create.
* `FillsBounded` assumes `Quantity > PartialThreshold` and rests on "a reconciled fill leaves
  the order `filled`", which no outcome of the broker then equals. Without the
  assumption it is false (`execution_overfill`).
* `ContractKept`, under the same assumption, maps every step to one of `OrderContract` or to
  a stutter.

*Risk engine.* `UserLimitsOnlyTighten`: whatever policy passes `POLICY_LIMITS_VALID`, an
order that passes `evaluateRisk` under it passes under `PLATFORM_RISK_LIMITS`. A policy
without violations is tighter in every limit (`NoViolationTightens`), each group of checks
is monotone in the limits, and a protective exit that counts under the user's freshness
limit counts under the platform's, so the exemptions carry over.

*Broker hydration.* The invariant `IInv` adds to the types: one saga at most is live, the
latest binding's, which holds the connection while it is confirmed or awaits
confirmation (`ConnectionFollowsSaga`); a job is leased to one worker at most, which knows its
attempts, while others whose lease lapsed may still be at work on it, and what is not
settled has an attempt left (`LeasesHeld`); what an initial job has in hand was fetched with its
own authorization's credential, unless that one has been given up meanwhile
(`FetchedForBinding`); and a worker past its persisting or revoking left its binding settled
(`PastIsSettled`). `PairingsVerified` follows because the commit of an initial job looks at its saga
again: a credential read after a disconnect may be another's, but then the saga is in
revocation for good. `Hydrated` holds because an initial job only ends after its receipt or after
`Unbind`. `ReplayUndisturbed` bounds the finding of `broker_replay`: if no lease lapses under its
holder, no worker stops whose job has a receipt, and no next refresh fails to be queued
(`Undisturbed`, which leaves crashes before the commit, failed calls, disconnects and new
authorizations as they are), replays are idempotent. Then a job with a receipt is completed or in
the hands of a worker about to complete it (`ReceiptEndsJob`), whose lease is exclusive; so no retry,
dead letter or revocation is ever of such a job, and only the owner takes the
authorization back (`HydratedIsKept`).

*Agent pipeline.* The heart is what a commit knows of the transactions it was concurrent
with: a run's own snapshot showed no live proposal of its symbol and counted the
reservations in force, except for what was committed since, which is in `missed`
(`DuplicatesMissed`, `PowerCovers`). A conflicting commit in `missed` makes `MustAbort`
true, so at `Commit` nothing relevant was missed, which gives `OneLive` and, through
`evaluateRisk`'s own BUYING_POWER_RESERVE check (`Passed`), `WithinPower`.
`RunsDecided`, `OrdersFollowProposals` and `ReservationFollowsProposal` tie rows together;
`ApprovedIsActive` (an approved proposal's agent is active) carries
`PausedSubmitsNothing`: `Submit` itself does not look at the agent, but a pause cancels
what is approved, an approval demands an active agent, and a run that commits after the
pause only ever leaves an unapproved proposal.

`RunsAreAtomic` is the refinement of `RunContract`. `Begin`, `Abort`, the risk checks, the clock and a
redelivery are stutters; a run takes effect at its `Commit`, and there the abstract `Offer`'s
condition on all standing offers is what `DuplicatesMissed` and `MustAbort` give, although
the run looked at its snapshot and not at the present. A pause or a removal maps to one
`Stop` of all its agents, which must withdraw exactly the standing offers
(`StandingPhases`, `StopMoves`); `Submit` needs `ApprovedIsActive` and
`ReservationFollowsProposal`. The run `agent_pipeline` leaves `RunsKeepContract` out because it would nearly
double its time; TLC agrees with it on the same instance.

*Plan cycles.* `IInv` adds to the types: every job is of an elected cycle, a run of one
whose research is on record (`JobsOfCycles`); a worker is busy with an elected cycle and
shares its lease with nobody, while its lock may be another's too (`WorkersHoldCycles`);
an instant of a cycle is past, what was frozen for it was younger than `ResearchAge` by
then, and an artifact carries the frozen quotes (`FrozenIsYoung`). `OneArtifact` needs no
lock: tables only gain rows (`Gains`), so the artifact a run was queued with is the one on
record for good. `FreshDecisions` adds the age of the frozen quotes by the cycle's instant to
the age a cycle may have when `#validatePlanCycleResearch` lets a run begin.
`BackpressureHolds`: a tick inserts in the order of `Rank`, which no two jobs of one cycle share
(`RankOrders`), so the last one inserted found all the others and the live jobs below
the ceiling (`InsertKeepsCeiling`), however many of these are the execution worker's; and an agent's due
time moves only in a tick that had room (`StepKeepsCeiling`). `OwnCadence` rests on the two `NoLater` conditions of `Due` and
on the instant of a cycle being past; it does not need `next_due_at`.

*Broker authorization.* `IInv` has one part per relation of the tables to the rest.
`Binding`: a saga exists exactly for a completed attempt, one at most is live, and the
pairing that holds the connection is consumed, so no request or callback writes it.
`CallOwners` and `ExchangeCalls`: who waits for a call asked for it and waits for no other, and
a pairing's exchange call is over before its callback is `exchanged`; `Complete` therefore
never begins a saga while a stray exchange could still write the credential. `Revocations`: the
connector holds a revoke call or a tombstone only for tokens whose row is `Taken` (to be
revoked, or revoked), which no step takes back (`Forward`), and a reconciler about to
acknowledge a revocation has its tombstone. `Credentials`: a bound saga's credential
exists, a confirmed one's is confirmed, and a confirmation about to be acknowledged either
finds it so or finds its saga `Taken`, whose acknowledgement the database refuses. The calls
that go on after their owner gave up or crashed are one lemma (`CallsFollow`): each only
loses its owner. A row says "revoked" only once the tombstone is there (`RevokedIsAcknowledged`); a call
that comes to `CheckTombstone` after that is turned away, so only one that had passed it can still
write, which is `RevokedIsFinal`. `DisconnectRevokedAll` reads `Binding` and `Revocations` at the
state in which no live row is left, and concludes for the rows and the tombstones; of the credential
files it can say no more than `RevokedIsFinal` does.

*Only model-checked:* every liveness property (`DeliversAtLeastOnce`'s fairness part,
`OpenOrderCloses`, `EveryAuthorizationSettles`), which is out of the prover's reach; and small
orders, for which the findings `execution_overfill` and `execution_orphan` refute
`FillsWithinQuantity` and `OpenOrderCloses`.

## 5. Not modelled

* Live brokers, OAuth, MCP client and token vault: live mode is refused at start-up, and
  below the connector of `BrokerAuthorization` they are the provider's answers.
* Automatic mode beyond `ProposalLifecycle` and the branch at
  `persistent-pipeline.ts:406-433`: no operation of the API sets an agent to it.
* Positions the account already holds, prices, fees and turnover in the pipeline: the
  context's amounts are zero there; their arithmetic is in `RiskEngine` and its theorem.
* The rows of accounts, capabilities and positions a hydration writes: they follow the
  snapshot in the same transaction.
* That an open order keeps its capital reserved: a reservation may lapse while its order is
  open, and nothing promises otherwise; nor is there a bound on the agents of one cycle.
* The account's closing in `BrokerHydration` (it dead-letters the waiting hydration jobs; the
  authorization's side of it is in `BrokerAuthorization`).
* Idempotency records of the API (a stale record refuses every later request),
  policies, legal consents, support tickets: one transaction each, with no other writer.
* Step-up proofs (consumed in one transaction), subscriptions (signature checks and one
  upsert per notification), the notification worker (a consumer of the modelled queue),
  rate limits (one atomic script), HTTP, configuration, identity, in-memory stores of the
  demo mode, apps.
* Queue priorities, Redis failing over, scheduler health metrics.

## 6. Plan

What is left, in order of importance:

1. Proofs: which failures alone let `execution_overfill` and `execution_orphan` happen, as
   `ReplayUndisturbed` says it of `broker_replay`; and an abstract authorization that `BrokerAuthorization` implements
   and whose steps are the `Bind`, `Confirm`, `Disconnect` and `Revoked` of `BrokerHydration`.
2. `AgentPipeline` composed with `Execution` instead of its reduced submission.
3. `ApiIdempotency` (leased records) and `Subscriptions` (late and repeated notifications)
   as small modules.
