------------------------------ MODULE Execution ------------------------------
(***************************************************************************)
(* From a proposal that awaits its user to a settled Paper order: the      *)
(* API's transactions (approve, reject, pause, resume, cancel an order),   *)
(* the execution worker (submit_approved and reconcile_paper_order jobs),  *)
(* its Paper broker and the reconciliation poller, over the shared         *)
(* database.  Proposals are in confirm_every_trade mode and belong to one  *)
(* agent of one user; each has one order, keyed submit:<proposal>.         *)
(*                                                                         *)
(* One action is one database transaction or one call of the broker.  A    *)
(* worker keeps what it read in variables of its own (persisted, agg, late,*)
(* sub) and uses it in later transactions.                                 *)
(*                                                                         *)
(* The queue is seen through what DurableQueue establishes: a job has at   *)
(* most one lease holder; a holder that stalls (Lapse) or dies (Crash)     *)
(* loses the job to another worker while, if stalled, it goes on running;  *)
(* results are accepted from the lease holder only; attempts run out.      *)
(***************************************************************************)
EXTENDS ProposalStates, Integers

CONSTANTS
    Proposals, Workers,
    NoWorker, NoJob, NoSubmission,      \* model values
    Quantity,           \* proposal.quantity
    PartialThreshold,   \* partialFillThresholdShares
    MaxAttempts,        \* max_attempts of a job
    Budgets             \* bounds of the failures that one behaviour may meet

Hazard == {"throw", "defer", "lapse", "crash"}

ASSUME ConstantsAssumption ==
    /\ Quantity \in Nat \ {0}
    /\ PartialThreshold \in Nat \ {0}
    /\ MaxAttempts \in Nat \ {0}
    /\ Budgets \subseteq [Hazard -> Nat]
    /\ NoWorker \notin Workers

VARIABLES
    \* the database
    status, version,    \* trade_proposals
    order,              \* orders.status, or "none"
    initial, reconciled,    \* quantities of the order's two possible fills
    recon,              \* reconciliation_jobs.status, or "none"
    released,           \* the capital reservation's released_at is set
    job, holder, attempts,  \* queue_jobs
    \* the environment
    expired,            \* the proposal's expiration has passed
    paused,             \* the agent's status is 'paused'
    polled,             \* reconciliations claimed by the poller, not yet enqueued
    \* the execution workers
    pc, task,
    late,               \* expired, when the handler captured its `now'
    persisted, agg,     \* the aggregate first read, and the current one
    sub,                \* the broker's submission
    memory,             \* PaperBroker.#submissions, lost with the process
    \* history
    placed,             \* the broker accepted an order at least once
    budget              \* how many more failures of each kind may happen

dbVars == <<status, version, order, initial, reconciled, recon, released>>
queueVars == <<job, holder, attempts>>
envVars == <<expired, paused, polled>>
localVars == <<late, persisted, agg, sub>>
brokerVars == <<memory, placed>>
vars == <<dbVars, queueVars, envVars, pc, task, localVars, brokerVars, budget>>

Kind == {"submit", "reconcile"}
Job == Proposals \X Kind
JobStatus == {"absent", "waiting", "leased", "succeeded", "dead_letter"}
OrderStatus == {"none", "pending", "submitted", "partially_filled", "filled", "canceled"}
ReconStatus == {"none", "queued", "leased", "succeeded"}

\* The statuses a proposal can have from here on.  The Paper broker rejects
\* nothing, so REJECTED is not among them.
LateStatus ==
    {"AWAITING_USER_APPROVAL", "USER_REJECTED", "APPROVED", "EXPIRED", "CANCELED",
     "SUBMITTING", "SUBMITTED", "PARTIALLY_FILLED", "FILLED", "RECONCILIATION_ERROR"}
Aggregate == [status : LateStatus, version : Nat]
Unread == [status |-> "AWAITING_USER_APPROVAL", version |-> 0]
Current(p) == [status |-> status[p], version |-> version[p]]

\* What PaperBroker.place can answer: the order rests, or it executes in
\* full or, above the threshold, by half.
PartiallyFills == Quantity > PartialThreshold
ImmediateFill ==
    IF ~PartiallyFills THEN Quantity
    ELSE IF Quantity \div 2 > 1 THEN Quantity \div 2 ELSE 1
Resting == [status |-> "submitted", filled |-> 0]
Executed == [status |-> IF PartiallyFills THEN "partially_filled" ELSE "filled",
             filled |-> ImmediateFill]
Submission == {Resting, Executed}

ASSUME NoSubmissionAssumption == NoSubmission \notin Submission

Init ==
    /\ status = [p \in Proposals |-> "AWAITING_USER_APPROVAL"]
    /\ version = [p \in Proposals |-> 0]
    /\ order = [p \in Proposals |-> "none"]
    /\ initial = [p \in Proposals |-> 0]
    /\ reconciled = [p \in Proposals |-> 0]
    /\ recon = [p \in Proposals |-> "none"]
    /\ released = [p \in Proposals |-> FALSE]
    /\ job = [j \in Job |-> "absent"]
    /\ holder = [j \in Job |-> NoWorker]
    /\ attempts = [j \in Job |-> 0]
    /\ expired = [p \in Proposals |-> FALSE]
    /\ paused = FALSE
    /\ polled = {}
    /\ pc = [w \in Workers |-> "idle"]
    /\ task = [w \in Workers |-> NoJob]
    /\ late = [w \in Workers |-> FALSE]
    /\ persisted = [w \in Workers |-> Unread]
    /\ agg = [w \in Workers |-> Unread]
    /\ sub = [w \in Workers |-> NoSubmission]
    /\ memory = [w \in Workers |-> [p \in Proposals |-> NoSubmission]]
    /\ placed = [p \in Proposals |-> FALSE]
    /\ budget \in Budgets

Spend(hazard) ==
    /\ budget[hazard] > 0
    /\ budget' = [budget EXCEPT ![hazard] = @ - 1]

\* The handler's variables go with the call, whichever way it ends.
EndCall(w) ==
    /\ pc' = [pc EXCEPT ![w] = "idle"]
    /\ task' = [task EXCEPT ![w] = NoJob]
    /\ late' = [late EXCEPT ![w] = FALSE]
    /\ persisted' = [persisted EXCEPT ![w] = Unread]
    /\ agg' = [agg EXCEPT ![w] = Unread]
    /\ sub' = [sub EXCEPT ![w] = NoSubmission]

Move(p, to) ==
    /\ status' = [status EXCEPT ![p] = to]
    /\ version' = [version EXCEPT ![p] = @ + 1]

-----------------------------------------------------------------------------
(* The API's transactions                                                   *)

\* A queue insert under a key that exists changes nothing.
EnqueueJob(j) ==
    job' = IF job[j] = "absent" THEN [job EXCEPT ![j] = "waiting"] ELSE job

\* approveProposal, once the step-up proof and the user's standing are checked.
Approve(p) ==
    /\ status[p] = "AWAITING_USER_APPROVAL"
    /\ ~paused
    /\ ~expired[p]
    /\ Move(p, "APPROVED")
    /\ EnqueueJob(<<p, "submit">>)
    /\ UNCHANGED <<order, initial, reconciled, recon, released, holder, attempts,
                   envVars, pc, task, localVars, brokerVars, budget>>

\* approveProposal finds the proposal expired, or its analysis stale.
ExpireUnapproved(p) ==
    /\ status[p] = "AWAITING_USER_APPROVAL"
    /\ ~paused
    /\ Move(p, "EXPIRED")
    /\ UNCHANGED <<order, initial, reconciled, recon, released, queueVars,
                   envVars, pc, task, localVars, brokerVars, budget>>

\* proposalAction
Reject(p) ==
    /\ status[p] = "AWAITING_USER_APPROVAL"
    /\ Move(p, "USER_REJECTED")
    /\ UNCHANGED <<order, initial, reconciled, recon, released, queueVars,
                   envVars, pc, task, localVars, brokerVars, budget>>

\* Waiting jobs whose payload names one of the proposals: reconcile_paper_order
\* payloads name only the order, so these are the submit jobs.
DeadLetterWaiting(ps) ==
    job' = [j \in Job |-> IF j[1] \in ps /\ j[2] = "submit" /\ job[j] = "waiting"
                          THEN "dead_letter" ELSE job[j]]

\* cancelUnsubmittedAgentWork: proposals not past approval and without an order.
Unsubmitted(p) ==
    /\ status[p] \in {"AWAITING_USER_APPROVAL", "APPROVED"}
    /\ order[p] = "none"

Pause ==
    LET ps == {p \in Proposals : Unsubmitted(p)}
    IN  /\ ~paused
        /\ paused' = TRUE
        /\ status' = [p \in Proposals |-> IF p \in ps THEN "CANCELED" ELSE status[p]]
        /\ version' = [p \in Proposals |-> IF p \in ps THEN version[p] + 1 ELSE version[p]]
        /\ released' = [p \in Proposals |-> released[p] \/ p \in ps]
        /\ DeadLetterWaiting(ps)
        /\ UNCHANGED <<order, initial, reconciled, recon, holder, attempts, expired,
                       polled, pc, task, localVars, brokerVars, budget>>

Resume ==
    /\ paused
    /\ paused' = FALSE
    /\ UNCHANGED <<dbVars, queueVars, expired, polled, pc, task, localVars,
                   brokerVars, budget>>

\* cancelOrder: both rows locked, and refused when they do not agree.
Cancelable(p) ==
    /\ order[p] \in {"pending", "submitted", "partially_filled"}
    /\ status[p] \in {"APPROVED", "SUBMITTING", "SUBMITTED", "PARTIALLY_FILLED",
                      "RECONCILIATION_ERROR"}

CancelOrder(p) ==
    /\ Cancelable(p)
    /\ order' = [order EXCEPT ![p] = "canceled"]
    /\ Move(p, "CANCELED")
    /\ recon' = [recon EXCEPT ![p] = IF @ = "none" THEN @ ELSE "succeeded"]
    /\ released' = [released EXCEPT ![p] = TRUE]
    /\ DeadLetterWaiting({p})
    /\ UNCHANGED <<initial, reconciled, holder, attempts, envVars, pc, task,
                   localVars, brokerVars, budget>>

\* The clock passes the proposal's expiration.
Expire(p) ==
    /\ ~expired[p]
    /\ expired' = [expired EXCEPT ![p] = TRUE]
    /\ UNCHANGED <<dbVars, queueVars, paused, polled, pc, task, localVars,
                   brokerVars, budget>>

-----------------------------------------------------------------------------
(* The reconciliation poller                                                *)

\* claimDueReconciliations: a queued row, or a leased one whose lease ran out.
PollClaim(p) ==
    /\ recon[p] \in {"queued", "leased"}
    /\ p \notin polled
    /\ recon' = [recon EXCEPT ![p] = "leased"]
    /\ polled' = polled \cup {p}
    /\ UNCHANGED <<status, version, order, initial, reconciled, released, queueVars,
                   expired, paused, pc, task, localVars, brokerVars, budget>>

PollEnqueue(p) ==
    /\ p \in polled
    /\ polled' = polled \ {p}
    /\ EnqueueJob(<<p, "reconcile">>)
    /\ UNCHANGED <<dbVars, holder, attempts, expired, paused, pc, task, localVars,
                   brokerVars, budget>>

-----------------------------------------------------------------------------
(* The job queue around a handler                                           *)

Claim(w, j) ==
    /\ pc[w] = "idle"
    /\ \/ job[j] = "waiting"
       \/ job[j] = "leased" /\ holder[j] = NoWorker
    /\ job' = [job EXCEPT ![j] = "leased"]
    /\ holder' = [holder EXCEPT ![j] = w]
    /\ task' = [task EXCEPT ![w] = j]
    /\ pc' = [pc EXCEPT ![w] = IF j[2] = "submit" THEN "claimed" ELSE "reconciling"]
    /\ UNCHANGED <<dbVars, attempts, envVars, localVars, brokerVars, budget>>

\* The worker goes on, but the job's lease and the handler's lock ran out.
Lapse(w) ==
    /\ pc[w] # "idle"
    /\ holder[task[w]] = w
    /\ Spend("lapse")
    /\ holder' = [holder EXCEPT ![task[w]] = NoWorker]
    /\ UNCHANGED <<dbVars, job, attempts, envVars, pc, task, localVars, brokerVars>>

\* The process dies with its broker's memory.
Crash(w) ==
    /\ pc[w] # "idle"
    /\ Spend("crash")
    /\ EndCall(w)
    /\ holder' = [j \in Job |-> IF holder[j] = w THEN NoWorker ELSE holder[j]]
    /\ memory' = [memory EXCEPT ![w] = [p \in Proposals |-> NoSubmission]]
    /\ UNCHANGED <<dbVars, job, attempts, envVars, placed>>

\* Mutant: a deferral uses up an attempt like a failure.
SettledAsFailure(j, result) ==
    CASE result = "succeeding" -> "succeeded"
      [] result # "succeeding" /\ attempts[j] + 1 >= MaxAttempts -> "dead_letter"
      [] OTHER -> "waiting"

SettledStatus(j, result) ==
    CASE result = "succeeding" -> "succeeded"
      [] result = "failing" /\ attempts[j] + 1 >= MaxAttempts -> "dead_letter"
      [] OTHER -> "waiting"

\* complete, fail or defer: only the lease holder's result counts.
Settle(w) ==
    LET j == task[w]
    IN  /\ pc[w] \in {"succeeding", "failing", "deferring"}
        /\ EndCall(w)
        /\ IF holder[j] = w
           THEN /\ job' = [job EXCEPT ![j] = SettledStatus(j, pc[w])]
                /\ holder' = [holder EXCEPT ![j] = NoWorker]
                /\ attempts' = IF pc[w] = "failing"
                               THEN [attempts EXCEPT ![j] = @ + 1] ELSE attempts
           ELSE UNCHANGED queueVars
        /\ UNCHANGED <<dbVars, envVars, brokerVars, budget>>

-----------------------------------------------------------------------------
(* The submit_approved handler.  Each step of worker w is an action; the    *)
(* ones that only move on leave the database alone.                         *)

InHandler == {"claimed", "reading", "loading", "assessing", "recovering", "beginning",
              "resubmitting", "recording", "placing", "marking", "applying",
              "persisting", "expiring", "reconciling"}
ProposalOf(w) == task[w][1]
Goto(w, step) == pc' = [pc EXCEPT ![w] = step]

\* Any call of the handler may throw: a database error, a failed risk check, a
\* bad quote, an event time behind the row's.  Nothing is written.
HandlerThrows(w) ==
    /\ pc[w] \in InHandler \ {"placing"}
    /\ Spend("throw")
    /\ Goto(w, "failing")
    /\ UNCHANGED <<dbVars, queueVars, envVars, task, localVars, brokerVars>>

\* const now = new Date()
CaptureNow(w) ==
    /\ pc[w] = "claimed"
    /\ late' = [late EXCEPT ![w] = expired[ProposalOf(w)]]
    /\ Goto(w, "reading")
    /\ UNCHANGED <<dbVars, queueVars, envVars, task, persisted, agg, sub, brokerVars, budget>>

\* store.get
ReadProposal(w) ==
    /\ pc[w] = "reading"
    /\ persisted' = [persisted EXCEPT ![w] = Current(ProposalOf(w))]
    /\ Goto(w, "loading")
    /\ UNCHANGED <<dbVars, queueVars, envVars, task, late, agg, sub, brokerVars, budget>>

\* loadApproved or loadRecoverable, by what was read before.  The immutable
\* analysis went stale: expire and ask for a new approval.
FindStale(w) ==
    /\ pc[w] = "loading"
    /\ persisted[w].status = "APPROVED"
    /\ Goto(w, "expiring")
    /\ UNCHANGED <<dbVars, queueVars, envVars, task, localVars, brokerVars, budget>>

\* The market quote is missing or stale: refresh it and defer the job, unless
\* an approved proposal would expire meanwhile.
NeedQuote(w) ==
    /\ pc[w] \in {"loading", "assessing"}
    /\ UNCHANGED <<dbVars, queueVars, envVars, task, localVars, brokerVars>>
    /\ \/ persisted[w].status = "APPROVED" /\ Goto(w, "expiring") /\ UNCHANGED budget
       \/ ~(late[w] /\ persisted[w].status = "APPROVED")
            /\ Goto(w, "deferring") /\ Spend("defer")

Loadable(w) ==
    LET now == status[ProposalOf(w)]
    IN  IF persisted[w].status = "APPROVED"
        THEN now = "APPROVED" /\ ~late[w]
        ELSE now \in ReconciliationStatus \cup {"FILLED"}

LoadAuthorized(w) ==
    /\ pc[w] = "loading"
    /\ IF Loadable(w)
       THEN agg' = [agg EXCEPT ![w] = Current(ProposalOf(w))] /\ Goto(w, "assessing")
       ELSE Goto(w, "failing") /\ UNCHANGED agg
    /\ UNCHANGED <<dbVars, queueVars, envVars, task, late, persisted, sub, brokerVars, budget>>

\* loadPaperRiskContext: the agent must be running and an approved proposal
\* must hold its unexpired reservation.
RiskContextAvailable(w) ==
    /\ ~paused
    /\ agg[w].status = "APPROVED" => ~released[ProposalOf(w)] /\ ~late[w]

AssessRisk(w) ==
    /\ pc[w] = "assessing"
    /\ Goto(w, IF ~RiskContextAvailable(w) THEN "failing"
               ELSE IF agg[w].status = "APPROVED" THEN "beginning" ELSE "recovering")
    /\ UNCHANGED <<dbVars, queueVars, envVars, task, localVars, brokerVars, budget>>

Remember(w, s) ==
    /\ memory' = [memory EXCEPT ![w][ProposalOf(w)] = s]
    /\ placed' = [placed EXCEPT ![ProposalOf(w)] = TRUE]
    /\ sub' = [sub EXCEPT ![w] = s]

\* reconcilePlacement finds the order in the process's memory, or places it
\* again because the proposal is already beyond SUBMITTING.
RecoverFound(w) ==
    LET known == memory[w][ProposalOf(w)]
    IN  /\ pc[w] = "recovering"
        /\ \E s \in Submission :
             /\ \/ known = s
                \/ known = NoSubmission
                   /\ agg[w].status \in {"SUBMITTED", "PARTIALLY_FILLED", "FILLED"}
             /\ Remember(w, s)
        /\ Goto(w, "applying")
        /\ UNCHANGED <<dbVars, queueVars, envVars, task, late, persisted, agg, budget>>

\* It finds none: place afresh, with a placement authorization still current.
RecoverNotFound(w) ==
    /\ pc[w] = "recovering"
    /\ memory[w][ProposalOf(w)] = NoSubmission
    /\ agg[w].status \in {"SUBMITTING", "RECONCILIATION_ERROR"}
    /\ Goto(w, IF late[w] THEN "failing"
               ELSE IF agg[w].status = "SUBMITTING" THEN "recording" ELSE "resubmitting")
    /\ UNCHANGED <<dbVars, queueVars, envVars, task, localVars, brokerVars, budget>>

\* store.transition: the row is locked and its version compared; then the
\* rules of transitionProposal, at the time captured by the handler.
VersionMatches(w, read) == version[ProposalOf(w)] = read.version

\* Mutant: the step is judged by the aggregate that was read, not by the row.
AcceptedByRead(w, read, to) ==
    /\ to \in AllowedTransitions(read.status)
    /\ late[w] => to = "EXPIRED" \/ read.status \in ReconciliationStatus

Accepted(w, read, to) ==
    /\ VersionMatches(w, read)
    /\ status[ProposalOf(w)] \notin TerminalStatus
    /\ to \in AllowedTransitions(status[ProposalOf(w)])
    /\ late[w] => to = "EXPIRED" \/ status[ProposalOf(w)] \in ReconciliationStatus

StoreTransition(w, to, next) ==
    /\ IF Accepted(w, agg[w], to)
       THEN /\ Move(ProposalOf(w), to)
            /\ agg' = [agg EXCEPT ![w] = [status |-> to, version |-> agg[w].version + 1]]
            /\ Goto(w, next)
       ELSE Goto(w, "failing") /\ UNCHANGED <<status, version, agg>>
    /\ UNCHANGED <<order, initial, reconciled, recon, released, queueVars, envVars,
                   task, late, persisted, sub, brokerVars, budget>>

\* Mutant: places before the receipt is recorded.
BeginUnrecorded(w) ==
    pc[w] \in {"beginning", "resubmitting"} /\ StoreTransition(w, "SUBMITTING", "placing")

BeginSubmission(w) ==
    pc[w] \in {"beginning", "resubmitting"} /\ StoreTransition(w, "SUBMITTING", "recording")

\* expireForReapproval, from the aggregate first read; then the job is done.
ExpireStale(w) ==
    /\ pc[w] = "expiring"
    /\ IF Accepted(w, persisted[w], "EXPIRED")
       THEN Move(ProposalOf(w), "EXPIRED") /\ Goto(w, "succeeding")
       ELSE Goto(w, "failing") /\ UNCHANGED <<status, version>>
    /\ UNCHANGED <<order, initial, reconciled, recon, released, queueVars, envVars,
                   task, localVars, brokerVars, budget>>

\* recordPlacementAttempt: the receipt that must be durable before placing.
ReceiptAllowed(p) == status[p] = "SUBMITTING" /\ order[p] \in {"none", "pending"}

RecordPlacementAttempt(w) ==
    /\ pc[w] = "recording"
    /\ IF ReceiptAllowed(ProposalOf(w))
       THEN order' = [order EXCEPT ![ProposalOf(w)] = "pending"] /\ Goto(w, "placing")
       ELSE Goto(w, "failing") /\ UNCHANGED order
    /\ UNCHANGED <<status, version, initial, reconciled, recon, released, queueVars,
                   envVars, task, localVars, brokerVars, budget>>

\* broker.place answers from its memory or decides by the current quote.
Place(w) ==
    LET known == memory[w][ProposalOf(w)]
    IN  /\ pc[w] = "placing"
        /\ \E s \in Submission : known \in {NoSubmission, s} /\ Remember(w, s)
        /\ Goto(w, "applying")
        /\ UNCHANGED <<dbVars, queueVars, envVars, task, late, persisted, agg, budget>>

\* broker.place throws: the outcome is ambiguous.
PlaceThrows(w) ==
    /\ pc[w] = "placing"
    /\ Spend("throw")
    /\ Goto(w, "marking")
    /\ UNCHANGED <<dbVars, queueVars, envVars, task, localVars, brokerVars>>

MarkAmbiguous(w) ==
    pc[w] = "marking" /\ StoreTransition(w, "RECONCILIATION_ERROR", "failing")

\* applySubmission, one transition at a time.
Regresses(have, got) ==
    \/ have = "FILLED" /\ got # "filled"
    \/ have = "PARTIALLY_FILLED" /\ got = "submitted"

NextStatus(have, got) ==
    CASE have \in {"SUBMITTING", "RECONCILIATION_ERROR"}     -> "SUBMITTED"
      [] have = "SUBMITTED" /\ got = "partially_filled"      -> "PARTIALLY_FILLED"
      [] have \in {"SUBMITTED", "PARTIALLY_FILLED"} /\ got = "filled" -> "FILLED"
      [] OTHER                                               -> have

ApplySubmission(w) ==
    LET have == agg[w].status
        to == NextStatus(have, sub[w].status)
    IN  /\ pc[w] = "applying"
        /\ IF ~Regresses(have, sub[w].status) /\ to # have
           THEN StoreTransition(w, to, "applying")
           ELSE /\ Goto(w, IF Regresses(have, sub[w].status) THEN "failing" ELSE "persisting")
                /\ UNCHANGED <<dbVars, queueVars, envVars, task, localVars, brokerVars, budget>>

\* Mutant: any order row takes the outcome.
OutcomeAlwaysFits(p, s) == order[p] # "none" /\ s # NoSubmission

\* persistOutcome: the receipt is still pending, or already says the same.
OutcomeFits(p, s) == order[p] = "pending" \/ order[p] = s.status

\* Mutant: what remains of a partial fill is forgotten.
OnlyRestingIsReconciled(s) == s.status = "submitted"

NeedsReconciliation(s) == s.status # "filled"

PersistOutcome(w) ==
    LET p == ProposalOf(w)
        s == sub[w]
    IN  /\ pc[w] = "persisting"
        /\ IF OutcomeFits(p, s)
           THEN /\ order' = [order EXCEPT ![p] = s.status]
                /\ initial' = [initial EXCEPT ![p] = IF @ = 0 THEN s.filled ELSE @]
                /\ recon' = [recon EXCEPT ![p] =
                      IF NeedsReconciliation(s) /\ @ = "none" THEN "queued" ELSE @]
                /\ Goto(w, "succeeding")
           ELSE Goto(w, "failing") /\ UNCHANGED <<order, initial, recon>>
        /\ UNCHANGED <<status, version, reconciled, released, queueVars, envVars,
                       task, localVars, brokerVars, budget>>

-----------------------------------------------------------------------------
(* The reconcile_paper_order handler: one transaction on the locked order,  *)
(* proposal and reconciliation row                                          *)

\* Mutants: the broker's own partial fill is not counted; or is added.
RemainingOfReconciled(p) == Quantity - reconciled[p]
RemainingAdded(p) == Quantity + initial[p] - reconciled[p]

Remaining(p) == Quantity - (initial[p] + reconciled[p])
OpenOrder(p) == order[p] \in {"submitted", "partially_filled"}
ReconcilableProposal(p) == status[p] \in {"SUBMITTED", "PARTIALLY_FILLED"}

\* A closed order ends its row.  Of an open one whose proposal has moved on, or of
\* which nothing remains, the transaction throws
\* (RECONCILIATION_PROPOSAL_STATE_INVALID, RECONCILIATION_QUANTITY_INVALID).
Reconcilable(p) == ReconcilableProposal(p) /\ Remaining(p) > 0

ReconcileUnfillable(w) ==
    LET p == ProposalOf(w)
    IN  /\ pc[w] = "reconciling"
        /\ OpenOrder(p) => ~Reconcilable(p)
        /\ recon' = IF OpenOrder(p) THEN recon ELSE [recon EXCEPT ![p] = "succeeded"]
        /\ Goto(w, IF OpenOrder(p) THEN "failing" ELSE "succeeding")
        /\ UNCHANGED <<status, version, order, initial, reconciled, released,
                       queueVars, envVars, task, localVars, brokerVars, budget>>

\* No fresh quote, a blocked market, or a limit or stop that is not reached.
ReconcileDeferred(w) ==
    LET p == ProposalOf(w)
    IN  /\ pc[w] = "reconciling"
        /\ OpenOrder(p) /\ Reconcilable(p)
        /\ Spend("defer")
        /\ recon' = [recon EXCEPT ![p] = "queued"]
        /\ Goto(w, "deferring")
        /\ UNCHANGED <<status, version, order, initial, reconciled, released,
                       queueVars, envVars, task, localVars, brokerVars>>

ReconcileFills(w) ==
    LET p == ProposalOf(w)
    IN  /\ pc[w] = "reconciling"
        /\ OpenOrder(p) /\ Reconcilable(p)
        /\ reconciled' = [reconciled EXCEPT ![p] = Remaining(p)]
        /\ order' = [order EXCEPT ![p] = "filled"]
        /\ Move(p, "FILLED")
        /\ recon' = [recon EXCEPT ![p] = "succeeded"]
        /\ Goto(w, "succeeding")
        /\ UNCHANGED <<initial, released, queueVars, envVars, task, localVars,
                       brokerVars, budget>>

-----------------------------------------------------------------------------

SubmitStep(w) ==
    \/ CaptureNow(w) \/ ReadProposal(w) \/ LoadAuthorized(w) \/ AssessRisk(w)
    \/ RecoverFound(w) \/ RecoverNotFound(w) \/ BeginSubmission(w) \/ ExpireStale(w)
    \/ RecordPlacementAttempt(w) \/ Place(w) \/ MarkAmbiguous(w)
    \/ ApplySubmission(w) \/ PersistOutcome(w)

ReconcileStep(w) ==
    ReconcileUnfillable(w) \/ ReconcileFills(w)

Trouble(w) ==
    \/ HandlerThrows(w) \/ PlaceThrows(w) \/ FindStale(w) \/ NeedQuote(w)
    \/ ReconcileDeferred(w) \/ Lapse(w) \/ Crash(w)

UserStep(p) == Approve(p) \/ ExpireUnapproved(p) \/ Reject(p) \/ CancelOrder(p)

Poll(p) == PollClaim(p) \/ PollEnqueue(p)

Next ==
    \/ \E p \in Proposals : UserStep(p) \/ Expire(p) \/ Poll(p)
    \/ Pause \/ Resume
    \/ \E w \in Workers, j \in Job : Claim(w, j)
    \/ \E w \in Workers :
         SubmitStep(w) \/ ReconcileStep(w) \/ Settle(w) \/ Trouble(w)

Spec == Init /\ [][Next]_vars

\* A running worker takes its next step, an idle one claims a job that stays
\* claimable, and the poller's timer keeps firing.
Fairness ==
    /\ \A w \in Workers : WF_vars(SubmitStep(w) \/ ReconcileStep(w) \/ Settle(w))
    /\ \A j \in Job : WF_vars(\E w \in Workers : Claim(w, j))
    /\ \A p \in Proposals : WF_vars(PollEnqueue(p)) /\ WF_vars(PollClaim(p))

FairSpec == Spec /\ Fairness

-----------------------------------------------------------------------------
(* Properties                                                               *)

TypeOK ==
    /\ status \in [Proposals -> LateStatus]
    /\ version \in [Proposals -> Nat]
    /\ order \in [Proposals -> OrderStatus]
    /\ initial \in [Proposals -> 0..Quantity]
    /\ reconciled \in [Proposals -> 0..Quantity]
    /\ recon \in [Proposals -> ReconStatus]
    /\ released \in [Proposals -> BOOLEAN]
    /\ job \in [Job -> JobStatus]
    /\ holder \in [Job -> Workers \cup {NoWorker}]
    /\ attempts \in [Job -> Nat]
    /\ expired \in [Proposals -> BOOLEAN]
    /\ paused \in BOOLEAN
    /\ polled \subseteq Proposals
    /\ pc \in [Workers -> InHandler \cup {"idle", "succeeding", "failing", "deferring"}]
    /\ task \in [Workers -> Job \cup {NoJob}]
    /\ late \in [Workers -> BOOLEAN]
    /\ persisted \in [Workers -> Aggregate]
    /\ agg \in [Workers -> Aggregate]
    /\ sub \in [Workers -> Submission \cup {NoSubmission}]
    /\ memory \in [Workers -> [Proposals -> Submission \cup {NoSubmission}]]
    /\ placed \in [Proposals -> BOOLEAN]
    /\ budget \in [Hazard -> Nat]

\* The order row and the proposal row, written by different transactions of
\* different services, never contradict each other.
OrderAgreesWithProposal ==
    \A p \in Proposals :
        /\ order[p] = "none" =>
             status[p] \notin {"SUBMITTED", "PARTIALLY_FILLED", "FILLED", "RECONCILIATION_ERROR"}
        /\ order[p] = "pending" =>
             status[p] \in ReconciliationStatus \cup {"FILLED"}
        /\ OpenOrder(p) => status[p] \in {"SUBMITTED", "PARTIALLY_FILLED", "FILLED"}
        /\ order[p] = "filled" => status[p] = "FILLED"
        /\ order[p] = "canceled" => status[p] = "CANCELED"

\* Nothing reaches the broker without its durable receipt; and what the user
\* rejected or paused, or what expired, before a receipt existed never reaches
\* it, whatever a worker had read before.
NoPlacementWithoutReceipt == \A p \in Proposals : placed[p] => order[p] # "none"

\* An order that rests at the broker always has a reconciliation row the poller
\* can find.
OpenOrderIsReconciled ==
    \A p \in Proposals : OpenOrder(p) => recon[p] \in {"queued", "leased"}

\* The fills of an order never add up to more than its quantity.
FillsWithinQuantity == \A p \in Proposals : initial[p] + reconciled[p] <= Quantity

\* Neither the API's direct updates nor a worker's delayed transactions move a
\* proposal out of a terminal status or revive a canceled order.
TerminalIsFinal ==
    [][\A p \in Proposals :
         /\ status[p] \in TerminalStatus =>
              status'[p] = status[p] /\ version'[p] = version[p]
         /\ order[p] = "canceled" =>
              order'[p] = "canceled" /\ initial'[p] = initial[p]
              /\ reconciled'[p] = reconciled[p]]_vars

\* An order that rests at the broker is filled or canceled eventually
\* (docs/architecture/agent-architecture.md: "Reconciliation treats broker
\* responses as order truth and appends tenant-owned events through terminal
\* state").  It holds of an order that is large enough to be filled in part, if its
\* reconciliation meets fewer exceptions than the job has attempts: then no stall,
\* crash, deferral or redelivered submission orphans it.  A small order that is
\* submitted twice may stay open for ever.
OpenOrderCloses == \A p \in Proposals : OpenOrder(p) ~> ~OpenOrder(p)

\* What the user sees of it.
PhaseOf(s) ==
    CASE s = "AWAITING_USER_APPROVAL" -> "proposed"
      [] s = "APPROVED"               -> "approved"
      [] s \in ReconciliationStatus   -> "working"
      [] s = "FILLED"                 -> "filled"
      [] s = "CANCELED"               -> "canceled"
      [] OTHER                        -> "closed"
Phase == [p \in Proposals |-> PhaseOf(status[p])]
Traded == [p \in Proposals |-> initial[p] + reconciled[p]]
Reserved == [p \in Proposals |-> ~released[p]]

\* Execution keeps the contract with the user, for the whole path at once.
Contract == INSTANCE OrderContract WITH
    phase <- Phase, traded <- Traded, reserved <- Reserved

KeepsContract == Contract!Spec
=============================================================================
