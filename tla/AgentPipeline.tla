---------------------------- MODULE AgentPipeline ----------------------------
(***************************************************************************)
(* The Paper agent runs of one user: a run is one SERIALIZABLE transaction *)
(* that screens the binding, the research and the account, builds a buy    *)
(* proposal, evaluates its risk and, in confirm-every-trade mode, reserves *)
(* the capital and asks for approval.  Around it: the user who approves,   *)
(* rejects, pauses, resumes and reconfigures, the broker sync, and the     *)
(* second risk evaluation before a submission.                             *)
(*                                                                         *)
(* A transaction reads one snapshot, so a run's decision is made when it   *)
(* begins and takes effect when it commits.  The execution of an order is  *)
(* module Execution's; here it is reduced to what a run's checks read.     *)
(***************************************************************************)
EXTENDS RiskEngine, FiniteSets

CONSTANTS
    Agents,        \* the user's agents
    Symbols,       \* what they may be configured to buy
    Amount,        \* what one order costs
    Workers,       \* the replicas of the orchestrator
    Value,         \* the account's value
    Powers,        \* the buying powers a sync may report
    Policy,        \* the user's current risk policy
    Lifetime,      \* PROPOSAL_LIFETIME_MS
    Circumstances, \* sets of codes: what speaks against a run when it begins
    QuoteAges,     \* the ages a quote may have when it is read
    MaxRuns,       \* bound on the runs of an agent
    MaxChanges,    \* bound on the user's reconfigurations
    MaxTime        \* bound on the clock

ASSUME PipelineAssumption ==
    /\ IsFiniteSet(Agents)
    /\ {Value, Amount, Lifetime, MaxRuns, MaxChanges, MaxTime} \subseteq Nat
    /\ Powers \subseteq Nat /\ QuoteAges \subseteq Nat
    /\ Policy \in [Limits -> Nat] /\ Violations(Policy) = {}

Runs == Agents \X (1..MaxRuns)
Modes == {"observe", "confirm_every_trade"}

VARIABLES
    now,          \* the clock, which all processes share
    agents,       \* user_agents with their current configuration
    changes,      \* reconfigurations so far
    balance,      \* the latest synchronized portfolio snapshot
    runs,         \* agent_runs
    proposals,    \* trade_proposals, of the runs that proposed
    held,         \* capital_reservations not released, by run
    orders,       \* orders, by run
    txns,         \* the transaction each worker has open
    checked       \* the approved proposals whose submission has read its context

vars == <<now, agents, changes, balance, runs, proposals, held, orders, txns, checked>>

NoProposal == [status |-> "none"]
NoTxn == [open |-> FALSE]

-----------------------------------------------------------------------------
(* The codes a run may stop with.  Thrown outside the handled part, a code   *)
(* rolls the transaction back and the queue retries the job; in the handled  *)
(* part it completes the run as failed, which is final.                      *)

BindingLookup == {"AGENT_BINDING_NOT_FOUND"}
CycleScreen == {"PLAN_CYCLE_BINDING_INVALID", "PLAN_RESEARCH_ARTIFACT_REQUIRED",
                "PLAN_RESEARCH_ARTIFACT_INVALID"}
Thrown == BindingLookup \cup CycleScreen

AccountScreen == {"AGENTIC_ACCOUNT_BINDING_INVALID", "DETERMINISTIC_STRATEGY_UNIMPLEMENTED",
                  "AGENT_VERSION_BINDING_INVALID"}
CapabilityScreen == {"AGENT_UNAVAILABLE"}
EligibilityScreen == {"CURRENT_ELIGIBILITY_REQUIRED"}
AssessmentScreen == {"CURRENT_RISK_ASSESSMENT_REQUIRED"}
EntitlementScreen == {"ACTIVE_SUBSCRIPTION_REQUIRED", "ACTIVE_AGENT_LIMIT_EXCEEDED"}
PolicyScreen == {"CURRENT_RISK_POLICY_REQUIRED", "PERSISTED_RISK_POLICY_INVALID"}
PositionScreen == {"AUTHORITATIVE_NUMERIC_VALUE_INVALID"}
QuoteScreen == {"AUTHORITATIVE_MARKET_CONTEXT_REQUIRED"}
OrderScreen == {"ORDER_AMOUNT_BELOW_MINIMUM"}
FailClosed ==
    AccountScreen \cup CapabilityScreen \cup EligibilityScreen \cup AssessmentScreen
        \cup EntitlementScreen \cup PolicyScreen \cup PositionScreen \cup QuoteScreen \cup OrderScreen

ActiveStatus == {"monitoring", "waiting_approval", "automatic"}
Active(a) == agents[a].status \in ActiveStatus

\* loadPortfolio: the latest snapshot is too old for the policy, or for itself.
SnapshotStale == now - balance.at > Policy.accountAge

Refused(a, lacking) ==
    \/ ~Active(a)
    \/ SnapshotStale
    \/ lacking \cap FailClosed # {}

-----------------------------------------------------------------------------
(* What the transaction reads. *)

Proposed == {r \in Runs : proposals[r] # NoProposal}

\* The reservations that count at an instant, and their sum.
InForce(at) == {r \in held : proposals[r].expires > at}
Reserved(among) == Cardinality(among) * Amount

DuplicateStatus ==
    {"DRAFT", "ANALYZED", "SCHEMA_VALIDATED", "RISK_CHECKED", "BROKER_REVIEWED",
     "AWAITING_USER_APPROVAL", "APPROVED"}

\* Mutant: only proposals that hold capital are looked at.
DuplicateReservation(symbol, others) == \E r \in others \cap held : proposals[r].symbol = symbol
\* loadMetrics: another buy of the symbol is proposed, or ordered.
DuplicateProposal(symbol, others) ==
    \E r \in others : proposals[r].symbol = symbol /\ proposals[r].status \in DuplicateStatus
DuplicateOrder(symbol, others) ==
    \E r \in others : proposals[r].symbol = symbol /\ orders[r] = "open"

\* The facts the database knows, by the risk check they fail.
Raised(symbol, others, lacking) ==
    lacking \cup {code \in {"NO_DUPLICATE_PROPOSAL"} : DuplicateProposal(symbol, others)}
            \cup {code \in {"NO_DUPLICATE_OPEN_ORDER"} : DuplicateOrder(symbol, others)}

\* The oldest of what a proposal rests on.
OldestData(quoteAt) == IF balance.at < quoteAt THEN balance.at ELSE quoteAt

\* buildProposal: always a limit buy of shares, worth the configured amount.
Buy(dataAt, expires) ==
    [instrument |-> "equity", side |-> "buy", closes |-> FALSE, quantity |-> 1, contracts |-> 0,
     notional |-> Amount, risk |-> Amount, maximumLoss |-> Amount,
     quoteAt |-> dataAt, dataAt |-> dataAt, expires |-> expires, exit |-> NoExit]

\* riskContext: the account holds nothing of the symbol and traded nothing yet.
Context(a, symbol, others, lacking) ==
    LET reserved(mine) == Reserved({r \in InForce(now) \cap others : (r[1] = a) = mine})
    IN [now |-> now, accountAt |-> balance.at, raised |-> Raised(symbol, others, lacking),
        accountValue |-> Value, buyingPower |-> balance.power,
        ownReserved |-> reserved(TRUE), otherReserved |-> reserved(FALSE),
        positionValue |-> 0, heldQuantity |-> 0, sectorValue |-> 0, allocated |-> 0,
        positionCount |-> 0, agentAllocated |-> 0, agentLimit |-> Value, dailyLoss |-> 0, drawdown |-> 0,
        tradesToday |-> 0, turnover |-> 0, deviation |-> 0,
        optionsExposure |-> 0, expiry |-> 0, spread |-> 0]

\* executeRun: the outcome of a run that begins now, on a quote of that age.
Decision(a, quoteAt, lacking) ==
    LET symbol == agents[a].symbol
    IN IF Refused(a, lacking) THEN "failed"
       ELSE IF "PENNY_STOCK_RESTRICTED" \in lacking THEN "no_action"
       ELSE IF ~Passed(Buy(OldestData(quoteAt), now + Lifetime), Policy, Context(a, symbol, Proposed, lacking))
            THEN "RISK_REJECTED"
       ELSE IF "PAPER_BROKER_REVIEW_REJECTED" \in lacking THEN "failed"
       ELSE IF agents[a].mode = "observe" THEN "BROKER_REVIEWED"
       ELSE "AWAITING_USER_APPROVAL"

Proposes(decision) == decision \notin {"failed", "no_action"}
\* Mutant: a run that failed after its risk passed reserves all the same.
ReservesOnFailure(decision) == decision \in {"AWAITING_USER_APPROVAL", "failed"}
Reserves(decision) == decision = "AWAITING_USER_APPROVAL"

-----------------------------------------------------------------------------
(* The run. *)

\* Mutant: the run is executed whatever its row says.
ExecutedAgain(r) == TRUE
\* existingRun: the key of a run is taken once its row is committed.
Undecided(r) == runs[r] = "none"

\* run: a worker that was given the job reads its snapshot and decides.  The
\* scheduler enqueues a run at any time and the queue delivers it at least
\* once: another worker may be at it already, and what is delivered after the
\* run was decided only reads its row (replayResult).  A code thrown outside
\* the handled part leaves nothing behind but the attempt.
Begin(w, r) ==
    LET a == r[1] IN
    /\ ~txns[w].open /\ Undecided(r)
    /\ \E lacking \in Circumstances, age \in QuoteAges :
         /\ lacking \cap Thrown = {} /\ agents[a].status # "removed"
         /\ age <= Policy.quoteAge
         /\ txns' = [txns EXCEPT ![w] =
              [open |-> TRUE, run |-> r, at |-> now, power |-> balance.power,
               symbol |-> agents[a].symbol, mode |-> agents[a].mode,
               dataAt |-> OldestData(now - age),
               decision |-> Decision(a, now - age, lacking), missed |-> {}]]
    /\ UNCHANGED <<now, agents, changes, balance, runs, proposals, held, orders, checked>>

\* ROLLBACK, or the death of the process: the job is delivered again.
Abort(w) ==
    /\ txns[w].open
    /\ txns' = [txns EXCEPT ![w] = NoTxn]
    /\ UNCHANGED <<now, agents, changes, balance, runs, proposals, held, orders, checked>>

\* Serializable isolation: of two concurrent transactions each of which read
\* what the other wrote, the second to commit fails.  A run reads the sum of
\* the reservations and the live proposals of its symbol.
Sees(reader, writer) ==
    /\ Proposes(reader.decision)
    /\ \/ Reserves(writer.decision)
       \/ writer.symbol = reader.symbol /\ writer.decision \in DuplicateStatus
\* Mutant: READ COMMITTED, where only a key already taken stops a run.
OnlyKeyConflicts(t) == \E m \in t.missed : m.run = t.run
MustAbort(t) ==
    \E m \in t.missed : m.run = t.run \/ (Sees(t, m) /\ Sees(m, t))

\* What a committed run is to the transactions it was concurrent with.
Trace(t) == [run |-> t.run, symbol |-> t.symbol, decision |-> t.decision]

\* The run, its proposal, its reservation and its approval request are
\* committed together; the queue is told afterwards.
Commit(w) ==
    LET t == txns[w] IN
    /\ t.open /\ ~MustAbort(t)
    /\ runs' = [runs EXCEPT ![t.run] = IF t.decision = "failed" THEN "failed" ELSE "completed"]
    /\ proposals' = IF Proposes(t.decision)
                    THEN [proposals EXCEPT ![t.run] =
                            [status |-> t.decision, symbol |-> t.symbol, mode |-> t.mode,
                             dataAt |-> t.dataAt, expires |-> t.at + Lifetime]]
                    ELSE proposals
    /\ held' = IF Reserves(t.decision) THEN held \cup {t.run} ELSE held
    /\ txns' = [v \in Workers |->
                  IF v = w THEN NoTxn
                  ELSE IF txns[v].open THEN [txns[v] EXCEPT !.missed = @ \cup {Trace(t)}]
                  ELSE NoTxn]
    /\ UNCHANGED <<now, agents, changes, balance, orders, checked>>

-----------------------------------------------------------------------------
(* The user. *)

SetStatus(r, status) == [proposals EXCEPT ![r].status = status]

\* approveProposal: too late, or on data too old, the proposal expires.
Approve(r) ==
    LET p == proposals[r]
        lapsed == p.expires <= now \/ now - p.dataAt > Policy.quoteAge
    IN /\ p.status = "AWAITING_USER_APPROVAL" /\ Active(r[1])
       /\ proposals' = SetStatus(r, IF lapsed THEN "EXPIRED" ELSE "APPROVED")
       /\ UNCHANGED <<now, agents, changes, balance, runs, held, orders, txns, checked>>

Reject(r) ==
    /\ proposals[r].status = "AWAITING_USER_APPROVAL"
    /\ proposals' = SetStatus(r, "USER_REJECTED")
    /\ UNCHANGED <<now, agents, changes, balance, runs, held, orders, txns, checked>>

\* cancelUnsubmittedAgentWork: proposals without an order are canceled and
\* their capital is released.  A run that began before may still commit.
\* Mutant: what the user approved is left alone.
Unapproved(A) ==
    {r \in Proposed : r[1] \in A /\ orders[r] = "none"
                      /\ proposals[r].status \in {"BROKER_REVIEWED", "AWAITING_USER_APPROVAL"}}
Unsubmitted(A) ==
    {r \in Proposed : r[1] \in A /\ proposals[r].status \in DuplicateStatus /\ orders[r] = "none"}
\* Mutant: the reservations are left to lapse.
KeepsReservations(A) == held
Released(A) == held \ Unsubmitted(A)
CancelWork(A) ==
    /\ proposals' = [r \in Runs |-> IF r \in Unsubmitted(A)
                                    THEN [proposals[r] EXCEPT !.status = "CANCELED"]
                                    ELSE proposals[r]]
    /\ held' = Released(A)

\* setAgentStatus, pauseAll, resumeAll and deleteUserAgent.
Stop(A, status) ==
    /\ \E a \in A : agents[a].status \notin {status, "removed"}
    /\ agents' = [a \in Agents |-> IF a \in A /\ agents[a].status # "removed"
                                   THEN [agents[a] EXCEPT !.status = status]
                                   ELSE agents[a]]
    /\ CancelWork(A)
    /\ UNCHANGED <<now, balance, runs, orders, txns, checked>>
Pause(A) == Stop(A, "paused") /\ UNCHANGED changes
Remove(a) == changes < MaxChanges /\ Stop({a}, "removed") /\ changes' = changes + 1

Resume(a) ==
    /\ agents[a].status = "paused" /\ changes < MaxChanges
    /\ agents' = [agents EXCEPT ![a].status = "monitoring"]
    /\ changes' = changes + 1
    /\ UNCHANGED <<now, balance, runs, proposals, held, orders, txns, checked>>

\* patchUserAgent: another approval mode, or another symbol.
Configure(a) ==
    /\ agents[a].status # "removed" /\ changes < MaxChanges
    /\ \/ \E m \in Modes \ {agents[a].mode} : agents' = [agents EXCEPT ![a].mode = m]
       \/ \E s \in Symbols \ {agents[a].symbol} : agents' = [agents EXCEPT ![a].symbol = s]
    /\ changes' = changes + 1
    /\ UNCHANGED <<now, balance, runs, proposals, held, orders, txns, checked>>

-----------------------------------------------------------------------------
(* The submission, as far as a run's checks can tell. *)

\* loadPaperRiskContext: the binding that must still hold.
Bound(r) == Active(r[1]) /\ agents[r[1]].mode = proposals[r].mode

\* The submission's own reads: the approval, the binding, the proposal's own
\* reservation, and its risk against what the others reserved.
Check(r) ==
    LET p == proposals[r] IN
    /\ p.status = "APPROVED" /\ Bound(r) /\ ~SnapshotStale
    /\ r \in InForce(now)
    /\ Passed(Buy(p.dataAt, p.expires), Policy, Context(r[1], p.symbol, Proposed \ {r}, {}))
    /\ checked' = checked \cup {r}
    /\ UNCHANGED <<now, agents, changes, balance, runs, proposals, held, orders, txns>>

\* The transition commits if the proposal is still as it was read, at the
\* instant of those reads.
Submit(r) ==
    /\ r \in checked /\ proposals[r].status = "APPROVED"
    /\ proposals' = SetStatus(r, "SUBMITTING")
    /\ UNCHANGED <<now, agents, changes, balance, runs, held, orders, txns, checked>>

\* recordPlacementAttempt and the placement: only now is there an order.
Place(r) ==
    /\ proposals[r].status = "SUBMITTING" /\ orders[r] = "none"
    /\ orders' = [orders EXCEPT ![r] = "open"]
    /\ UNCHANGED <<now, agents, changes, balance, runs, proposals, held, txns, checked>>

\* Reconciliation fills the order, whose reservation is left to lapse, or the
\* user cancels it, which releases the reservation.
Fill(r) ==
    /\ orders[r] = "open"
    /\ orders' = [orders EXCEPT ![r] = "closed"]
    /\ proposals' = SetStatus(r, "FILLED")
    /\ UNCHANGED <<now, agents, changes, balance, runs, held, txns, checked>>
CancelOrder(r) ==
    /\ orders[r] = "open"
    /\ orders' = [orders EXCEPT ![r] = "closed"]
    /\ proposals' = SetStatus(r, "CANCELED")
    /\ held' = held \ {r}
    /\ UNCHANGED <<now, agents, changes, balance, runs, txns, checked>>

\* The broker sync persists a snapshot.
Sync ==
    /\ \E p \in Powers : balance' = [power |-> p, at |-> now]
    /\ UNCHANGED <<now, agents, changes, runs, proposals, held, orders, txns, checked>>

Advance ==
    /\ now < MaxTime /\ now' = now + 1
    /\ UNCHANGED <<agents, changes, balance, runs, proposals, held, orders, txns, checked>>

-----------------------------------------------------------------------------
Init ==
    /\ now = 0 /\ changes = 0
    /\ agents \in [Agents -> [status : {"monitoring"}, mode : {"confirm_every_trade"}, symbol : Symbols]]
    /\ \E p \in Powers : balance = [power |-> p, at |-> 0]
    /\ runs = [r \in Runs |-> "none"] /\ proposals = [r \in Runs |-> NoProposal]
    /\ held = {} /\ orders = [r \in Runs |-> "none"]
    /\ txns = [w \in Workers |-> NoTxn] /\ checked = {}

Next ==
    \/ \E r \in Runs, w \in Workers : Begin(w, r)
    \/ \E w \in Workers : Commit(w) \/ Abort(w)
    \/ \E r \in Proposed : Approve(r) \/ Reject(r)
    \/ \E a \in Agents : Pause({a}) \/ Remove(a) \/ Resume(a) \/ Configure(a)
    \/ Pause(Agents)
    \/ \E r \in Proposed : Check(r) \/ Submit(r) \/ Place(r) \/ Fill(r) \/ CancelOrder(r)
    \/ Sync \/ Advance

Spec == Init /\ [][Next]_vars

-----------------------------------------------------------------------------
(* Properties. *)

ProposalStatus ==
    {"RISK_REJECTED", "BROKER_REVIEWED", "AWAITING_USER_APPROVAL", "USER_REJECTED", "EXPIRED",
     "APPROVED", "SUBMITTING", "FILLED", "CANCELED"}
Decisions == {"failed", "no_action", "RISK_REJECTED", "BROKER_REVIEWED", "AWAITING_USER_APPROVAL"}
ProposalState ==
    [status : ProposalStatus, symbol : Symbols, mode : Modes, dataAt : Int, expires : Int]
TraceState == [run : Runs, symbol : Symbols, decision : Decisions]
TxnState ==
    [open : {TRUE}, run : Runs, at : 0..MaxTime, power : Nat, symbol : Symbols, mode : Modes,
     dataAt : Int, decision : Decisions, missed : SUBSET TraceState]

\* Every variable keeps its type, and capital is only held for a proposal.
TypeOK ==
    /\ now \in 0..MaxTime /\ changes \in 0..MaxChanges
    /\ agents \in [Agents -> [status : {"monitoring", "paused", "removed"}, mode : Modes, symbol : Symbols]]
    /\ balance \in [power : Nat, at : 0..MaxTime]
    /\ runs \in [Runs -> {"none", "completed", "failed"}]
    /\ proposals \in [Runs -> ProposalState \cup {NoProposal}]
    /\ held \subseteq Proposed
    /\ orders \in [Runs -> {"none", "open", "closed"}]
    /\ txns \in [Workers -> TxnState \cup {NoTxn}]
    /\ checked \subseteq Proposed

\* Two runs never spend the same capital: a run that commits a reservation
\* leaves all reservations in force at its instant, its own included, within
\* the buying power of the snapshot it read less the policy's reserve.
ReservationsWithinPower ==
    [][\A w \in Workers :
         LET t == txns[w] IN
         t.open /\ ~txns'[w].open /\ Reserves(t.decision) /\ t.run \in held' \ held
           => (t.power - Reserved({r \in held' : proposals'[r].expires > t.at})) * 100
                  >= Policy.reserve * Value]_vars

\* However runs interleave, one buy of a symbol at most is proposed or approved.
OneLiveProposal ==
    \A r, s \in Proposed :
        /\ proposals[r].status \in DuplicateStatus /\ proposals[s].status \in DuplicateStatus
        /\ proposals[r].symbol = proposals[s].symbol
        => r = s

\* A proposal that can still be submitted has its capital reserved, and one
\* that was canceled holds none.
ReservationFollowsProposal ==
    \A r \in Proposed :
        /\ proposals[r].status \in {"AWAITING_USER_APPROVAL", "APPROVED", "SUBMITTING"} => r \in held
        /\ proposals[r].status = "CANCELED" => r \notin held

\* A run is decided once: whatever is redelivered, neither its row nor its
\* proposal is ever written by a second execution.
DecidedOnce ==
    [][\A r \in Runs : runs[r] # "none" =>
         /\ runs'[r] = runs[r]
         /\ proposals[r] # NoProposal =>
              proposals'[r] = [proposals[r] EXCEPT !.status = proposals'[r].status]
         /\ proposals[r].status \in {"EXPIRED", "USER_REJECTED", "CANCELED", "FILLED"}
              => proposals'[r] = proposals[r]]_vars

\* No proposal starts its submission while its agent is paused or removed,
\* although a run that began before the pause may still commit after it.
NothingSubmittedWhilePaused ==
    [][\A r \in Proposed :
         proposals[r].status = "APPROVED" /\ proposals'[r].status = "SUBMITTING"
           => Active(r[1])]_vars

\* How far a run came, for its user.
PhaseOf(status) ==
    CASE status = "RISK_REJECTED"                -> "declined"
      [] status = "BROKER_REVIEWED"              -> "shown"
      [] status = "AWAITING_USER_APPROVAL"       -> "asked"
      [] status \in {"EXPIRED", "USER_REJECTED"} -> "closed"
      [] status = "APPROVED"                     -> "approved"
      [] status = "SUBMITTING"                   -> "submitted"
      [] status = "FILLED"                       -> "filled"
      [] status = "CANCELED"                     -> "canceled"
Phase ==
    [r \in Runs |-> IF r \in Proposed THEN PhaseOf(proposals[r].status)
                    ELSE IF runs[r] = "none" THEN "undecided" ELSE "declined"]
Offers == {<<r, proposals[r].symbol>> : r \in {q \in Proposed : proposals[q].status # "RISK_REJECTED"}}
Trading == {a \in Agents : Active(a)}

\* A run decides on a snapshot that others have meanwhile overtaken, and its
\* worker may repeat it; to the user every run is still one decision, made at
\* one instant against all the others (executeRun's serializable transaction).
Contract == INSTANCE RunContract WITH
    trading <- Trading, phase <- Phase, offers <- Offers, reserved <- held

RunsKeepContract == Contract!Spec
=============================================================================
