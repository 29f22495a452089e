------------------------ MODULE BrokerAuthorization ------------------------
(***************************************************************************)
(* Linking a broker account: the API's pairing and callback handlers, the  *)
(* broker-sync worker, the janitor and the isolated connector that keeps   *)
(* the tokens, for one user.                                               *)
(*                                                                         *)
(* Every provider call is preceded by a database row that owns its outcome:*)
(* an exchange attempt before the code is exchanged, a saga before the     *)
(* credential is confirmed.  Whoever finds such a row (the request that    *)
(* wrote it, a queued job, the janitor) reconciles it: load the row, call  *)
(* the connector, acknowledge the answer in the database.  All of them run *)
(* at once, and each may crash or give up waiting between any two steps;   *)
(* the connector goes on with a call its caller gave up on.                *)
(*                                                                         *)
(* A pairing carries at most one exchange attempt and one saga, so a       *)
(* pairing names its exchange transaction, its saga and its vault handle.  *)
(* The one broker_connections row is reused by every authorization.        *)
(***************************************************************************)
EXTENDS Naturals, FiniteSets

CONSTANTS
    Pairings, Workers,
    Api,            \* model value: the API process, as a reconciler
    NoPairing,      \* model value
    MaxFaults       \* bound of what interferes with a behaviour: crashes, calls
                    \* given up, refused codes, jobs removed

ASSUME PairingsAssumption ==
    /\ IsFiniteSet(Pairings) /\ IsFiniteSet(Workers)
    /\ NoPairing \notin Pairings \cup Workers \cup {Api}
    /\ Api \notin Workers
    /\ Pairings \cap (Workers \cup {Api}) = {}
    /\ MaxFaults \in Nat

VARIABLES
    owner,      \* the user: "active", "signed_out" (no session), "closed"
    pairing,    \* connection_pairings
    attempt,    \* status of the pairing's exchange attempt, or "none"
    saga,       \* status of the pairing's authorization saga, or "none"
    connection, \* the broker_connections row
    jobs,       \* which kinds of job are live (queued, failed or leased)
    vault,      \* the connector's credential file of each transaction
    tombstones, \* transactions with a .revoked file
    calls,      \* connector calls in progress
    callback,   \* what the OAuth callback request of each pairing does
    run,        \* what each reconciling process does
    faults      \* interferences so far

rows == <<owner, pairing, attempt, saga, connection>>
connector == <<vault, tombstones, calls>>
vars == <<rows, jobs, connector, callback, run, faults>>

PairingStatus == {"absent", "pending", "authorizing", "connected", "expired",
                  "canceled", "error"}

\* The status column, and whether the row's deadline (cleanup_after,
\* confirmation_deadline_at) has passed while its outcome is unknown.
ExchangeStatus == {"none", "exchange_pending", "exchange_overdue", "completed",
                   "revoke_pending", "revoked"}
SagaStatus == {"none", "confirm_pending", "confirm_overdue", "confirmed",
               "revoke_pending", "revoked"}
ConnectionStatus == {"absent", "pending", "connected", "error", "revoked"}

\* oauth_flow and pkce_verifier_envelope together: "sealed" while the mobile
\* flow still holds its verifier, "opened" once a callback has taken it.
Flow == {"none", "sealed", "opened"}

Runners == Workers \cup {Api}
Duty == {"none", "request", "disconnect", "job"}
Exchange(p) == <<"exchange", p>>
Saga(p) == <<"saga", p>>
Hydrate(p) == <<"hydrate", p>>
JobKey == {"exchange", "saga", "hydrate"} \X Pairings
NoKey == <<"none", NoPairing>>

Idle == [pc |-> "idle", key |-> NoKey, duty |-> "none", round |-> 0]

Init ==
    /\ owner = "active"
    /\ pairing = [p \in Pairings |-> [status |-> "absent", flow |-> "none",
                     claimed |-> FALSE, consumed |-> FALSE]]
    /\ attempt = [p \in Pairings |-> "none"]
    /\ saga = [p \in Pairings |-> "none"]
    /\ connection = [status |-> "absent", holder |-> NoPairing, confirmed |-> FALSE]
    /\ jobs = {}
    /\ vault = [p \in Pairings |-> "none"]
    /\ tombstones = {} /\ calls = {}
    /\ callback = [p \in Pairings |-> "idle"]
    /\ run = [r \in Runners |-> Idle]
    /\ faults = 0

Fault == faults < MaxFaults /\ faults' = faults + 1
Enqueue(k) == jobs' = jobs \cup {k}

-----------------------------------------------------------------------------
(* Conditions of the rows                                                   *)

LiveSaga(p) == saga[p] \notin {"none", "revoked"}

\* Mutant: an unfinished exchange is not something to revoke.
LiveIfRevoking(p) == attempt[p] = "revoke_pending"
LiveAttempt(p) == attempt[p] \in {"exchange_pending", "exchange_overdue", "revoke_pending"}

\* #requireActiveSession: the user is active and the creator's session lives.
SessionActive == owner = "active"
OwnerActive == owner # "closed"

\* What beginMobileAuthorization refuses to add a second authorization to.
ActiveAuthorization ==
    \/ connection.holder # NoPairing
    \/ connection.status \in {"pending", "connected"}
    \/ \E p \in Pairings : LiveSaga(p) \/ LiveAttempt(p)

\* assertConnection and the initial binding: what an initial hydration asks of
\* the connection, of its pairing and of its saga.
MayHydrate(p) ==
    /\ OwnerActive
    /\ connection.status \in {"pending", "connected"}
    /\ connection.holder # NoPairing /\ connection.confirmed
    /\ pairing[p].consumed /\ pairing[p].status \in {"authorizing", "connected"}
    /\ saga[p] = "confirmed"

\* The connection's row once its tokens are revoked, and while they are to be.
Unbound == [status |-> "revoked", holder |-> NoPairing, confirmed |-> FALSE]
Unbinding == [Unbound EXCEPT !.status = "error"]

\* The pairing's row after its OAuth columns are cleared, and once it is also
\* consumed.  Mutant: a status the column does not know.
Cleared(row, status) == [row EXCEPT !.status = status, !.flow = "none"]
ConsumedAsRevoked(row, status) ==
    [Cleared(row, IF status = "error" THEN "revoked" ELSE status) EXCEPT !.consumed = TRUE]
Consumed(row, status) == [Cleared(row, status) EXCEPT !.consumed = TRUE]

-----------------------------------------------------------------------------
(* The owner and the clocks                                                 *)

SignOut ==
    /\ owner = "active"
    /\ owner' = "signed_out"
    /\ UNCHANGED <<pairing, attempt, saga, connection, jobs, connector, callback, run, faults>>

\* deleteAccount: every live attempt and saga enters revocation with a job of
\* its own; hydration jobs are dead-lettered unless a worker has them.
CloseAccount ==
    /\ owner # "closed"
    /\ connection.holder = NoPairing \/ \E p \in Pairings : LiveSaga(p)
    /\ LET attempts == {p \in Pairings : LiveAttempt(p)}
           sagas == {p \in Pairings : LiveSaga(p)}
           Leased(k) == \E r \in Runners : run[r].duty = "job" /\ run[r].key = k
       IN /\ attempt' = [p \in Pairings |->
                            IF p \in attempts THEN "revoke_pending" ELSE attempt[p]]
          /\ saga' = [p \in Pairings |->
                            IF p \in sagas THEN "revoke_pending" ELSE saga[p]]
          /\ jobs' = {k \in jobs : k[1] = "hydrate" => Leased(k)}
                      \cup {Exchange(p) : p \in attempts} \cup {Saga(p) : p \in sagas}
    /\ connection' = IF connection.status = "absent" THEN connection
                     ELSE Unbound
    /\ pairing' = [p \in Pairings |->
                     IF pairing[p].status \in {"pending", "authorizing", "connected"}
                     THEN Consumed(pairing[p], "canceled") ELSE pairing[p]]
    /\ owner' = "closed"
    /\ UNCHANGED <<connector, callback, run, faults>>

\* Deadlines pass: the lifetime of a provisional credential, the time the
\* connector has to confirm.
CleanupFallsDue(p) ==
    /\ attempt[p] = "exchange_pending"
    /\ attempt' = [attempt EXCEPT ![p] = "exchange_overdue"]
    /\ UNCHANGED <<owner, pairing, saga, connection, jobs, connector, callback, run, faults>>

DeadlinePasses(p) ==
    /\ saga[p] = "confirm_pending"
    /\ saga' = [saga EXCEPT ![p] = "confirm_overdue"]
    /\ UNCHANGED <<owner, pairing, attempt, connection, jobs, connector, callback, run, faults>>

-----------------------------------------------------------------------------
(* Pairing requests                                                         *)

PairingOnly == UNCHANGED <<owner, attempt, saga, connection, jobs, connector, run, faults>>

Create(p) ==
    /\ pairing[p].status = "absent" /\ SessionActive
    /\ pairing' = [pairing EXCEPT ![p].status = "pending"]
    /\ PairingOnly /\ UNCHANGED callback

\* claim: a claimed pairing belongs to the desktop flow and no longer starts
\* a mobile authorization.
Claim(p) ==
    /\ pairing[p].status = "pending" /\ ~pairing[p].claimed
    /\ SessionActive
    /\ pairing' = [pairing EXCEPT ![p].claimed = TRUE]
    /\ PairingOnly /\ UNCHANGED callback

\* get: reading a pairing that ran out before it was consumed writes so.  A
\* request that meets an expired pairing changes nothing else, so the instant
\* at which it runs out is the one at which that is first written or refused.
Expire(p) ==
    /\ ~pairing[p].consumed
    /\ pairing[p].status \in {"pending", "authorizing"}
    /\ pairing' = [pairing EXCEPT ![p].status = "expired", ![p].consumed = TRUE]
    /\ PairingOnly /\ UNCHANGED callback

\* cancel: refused once a callback has taken the verifier, or bound a credential.
Cancelable(p) ==
    /\ pairing[p].status \notin {"absent", "connected"}
    /\ ~(pairing[p].status = "authorizing" /\ pairing[p].flow \in {"opened", "none"})

Cancel(p) ==
    /\ Cancelable(p)
    /\ pairing' = [pairing EXCEPT ![p] = Consumed(@, "canceled")]
    /\ PairingOnly /\ UNCHANGED callback

BeginMobileAuthorization(p) ==
    /\ pairing[p].status = "pending" /\ ~pairing[p].claimed
    /\ SessionActive
    /\ ~ActiveAuthorization
    /\ pairing' = [pairing EXCEPT ![p].status = "authorizing", ![p].flow = "sealed"]
    /\ PairingOnly /\ UNCHANGED callback

\* resetMobileAuthorization when the provider could not start, and
\* abortMobileAuthorization when the owner gives up: both before any callback.
AbandonMobileAuthorization(p) ==
    /\ pairing[p].status = "authorizing" /\ pairing[p].flow = "sealed"
    /\ pairing' = [pairing EXCEPT ![p] = Cleared(@, "pending")]
    /\ PairingOnly /\ UNCHANGED callback

-----------------------------------------------------------------------------
(* The OAuth callback request                                               *)

\* mobileCallbackSecrets hands the verifier out once.
TakeSecrets(p) ==
    /\ callback[p] = "idle"
    /\ pairing[p].status = "authorizing" /\ pairing[p].flow = "sealed"
    /\ SessionActive
    /\ pairing' = [pairing EXCEPT ![p].flow = "opened"]
    /\ callback' = [callback EXCEPT ![p] = "secrets"]
    /\ PairingOnly

\* concludeMobileWithoutConnection: the provider declined ("canceled" makes
\* the pairing usable again) or answered with an error.  The request ends
\* whether or not the row still takes the outcome.
Conclude(p) ==
    /\ callback[p] = "secrets"
    /\ IF pairing[p].status = "authorizing" /\ pairing[p].flow = "opened"
       THEN \/ pairing' = [pairing EXCEPT ![p] = Cleared(@, "pending")]
            \/ pairing' = [pairing EXCEPT ![p] = Consumed(@, "error")]
       ELSE UNCHANGED pairing
    /\ callback' = [callback EXCEPT ![p] = "idle"]
    /\ PairingOnly

\* beginMobileExchangeForSession, then the exchange call: the attempt and its
\* delayed cleanup job are committed before the connector is asked.
BeginExchange(p) ==
    /\ callback[p] = "secrets"
    /\ pairing[p].status = "authorizing" /\ pairing[p].flow = "opened"
    /\ SessionActive
    /\ attempt[p] = "none"
    /\ attempt' = [attempt EXCEPT ![p] = "exchange_pending"]
    /\ Enqueue(Exchange(p))
    /\ calls' = calls \cup {[op |-> "exchange", tx |-> p, step |-> "token", by |-> p]}
    /\ callback' = [callback EXCEPT ![p] = "exchanging"]
    /\ UNCHANGED <<owner, pairing, saga, connection, vault, tombstones, run, faults>>

\* completeMobileForSession: attempt completed, connection pending, saga and
\* its job created, pairing consumed, or nothing at all.
\* Mutants: the cleanup of the attempt is not looked at; an older saga in
\* revocation is not looked at.
MayCompleteLate(p) ==
    /\ SessionActive
    /\ pairing[p].flow = "opened"
    /\ connection.holder = NoPairing
    /\ \A q \in Pairings : ~LiveSaga(q)
MayCompleteBeside(p) ==
    /\ SessionActive
    /\ pairing[p].status = "authorizing" /\ pairing[p].flow = "opened"
    /\ attempt[p] = "exchange_pending"
    /\ connection.holder = NoPairing
MayComplete(p) ==
    /\ SessionActive
    /\ pairing[p].status = "authorizing" /\ pairing[p].flow = "opened"
    /\ attempt[p] = "exchange_pending"
    /\ connection.holder = NoPairing
    /\ \A q \in Pairings : ~LiveSaga(q)

Complete(p) ==
    /\ callback[p] = "exchanged"
    /\ MayComplete(p)
    /\ attempt' = [attempt EXCEPT ![p] = "completed"]
    /\ connection' = [status |-> "pending", holder |-> p, confirmed |-> FALSE]
    /\ saga' = [saga EXCEPT ![p] = "confirm_pending"]
    /\ Enqueue(Saga(p))
    /\ pairing' = [pairing EXCEPT ![p] = Consumed(@, "authorizing")]
    /\ callback' = [callback EXCEPT ![p] = "completed"]
    /\ UNCHANGED <<owner, connector, run, faults>>

\* Any of these fails, or the pairing has expired.
CompletionRefused(p) ==
    /\ callback[p] = "exchanged"
    /\ ~MayComplete(p) \/ ~pairing[p].consumed
    /\ callback' = [callback EXCEPT ![p] = "failed"]
    /\ UNCHANGED <<rows, jobs, connector, run, faults>>

\* The rows #stageExchangeRevocation writes.
StageExchangeRevocation(p) ==
    IF LiveAttempt(p)
    THEN /\ pairing' = [pairing EXCEPT ![p] =
                          IF @.status \in {"pending", "authorizing"}
                          THEN Consumed(@, "error") ELSE @]
         /\ attempt' = [attempt EXCEPT ![p] = "revoke_pending"]
         /\ Enqueue(Exchange(p))
    ELSE UNCHANGED <<pairing, attempt, jobs>>

\* The rows #requestSagaRevocation writes: the local binding is gone at once,
\* the saga keeps the handle until the connector acknowledged.
\* Mutant: the binding stays until the connector has acknowledged.
StageSagaOnly(p) ==
    IF LiveSaga(p)
    THEN /\ saga' = [saga EXCEPT ![p] = "revoke_pending"]
         /\ Enqueue(Saga(p))
         /\ UNCHANGED <<connection, pairing>>
    ELSE UNCHANGED <<connection, pairing, saga, jobs>>
StageSagaRevocation(p) ==
    IF LiveSaga(p)
    THEN /\ connection' = Unbinding
         /\ pairing' = [pairing EXCEPT ![p] =
                          IF @.status \in {"pending", "authorizing", "connected"}
                          THEN Consumed(@, "error") ELSE @]
         /\ saga' = [saga EXCEPT ![p] = "revoke_pending"]
         /\ Enqueue(Saga(p))
    ELSE UNCHANGED <<connection, pairing, saga, jobs>>

\* revokeExchange of the callback: stage the revocation, then reconcile.
CallbackRevokes(p) ==
    /\ callback[p] = "failed"
    /\ StageExchangeRevocation(p)
    /\ callback' = [callback EXCEPT ![p] = "reconcile_exchange"]
    /\ UNCHANGED <<owner, saga, connection, connector, run, faults>>

\* The callback reconciles what it staged, as a request of the API process.
CallbackReconciles(p) ==
    /\ run[Api].pc = "idle"
    /\ \/ /\ callback[p] = "completed"
          /\ run' = [run EXCEPT ![Api] = [Idle EXCEPT !.pc = "load", !.key = Saga(p),
                                  !.duty = "request"]]
       \/ /\ callback[p] = "reconcile_exchange"
          /\ run' = [run EXCEPT ![Api] = [Idle EXCEPT !.pc = "load", !.key = Exchange(p),
                                  !.duty = "request"]]
    /\ callback' = [callback EXCEPT ![p] = "idle"]
    /\ UNCHANGED <<rows, jobs, connector, faults>>

-----------------------------------------------------------------------------
(* The connector.  A call is answered to whoever still waits for it; the    *)
(* RPC server goes on with a call whose caller has given up (by NoPairing).  *)

Call(op, p, step, by) == [op |-> op, tx |-> p, step |-> step, by |-> by]
Goes(c, step) == calls' = (calls \ {c}) \cup {[c EXCEPT !.step = step]}

\* The caller's next step once call c ends, well or not.
\* Mutant: a lost call is taken for an answer.
AnswerAnyway(c, ok) ==
    /\ calls' = calls \ {c}
    /\ callback' = IF c.by \in Pairings THEN [callback EXCEPT ![c.by] = "exchanged"]
                   ELSE callback
    /\ run' = IF c.by \in Runners
              THEN [run EXCEPT ![c.by].pc =
                      IF c.op = "confirm" THEN "ack_confirm" ELSE "ack_revoke"]
              ELSE run
Answer(c, ok) ==
    /\ calls' = calls \ {c}
    /\ callback' = IF c.by \in Pairings
                   THEN [callback EXCEPT ![c.by] = IF ok THEN "exchanged" ELSE "failed"]
                   ELSE callback
    /\ run' = IF c.by \in Runners
              THEN [run EXCEPT ![c.by].pc =
                      IF ~ok THEN "failed"
                      ELSE IF c.op = "confirm" THEN "ack_confirm" ELSE "ack_revoke"]
              ELSE run

ConnectorOnly == UNCHANGED <<rows, jobs>>

\* exchangeAuthorizationCode: the provider issues tokens, or refuses the code.
TokenAnswer(c) ==
    /\ c \in calls /\ c.op = "exchange" /\ c.step = "token"
    /\ \/ Goes(c, "check") /\ UNCHANGED <<callback, run, faults>>
       \/ Fault /\ Answer(c, FALSE)
    /\ ConnectorOnly /\ UNCHANGED <<vault, tombstones>>

\* confirmAuthorizationPersistence reads the credential it is to rewrite.
ReadCredential(c) ==
    /\ c \in calls /\ c.op = "confirm" /\ c.step = "read"
    /\ IF vault[c.tx] = "none" THEN Answer(c, FALSE)
       ELSE Goes(c, "check") /\ UNCHANGED <<callback, run>>
    /\ ConnectorOnly /\ UNCHANGED <<vault, tombstones, faults>>

\* #write looks for a tombstone first ...
CheckTombstone(c) ==
    /\ c \in calls /\ c.step = "check"
    /\ IF c.tx \in tombstones THEN Answer(c, FALSE)
       ELSE Goes(c, "write") /\ UNCHANGED <<callback, run>>
    /\ ConnectorOnly /\ UNCHANGED <<vault, tombstones, faults>>

\* ... and renames the credential into place in a later step.
WriteCredential(c) ==
    /\ c \in calls /\ c.step = "write"
    /\ vault' = [vault EXCEPT ![c.tx] = IF c.op = "exchange" THEN "provisional"
                                        ELSE "confirmed"]
    /\ Answer(c, TRUE)
    /\ ConnectorOnly /\ UNCHANGED <<tombstones, faults>>

\* revokeAuthorization removes the credential, then writes the tombstone.
Unlink(c) ==
    /\ c \in calls /\ c.op = "revoke" /\ c.step = "unlink"
    /\ vault' = [vault EXCEPT ![c.tx] = "none"]
    /\ Goes(c, "tombstone")
    /\ ConnectorOnly /\ UNCHANGED <<tombstones, callback, run, faults>>

WriteTombstone(c) ==
    /\ c \in calls /\ c.op = "revoke" /\ c.step = "tombstone"
    /\ tombstones' = tombstones \cup {c.tx}
    /\ Answer(c, TRUE)
    /\ ConnectorOnly /\ UNCHANGED <<vault, faults>>

\* The caller's timeout, or an answer lost on the way: the call goes on.
GiveUp(c) ==
    /\ c \in calls /\ c.by # NoPairing
    /\ Fault
    /\ calls' = (calls \ {c}) \cup {[c EXCEPT !.by = NoPairing]}
    /\ callback' = IF c.by \in Pairings THEN [callback EXCEPT ![c.by] = "failed"]
                   ELSE callback
    /\ run' = IF c.by \in Runners THEN [run EXCEPT ![c.by].pc = "failed"] ELSE run
    /\ ConnectorOnly /\ UNCHANGED <<vault, tombstones>>

\* The connector restarts in the middle of a call.
CallLost(c) ==
    /\ c \in calls
    /\ Fault
    /\ Answer(c, FALSE)
    /\ ConnectorOnly /\ UNCHANGED <<vault, tombstones>>

-----------------------------------------------------------------------------
(* Reconciling a row: reconcileBrokerAuthorizationExchange and ...Saga       *)

Step(r, pc) == run' = [run EXCEPT ![r].pc = pc]
RunOnly == UNCHANGED <<rows, jobs, connector, callback>>
Reconciles(r) == run[r].pc = "load"
Target(r) == run[r].key[2]
Status(r) == IF run[r].key[1] = "exchange" THEN attempt[Target(r)] ELSE saga[Target(r)]
Settled(r) == Status(r) \in {"completed", "confirmed", "revoked"}

\* The row is settled: nothing is left to do.
LoadSettled(r) ==
    /\ Reconciles(r) /\ Settled(r)
    /\ Step(r, "done") /\ RunOnly /\ UNCHANGED faults

\* Its outcome is unknown and its time is up: it is to be revoked.
LoadOverdue(r) ==
    /\ Reconciles(r) /\ Status(r) \in {"exchange_overdue", "confirm_overdue"}
    /\ Step(r, "stage") /\ RunOnly /\ UNCHANGED faults

\* An exchange whose time is not up, by a clock behind the one that made the
\* cleanup job available.
LoadNotDue(r) ==
    /\ Reconciles(r) /\ Status(r) = "exchange_overdue"
    /\ Fault
    /\ Step(r, "failed") /\ RunOnly

CallConnector(r, op, step, pc) ==
    /\ calls' = calls \cup {Call(op, Target(r), step, r)}
    /\ Step(r, pc)
    /\ UNCHANGED <<rows, jobs, vault, tombstones, callback, faults>>

LoadConfirm(r) ==
    /\ Reconciles(r) /\ Status(r) = "confirm_pending"
    /\ CallConnector(r, "confirm", "read", "confirming")

LoadRevoke(r) ==
    /\ Reconciles(r) /\ Status(r) = "revoke_pending"
    /\ CallConnector(r, "revoke", "unlink", "revoking")

\* requestAuthorization(Exchange)Revocation; the row is loaded again afterwards.
Stage(r) ==
    /\ run[r].pc = "stage"
    /\ IF run[r].key[1] = "exchange"
       THEN StageExchangeRevocation(Target(r)) /\ UNCHANGED <<saga, connection>>
       ELSE StageSagaRevocation(Target(r)) /\ UNCHANGED attempt
    /\ Step(r, "load")
    /\ UNCHANGED <<owner, connector, callback, faults>>

\* acknowledgeAuthorizationConfirmation re-checks what may have changed while
\* the connector was asked: the status, the deadline, the session, the binding.
AcknowledgeConfirmation(r) ==
    LET p == Target(r) IN
    /\ run[r].pc = "ack_confirm"
    /\ \/ /\ saga[p] = "confirm_pending" /\ SessionActive
          /\ connection.status = "pending" /\ connection.holder = p /\ ~connection.confirmed
          /\ connection' = [connection EXCEPT !.confirmed = TRUE]
          /\ saga' = [saga EXCEPT ![p] = "confirmed"]
          /\ Enqueue(Hydrate(p))
          /\ Step(r, "done")
          /\ UNCHANGED pairing
       \/ /\ saga[p] = "confirm_overdue" \/ (saga[p] = "confirm_pending" /\ ~SessionActive)
          /\ StageSagaRevocation(p)
          /\ Step(r, "load")
       \/ /\ saga[p] \notin {"confirm_pending", "confirm_overdue"}
          /\ Step(r, "load")
          /\ UNCHANGED <<pairing, saga, connection, jobs>>
    /\ UNCHANGED <<owner, attempt, connector, callback, faults>>

\* acknowledgeAuthorization(Exchange)Revocation.
AcknowledgeRevocation(r) ==
    LET p == Target(r) IN
    /\ run[r].pc = "ack_revoke"
    /\ IF Status(r) = "revoke_pending"
       THEN IF run[r].key[1] = "exchange"
            THEN /\ attempt' = [attempt EXCEPT ![p] = "revoked"]
                 /\ UNCHANGED <<saga, connection>>
            ELSE /\ saga' = [saga EXCEPT ![p] = "revoked"]
                 /\ connection' = Unbound
                 /\ UNCHANGED attempt
       ELSE UNCHANGED <<attempt, saga, connection>>
    /\ Step(r, "done")
    /\ UNCHANGED <<owner, pairing, jobs, connector, callback, faults>>

-----------------------------------------------------------------------------
(* Disconnecting: up to three targets in one request                        *)

Disconnect ==
    /\ run[Api].pc = "idle" /\ SessionActive
    /\ run' = [run EXCEPT ![Api] = [Idle EXCEPT !.pc = "target", !.duty = "disconnect"]]
    /\ RunOnly /\ UNCHANGED faults

LiveSagas == {p \in Pairings : LiveSaga(p)}
LiveAttempts == {p \in Pairings : LiveAttempt(p)}

\* authorizationRevocationTarget picks the one live saga, else the one live
\* attempt; two live attempts are answered with an error.
PickTarget ==
    LET key == IF LiveSagas # {} THEN Saga(CHOOSE p \in Pairings : LiveSaga(p))
               ELSE Exchange(CHOOSE p \in Pairings : LiveAttempt(p))
    IN /\ run[Api].pc = "target" /\ run[Api].round < 3
       /\ LiveSagas \cup LiveAttempts # {}
       /\ IF LiveSagas # {} THEN Cardinality(LiveSagas) = 1
          ELSE Cardinality(LiveAttempts) = 1
       /\ run' = [run EXCEPT ![Api].pc = "stage", ![Api].key = key,
                             ![Api].round = @ + 1]
       /\ RunOnly /\ UNCHANGED faults

\* Nothing is left to revoke: the request answers that the tokens are revoked.
Disconnected ==
    /\ run[Api].pc = "target" /\ run[Api].round < 3
    /\ LiveSagas \cup LiveAttempts = {}
    /\ connection.status \in {"absent", "revoked"} /\ connection.holder = NoPairing
    /\ run' = [run EXCEPT ![Api] = Idle]
    /\ RunOnly /\ UNCHANGED faults

\* Two live sagas or attempts, or a third transition that was not the last.
DisconnectGivesUp ==
    /\ run[Api].pc = "target"
    /\ \/ run[Api].round = 3
       \/ Cardinality(LiveSagas) > 1
       \/ LiveSagas = {} /\ Cardinality(LiveAttempts) > 1
    /\ run' = [run EXCEPT ![Api] = Idle]
    /\ RunOnly /\ UNCHANGED faults

-----------------------------------------------------------------------------
(* The broker-sync worker                                                   *)

\* A claim of a live job.  The cleanup job of an exchange becomes available when
\* its attempt falls due; an exchange and a saga may have several jobs.
TakeJob(w, k) ==
    /\ run[w].pc = "idle"
    /\ k \in jobs
    /\ k[1] = "exchange" => attempt[k[2]] # "exchange_pending"
    /\ k[1] = "hydrate" => \A v \in Workers : run[v].key # k
    /\ run' = [run EXCEPT ![w] = [Idle EXCEPT !.key = k, !.duty = "job",
                 !.pc = IF k[1] = "hydrate" THEN "hydrate" ELSE "load"]]
    /\ RunOnly /\ UNCHANGED faults

\* An initial hydration, as far as the authorization is concerned: the snapshot
\* is persisted under locks on the rows it depends on.
Hydrated(w) ==
    LET p == Target(w) IN
    /\ run[w].pc = "hydrate"
    /\ MayHydrate(p) /\ pairing[p].status = "authorizing"
    /\ vault[p] = "confirmed"
    /\ connection' = [connection EXCEPT !.status = "connected"]
    /\ pairing' = [pairing EXCEPT ![p].status = "connected"]
    /\ Step(w, "done")
    /\ UNCHANGED <<owner, attempt, saga, jobs, connector, callback, faults>>

\* Its binding is gone, or the provider does not answer with a valid snapshot.
HydrationFails(w) ==
    LET p == Target(w) IN
    /\ run[w].pc = "hydrate"
    /\ IF MayHydrate(p) /\ pairing[p].status = "authorizing" /\ vault[p] = "confirmed"
       THEN Fault ELSE UNCHANGED faults
    /\ Step(w, "failed")
    /\ RunOnly

-----------------------------------------------------------------------------
(* How a process ends its work                                              *)

\* A job completes.  Whoever left its row unsettled meanwhile queued another
\* one; further jobs of a settled row would find nothing to do.
Done(r) ==
    /\ run[r].pc = "done"
    /\ run' = [run EXCEPT ![r] = IF run[r].duty = "disconnect"
                                 THEN [Idle EXCEPT !.pc = "target", !.duty = "disconnect",
                                                   !.round = run[r].round]
                                 ELSE Idle]
    /\ jobs' = IF run[r].duty = "job" /\ (run[r].key[1] = "hydrate" \/ Settled(r))
               THEN jobs \ {run[r].key} ELSE jobs
    /\ UNCHANGED <<rows, connector, callback, faults>>

\* The callback leaves an unknown outcome to the jobs, a disconnect answers
\* that the revocation is pending, and a job is retried or deferred.
Failed(r) ==
    /\ run[r].pc = "failed"
    /\ run' = [run EXCEPT ![r] = Idle]
    /\ RunOnly /\ UNCHANGED faults

\* The last attempt of a job, or a hydration that cannot succeed: revocation
\* is requested before the job completes.
Exhausted(w) ==
    LET p == Target(w) IN
    /\ run[w].pc = "failed" /\ run[w].duty = "job"
    /\ IF run[w].key[1] = "exchange"
       THEN StageExchangeRevocation(p) /\ UNCHANGED <<saga, connection>>
       ELSE StageSagaRevocation(p) /\ UNCHANGED attempt
    /\ Step(w, "done")
    /\ UNCHANGED <<owner, connector, callback, faults>>

\* A process stops between two steps; the connector goes on with its call.
Crash(r) ==
    /\ run[r].pc # "idle"
    /\ Fault
    /\ run' = [run EXCEPT ![r] = Idle]
    /\ calls' = {IF c.by = r THEN [c EXCEPT !.by = NoPairing] ELSE c : c \in calls}
    /\ UNCHANGED <<rows, jobs, vault, tombstones, callback>>

CallbackCrash(p) ==
    /\ callback[p] # "idle"
    /\ Fault
    /\ callback' = [callback EXCEPT ![p] = "idle"]
    /\ calls' = {IF c.by = p THEN [c EXCEPT !.by = NoPairing] ELSE c : c \in calls}
    /\ UNCHANGED <<rows, jobs, vault, tombstones, run>>

\* A waiting job is taken out of the queue by hand.
JobRemoved(k) ==
    /\ k \in jobs /\ \A w \in Workers : run[w].key # k
    /\ Fault
    /\ jobs' = jobs \ {k}
    /\ UNCHANGED <<rows, connector, callback, run>>

\* requeueStuckAuthorizationSagas: rows that wait for a job nobody has queued.
\* Mutant: only revocations are looked for.
JanitorOfRevocations(p) ==
    /\ \/ saga[p] = "revoke_pending" /\ Saga(p) \notin jobs /\ Enqueue(Saga(p))
       \/ attempt[p] = "revoke_pending" /\ Exchange(p) \notin jobs /\ Enqueue(Exchange(p))
    /\ UNCHANGED <<rows, connector, callback, run, faults>>
Janitor(p) ==
    /\ \/ /\ saga[p] \in {"confirm_pending", "confirm_overdue", "revoke_pending"}
          /\ Saga(p) \notin jobs /\ Enqueue(Saga(p))
       \/ /\ saga[p] = "confirmed" /\ connection.status = "pending"
          /\ Hydrate(p) \notin jobs /\ Enqueue(Hydrate(p))
       \/ /\ attempt[p] \in {"exchange_overdue", "revoke_pending"}
          /\ Exchange(p) \notin jobs /\ Enqueue(Exchange(p))
    /\ UNCHANGED <<rows, connector, callback, run, faults>>

-----------------------------------------------------------------------------
Clock == \E p \in Pairings : CleanupFallsDue(p) \/ DeadlinePasses(p)
Owner == SignOut \/ CloseAccount \/ Disconnect
Request(p) == Create(p) \/ Claim(p) \/ Expire(p) \/ Cancel(p)
              \/ BeginMobileAuthorization(p) \/ AbandonMobileAuthorization(p) \/ TakeSecrets(p)
Callback(p) == Conclude(p) \/ BeginExchange(p) \/ Complete(p) \/ CompletionRefused(p)
               \/ CallbackRevokes(p) \/ CallbackReconciles(p)
Connector(c) == TokenAnswer(c) \/ ReadCredential(c) \/ CheckTombstone(c)
                \/ WriteCredential(c) \/ Unlink(c) \/ WriteTombstone(c)
Reconcile(r) == LoadSettled(r) \/ LoadOverdue(r) \/ LoadNotDue(r) \/ LoadConfirm(r)
                \/ LoadRevoke(r) \/ Stage(r) \/ AcknowledgeConfirmation(r)
                \/ AcknowledgeRevocation(r) \/ Done(r) \/ Failed(r)
Worker(w) == Hydrated(w) \/ HydrationFails(w) \/ Exhausted(w)
             \/ \E k \in JobKey : TakeJob(w, k)
DisconnectStep == PickTarget \/ Disconnected \/ DisconnectGivesUp

Next ==
    \/ Clock \/ Owner \/ DisconnectStep
    \/ \E p \in Pairings : Request(p) \/ Callback(p) \/ CallbackCrash(p) \/ Janitor(p)
    \/ \E c \in calls : Connector(c) \/ GiveUp(c) \/ CallLost(c)
    \/ \E r \in Runners : Reconcile(r) \/ Crash(r)
    \/ \E w \in Workers : Worker(w)
    \/ \E k \in JobKey : JobRemoved(k)

Spec == Init /\ [][Next]_vars

\* Each worker goes on with what it has begun, the queue gives it every live job
\* in the end (failed ones wait out a backoff), and the last of a job's attempts
\* comes (max_attempts).  The connector answers, deadlines pass and the janitor
\* runs.  Nothing is assumed of the API: a request may stop anywhere.
WorkerFairness(w) ==
    /\ WF_vars(Reconcile(w)) /\ WF_vars(Hydrated(w) \/ HydrationFails(w))
    /\ \A k \in JobKey : /\ SF_vars(TakeJob(w, k))
                         /\ SF_vars(run[w].key = k /\ Exhausted(w))
    /\ WF_vars(\E c \in calls : c.by = w /\ Connector(c))

Fairness ==
    /\ \A w \in Workers : WorkerFairness(w)
    /\ \A p \in Pairings : /\ WF_vars(CleanupFallsDue(p)) /\ WF_vars(DeadlinePasses(p))
                           /\ WF_vars(Janitor(p))

FairSpec == Spec /\ Fairness

-----------------------------------------------------------------------------
(* Properties                                                               *)

\* Every variable keeps its type.
TypeOK ==
    /\ owner \in {"active", "signed_out", "closed"}
    /\ pairing \in [Pairings -> [status : PairingStatus, flow : Flow,
                                 claimed : BOOLEAN, consumed : BOOLEAN]]
    /\ attempt \in [Pairings -> ExchangeStatus]
    /\ saga \in [Pairings -> SagaStatus]
    /\ connection \in [status : ConnectionStatus, holder : Pairings \cup {NoPairing},
                       confirmed : BOOLEAN]
    /\ jobs \subseteq JobKey
    /\ vault \in [Pairings -> {"none", "provisional", "confirmed"}]
    /\ tombstones \subseteq Pairings
    /\ calls \subseteq [op : {"exchange", "confirm", "revoke"}, tx : Pairings,
                        step : {"token", "read", "check", "write", "unlink", "tombstone"},
                        by : Pairings \cup Runners \cup {NoPairing}]
    /\ callback \in [Pairings -> {"idle", "secrets", "exchanging", "exchanged",
                                  "completed", "failed", "reconcile_exchange"}]
    /\ run \in [Runners -> [pc : {"idle", "load", "stage", "confirming", "revoking",
                                  "ack_confirm", "ack_revoke", "done", "failed",
                                  "target", "hydrate"},
                            key : JobKey \cup {NoKey}, duty : Duty, round : 0 .. 3]]
    /\ faults \in 0 .. MaxFaults

\* The connection row is bound exactly while the one saga that owns the binding
\* awaits or has confirmation, says "connected" only for a pairing that is, and
\* until it is revoked has a saga that will settle it; a pairing that ended binds
\* nothing.  Completion, confirmation, hydration, cancellation and revocation
\* each write some of the three tables.
BindingHasItsSaga ==
    /\ \A p \in Pairings : saga[p] \in {"confirm_pending", "confirm_overdue", "confirmed"}
                              <=> connection.holder = p
    /\ connection.confirmed <=> \E p \in Pairings : saga[p] = "confirmed"
    /\ connection.status = "connected" =>
          \E p \in Pairings : saga[p] = "confirmed" /\ pairing[p].status = "connected"
    /\ connection.status \in {"pending", "connected", "error"} => \E p \in Pairings : LiveSaga(p)
    /\ \A p \in Pairings :
          pairing[p].status \in {"canceled", "expired", "error"} => connection.holder # p

\* At most one authorization of the owner is live, whatever pairings were begun
\* side by side.
OneLiveAuthorization == Cardinality({p \in Pairings : LiveSaga(p)}) <= 1

\* What a row says is revoked stays so at the connector, although answers get lost
\* and calls outlive their callers: of a revoked authorization no call comes to
\* write the credential any more, and a file that is gone stays gone unless a call
\* already past its tombstone check puts it back.
Revoked(p) == "revoked" \in {attempt[p], saga[p]}
Writing(p) == \E c \in calls : c.tx = p /\ c.step = "write"
RevokedStaysRevoked ==
    [][\A p \in Pairings : Revoked(p) /\ ~Writing(p) =>
          ~Writing(p)' /\ vault'[p] \in {vault[p], "none"}]_vars

\* The connector's contract: a revocation is "terminal-wins over a concurrent late
\* confirmation".  A revoked authorization has no confirmed credential.
RevocationWins == \A p \in Pairings : Revoked(p) => vault[p] # "confirmed"

\* Cleanup never takes the credential of a binding that is still in use, and a
\* confirmed binding has a credential the connector keeps.
LiveBindingKeepsCredential ==
    \A p \in Pairings : connection.holder = p =>
        /\ p \notin tombstones
        /\ vault[p] # "none"
        /\ connection.confirmed => vault[p] = "confirmed"

\* A disconnect is answered with "revoked" only when the revocation of every
\* authorization that was ever begun, also while the request ran, is acknowledged:
\* in its row, and by the connector's tombstone.
DisconnectedMeansRevoked ==
    [][Disconnected =>
          \A p \in Pairings : attempt[p] # "none" => Revoked(p) /\ p \in tombstones]_vars

\* An exchange whose outcome was not settled is settled in the end: its revocation
\* is acknowledged, or its tokens are those of the connected account.
AuthorizationSettled(p) ==
    \/ Revoked(p)
    \/ attempt[p] = "none"
    \/ saga[p] = "confirmed" /\ pairing[p].status = "connected"
EveryAuthorizationSettles == \A p \in Pairings : []<>AuthorizationSettled(p)
=============================================================================
