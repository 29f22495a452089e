--------------------------- MODULE BrokerHydration ---------------------------
(***************************************************************************)
(* Hydrating a broker connection: the worker's hydrate_broker_account jobs,*)
(* from the check of the connection over the provider's snapshot to the    *)
(* transaction that persists it, and the chain of scheduled refreshes.     *)
(*                                                                         *)
(* How an authorization comes about is BrokerAuthorization; here it is a   *)
(* binding n of the one connection, which is bound, confirmed and revoked. *)
(***************************************************************************)
EXTENDS Naturals, FiniteSets

CONSTANTS
    Workers,
    MaxBindings,    \* bound of the authorizations of the connection
    MaxRefreshes,   \* bound of the scheduled refreshes
    MaxAttempts,    \* max_attempts of a job
    MaxStamp,       \* bound of the instants told apart
    MaxFailures     \* bound of crashes, lapsed leases and failed calls

ASSUME HydrationAssumption ==
    /\ {MaxBindings, MaxAttempts, MaxStamp} \subseteq Nat \ {0}
    /\ {MaxRefreshes, MaxFailures} \subseteq Nat

VARIABLES
    binding,    \* the latest authorization, 0 before the first
    saga,       \* of each binding: "none" .. "revoked"
    pairing,    \* of each binding: "authorizing", "connected", "error"
    connection, \* the broker_connections row
    job,        \* state and attempts of each queue job
    worker,     \* what each worker does
    receipts,   \* broker_sync_runs
    now,        \* the provider's clock
    asked,      \* history: bindings the owner asked to revoke
    failures

vars == <<binding, saga, pairing, connection, job, worker, receipts, now, asked, failures>>
authorization == <<binding, saga, pairing, connection, asked>>

Bindings == 1 .. MaxBindings
Initial(n) == <<"initial", n>>
Scheduled(k) == <<"scheduled", k>>
Jobs == ({"initial"} \X Bindings) \cup ({"scheduled"} \X (1 .. MaxRefreshes))
NoJob == <<"none", 0>>
SagaState == {"none", "confirm_pending", "confirmed", "revoke_pending", "revoked"}
ConnectionState ==
    [status : {"absent", "pending", "connected", "error", "revoked"}, holder : 0 .. MaxBindings,
     confirmed : BOOLEAN, bound : 0 .. MaxStamp, synced : 0 .. MaxStamp]
WorkerState ==
    [pc : {"idle", "ready", "reading", "fetching", "persist", "dispatch", "completing",
           "failed", "hopeless"},
     job : Jobs \cup {NoJob},
     attempts : 0 .. MaxAttempts,   \* of the job, when it was claimed
     holds : BOOLEAN,               \* its lease
     of : 0 .. MaxBindings,         \* whose credential it uses
     taken : 0 .. MaxStamp]         \* the snapshot's source timestamp
JobState == {"absent", "queued", "leased", "completed", "dead"}
Idle == [pc |-> "idle", job |-> NoJob, attempts |-> 0, holds |-> FALSE, of |-> 0, taken |-> 0]
Detached == [status |-> "absent", holder |-> 0, confirmed |-> FALSE, bound |-> 0, synced |-> 0]

Init ==
    /\ binding = 0
    /\ saga = [n \in Bindings |-> "none"]
    /\ pairing = [n \in Bindings |-> "authorizing"]
    /\ connection = Detached
    /\ job = [j \in Jobs |-> [state |-> "absent", attempts |-> 0]]
    /\ worker = [w \in Workers |-> Idle]
    /\ receipts = {} /\ now = 1 /\ asked = {} /\ failures = 0

Fail == failures < MaxFailures /\ failures' = failures + 1

\* Mutant: one attempt too many.
BeyondLastAttempt(attempts) == attempts + 1 > MaxAttempts
LastAttempt(attempts) == attempts + 1 >= MaxAttempts
Queue(j) == [job EXCEPT ![j].state = "queued"]

-----------------------------------------------------------------------------
(* The authorization of the connection                                      *)

\* A binding takes the place of another only when that one is revoked.
\* Mutant: only a verified account has to be revoked first.
ReplaceableUnverified == connection.status # "connected"
Replaceable == connection.holder = 0 /\ \A n \in Bindings : saga[n] \in {"none", "revoked"}

\* A new authorization completes, whatever the workers are doing.
Bind ==
    /\ binding < MaxBindings
    /\ Replaceable
    /\ binding' = binding + 1
    /\ saga' = [saga EXCEPT ![binding + 1] = "confirm_pending"]
    /\ connection' = [status |-> "pending", holder |-> binding + 1, confirmed |-> FALSE,
                      bound |-> now, synced |-> 0]
    /\ UNCHANGED <<pairing, job, worker, receipts, now, asked, failures>>

Confirm ==
    /\ binding > 0 /\ saga[binding] = "confirm_pending"
    /\ saga' = [saga EXCEPT ![binding] = "confirmed"]
    /\ connection' = [connection EXCEPT !.confirmed = TRUE]
    /\ job' = Queue(Initial(binding))
    /\ UNCHANGED <<binding, pairing, worker, receipts, now, asked, failures>>

\* requestAuthorizationRevocation, whoever asks for it.
Unbind(n) ==
    IF saga[n] \in {"confirm_pending", "confirmed", "revoke_pending"}
    THEN /\ saga' = [saga EXCEPT ![n] = "revoke_pending"]
         /\ pairing' = [pairing EXCEPT ![n] = "error"]
         /\ connection' = [connection EXCEPT !.status = "error", !.holder = 0,
                                             !.confirmed = FALSE, !.bound = 0]
    ELSE UNCHANGED <<saga, pairing, connection>>

Disconnect ==
    /\ binding > 0 /\ saga[binding] \in {"confirm_pending", "confirmed"}
    /\ Unbind(binding)
    /\ asked' = asked \cup {binding}
    /\ UNCHANGED <<binding, job, worker, receipts, now, failures>>

Revoked ==
    /\ binding > 0 /\ saga[binding] = "revoke_pending"
    /\ saga' = [saga EXCEPT ![binding] = "revoked"]
    /\ connection' = [connection EXCEPT !.status = "revoked"]
    /\ UNCHANGED <<binding, pairing, job, worker, receipts, now, asked, failures>>

-----------------------------------------------------------------------------
(* The worker                                                               *)

Step(w, pc) == worker' = [worker EXCEPT ![w].pc = pc]

\* What cannot be mended by trying again (terminalInitialHydrationCodes) ends an
\* initial job; a scheduled one is retried for anything.
IsInitial(w) == worker[w].job[1] = "initial"
Hopeless(w) == Step(w, IF IsInitial(w) THEN "hopeless" ELSE "failed")

Take(w, j) ==
    /\ worker[w].pc = "idle" /\ job[j].state = "queued"
    /\ job' = [job EXCEPT ![j].state = "leased"]
    /\ worker' = [worker EXCEPT ![w] = [pc |-> "ready", job |-> j, attempts |-> job[j].attempts,
                                         holds |-> TRUE, of |-> 0, taken |-> 0]]
    /\ UNCHANGED <<authorization, receipts, now, failures>>

\* assertConnection
ConnectionReady(j) ==
    /\ connection.confirmed
    /\ connection.status \in (IF j[1] = "initial" THEN {"pending", "connected"}
                              ELSE {"connected"})

\* The pairing and the saga that an initial job names.
Bound(j) == j[1] = "initial" => saga[j[2]] = "confirmed" /\ pairing[j[2]] # "error"

\* A connection that is not ready is looked at first, and retried.
RequireReady(w) ==
    LET j == worker[w].job IN
    /\ worker[w].pc = "ready"
    /\ \/ ConnectionReady(j) /\ Bound(j) /\ Step(w, "reading")
       \/ ConnectionReady(j) /\ ~Bound(j) /\ Hopeless(w)
       \/ ~ConnectionReady(j) /\ Step(w, "failed")
    /\ UNCHANGED <<authorization, job, receipts, now, failures>>

\* The connector looks the credential up again: whichever the row names by now.
\* Its file may be confirmed before the saga is.
ReadCredential(w) ==
    /\ worker[w].pc = "reading" /\ connection.holder # 0
    /\ worker' = [worker EXCEPT ![w].pc = "fetching", ![w].of = connection.holder]
    /\ UNCHANGED <<authorization, job, receipts, now, failures>>

\* BROKER_CREDENTIAL_BINDING_REQUIRED, BROKER_CREDENTIAL_UNCONFIRMED
ReadNothing(w) ==
    /\ worker[w].pc = "reading"
    /\ connection.holder # 0 => saga[connection.holder] = "confirm_pending"
    /\ Step(w, "failed")
    /\ UNCHANGED <<authorization, job, receipts, now, failures>>

\* The connector's snapshot is stamped when the provider has answered.
EndFetch(w) ==
    /\ worker[w].pc = "fetching" /\ now < MaxStamp
    /\ now' = now + 1
    /\ worker' = [worker EXCEPT ![w].pc = "persist", ![w].taken = now + 1]
    /\ UNCHANGED <<authorization, job, receipts, failures>>

\* No snapshot comes of the call.
FetchFails(w) ==
    /\ worker[w].pc = "fetching"
    /\ IF now < MaxStamp THEN Fail ELSE UNCHANGED failures
    /\ UNCHANGED <<authorization, job, receipts, now>>

\* fetchWithTimeout gives up, or the connector answers with an error.
FetchTimesOut(w) == FetchFails(w) /\ Step(w, "failed")

\* The answer does not validate.
SnapshotInvalid(w) == FetchFails(w) /\ Hopeless(w)

\* The receipt of the same job or of the same instant.  A snapshot fetched again
\* has another instant, and so never the fingerprint of the receipt.
\* Mutant: receipts are looked up by their instant alone.
PriorAtInstant(w) == {r \in receipts : r.taken = worker[w].taken}
Prior(w) == {r \in receipts : r.job = worker[w].job \/ r.taken = worker[w].taken}

InOrder(w) == worker[w].taken > connection.synced

\* The transaction compares no binding: what a refresh fetched with an earlier
\* credential goes to whichever connection is ready now.
Persist(w) ==
    LET j == worker[w].job IN
    /\ worker[w].pc = "persist"
    /\ ConnectionReady(j) /\ Bound(j) /\ Prior(w) = {} /\ InOrder(w)
    /\ IsInitial(w) => pairing[j[2]] = "authorizing"
    /\ connection' = [connection EXCEPT !.status = "connected", !.synced = worker[w].taken]
    /\ pairing' = IF IsInitial(w) THEN [pairing EXCEPT ![j[2]] = "connected"] ELSE pairing
    /\ receipts' = receipts \cup {[job |-> j, taken |-> worker[w].taken, of |-> worker[w].of]}
    /\ Step(w, "dispatch")
    /\ UNCHANGED <<binding, saga, job, now, asked, failures>>

\* The refusals in their order: BROKER_CONNECTION_NOT_READY; BROKER_SYNC_PAIRING_
\* CHANGED or _NOT_CONFIRMED; _IDEMPOTENCY_REUSED; _PRECEDES_AUTHORIZATION (a
\* snapshot up to five seconds older than the binding is let through) or, at the
\* end, _PAIRING_CHANGED; _OUT_OF_ORDER.
PersistRefused(w) ==
    LET j == worker[w].job IN
    /\ worker[w].pc = "persist"
    /\ \/ ~ConnectionReady(j) /\ Step(w, "failed")
       \/ ConnectionReady(j) /\ ~Bound(j) /\ Hopeless(w)
       \/ ConnectionReady(j) /\ Bound(j) /\ Prior(w) # {} /\ Step(w, "failed")
       \/ /\ ConnectionReady(j) /\ Bound(j) /\ Prior(w) = {}
          /\ \/ worker[w].taken < connection.bound
             \/ InOrder(w) /\ IsInitial(w) /\ pairing[j[2]] # "authorizing"
          /\ Hopeless(w)
       \/ ConnectionReady(j) /\ Bound(j) /\ Prior(w) = {} /\ ~InOrder(w) /\ Step(w, "failed")
    /\ UNCHANGED <<authorization, job, receipts, now, failures>>

\* nextBrokerSyncDispatch: a later bucket, whose key may be queued already.
NextBuckets(w) ==
    {k \in 1 .. MaxRefreshes :
        /\ IsInitial(w) \/ k > worker[w].job[2]
        /\ job[Scheduled(k)].state \in {"absent", "queued"}
        /\ \A l \in 1 .. (k - 1) : job[Scheduled(l)].state # "absent"}

Dispatch(w) ==
    /\ worker[w].pc = "dispatch"
    /\ \E k \in NextBuckets(w) : job' = Queue(Scheduled(k))
    /\ Step(w, "completing")
    /\ UNCHANGED <<authorization, receipts, now, failures>>

\* Beyond the bound no further refresh is queued.
DispatchLast(w) ==
    /\ worker[w].pc = "dispatch" /\ NextBuckets(w) = {}
    /\ Step(w, "completing")
    /\ UNCHANGED <<authorization, job, receipts, now, failures>>

\* The insert fails, in the same try block as the committed transaction.
DispatchFails(w) ==
    /\ worker[w].pc = "dispatch"
    /\ Fail
    /\ Step(w, "failed")
    /\ UNCHANGED <<authorization, job, receipts, now>>

\* What ends an initial job in a revocation of its authorization.
\* Mutant: only what is hopeless does.
GivesUpHopeless(w) == IsInitial(w) /\ worker[w].pc = "hopeless"
GivesUpInitial(w) ==
    /\ IsInitial(w)
    /\ \/ worker[w].pc = "hopeless"
       \/ worker[w].pc = "failed" /\ LastAttempt(worker[w].attempts)

\* requestInitialAuthorizationRevocation
RevokeInitial(w) ==
    /\ GivesUpInitial(w) /\ saga[worker[w].job[2]] # "revoked"
    /\ Unbind(worker[w].job[2])
    /\ Step(w, "completing")
    /\ UNCHANGED <<binding, job, receipts, now, asked, failures>>

\* complete, fail and defer count only from the holder of the lease.
Settle(w, state, attempts) ==
    /\ job' = IF worker[w].holds
              THEN [job EXCEPT ![worker[w].job] = [state |-> state, attempts |-> attempts]]
              ELSE job
    /\ worker' = [worker EXCEPT ![w] = Idle]

\* It finds no saga that is not revoked yet, or it fails: deferredCleanup, which
\* runs the whole job again in 30 s and uses up no attempt.
DeferInitial(w) ==
    /\ GivesUpInitial(w)
    /\ IF saga[worker[w].job[2]] = "revoked" THEN UNCHANGED failures ELSE Fail
    /\ Settle(w, "queued", job[worker[w].job].attempts)
    /\ UNCHANGED <<authorization, receipts, now>>

Complete(w) ==
    /\ worker[w].pc = "completing"
    /\ Settle(w, "completed", job[worker[w].job].attempts)
    /\ UNCHANGED <<authorization, receipts, now, failures>>

\* The queue retries a failed job, and dead-letters it after its last attempt.
Retry(w) ==
    LET used == job[worker[w].job].attempts IN
    /\ worker[w].pc = "failed" /\ ~GivesUpInitial(w)
    /\ Settle(w, IF LastAttempt(used) THEN "dead" ELSE "queued", used + 1)
    /\ UNCHANGED <<authorization, receipts, now, failures>>

\* The lease runs out under a worker that goes on: a failed heartbeat only
\* degrades its health.
Lapse(w) ==
    /\ worker[w].holds
    /\ Fail
    /\ job' = Queue(worker[w].job)
    /\ worker' = [worker EXCEPT ![w].holds = FALSE]
    /\ UNCHANGED <<authorization, receipts, now>>

\* The process stops, or loses the database, and the lease of its job runs out.
Crash(w) ==
    /\ worker[w].pc # "idle"
    /\ Fail
    /\ job' = IF worker[w].holds THEN Queue(worker[w].job) ELSE job
    /\ worker' = [worker EXCEPT ![w] = Idle]
    /\ UNCHANGED <<authorization, receipts, now>>

-----------------------------------------------------------------------------
Hydrate(w) ==
    \/ RequireReady(w) \/ ReadCredential(w) \/ ReadNothing(w)
    \/ EndFetch(w) \/ FetchTimesOut(w) \/ SnapshotInvalid(w)
    \/ Persist(w) \/ PersistRefused(w)
    \/ Dispatch(w) \/ DispatchLast(w) \/ DispatchFails(w)

End(w) == RevokeInitial(w) \/ DeferInitial(w) \/ Complete(w) \/ Retry(w)

Next ==
    \/ Bind \/ Confirm \/ Disconnect \/ Revoked
    \/ \E w \in Workers :
         Hydrate(w) \/ End(w) \/ Lapse(w) \/ Crash(w) \/ \E j \in Jobs : Take(w, j)

Spec == Init /\ [][Next]_vars

-----------------------------------------------------------------------------
(* Properties                                                               *)

\* Every variable keeps its type.
TypeOK ==
    /\ binding \in 0 .. MaxBindings
    /\ saga \in [Bindings -> SagaState]
    /\ pairing \in [Bindings -> {"authorizing", "connected", "error"}]
    /\ connection \in ConnectionState
    /\ job \in [Jobs -> [state : JobState, attempts : 0 .. MaxAttempts]]
    /\ worker \in [Workers -> WorkerState]
    /\ receipts \subseteq [job : Jobs, taken : 1 .. MaxStamp, of : Bindings]
    /\ now \in 1 .. MaxStamp /\ asked \subseteq Bindings /\ failures \in 0 .. MaxFailures

\* An account is verified by its own authorization: the initial job of a pairing
\* commits no snapshot that was fetched with another one's credential, although
\* the check, the look-up of the credential and the commit are three transactions
\* and the owner may disconnect and authorize anew between them.
PairingVerifiedByItself ==
    \A r \in receipts : r.job[1] = "initial" => r.of = r.job[2]

\* One job commits one snapshot, and one instant is committed once, however often
\* a job is run again, or by two workers at once.
OneSnapshotPerJob ==
    \A r, s \in receipts : (r.job = s.job \/ r.taken = s.taken) => r = s

\* A confirmed authorization is never left between: its initial hydration ends
\* with a committed snapshot or with the authorization in revocation.
HydratedOrRevoked ==
    \A n \in Bindings : job[Initial(n)].state \in {"completed", "dead"} =>
        \/ \E r \in receipts : r.job = Initial(n)
        \/ saga[n] \in {"revoke_pending", "revoked"}

\* Said of the receipts in docs/operations/broker-account-sync.md: replaying a
\* job is idempotent.  A job whose snapshot was committed neither dead-letters
\* nor takes the account's authorization away.
ReplayIsIdempotent ==
    \A r \in receipts :
        /\ job[r.job].state # "dead"
        /\ r.job[1] = "initial" =>
              saga[r.job[2]] = "confirmed" \/ r.job[2] \in asked
=============================================================================
