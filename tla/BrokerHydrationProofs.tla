------------------------ MODULE BrokerHydrationProofs ------------------------
(***************************************************************************)
(* The hydration of a broker connection, for any number of workers,        *)
(* authorizations, refreshes, attempts and failures: the four properties   *)
(* its model checker run checks, and when a replay is idempotent.          *)
(***************************************************************************)
EXTENDS BrokerHydration, TLAPS

Live == {"confirm_pending", "confirmed", "revoke_pending"}
InRevocation == {"revoke_pending", "revoked"}
Busy(w) == worker[w].pc # "idle"

\* At most one saga is live, the latest, and it alone holds the connection.
ConnectionFollowsSaga ==
    /\ \A n \in Bindings : saga[n] = "none" <=> n > binding
    /\ \A n \in Bindings : saga[n] \in Live => n = binding
    /\ connection.holder # 0 => connection.holder = binding
    /\ binding > 0 =>
         (connection.holder = binding <=> saga[binding] \in {"confirm_pending", "confirmed"})

\* A job is leased to one worker at most, which knows its attempts; others may
\* still be at work on it.
LeasesHeld ==
    /\ \A w \in Workers : Busy(w) => worker[w].job \in Jobs /\ job[worker[w].job].state # "absent"
    /\ \A w \in Workers : worker[w].holds =>
         /\ Busy(w) /\ job[worker[w].job].state = "leased"
         /\ worker[w].attempts = job[worker[w].job].attempts
    /\ \A v, w \in Workers :
         worker[v].holds /\ worker[w].holds /\ worker[v].job = worker[w].job => v = w
    /\ \A j \in Jobs : job[j].state \in {"absent", "queued", "leased"} => job[j].attempts < MaxAttempts
    /\ \A n \in Bindings : job[Initial(n)].state # "absent" => saga[n] \notin {"none", "confirm_pending"}

\* What an initial job has in hand was fetched for its own binding, unless that
\* one has been given up meanwhile.
FetchedForBinding ==
    \A w \in Workers :
        /\ worker[w].pc \in {"fetching", "persist"} => worker[w].of \in Bindings
        /\ worker[w].pc = "persist" => worker[w].taken \in 1 .. MaxStamp
        /\ worker[w].pc \in {"fetching", "persist"} /\ worker[w].job[1] = "initial" =>
             worker[w].of = worker[w].job[2] \/ saga[worker[w].job[2]] \in InRevocation

Settled(n) == (\E r \in receipts : r.job = Initial(n)) \/ saga[n] \in InRevocation

\* A worker that is past its persisting or revoking left the binding settled.
PastIsSettled ==
    \A w \in Workers :
        worker[w].pc \in {"dispatch", "completing"} /\ worker[w].job[1] = "initial" =>
            Settled(worker[w].job[2])

IInv ==
    /\ TypeOK /\ ConnectionFollowsSaga /\ LeasesHeld /\ FetchedForBinding /\ PastIsSettled
    /\ HydratedOrRevoked /\ OneSnapshotPerJob /\ PairingVerifiedByItself

USE HydrationAssumption DEF vars, authorization

\* Bindings and jobs.
LEMMA JobFacts ==
    /\ \A n \in Bindings : Initial(n) \in Jobs /\ Initial(n)[1] = "initial" /\ Initial(n)[2] = n
    /\ \A m, n \in Bindings : Initial(m) = Initial(n) => m = n
    /\ \A k \in 1 .. MaxRefreshes : Scheduled(k) \in Jobs /\ Scheduled(k)[1] = "scheduled"
    /\ \A j \in Jobs : j[1] = "initial" => j[2] \in Bindings /\ j = Initial(j[2])
    /\ NoJob \notin Jobs
  BY DEF Jobs, Initial, Scheduled, NoJob, Bindings

LEMMA BindingFacts ==
    /\ MaxBindings \in Nat \ {0} /\ MaxAttempts \in Nat \ {0}
    /\ MaxStamp \in Nat \ {0} /\ MaxRefreshes \in Nat /\ MaxFailures \in Nat
    /\ Bindings = 1 .. MaxBindings
  BY DEF Bindings

\* The initial states satisfy the invariant.
LEMMA InitIInv == ASSUME Init PROVE IInv
<1> USE JobFacts, BindingFacts DEF Init
<1>1. TypeOK
  BY DEF TypeOK, Detached, Idle, NoJob, JobState, SagaState, ConnectionState, WorkerState
<1>2. ConnectionFollowsSaga
  BY DEF ConnectionFollowsSaga, Detached, Live
<1>3. LeasesHeld
  BY DEF LeasesHeld, Busy, Idle
<1>4. FetchedForBinding /\ PastIsSettled
  BY DEF FetchedForBinding, PastIsSettled, Idle
<1>5. HydratedOrRevoked /\ OneSnapshotPerJob /\ PairingVerifiedByItself
  BY DEF HydratedOrRevoked, OneSnapshotPerJob, PairingVerifiedByItself
<1> QED
  BY <1>1, <1>2, <1>3, <1>4, <1>5 DEF IInv

-----------------------------------------------------------------------------
(* What the steps do to the workers, the jobs and the connection.           *)

Places == {"idle", "ready", "reading", "fetching", "persist", "dispatch", "completing",
           "failed", "hopeless"}

\* The worker goes on with its job; it lets go of it, or loses its lease.
Others(w) == \A v \in Workers \ {w} : worker'[v] = worker[v]
Moves(w, pcs) ==
    /\ worker' \in [Workers -> WorkerState] /\ Others(w)
    /\ worker'[w].job = worker[w].job /\ worker'[w].attempts = worker[w].attempts
    /\ worker'[w].holds = worker[w].holds /\ worker'[w].pc \in pcs
SameCopy(w) ==
    /\ worker'[w].job = worker[w].job
    /\ worker'[w].of = worker[w].of /\ worker'[w].taken = worker[w].taken
Releases(w) ==
    /\ worker' \in [Workers -> WorkerState] /\ Others(w)
    /\ worker'[w].holds = FALSE
    /\ worker'[w] = Idle \/ (SameCopy(w) /\ worker'[w].pc = worker[w].pc)

\* The state of one job becomes st, its attempts a.
JobBecomes(j, st, a) ==
    /\ job' \in [Jobs -> [state : JobState, attempts : 0 .. MaxAttempts]]
    /\ \A i \in Jobs \ {j} : job'[i] = job[i]
    /\ job'[j].state = st /\ job'[j].attempts = a

LEMMA WorkerFields ==
    ASSUME NEW x \in WorkerState
    PROVE  /\ x.pc \in Places /\ x.job \in Jobs \cup {NoJob}
           /\ x.attempts \in 0 .. MaxAttempts /\ x.holds \in BOOLEAN
           /\ x.of \in 0 .. MaxBindings /\ x.taken \in 0 .. MaxStamp
  BY DEF WorkerState, Places

LEMMA IdleFields ==
    /\ Idle \in WorkerState /\ Idle.pc = "idle" /\ Idle.job = NoJob
    /\ Idle.holds = FALSE /\ Idle.of = 0 /\ Idle.taken = 0
  BY BindingFacts DEF Idle, WorkerState

LEMMA StepMoves ==
    ASSUME TypeOK, NEW w \in Workers, NEW pc \in Places, Step(w, pc)
    PROVE  Moves(w, {pc}) /\ SameCopy(w)
<1>1. worker \in [Workers -> WorkerState]
  BY DEF TypeOK
<1>2. [worker[w] EXCEPT !.pc = pc] \in WorkerState
  BY <1>1 DEF WorkerState, Places
<1> QED
  BY <1>1, <1>2 DEF Step, Moves, Others, SameCopy, WorkerState

LEMMA IdleReleases ==
    ASSUME TypeOK, NEW w \in Workers, worker' = [worker EXCEPT ![w] = Idle]
    PROVE  Releases(w) /\ worker'[w] = Idle
<1>1. worker \in [Workers -> WorkerState]
  BY DEF TypeOK
<1> QED
  BY <1>1, IdleFields DEF Releases, Others

\* Setting the state, and the attempts, of a job.
LEMMA JobSet ==
    ASSUME TypeOK, NEW j \in Jobs, NEW st \in JobState, NEW a \in 0 .. MaxAttempts,
           \/ job' = [job EXCEPT ![j].state = st] /\ a = job[j].attempts
           \/ job' = [job EXCEPT ![j] = [state |-> st, attempts |-> a]]
    PROVE  JobBecomes(j, st, a)
<1>1. job \in [Jobs -> [state : JobState, attempts : 0 .. MaxAttempts]]
  BY DEF TypeOK
<1> QED
  BY <1>1 DEF JobBecomes

\* Completing, failing or deferring a job counts from the holder of its lease.
LEMMA SettleEffect ==
    ASSUME TypeOK, NEW w \in Workers, worker[w].job \in Jobs, NEW st \in JobState, NEW a,
           worker[w].holds => a \in 0 .. MaxAttempts, Settle(w, st, a)
    PROVE  /\ Releases(w) /\ worker'[w] = Idle
           /\ worker[w].holds => JobBecomes(worker[w].job, st, a)
           /\ ~worker[w].holds => job' = job
<1>1. Releases(w) /\ worker'[w] = Idle
  BY IdleReleases DEF Settle
<1>2. CASE worker[w].holds
  BY <1>1, <1>2, JobSet DEF Settle
<1>3. CASE ~worker[w].holds
  BY <1>1, <1>3 DEF Settle
<1> QED
  BY <1>2, <1>3

\* requestAuthorizationRevocation: a live saga is in revocation afterwards, and
\* nothing else changes; one that is not live is left alone.
LEMMA UnbindEffect ==
    ASSUME TypeOK, NEW n \in Bindings, Unbind(n)
    PROVE  /\ saga' \in [Bindings -> SagaState]
           /\ pairing' \in [Bindings -> {"authorizing", "connected", "error"}]
           /\ connection' \in ConnectionState
           /\ \A m \in Bindings \ {n} : saga'[m] = saga[m]
           /\ saga[n] \notin Live => UNCHANGED <<saga, connection>>
           /\ saga[n] \in Live => saga'[n] = "revoke_pending" /\ connection'.holder = 0
<1>1. /\ saga \in [Bindings -> SagaState] /\ connection \in ConnectionState
      /\ pairing \in [Bindings -> {"authorizing", "connected", "error"}]
  BY DEF TypeOK
<1>2. CASE saga[n] \in Live
  <2>1. /\ saga' = [saga EXCEPT ![n] = "revoke_pending"]
        /\ pairing' = [pairing EXCEPT ![n] = "error"]
        /\ connection' = [connection EXCEPT !.status = "error", !.holder = 0,
                                            !.confirmed = FALSE, !.bound = 0]
    BY <1>2 DEF Unbind, Live
  <2>2. connection' \in ConnectionState /\ connection'.holder = 0
    <3>1. connection \in ConnectionState /\ 0 \in 0 .. MaxBindings /\ 0 \in 0 .. MaxStamp
      BY <1>1, BindingFacts
    <3>2. DOMAIN connection = {"status", "holder", "confirmed", "bound", "synced"}
          /\ connection.synced \in 0 .. MaxStamp
      BY <3>1 DEF ConnectionState
    <3>3. connection' = [status |-> "error", holder |-> 0, confirmed |-> FALSE, bound |-> 0,
                         synced |-> connection.synced]
      BY <2>1, <3>1, <3>2 DEF ConnectionState
    <3> QED
      BY <3>1, <3>2, <3>3 DEF ConnectionState
  <2> QED
    BY <1>1, <1>2, <2>1, <2>2 DEF SagaState
<1>3. CASE saga[n] \notin Live
  BY <1>1, <1>3 DEF Unbind, Live
<1> QED
  BY <1>2, <1>3

\* The steps of a worker that leave everything but its place as it is.
Quiet(w) ==
    \/ RequireReady(w) \/ ReadNothing(w) \/ FetchTimesOut(w) \/ SnapshotInvalid(w)
    \/ PersistRefused(w) \/ DispatchFails(w)

LEMMA QuietEffect ==
    ASSUME TypeOK, NEW w \in Workers, Quiet(w)
    PROVE  /\ Busy(w) /\ worker[w].pc # "completing"
           /\ Moves(w, {"reading", "failed", "hopeless"}) /\ failures' \in 0 .. MaxFailures
           /\ UNCHANGED <<binding, saga, pairing, connection, asked, job, receipts, now>>
<1>1. Step(w, "reading") \/ Step(w, "failed") \/ Step(w, "hopeless")
  BY DEF Quiet, RequireReady, ReadNothing, FetchTimesOut, SnapshotInvalid, PersistRefused,
         DispatchFails, Hopeless
<1>2. Moves(w, {"reading"}) \/ Moves(w, {"failed"}) \/ Moves(w, {"hopeless"})
  BY <1>1, StepMoves DEF Places
<1>3. Moves(w, {"reading", "failed", "hopeless"})
  BY <1>2 DEF Moves
<1>4. failures' \in 0 .. MaxFailures
  BY BindingFacts DEF Quiet, RequireReady, ReadNothing, FetchTimesOut, SnapshotInvalid,
     FetchFails, PersistRefused, DispatchFails, Fail, TypeOK
<1>5. /\ Busy(w) /\ worker[w].pc # "completing"
      /\ UNCHANGED <<binding, saga, pairing, connection, asked, job, receipts, now>>
  BY DEF Quiet, RequireReady, ReadNothing, FetchTimesOut, SnapshotInvalid, FetchFails,
         PersistRefused, DispatchFails, Busy
<1> QED
  BY <1>3, <1>4, <1>5

LEMMA ReadCredentialEffect ==
    ASSUME TypeOK, NEW w \in Workers, ReadCredential(w)
    PROVE  /\ worker[w].pc = "reading" /\ Moves(w, {"fetching"})
           /\ connection.holder # 0 /\ worker'[w].of = connection.holder
           /\ UNCHANGED <<binding, saga, pairing, connection, asked, job, receipts, now, failures>>
<1>1. worker \in [Workers -> WorkerState] /\ connection.holder \in 0 .. MaxBindings
  BY DEF TypeOK, ConnectionState
<1>2. worker' = [worker EXCEPT ![w].pc = "fetching", ![w].of = connection.holder]
  BY DEF ReadCredential
<1>3. worker'[w] = [pc |-> "fetching", job |-> worker[w].job, attempts |-> worker[w].attempts,
                    holds |-> worker[w].holds, of |-> connection.holder,
                    taken |-> worker[w].taken]
  BY <1>1, <1>2 DEF WorkerState
<1>4. /\ worker'[w] \in WorkerState /\ worker'[w].job = worker[w].job
      /\ worker'[w].attempts = worker[w].attempts /\ worker'[w].holds = worker[w].holds
      /\ worker'[w].pc = "fetching" /\ worker'[w].of = connection.holder
  BY <1>1, <1>3, WorkerFields DEF WorkerState
<1> QED
  BY <1>1, <1>2, <1>4 DEF ReadCredential, Moves, Others

LEMMA EndFetchEffect ==
    ASSUME TypeOK, NEW w \in Workers, EndFetch(w)
    PROVE  /\ worker[w].pc = "fetching" /\ now' \in 1 .. MaxStamp
           /\ Moves(w, {"persist"})
           /\ worker'[w].of = worker[w].of /\ worker'[w].taken \in 1 .. MaxStamp
           /\ UNCHANGED <<binding, saga, pairing, connection, asked, job, receipts, failures>>
<1>1. worker \in [Workers -> WorkerState] /\ now + 1 \in 1 .. MaxStamp /\ now + 1 \in 0 .. MaxStamp
  BY BindingFacts DEF TypeOK, EndFetch
<1>2. worker' = [worker EXCEPT ![w].pc = "persist", ![w].taken = now + 1]
  BY DEF EndFetch
<1>3. worker'[w] = [pc |-> "persist", job |-> worker[w].job, attempts |-> worker[w].attempts,
                    holds |-> worker[w].holds, of |-> worker[w].of, taken |-> now + 1]
  BY <1>1, <1>2 DEF WorkerState
<1>4. /\ worker'[w] \in WorkerState /\ worker'[w].job = worker[w].job
      /\ worker'[w].attempts = worker[w].attempts /\ worker'[w].holds = worker[w].holds
      /\ worker'[w].pc = "persist"
      /\ worker'[w].of = worker[w].of /\ worker'[w].taken = now + 1
  BY <1>1, <1>3, WorkerFields DEF WorkerState
<1> QED
  BY <1>1, <1>2, <1>4 DEF EndFetch, Moves, Others

LEMMA PersistEffect ==
    ASSUME TypeOK, NEW w \in Workers, Persist(w)
    PROVE  /\ worker[w].pc = "persist" /\ Moves(w, {"dispatch"})
           /\ Bound(worker[w].job) /\ Prior(w) = {}
           /\ connection' \in ConnectionState /\ connection'.holder = connection.holder
           /\ pairing' \in [Bindings -> {"authorizing", "connected", "error"}]
           /\ receipts' = receipts \cup {[job |-> worker[w].job, taken |-> worker[w].taken,
                                          of |-> worker[w].of]}
           /\ UNCHANGED <<binding, saga, job, now, asked, failures>>
<1>1. Moves(w, {"dispatch"})
  BY StepMoves DEF Persist, Places
<1>2. worker[w].taken \in 0 .. MaxStamp /\ connection \in ConnectionState
  BY WorkerFields DEF TypeOK
<1>3. connection' = [connection EXCEPT !.status = "connected", !.synced = worker[w].taken]
  BY DEF Persist
<1>4. connection' \in ConnectionState /\ connection'.holder = connection.holder
  BY <1>2, <1>3 DEF ConnectionState
<1>5. pairing' \in [Bindings -> {"authorizing", "connected", "error"}]
  BY DEF Persist, TypeOK
<1> QED
  BY <1>1, <1>4, <1>5 DEF Persist

LEMMA DispatchEffect ==
    ASSUME TypeOK, NEW w \in Workers, Dispatch(w) \/ DispatchLast(w)
    PROVE  /\ worker[w].pc = "dispatch" /\ Moves(w, {"completing"})
           /\ \/ UNCHANGED job
              \/ \E k \in 1 .. MaxRefreshes :
                    job[Scheduled(k)].state \in {"absent", "queued"}
                    /\ JobBecomes(Scheduled(k), "queued", job[Scheduled(k)].attempts)
           /\ UNCHANGED <<binding, saga, pairing, connection, asked, receipts, now, failures>>
<1>1. Moves(w, {"completing"})
  BY StepMoves DEF Dispatch, DispatchLast, Places
<1>2. CASE Dispatch(w)
  <2>1. PICK k \in 1 .. MaxRefreshes :
            job[Scheduled(k)].state \in {"absent", "queued"} /\ job' = Queue(Scheduled(k))
    BY <1>2 DEF Dispatch, NextBuckets
  <2>2. Scheduled(k) \in Jobs /\ job[Scheduled(k)].attempts \in 0 .. MaxAttempts
    BY JobFacts DEF TypeOK
  <2>3. JobBecomes(Scheduled(k), "queued", job[Scheduled(k)].attempts)
    BY <2>1, <2>2, JobSet DEF Queue, JobState
  <2> QED
    BY <1>1, <1>2, <2>1, <2>3 DEF Dispatch
<1>3. CASE DispatchLast(w)
  BY <1>1, <1>3 DEF DispatchLast
<1> QED
  BY <1>2, <1>3

LEMMA RevokeInitialEffect ==
    ASSUME TypeOK, NEW w \in Workers, worker[w].job \in Jobs, RevokeInitial(w)
    PROVE  /\ worker[w].job[1] = "initial" /\ worker[w].pc \in {"failed", "hopeless"}
           /\ worker[w].job[2] \in Bindings /\ Unbind(worker[w].job[2])
           /\ Moves(w, {"completing"})
           /\ UNCHANGED <<binding, job, receipts, now, asked, failures>>
<1>1. Moves(w, {"completing"})
  BY StepMoves DEF RevokeInitial, Places
<1> QED
  BY <1>1, JobFacts DEF RevokeInitial, GivesUpInitial, IsInitial

LEMMA TakeEffect ==
    ASSUME TypeOK, NEW w \in Workers, NEW j \in Jobs, Take(w, j)
    PROVE  /\ worker[w].pc = "idle" /\ job[j].state = "queued"
           /\ worker' \in [Workers -> WorkerState] /\ Others(w)
           /\ worker'[w].pc = "ready" /\ worker'[w].job = j /\ worker'[w].holds
           /\ worker'[w].attempts = job[j].attempts
           /\ JobBecomes(j, "leased", job[j].attempts)
           /\ UNCHANGED <<binding, saga, pairing, connection, asked, receipts, now, failures>>
<1>1. worker \in [Workers -> WorkerState] /\ job[j].attempts \in 0 .. MaxAttempts
  BY DEF TypeOK
<1> DEFINE x == [pc |-> "ready", job |-> j, attempts |-> job[j].attempts, holds |-> TRUE,
                 of |-> 0, taken |-> 0]
<1>2. worker' = [worker EXCEPT ![w] = x]
  BY DEF Take
<1>3. x.pc = "ready" /\ x.job = j /\ x.attempts = job[j].attempts /\ x.holds
  OBVIOUS
<1>4. x \in WorkerState
  <2>1. 0 \in 0 .. MaxBindings /\ 0 \in 0 .. MaxStamp /\ TRUE \in BOOLEAN
    BY BindingFacts
  <2>2. j \in Jobs \cup {NoJob} /\ job[j].attempts \in 0 .. MaxAttempts
    BY <1>1
  <2> QED
    BY <2>1, <2>2 DEF WorkerState
<1>5. JobBecomes(j, "leased", job[j].attempts)
  BY <1>1, JobSet DEF Take, JobState
<1> HIDE DEF x
<1> QED
  BY <1>1, <1>2, <1>3, <1>4, <1>5 DEF Take, Others

\* A worker whose lease runs out goes on without it.
LEMMA LapseEffect ==
    ASSUME TypeOK, NEW w \in Workers, worker[w].job \in Jobs, Lapse(w)
    PROVE  /\ worker[w].holds /\ Releases(w) /\ failures' \in 0 .. MaxFailures
           /\ JobBecomes(worker[w].job, "queued", job[worker[w].job].attempts)
           /\ UNCHANGED <<binding, saga, pairing, connection, asked, receipts, now>>
<1>1. worker \in [Workers -> WorkerState] /\ worker' = [worker EXCEPT ![w].holds = FALSE]
  BY DEF TypeOK, Lapse
<1>2. worker'[w] = [worker[w] EXCEPT !.holds = FALSE]
  BY <1>1
<1>3. /\ worker'[w] \in WorkerState /\ worker'[w].holds = FALSE
      /\ worker'[w].pc = worker[w].pc /\ SameCopy(w)
  BY <1>1, <1>2 DEF WorkerState, SameCopy
<1>4. Releases(w)
  BY <1>1, <1>3 DEF Releases, Others
<1>5. job[worker[w].job].attempts \in 0 .. MaxAttempts
  BY DEF TypeOK
<1>6. JobBecomes(worker[w].job, "queued", job[worker[w].job].attempts)
  BY <1>5, JobSet DEF Lapse, Queue, JobState
<1>7. failures' \in 0 .. MaxFailures
  BY BindingFacts DEF Lapse, Fail, TypeOK
<1> QED
  BY <1>4, <1>6, <1>7 DEF Lapse

-----------------------------------------------------------------------------
(* Each action keeps the invariant.                                         *)

\* A busy worker's job.
LEMMA BusyJob ==
    ASSUME IInv, NEW w \in Workers, Busy(w)
    PROVE  /\ worker[w].job \in Jobs
           /\ job[worker[w].job].attempts \in 0 .. MaxAttempts
           /\ worker[w].job[1] = "initial" =>
                /\ worker[w].job[2] \in Bindings
                /\ saga[worker[w].job[2]] \in {"confirmed"} \cup InRevocation
           /\ worker[w].holds =>
                /\ job[worker[w].job].state = "leased"
                /\ job[worker[w].job].attempts < MaxAttempts
                /\ worker[w].attempts = job[worker[w].job].attempts
<1>1. TypeOK /\ LeasesHeld
  BY DEF IInv
<1>2. worker[w].job \in Jobs /\ job[worker[w].job].state # "absent"
  BY <1>1 DEF LeasesHeld
<1>3. ASSUME worker[w].job[1] = "initial"
      PROVE  worker[w].job[2] \in Bindings
             /\ saga[worker[w].job[2]] \in {"confirmed"} \cup InRevocation
  <2>1. worker[w].job[2] \in Bindings /\ worker[w].job = Initial(worker[w].job[2])
    BY <1>2, <1>3, JobFacts
  <2>2. saga[worker[w].job[2]] \notin {"none", "confirm_pending"}
    BY <1>1, <1>2, <2>1 DEF LeasesHeld
  <2> QED
    BY <1>1, <2>1, <2>2 DEF TypeOK, SagaState, InRevocation
<1> QED
  BY <1>1, <1>2, <1>3 DEF LeasesHeld, TypeOK

\* What does not touch the variables of a part keeps the part.
LEMMA ConnectionFrame ==
    ASSUME ConnectionFollowsSaga, UNCHANGED <<binding, saga>>, connection'.holder = connection.holder
    PROVE  ConnectionFollowsSaga'
  BY DEF ConnectionFollowsSaga

LEMMA OnceFrame ==
    ASSUME OneSnapshotPerJob, PairingVerifiedByItself, UNCHANGED receipts
    PROVE  OneSnapshotPerJob' /\ PairingVerifiedByItself'
  BY DEF OneSnapshotPerJob, PairingVerifiedByItself

LEMMA OutcomeFrame ==
    ASSUME HydratedOrRevoked, UNCHANGED <<job, receipts, saga>>
    PROVE  HydratedOrRevoked'
  BY DEF HydratedOrRevoked

\* A worker that moves on keeps the leases, of its job too.
LEMMA LeasesFrame ==
    ASSUME LeasesHeld, NEW w \in Workers, NEW pcs, "idle" \notin pcs, Moves(w, pcs), Busy(w),
           UNCHANGED <<job, saga>>
    PROVE  LeasesHeld'
<1>1. \A v \in Workers :
        /\ worker'[v].job = worker[v].job /\ worker'[v].attempts = worker[v].attempts
        /\ worker'[v].holds = worker[v].holds /\ (Busy(v)' <=> Busy(v))
  BY DEF Moves, Others, Busy
<1> QED
  BY <1>1 DEF LeasesHeld

LEMMA QuietStep == ASSUME IInv, NEW w \in Workers, Quiet(w) PROVE IInv'
<1> USE DEF IInv
<1>1. /\ Busy(w) /\ Moves(w, {"reading", "failed", "hopeless"}) /\ failures' \in 0 .. MaxFailures
      /\ UNCHANGED <<binding, saga, pairing, connection, asked, job, receipts, now>>
  BY QuietEffect
<1>2. TypeOK'
  BY <1>1 DEF TypeOK, Moves
<1>3. ConnectionFollowsSaga'
  BY <1>1, ConnectionFrame
<1>4. LeasesHeld'
  BY <1>1, LeasesFrame
<1>5. FetchedForBinding'
  BY <1>1 DEF FetchedForBinding, Moves, Others
<1>6. PastIsSettled'
  BY <1>1 DEF PastIsSettled, Settled, Moves, Others
<1>7. HydratedOrRevoked'
  BY <1>1, OutcomeFrame
<1>8. OneSnapshotPerJob' /\ PairingVerifiedByItself'
  BY <1>1, OnceFrame
<1> QED
  BY <1>2, <1>3, <1>4, <1>5, <1>6, <1>7, <1>8

LEMMA ReadCredentialStep == ASSUME IInv, NEW w \in Workers, ReadCredential(w) PROVE IInv'
<1> USE DEF IInv
<1>1. /\ worker[w].pc = "reading" /\ Moves(w, {"fetching"})
      /\ connection.holder # 0 /\ worker'[w].of = connection.holder
      /\ UNCHANGED <<binding, saga, pairing, connection, asked, job, receipts, now, failures>>
  BY ReadCredentialEffect
<1>2. TypeOK'
  BY <1>1 DEF TypeOK, Moves
<1>3. ConnectionFollowsSaga'
  BY <1>1, ConnectionFrame
<1>4. LeasesHeld'
  BY <1>1, LeasesFrame DEF Busy
<1>5. FetchedForBinding'
  <2>1. /\ \A v \in Workers \ {w} : worker'[v] = worker[v]
        /\ worker'[w].pc = "fetching" /\ worker'[w].job = worker[w].job
    BY <1>1 DEF Moves, Others
  <2>2. connection.holder = binding /\ binding \in Bindings
    BY <1>1, BindingFacts DEF ConnectionFollowsSaga, TypeOK
  <2>3. worker[w].job[1] = "initial" =>
           worker[w].job[2] = binding \/ saga[worker[w].job[2]] \in InRevocation
    BY <1>1, BusyJob DEF Busy, ConnectionFollowsSaga, Live
  <2> QED
    BY <1>1, <2>1, <2>2, <2>3 DEF FetchedForBinding
<1>6. PastIsSettled'
  BY <1>1 DEF PastIsSettled, Settled, Moves, Others
<1>7. HydratedOrRevoked'
  BY <1>1, OutcomeFrame
<1>8. OneSnapshotPerJob' /\ PairingVerifiedByItself'
  BY <1>1, OnceFrame
<1> QED
  BY <1>2, <1>3, <1>4, <1>5, <1>6, <1>7, <1>8

LEMMA EndFetchStep == ASSUME IInv, NEW w \in Workers, EndFetch(w) PROVE IInv'
<1> USE DEF IInv
<1>1. /\ worker[w].pc = "fetching" /\ now' \in 1 .. MaxStamp
      /\ Moves(w, {"persist"})
      /\ worker'[w].of = worker[w].of /\ worker'[w].taken \in 1 .. MaxStamp
      /\ UNCHANGED <<binding, saga, pairing, connection, asked, job, receipts, failures>>
  BY EndFetchEffect
<1>2. TypeOK'
  BY <1>1 DEF TypeOK, Moves
<1>3. ConnectionFollowsSaga'
  BY <1>1, ConnectionFrame
<1>4. LeasesHeld'
  BY <1>1, LeasesFrame DEF Busy
<1>5. FetchedForBinding'
  BY <1>1 DEF FetchedForBinding, Moves, Others
<1>6. PastIsSettled'
  BY <1>1 DEF PastIsSettled, Settled, Moves, Others
<1>7. HydratedOrRevoked'
  BY <1>1, OutcomeFrame
<1>8. OneSnapshotPerJob' /\ PairingVerifiedByItself'
  BY <1>1, OnceFrame
<1> QED
  BY <1>2, <1>3, <1>4, <1>5, <1>6, <1>7, <1>8

LEMMA PersistStep == ASSUME IInv, NEW w \in Workers, Persist(w) PROVE IInv'
<1> USE DEF IInv
<1> DEFINE r == [job |-> worker[w].job, taken |-> worker[w].taken, of |-> worker[w].of]
<1>1. /\ worker[w].pc = "persist" /\ Moves(w, {"dispatch"})
      /\ Bound(worker[w].job) /\ Prior(w) = {}
      /\ connection' \in ConnectionState /\ connection'.holder = connection.holder
      /\ pairing' \in [Bindings -> {"authorizing", "connected", "error"}]
      /\ receipts' = receipts \cup {r}
      /\ UNCHANGED <<binding, saga, job, now, asked, failures>>
  BY PersistEffect
<1>2. worker[w].job \in Jobs /\ worker[w].taken \in 1 .. MaxStamp /\ worker[w].of \in Bindings
  BY <1>1, BusyJob DEF Busy, FetchedForBinding
<1>3. /\ r \in [job : Jobs, taken : 1 .. MaxStamp, of : Bindings]
      /\ r.job = worker[w].job /\ r.taken = worker[w].taken /\ r.of = worker[w].of
  BY <1>2
<1> HIDE DEF r
<1>4. TypeOK'
  BY <1>1, <1>3 DEF TypeOK, Moves
<1>5. ConnectionFollowsSaga'
  BY <1>1, ConnectionFrame
<1>6. LeasesHeld'
  BY <1>1, LeasesFrame DEF Busy
<1>7. FetchedForBinding'
  BY <1>1 DEF FetchedForBinding, Moves, Others
<1>8. PastIsSettled'
  <2>1. worker[w].job[1] = "initial" => \E q \in receipts' : q.job = Initial(worker[w].job[2])
    BY <1>1, <1>2, <1>3, JobFacts
  <2>2. \A v \in Workers \ {w} : worker'[v] = worker[v]
    BY <1>1 DEF Moves, Others
  <2>3. worker'[w].job = worker[w].job /\ receipts \subseteq receipts' /\ saga' = saga
    BY <1>1 DEF Moves
  <2> QED
    BY <2>1, <2>2, <2>3 DEF PastIsSettled, Settled
<1>9. HydratedOrRevoked'
  BY <1>1 DEF HydratedOrRevoked
<1>10. OneSnapshotPerJob'
  BY <1>1, <1>3 DEF OneSnapshotPerJob, Prior
<1>11. PairingVerifiedByItself'
  <2>1. worker[w].job[1] = "initial" => worker[w].of = worker[w].job[2]
    BY <1>1 DEF Bound, FetchedForBinding, InRevocation
  <2> QED
    BY <1>1, <1>3, <2>1 DEF PairingVerifiedByItself
<1> QED
  BY <1>4, <1>5, <1>6, <1>7, <1>8, <1>9, <1>10, <1>11

LEMMA DispatchStep == ASSUME IInv, NEW w \in Workers, Dispatch(w) \/ DispatchLast(w) PROVE IInv'
<1> USE DEF IInv
<1>1. /\ worker[w].pc = "dispatch" /\ Moves(w, {"completing"})
      /\ \/ UNCHANGED job
         \/ \E k \in 1 .. MaxRefreshes :
               job[Scheduled(k)].state \in {"absent", "queued"}
               /\ JobBecomes(Scheduled(k), "queued", job[Scheduled(k)].attempts)
      /\ UNCHANGED <<binding, saga, pairing, connection, asked, receipts, now, failures>>
  BY DispatchEffect
<1>2. TypeOK'
  BY <1>1 DEF TypeOK, Moves, JobBecomes
<1>3. ConnectionFollowsSaga'
  BY <1>1, ConnectionFrame
<1>4. LeasesHeld'
  <2>1. CASE UNCHANGED job
    BY <1>1, <2>1, LeasesFrame DEF Busy
  <2>2. ASSUME NEW k \in 1 .. MaxRefreshes,
               job[Scheduled(k)].state \in {"absent", "queued"},
               JobBecomes(Scheduled(k), "queued", job[Scheduled(k)].attempts)
        PROVE  LeasesHeld'
    <3>1. \A v \in Workers :
            /\ worker'[v].job = worker[v].job /\ worker'[v].attempts = worker[v].attempts
            /\ worker'[v].holds = worker[v].holds /\ (Busy(v)' <=> Busy(v))
      BY <1>1 DEF Moves, Others, Busy
    <3>2. Scheduled(k) \in Jobs /\ \A n \in Bindings : Initial(n) \in Jobs \ {Scheduled(k)}
      BY JobFacts
    <3> DEFINE s == Scheduled(k)
    <3>3. /\ \A i \in Jobs \ {s} : job'[i] = job[i]
          /\ job'[s].state = "queued" /\ job'[s].attempts = job[s].attempts
          /\ s \in Jobs /\ \A n \in Bindings : Initial(n) \in Jobs \ {s}
          /\ job[s].state \in {"absent", "queued"}
      BY <2>2, <3>2 DEF JobBecomes
    <3> HIDE DEF s
    <3>4. \A v \in Workers : Busy(v)' => worker'[v].job \in Jobs /\ job'[worker'[v].job].state # "absent"
      BY <3>1, <3>3 DEF LeasesHeld
    <3>5. \A v \in Workers : worker'[v].holds =>
            /\ Busy(v)' /\ job'[worker'[v].job].state = "leased"
            /\ worker'[v].attempts = job'[worker'[v].job].attempts
      BY <3>1, <3>3 DEF LeasesHeld
    <3>6. \A u, v \in Workers :
            worker'[u].holds /\ worker'[v].holds /\ worker'[u].job = worker'[v].job => u = v
      BY <3>1 DEF LeasesHeld
    <3>7. \A j \in Jobs : job'[j].state \in {"absent", "queued", "leased"} => job'[j].attempts < MaxAttempts
      BY <3>3 DEF LeasesHeld
    <3>8. \A n \in Bindings :
            job'[Initial(n)].state # "absent" => saga'[n] \notin {"none", "confirm_pending"}
      BY <1>1, <3>3 DEF LeasesHeld
    <3> QED
      BY <3>4, <3>5, <3>6, <3>7, <3>8 DEF LeasesHeld
  <2> QED
    BY <1>1, <2>1, <2>2
<1>5. FetchedForBinding'
  BY <1>1 DEF FetchedForBinding, Moves, Others
<1>6. PastIsSettled'
  BY <1>1 DEF PastIsSettled, Settled, Moves, Others
<1>7. HydratedOrRevoked'
  BY <1>1, JobFacts DEF HydratedOrRevoked, JobBecomes
<1>8. OneSnapshotPerJob' /\ PairingVerifiedByItself'
  BY <1>1, OnceFrame
<1> QED
  BY <1>2, <1>3, <1>4, <1>5, <1>6, <1>7, <1>8

\* A worker that lets go of its job, or of its lease alone, keeps the invariant if
\* what it leaves behind may be retried or is settled.
LEMMA ReleaseStep ==
    ASSUME IInv, NEW w \in Workers, Busy(w), Releases(w),
           NEW st \in {"queued", "completed", "dead"}, NEW a,
           worker[w].holds =>
             /\ JobBecomes(worker[w].job, st, a)
             /\ st = "queued" => a < MaxAttempts
             /\ st # "queued" /\ worker[w].job[1] = "initial" => Settled(worker[w].job[2]),
           ~worker[w].holds => job' = job,
           failures' \in 0 .. MaxFailures,
           UNCHANGED <<binding, saga, pairing, connection, asked, receipts, now>>
    PROVE  IInv'
<1> USE DEF IInv
<1>1. worker[w].job \in Jobs /\ worker[w].holds \in BOOLEAN
  BY BusyJob, WorkerFields DEF TypeOK
<1>2. TypeOK'
  BY DEF TypeOK, Releases, JobBecomes
<1>3. ConnectionFollowsSaga'
  BY ConnectionFrame
<1>4. /\ \A v \in Workers \ {w} : worker'[v] = worker[v]
      /\ worker'[w].holds = FALSE
      /\ Busy(w)' => worker'[w].pc = worker[w].pc /\ SameCopy(w)
  BY IdleFields DEF Releases, Others, Busy
<1>5. \A v \in Workers : worker'[v].holds => v # w /\ worker'[v] = worker[v]
  BY <1>4
<1>6. \A v \in Workers : Busy(v)' =>
        /\ worker'[v].pc = worker[v].pc /\ worker'[v].job = worker[v].job /\ Busy(v)
        /\ worker'[v].of = worker[v].of /\ worker'[v].taken = worker[v].taken
  BY <1>4 DEF Busy, SameCopy
<1>7. \A j \in Jobs :
        \/ job'[j] = job[j]
        \/ /\ worker[w].holds /\ j = worker[w].job /\ job[j].state = "leased"
           /\ job'[j].state = st /\ job'[j].attempts = a
           /\ st = "queued" => a < MaxAttempts
           /\ st # "queued" /\ j[1] = "initial" => Settled(j[2])
  BY <1>1 DEF JobBecomes, LeasesHeld
<1>8. LeasesHeld'
  <2>1. \A v \in Workers : Busy(v)' => worker'[v].job \in Jobs /\ job'[worker'[v].job].state # "absent"
    BY <1>6, <1>7 DEF LeasesHeld
  <2>2. ASSUME NEW v \in Workers, worker'[v].holds
        PROVE  /\ Busy(v)' /\ job'[worker'[v].job].state = "leased"
               /\ worker'[v].attempts = job'[worker'[v].job].attempts
    <3>1. v # w /\ worker'[v] = worker[v] /\ worker[v].holds
      BY <1>5, <2>2
    <3>2. Busy(v) /\ worker[v].job \in Jobs
      BY <3>1 DEF LeasesHeld
    <3>3. job'[worker[v].job] = job[worker[v].job]
      BY <1>7, <3>1, <3>2 DEF LeasesHeld
    <3> QED
      BY <3>1, <3>2, <3>3 DEF LeasesHeld, Busy
  <2>3. \A u, v \in Workers :
          worker'[u].holds /\ worker'[v].holds /\ worker'[u].job = worker'[v].job => u = v
    BY <1>5 DEF LeasesHeld
  <2>4. \A j \in Jobs : job'[j].state \in {"absent", "queued", "leased"} => job'[j].attempts < MaxAttempts
    BY <1>7 DEF LeasesHeld
  <2>5. \A n \in Bindings :
          job'[Initial(n)].state # "absent" => saga'[n] \notin {"none", "confirm_pending"}
    BY <1>7, JobFacts DEF LeasesHeld
  <2> QED
    BY <2>1, <2>2, <2>3, <2>4, <2>5 DEF LeasesHeld
<1>9. FetchedForBinding'
  BY <1>6 DEF FetchedForBinding, Busy
<1>10. PastIsSettled'
  BY <1>6 DEF PastIsSettled, Settled, Busy
<1>11. HydratedOrRevoked'
  BY <1>7, JobFacts DEF HydratedOrRevoked, Settled, InRevocation
<1>12. OneSnapshotPerJob' /\ PairingVerifiedByItself'
  BY OnceFrame
<1> QED
  BY <1>2, <1>3, <1>8, <1>9, <1>10, <1>11, <1>12

LEMMA DeferInitialStep == ASSUME IInv, NEW w \in Workers, DeferInitial(w) PROVE IInv'
<1>1. Busy(w) /\ TypeOK
  BY DEF DeferInitial, GivesUpInitial, Busy, IInv
<1>2. /\ worker[w].job \in Jobs /\ job[worker[w].job].attempts \in 0 .. MaxAttempts
      /\ worker[w].holds => job[worker[w].job].attempts < MaxAttempts
  BY <1>1, BusyJob
<1> DEFINE a == job[worker[w].job].attempts
<1>3. /\ Releases(w) /\ worker[w].holds => JobBecomes(worker[w].job, "queued", a)
      /\ Releases(w) /\ (~worker[w].holds => job' = job)
  BY <1>1, <1>2, SettleEffect DEF DeferInitial, JobState
<1>4. /\ failures' \in 0 .. MaxFailures
      /\ UNCHANGED <<binding, saga, pairing, connection, asked, receipts, now>>
  BY <1>1, BindingFacts DEF DeferInitial, Fail, TypeOK
<1> HIDE DEF a
<1> QED
  BY <1>1, <1>2, <1>3, <1>4, ReleaseStep DEF a

LEMMA CompleteStep == ASSUME IInv, NEW w \in Workers, Complete(w) PROVE IInv'
<1>1. Busy(w) /\ TypeOK /\ PastIsSettled /\ worker[w].pc = "completing"
  BY DEF Complete, Busy, IInv
<1>2. worker[w].job \in Jobs /\ job[worker[w].job].attempts \in 0 .. MaxAttempts
  BY <1>1, BusyJob
<1> DEFINE a == job[worker[w].job].attempts
<1>3. /\ Releases(w)
      /\ worker[w].holds => JobBecomes(worker[w].job, "completed", a)
      /\ ~worker[w].holds => job' = job
  BY <1>1, <1>2, SettleEffect DEF Complete, JobState
<1>4. worker[w].job[1] = "initial" => Settled(worker[w].job[2])
  BY <1>1 DEF PastIsSettled
<1>5. /\ failures' \in 0 .. MaxFailures
      /\ UNCHANGED <<binding, saga, pairing, connection, asked, receipts, now>>
  BY <1>1 DEF Complete, TypeOK
<1> HIDE DEF a
<1> QED
  BY <1>1, <1>3, <1>4, <1>5, ReleaseStep

\* An initial job is not retried after its last attempt, so never dead-letters.
LEMMA RetryStep == ASSUME IInv, NEW w \in Workers, Retry(w) PROVE IInv'
<1>1. Busy(w) /\ TypeOK /\ worker[w].pc = "failed" /\ ~GivesUpInitial(w)
  BY DEF Retry, Busy, IInv
<1>2. /\ worker[w].job \in Jobs /\ job[worker[w].job].attempts \in 0 .. MaxAttempts
      /\ worker[w].holds =>
           /\ job[worker[w].job].attempts < MaxAttempts
           /\ worker[w].attempts = job[worker[w].job].attempts
  BY <1>1, BusyJob
<1> DEFINE used == job[worker[w].job].attempts
           st == IF LastAttempt(used) THEN "dead" ELSE "queued"
<1>3. Settle(w, st, used + 1)
  BY DEF Retry
<1>4. /\ st \in {"queued", "completed", "dead"} /\ st \in JobState
      /\ worker[w].holds => used + 1 \in 0 .. MaxAttempts
      /\ worker[w].holds /\ st = "queued" => used + 1 < MaxAttempts
  BY <1>2, BindingFacts DEF JobState, LastAttempt
<1>5. worker[w].holds /\ worker[w].job[1] = "initial" => st = "queued"
  BY <1>1, <1>2 DEF GivesUpInitial, IsInitial
<1>6. /\ failures' \in 0 .. MaxFailures
      /\ UNCHANGED <<binding, saga, pairing, connection, asked, receipts, now>>
  BY <1>1 DEF Retry, TypeOK
<1> HIDE DEF used, st
<1>7. /\ Releases(w)
      /\ worker[w].holds => JobBecomes(worker[w].job, st, used + 1)
      /\ ~worker[w].holds => job' = job
  BY <1>1, <1>2, <1>3, <1>4, SettleEffect
<1> QED
  BY <1>1, <1>4, <1>5, <1>6, <1>7, ReleaseStep

LEMMA LapseStep == ASSUME IInv, NEW w \in Workers, Lapse(w) PROVE IInv'
<1>1. Busy(w) /\ TypeOK
  BY DEF Lapse, IInv, LeasesHeld
<1>2. worker[w].job \in Jobs /\ (worker[w].holds => job[worker[w].job].attempts < MaxAttempts)
  BY <1>1, BusyJob
<1>3. /\ worker[w].holds /\ Releases(w) /\ failures' \in 0 .. MaxFailures
      /\ JobBecomes(worker[w].job, "queued", job[worker[w].job].attempts)
      /\ UNCHANGED <<binding, saga, pairing, connection, asked, receipts, now>>
  BY <1>1, <1>2, LapseEffect
<1> QED
  BY <1>1, <1>2, <1>3, ReleaseStep

LEMMA CrashEffect ==
    ASSUME IInv, NEW w \in Workers, Crash(w)
    PROVE  /\ Busy(w) /\ Releases(w) /\ worker'[w] = Idle /\ failures' \in 0 .. MaxFailures
           /\ worker[w].holds => JobBecomes(worker[w].job, "queued", job[worker[w].job].attempts)
           /\ ~worker[w].holds => job' = job
           /\ UNCHANGED <<binding, saga, pairing, connection, asked, receipts, now>>
<1>1. Busy(w) /\ TypeOK
  BY DEF Crash, Busy, IInv
<1>2. worker[w].job \in Jobs /\ job[worker[w].job].attempts \in 0 .. MaxAttempts
  BY <1>1, BusyJob
<1>3. Releases(w) /\ worker'[w] = Idle
  BY <1>1, IdleReleases DEF Crash
<1>4. worker[w].holds => JobBecomes(worker[w].job, "queued", job[worker[w].job].attempts)
  BY <1>1, <1>2, JobSet DEF Crash, Queue, JobState
<1>5. failures' \in 0 .. MaxFailures
  BY <1>1, BindingFacts DEF Crash, Fail, TypeOK
<1> QED
  BY <1>1, <1>3, <1>4, <1>5 DEF Crash

LEMMA CrashStep == ASSUME IInv, NEW w \in Workers, Crash(w) PROVE IInv'
<1>1. /\ Busy(w) /\ Releases(w) /\ failures' \in 0 .. MaxFailures
      /\ worker[w].holds => JobBecomes(worker[w].job, "queued", job[worker[w].job].attempts)
      /\ ~worker[w].holds => job' = job
      /\ UNCHANGED <<binding, saga, pairing, connection, asked, receipts, now>>
  BY CrashEffect
<1>2. worker[w].holds => job[worker[w].job].attempts < MaxAttempts
  BY <1>1, BusyJob
<1> QED
  BY <1>1, <1>2, ReleaseStep

LEMMA TakeStep == ASSUME IInv, NEW w \in Workers, NEW j \in Jobs, Take(w, j) PROVE IInv'
<1> USE DEF IInv
<1>1. /\ worker[w].pc = "idle" /\ job[j].state = "queued"
      /\ worker' \in [Workers -> WorkerState] /\ Others(w)
      /\ worker'[w].pc = "ready" /\ worker'[w].job = j /\ worker'[w].holds
      /\ worker'[w].attempts = job[j].attempts
      /\ JobBecomes(j, "leased", job[j].attempts)
      /\ UNCHANGED <<binding, saga, pairing, connection, asked, receipts, now, failures>>
  BY TakeEffect
<1>2. TypeOK'
  BY <1>1 DEF TypeOK, JobBecomes
<1>3. ConnectionFollowsSaga'
  BY <1>1, ConnectionFrame
<1>4. LeasesHeld'
  <2>1. \A v \in Workers \ {w} : worker'[v] = worker[v] /\ (worker[v].holds => worker[v].job # j)
    BY <1>1 DEF Others, LeasesHeld
  <2>2. \A v \in Workers : Busy(v)' => worker'[v].job \in Jobs /\ job'[worker'[v].job].state # "absent"
    BY <1>1, <2>1 DEF LeasesHeld, Busy, JobBecomes
  <2>3. \A v \in Workers : worker'[v].holds =>
          /\ Busy(v)' /\ job'[worker'[v].job].state = "leased"
          /\ worker'[v].attempts = job'[worker'[v].job].attempts
    BY <1>1, <2>1 DEF LeasesHeld, Busy, JobBecomes
  <2>4. \A u, v \in Workers :
          worker'[u].holds /\ worker'[v].holds /\ worker'[u].job = worker'[v].job => u = v
    BY <1>1, <2>1 DEF LeasesHeld
  <2>5. \A i \in Jobs : job'[i].state \in {"absent", "queued", "leased"} => job'[i].attempts < MaxAttempts
    BY <1>1 DEF LeasesHeld, JobBecomes
  <2>6. \A n \in Bindings :
          job'[Initial(n)].state # "absent" => saga'[n] \notin {"none", "confirm_pending"}
    BY <1>1, JobFacts DEF LeasesHeld, JobBecomes
  <2> QED
    BY <2>2, <2>3, <2>4, <2>5, <2>6 DEF LeasesHeld
<1>5. FetchedForBinding'
  BY <1>1 DEF FetchedForBinding, Others
<1>6. PastIsSettled'
  BY <1>1 DEF PastIsSettled, Settled, Others
<1>7. HydratedOrRevoked'
  BY <1>1, JobFacts DEF HydratedOrRevoked, JobBecomes
<1>8. OneSnapshotPerJob' /\ PairingVerifiedByItself'
  BY <1>1, OnceFrame
<1> QED
  BY <1>2, <1>3, <1>4, <1>5, <1>6, <1>7, <1>8

\* A revocation keeps the connection with its saga, takes no saga back, and
\* confirms none.
LEMMA UnbindKeeps ==
    ASSUME TypeOK, ConnectionFollowsSaga, NEW n \in Bindings, Unbind(n), UNCHANGED binding
    PROVE  /\ ConnectionFollowsSaga'
           /\ saga' \in [Bindings -> SagaState] /\ connection' \in ConnectionState
           /\ pairing' \in [Bindings -> {"authorizing", "connected", "error"}]
           /\ \A m \in Bindings :
                 /\ saga[m] \in InRevocation => saga'[m] \in InRevocation
                 /\ saga'[m] \in {"none", "confirm_pending"} => saga[m] = saga'[m]
           /\ saga[n] # "none" => saga'[n] \in InRevocation
<1>1. /\ saga' \in [Bindings -> SagaState] /\ connection' \in ConnectionState
      /\ pairing' \in [Bindings -> {"authorizing", "connected", "error"}]
      /\ \A m \in Bindings \ {n} : saga'[m] = saga[m]
      /\ saga[n] \notin Live => UNCHANGED <<saga, connection>>
      /\ saga[n] \in Live => saga'[n] = "revoke_pending" /\ connection'.holder = 0
  BY UnbindEffect
<1>2. binding \in Nat /\ saga[n] \in SagaState
  BY BindingFacts DEF TypeOK
<1>3. CASE saga[n] \in Live
  <2>1. n = binding /\ n > 0 /\ saga'[n] = "revoke_pending"
    BY <1>1, <1>3, BindingFacts DEF ConnectionFollowsSaga
  <2>2. /\ \A m \in Bindings : saga'[m] = "none" <=> m > binding
        /\ \A m \in Bindings : saga'[m] \in Live => m = binding
    BY <1>1, <1>3, <2>1 DEF ConnectionFollowsSaga, Live
  <2>3. ConnectionFollowsSaga'
    BY <1>1, <1>2, <1>3, <2>1, <2>2 DEF ConnectionFollowsSaga
  <2> QED
    BY <1>1, <1>3, <2>1, <2>3 DEF Live, InRevocation
<1>4. CASE saga[n] \notin Live
  <2>1. ConnectionFollowsSaga'
    BY <1>1, <1>4, ConnectionFrame
  <2> QED
    BY <1>1, <1>2, <1>4, <2>1 DEF Live, SagaState, InRevocation
<1> QED
  BY <1>3, <1>4

LEMMA RevokeInitialStep == ASSUME IInv, NEW w \in Workers, RevokeInitial(w) PROVE IInv'
<1> USE DEF IInv
<1>1. Busy(w)
  BY DEF RevokeInitial, Busy, GivesUpInitial
<1>2. worker[w].job \in Jobs
  BY <1>1, BusyJob
<1>3. /\ worker[w].job[1] = "initial" /\ worker[w].job[2] \in Bindings /\ Unbind(worker[w].job[2])
      /\ Moves(w, {"completing"}) /\ UNCHANGED <<binding, job, receipts, now, asked, failures>>
  BY <1>2, RevokeInitialEffect
<1>4. /\ ConnectionFollowsSaga'
      /\ saga' \in [Bindings -> SagaState] /\ connection' \in ConnectionState
      /\ pairing' \in [Bindings -> {"authorizing", "connected", "error"}]
      /\ \A m \in Bindings :
            /\ saga[m] \in InRevocation => saga'[m] \in InRevocation
            /\ saga'[m] \in {"none", "confirm_pending"} => saga[m] = saga'[m]
      /\ saga[worker[w].job[2]] # "none" => saga'[worker[w].job[2]] \in InRevocation
  BY <1>3, UnbindKeeps
<1>5. saga[worker[w].job[2]] # "none"
  BY <1>1, <1>3, BusyJob DEF InRevocation
<1>6. TypeOK'
  BY <1>3, <1>4 DEF TypeOK, Moves
<1>7. LeasesHeld'
  <2>1. \A v \in Workers :
          /\ worker'[v].job = worker[v].job /\ worker'[v].attempts = worker[v].attempts
          /\ worker'[v].holds = worker[v].holds /\ (Busy(v)' <=> Busy(v))
    BY <1>1, <1>3 DEF Moves, Others, Busy
  <2> QED
    BY <1>3, <1>4, <2>1 DEF LeasesHeld
<1>8. \A v \in Workers : Busy(v) /\ worker[v].job[1] = "initial" => worker[v].job[2] \in Bindings
  BY BusyJob
<1>9. FetchedForBinding'
  BY <1>3, <1>4, <1>8 DEF FetchedForBinding, Moves, Others, Busy
<1>10. PastIsSettled'
  <2>1. \A v \in Workers \ {w} : worker'[v] = worker[v]
    BY <1>3 DEF Moves, Others
  <2>2. worker'[w].job = worker[w].job /\ saga'[worker[w].job[2]] \in InRevocation
    BY <1>3, <1>4, <1>5 DEF Moves
  <2> QED
    BY <1>3, <1>4, <1>8, <2>1, <2>2 DEF PastIsSettled, Settled, Busy
<1>11. HydratedOrRevoked'
  BY <1>3, <1>4 DEF HydratedOrRevoked, InRevocation
<1>12. OneSnapshotPerJob' /\ PairingVerifiedByItself'
  BY <1>3, OnceFrame
<1> QED
  BY <1>4, <1>6, <1>7, <1>9, <1>10, <1>11, <1>12

\* What the owner does to a saga disturbs no worker, if it takes none back.
LEMMA OwnerMoves ==
    ASSUME IInv, UNCHANGED <<worker, job, receipts>>,
           \A m \in Bindings :
               /\ saga[m] \in InRevocation => saga'[m] \in InRevocation
               /\ saga'[m] \in {"none", "confirm_pending"} => job[Initial(m)].state = "absent"
    PROVE  LeasesHeld' /\ FetchedForBinding' /\ PastIsSettled' /\ HydratedOrRevoked'
<1> USE DEF IInv
<1>1. LeasesHeld'
  BY DEF LeasesHeld, Busy
<1>2. \A v \in Workers : Busy(v) /\ worker[v].job[1] = "initial" => worker[v].job[2] \in Bindings
  BY BusyJob
<1>3. FetchedForBinding'
  BY <1>2 DEF FetchedForBinding, Busy
<1>4. PastIsSettled'
  BY <1>2 DEF PastIsSettled, Settled, Busy
<1>5. HydratedOrRevoked'
  BY DEF HydratedOrRevoked, InRevocation
<1> QED
  BY <1>1, <1>3, <1>4, <1>5

LEMMA DisconnectStep == ASSUME IInv, Disconnect PROVE IInv'
<1> USE DEF IInv
<1>1. /\ binding \in Bindings /\ Unbind(binding) /\ asked' \subseteq Bindings
      /\ UNCHANGED <<binding, job, worker, receipts, now, failures>>
  BY BindingFacts DEF Disconnect, TypeOK
<1>2. /\ ConnectionFollowsSaga'
      /\ saga' \in [Bindings -> SagaState] /\ connection' \in ConnectionState
      /\ pairing' \in [Bindings -> {"authorizing", "connected", "error"}]
      /\ \A m \in Bindings :
            /\ saga[m] \in InRevocation => saga'[m] \in InRevocation
            /\ saga'[m] \in {"none", "confirm_pending"} => saga[m] = saga'[m]
  BY <1>1, UnbindKeeps
<1>3. TypeOK'
  BY <1>1, <1>2 DEF TypeOK
<1>4. LeasesHeld' /\ FetchedForBinding' /\ PastIsSettled' /\ HydratedOrRevoked'
  BY <1>1, <1>2, OwnerMoves DEF LeasesHeld
<1>5. OneSnapshotPerJob' /\ PairingVerifiedByItself'
  BY <1>1, OnceFrame
<1> QED
  BY <1>2, <1>3, <1>4, <1>5

LEMMA RevokedStep == ASSUME IInv, Revoked PROVE IInv'
<1> USE DEF IInv
<1>1. connection' = [connection EXCEPT !.status = "revoked"] /\ connection \in ConnectionState
  BY DEF Revoked, TypeOK
<1>2. connection' \in ConnectionState /\ connection'.holder = connection.holder
  BY <1>1 DEF ConnectionState
<1>3. /\ binding \in Bindings /\ saga \in [Bindings -> SagaState]
      /\ saga[binding] = "revoke_pending" /\ saga' = [saga EXCEPT ![binding] = "revoked"]
      /\ UNCHANGED <<binding, pairing, job, worker, receipts, now, asked, failures>>
  BY BindingFacts DEF Revoked, TypeOK
<1>4. saga' \in [Bindings -> SagaState] /\ saga'[binding] = "revoked"
      /\ \A m \in Bindings \ {binding} : saga'[m] = saga[m]
  BY <1>3 DEF SagaState
<1>5. TypeOK'
  BY <1>2, <1>3, <1>4 DEF TypeOK
<1>6. ConnectionFollowsSaga'
  BY <1>2, <1>3, <1>4, BindingFacts DEF ConnectionFollowsSaga, Live
<1>7. \A m \in Bindings :
        /\ saga[m] \in InRevocation => saga'[m] \in InRevocation
        /\ saga'[m] \in {"none", "confirm_pending"} => job[Initial(m)].state = "absent"
  BY <1>3, <1>4 DEF InRevocation, LeasesHeld
<1>8. LeasesHeld' /\ FetchedForBinding' /\ PastIsSettled' /\ HydratedOrRevoked'
  BY <1>3, <1>7, OwnerMoves
<1>9. OneSnapshotPerJob' /\ PairingVerifiedByItself'
  BY <1>3, OnceFrame
<1> QED
  BY <1>5, <1>6, <1>8, <1>9

LEMMA BindStep == ASSUME IInv, Bind PROVE IInv'
<1> USE DEF IInv
<1> DEFINE n == binding + 1
<1>1. n \in Bindings /\ binding \in Nat /\ saga \in [Bindings -> SagaState] /\ now \in 0 .. MaxStamp
  BY BindingFacts DEF Bind, TypeOK
<1>2. /\ connection' \in ConnectionState /\ connection'.holder = n
      /\ UNCHANGED <<pairing, job, worker, receipts, now, asked, failures>>
  BY <1>1, BindingFacts DEF Bind, ConnectionState
<1>3. /\ binding' = n /\ saga' \in [Bindings -> SagaState] /\ saga'[n] = "confirm_pending"
      /\ \A m \in Bindings \ {n} : saga'[m] = saga[m]
      /\ \A m \in Bindings : saga[m] \in {"none", "revoked"}
  BY <1>1 DEF Bind, Replaceable, SagaState
<1>4. TypeOK'
  BY <1>1, <1>2, <1>3, BindingFacts DEF TypeOK
<1>5. ConnectionFollowsSaga'
  <2>1. \A m \in Bindings : saga'[m] = "none" <=> m > binding'
    BY <1>1, <1>3, BindingFacts DEF ConnectionFollowsSaga
  <2> QED
    BY <1>1, <1>2, <1>3, <2>1 DEF ConnectionFollowsSaga, Live
<1>6. saga[n] = "none" /\ job[Initial(n)].state = "absent"
  BY <1>1, BindingFacts DEF ConnectionFollowsSaga, LeasesHeld
<1>7. \A m \in Bindings :
        /\ saga[m] \in InRevocation => saga'[m] \in InRevocation
        /\ saga'[m] \in {"none", "confirm_pending"} => job[Initial(m)].state = "absent"
  BY <1>3, <1>6 DEF InRevocation, LeasesHeld
<1>8. LeasesHeld' /\ FetchedForBinding' /\ PastIsSettled' /\ HydratedOrRevoked'
  BY <1>2, <1>7, OwnerMoves
<1>9. OneSnapshotPerJob' /\ PairingVerifiedByItself'
  BY <1>2, OnceFrame
<1> QED
  BY <1>4, <1>5, <1>8, <1>9

\* The initial job of a binding is queued once, when it is confirmed.
LEMMA ConfirmEffect ==
    ASSUME IInv, Confirm
    PROVE  /\ binding \in Bindings /\ saga[binding] = "confirm_pending"
           /\ saga' \in [Bindings -> SagaState] /\ saga'[binding] = "confirmed"
           /\ \A m \in Bindings \ {binding} : saga'[m] = saga[m]
           /\ connection' \in ConnectionState /\ connection'.holder = connection.holder
           /\ job[Initial(binding)].state = "absent" /\ Initial(binding) \in Jobs
           /\ JobBecomes(Initial(binding), "queued", job[Initial(binding)].attempts)
           /\ UNCHANGED <<binding, pairing, worker, receipts, now, asked, failures>>
<1> USE DEF IInv
<1>1. /\ binding \in Bindings /\ saga[binding] = "confirm_pending"
      /\ saga' = [saga EXCEPT ![binding] = "confirmed"] /\ saga \in [Bindings -> SagaState]
  BY BindingFacts DEF Confirm, TypeOK
<1>2. saga' \in [Bindings -> SagaState] /\ saga'[binding] = "confirmed"
      /\ \A m \in Bindings \ {binding} : saga'[m] = saga[m]
  BY <1>1 DEF SagaState
<1>3. connection' = [connection EXCEPT !.confirmed = TRUE] /\ connection \in ConnectionState
  BY DEF Confirm, TypeOK
<1>4. connection' \in ConnectionState /\ connection'.holder = connection.holder
  BY <1>3 DEF ConnectionState
<1>5. job[Initial(binding)].state = "absent" /\ Initial(binding) \in Jobs
  BY <1>1, JobFacts DEF LeasesHeld
<1>6. job[Initial(binding)].attempts \in 0 .. MaxAttempts
  BY <1>5 DEF TypeOK
<1>7. JobBecomes(Initial(binding), "queued", job[Initial(binding)].attempts)
  BY <1>5, <1>6, JobSet DEF Confirm, Queue, JobState
<1> QED
  BY <1>1, <1>2, <1>4, <1>5, <1>7 DEF Confirm

LEMMA ConfirmStep == ASSUME IInv, Confirm PROVE IInv'
<1> USE DEF IInv
<1>1. /\ binding \in Bindings /\ saga[binding] = "confirm_pending"
      /\ saga' \in [Bindings -> SagaState] /\ saga'[binding] = "confirmed"
      /\ \A m \in Bindings \ {binding} : saga'[m] = saga[m]
      /\ connection' \in ConnectionState /\ connection'.holder = connection.holder
      /\ job[Initial(binding)].state = "absent" /\ Initial(binding) \in Jobs
      /\ JobBecomes(Initial(binding), "queued", job[Initial(binding)].attempts)
      /\ UNCHANGED <<binding, pairing, worker, receipts, now, asked, failures>>
  BY ConfirmEffect
<1>2. \A j \in Jobs \ {Initial(binding)} : job'[j] = job[j]
  BY <1>1 DEF JobBecomes
<1>3. \A w \in Workers : Busy(w) => worker[w].job \in Jobs /\ worker[w].job # Initial(binding)
  BY <1>1 DEF LeasesHeld
<1>4. TypeOK'
  BY <1>1 DEF TypeOK, JobBecomes
<1>5. ConnectionFollowsSaga'
  BY <1>1, BindingFacts DEF ConnectionFollowsSaga, Live
<1>6. LeasesHeld'
  <2>1. \A w \in Workers : Busy(w) => job'[worker[w].job] = job[worker[w].job]
    BY <1>2, <1>3
  <2>2. \A j \in Jobs : job'[j].state \in {"absent", "queued", "leased"} => job'[j].attempts < MaxAttempts
    BY <1>1, <1>2 DEF LeasesHeld, JobBecomes
  <2>3. \A n \in Bindings :
          job'[Initial(n)].state # "absent" => saga'[n] \notin {"none", "confirm_pending"}
    BY <1>1, <1>2, JobFacts DEF LeasesHeld
  <2> QED
    BY <1>1, <2>1, <2>2, <2>3 DEF LeasesHeld, Busy
<1>7. \A w \in Workers : Busy(w) /\ worker[w].job[1] = "initial" =>
          worker[w].job[2] \in Bindings \ {binding}
  BY <1>3, JobFacts
<1>8. FetchedForBinding'
  BY <1>1, <1>7 DEF FetchedForBinding, Busy
<1>9. PastIsSettled'
  BY <1>1, <1>7 DEF PastIsSettled, Settled, Busy
<1>10. HydratedOrRevoked'
  BY <1>1, <1>2, JobFacts DEF HydratedOrRevoked, JobBecomes
<1>11. OneSnapshotPerJob' /\ PairingVerifiedByItself'
  BY <1>1, OnceFrame
<1> QED
  BY <1>4, <1>5, <1>6, <1>8, <1>9, <1>10, <1>11

-----------------------------------------------------------------------------
(* The theorems.                                                            *)

LEMMA StutterStep == ASSUME IInv, UNCHANGED vars PROVE IInv'
  BY DEF IInv, TypeOK, ConnectionFollowsSaga, LeasesHeld, Busy, FetchedForBinding, PastIsSettled,
         Settled, HydratedOrRevoked, OneSnapshotPerJob, PairingVerifiedByItself

LEMMA NextIInv == IInv /\ [Next]_vars => IInv'
<1> SUFFICES ASSUME IInv, [Next]_vars PROVE IInv'
  OBVIOUS
<1>1. CASE Bind \/ Confirm \/ Disconnect \/ Revoked
  BY <1>1, BindStep, ConfirmStep, DisconnectStep, RevokedStep
<1>2. ASSUME NEW w \in Workers, Hydrate(w) PROVE IInv'
  BY <1>2, QuietStep, ReadCredentialStep, EndFetchStep, PersistStep, DispatchStep DEF Hydrate, Quiet
<1>3. ASSUME NEW w \in Workers, End(w) PROVE IInv'
  BY <1>3, RevokeInitialStep, DeferInitialStep, CompleteStep, RetryStep DEF End
<1>4. ASSUME NEW w \in Workers, Lapse(w) \/ Crash(w) PROVE IInv'
  BY <1>4, LapseStep, CrashStep
<1>5. ASSUME NEW w \in Workers, NEW j \in Jobs, Take(w, j) PROVE IInv'
  BY <1>5, TakeStep
<1>6. CASE UNCHANGED vars
  BY <1>6, StutterStep
<1> QED
  BY <1>1, <1>2, <1>3, <1>4, <1>5, <1>6 DEF Next

\* The invariant of hydration: of the jobs' leases, of the connection and its
\* saga, and of what each worker fetched for which binding.
THEOREM Invariance == Spec => []IInv
<1>1. Init => IInv
  BY InitIInv
<1> QED
  BY <1>1, NextIInv, PTL DEF Spec

\* Every variable of the hydration keeps its type, however many workers, jobs,
\* crashes and authorizations there are; no job exceeds its attempts.
THEOREM TypeCorrect == Spec => []TypeOK
<1>1. IInv => TypeOK
  BY DEF IInv
<1> QED
  BY <1>1, Invariance, PTL

\* A job commits one snapshot, and an instant is committed once, whatever crash,
\* lapsed lease or retry makes a worker fetch and persist again (persistHydration).
THEOREM SnapshotsOnce == Spec => []OneSnapshotPerJob
<1>1. IInv => OneSnapshotPerJob
  BY DEF IInv
<1> QED
  BY <1>1, Invariance, PTL

\* A confirmed authorization whose initial job has ended was hydrated or is in
\* revocation: no crash, retry or dead letter leaves it in between.
THEOREM Hydrated == Spec => []HydratedOrRevoked
<1>1. IInv => HydratedOrRevoked
  BY DEF IInv
<1> QED
  BY <1>1, Invariance, PTL

\* The snapshot by which an account is verified was fetched with the credential of
\* the same authorization, though persistHydration never compares the two and a
\* new authorization may complete during the fetch.
THEOREM PairingsVerified == Spec => []PairingVerifiedByItself
<1>1. IInv => PairingVerifiedByItself
  BY DEF IInv
<1> QED
  BY <1>1, Invariance, PTL

-----------------------------------------------------------------------------
(* Replays.  A repeated job is refused by its own receipt, whatever it has  *)
(* fetched, which the run broker_replay shows.  What repeats a job that has *)
(* committed is one of three disturbances.                                  *)

Past == {"dispatch", "completing"}
HasReceipt(j) == \E r \in receipts : r.job = j

\* No lease runs out under its holder; between a job's commit and its completion
\* no worker stops, and the next refresh is queued without an error.
UndisturbedStep ==
    \A w \in Workers :
        ~Lapse(w) /\ ~DispatchFails(w) /\ (Crash(w) => ~HasReceipt(worker[w].job))
Undisturbed == [][UndisturbedStep]_vars

AllHold == \A w \in Workers : Busy(w) => worker[w].holds

\* A job whose snapshot is committed is completed or about to be.
ReceiptEndsJob ==
    \A r \in receipts :
        \/ job[r.job].state = "completed"
        \/ \E w \in Workers : worker[w].pc \in Past /\ worker[w].job = r.job

\* What an initial job has hydrated stays confirmed until its owner asks.
HydratedIsKept ==
    \A r \in receipts : r.job[1] = "initial" =>
        saga[r.job[2]] = "confirmed" \/ r.job[2] \in asked

ReplayInv == AllHold /\ ReceiptEndsJob /\ HydratedIsKept

\* A worker before its commit has a job without a receipt, and so have the jobs
\* no worker holds but the completed ones.
LEMMA NoReceiptYet ==
    ASSUME IInv, AllHold, ReceiptEndsJob
    PROVE  /\ \A w \in Workers : Busy(w) /\ worker[w].pc \notin Past => ~HasReceipt(worker[w].job)
           /\ \A j \in Jobs : job[j].state \in {"absent", "queued", "dead"} => ~HasReceipt(j)
<1>1. LeasesHeld
  BY DEF IInv
<1>2. \A w \in Workers : worker[w].pc \in Past => Busy(w)
  BY DEF Past, Busy
<1> QED
  BY <1>1, <1>2 DEF AllHold, ReceiptEndsJob, LeasesHeld, HasReceipt

LEMMA ReceiptType == ASSUME IInv PROVE receipts \subseteq [job : Jobs, taken : 1 .. MaxStamp, of : Bindings]
  BY DEF IInv, TypeOK

\* Receipts, and the jobs that have one, stay; whoever is past its commit stays so.
LEMMA ReceiptFrame ==
    ASSUME ReceiptEndsJob, receipts' = receipts,
           \A j \in Jobs : HasReceipt(j) => job'[j] = job[j],
           \A w \in Workers : worker[w].pc \in Past =>
               worker'[w].pc \in Past /\ worker'[w].job = worker[w].job,
           receipts \subseteq [job : Jobs, taken : 1 .. MaxStamp, of : Bindings]
    PROVE  ReceiptEndsJob'
<1>1. \A r \in receipts : r.job \in Jobs /\ HasReceipt(r.job)
  BY DEF HasReceipt
<1> QED
  BY <1>1 DEF ReceiptEndsJob

\* Only its owner takes back what was hydrated.
LEMMA HydratedFrame ==
    ASSUME HydratedIsKept, receipts' = receipts, asked \subseteq asked',
           \A n \in Bindings : HasReceipt(Initial(n)) /\ saga[n] = "confirmed" =>
               saga'[n] = "confirmed" \/ n \in asked',
           receipts \subseteq [job : Jobs, taken : 1 .. MaxStamp, of : Bindings]
    PROVE  HydratedIsKept'
<1>1. \A r \in receipts : r.job[1] = "initial" =>
          r.job[2] \in Bindings /\ HasReceipt(Initial(r.job[2]))
  BY JobFacts DEF HasReceipt
<1> QED
  BY <1>1 DEF HydratedIsKept

\* A worker that moves on keeps its lease; what it does to the jobs without a
\* receipt does not matter.
LEMMA MoveKeeps ==
    ASSUME IInv, ReplayInv, NEW w \in Workers, NEW pcs, Moves(w, pcs), Busy(w),
           worker[w].pc \in Past => pcs \subseteq Past,
           \A j \in Jobs : HasReceipt(j) => job'[j] = job[j],
           UNCHANGED <<saga, asked, receipts>>
    PROVE  ReplayInv'
<1>1. \A v \in Workers \ {w} : worker'[v] = worker[v]
  BY DEF Moves, Others
<1>2. /\ worker'[w].job = worker[w].job /\ worker'[w].holds = worker[w].holds
      /\ worker[w].pc \in Past => worker'[w].pc \in Past
  BY DEF Moves
<1>3. AllHold'
  BY <1>1, <1>2 DEF ReplayInv, AllHold, Busy
<1>4. ReceiptEndsJob'
  BY <1>1, <1>2, ReceiptFrame, ReceiptType DEF ReplayInv
<1>5. HydratedIsKept'
  BY DEF ReplayInv, HydratedIsKept
<1> QED
  BY <1>3, <1>4, <1>5 DEF ReplayInv

LEMMA MovesKeep ==
    ASSUME IInv, ReplayInv, NEW w \in Workers, ~DispatchFails(w),
           Quiet(w) \/ ReadCredential(w) \/ EndFetch(w) \/ Dispatch(w) \/ DispatchLast(w)
    PROVE  ReplayInv'
<1>1. TypeOK
  BY DEF IInv
<1>2. CASE Quiet(w)
  <2>1. /\ Busy(w) /\ Moves(w, {"reading", "failed", "hopeless"})
        /\ UNCHANGED <<saga, asked, job, receipts>>
    BY <1>1, <1>2, QuietEffect
  <2>2. worker[w].pc \notin Past
    BY <1>2 DEF Quiet, RequireReady, ReadNothing, FetchTimesOut, SnapshotInvalid, FetchFails,
                PersistRefused, Past
  <2> QED
    BY <2>1, <2>2, MoveKeeps
<1>3. CASE ReadCredential(w)
  BY <1>1, <1>3, ReadCredentialEffect, MoveKeeps DEF Past, Busy
<1>4. CASE EndFetch(w)
  BY <1>1, <1>4, EndFetchEffect, MoveKeeps DEF Past, Busy
<1>5. CASE Dispatch(w) \/ DispatchLast(w)
  <2>1. /\ worker[w].pc = "dispatch" /\ Moves(w, {"completing"})
        /\ \/ UNCHANGED job
           \/ \E k \in 1 .. MaxRefreshes :
                 job[Scheduled(k)].state \in {"absent", "queued"}
                 /\ JobBecomes(Scheduled(k), "queued", job[Scheduled(k)].attempts)
        /\ UNCHANGED <<saga, asked, receipts>>
    BY <1>1, <1>5, DispatchEffect
  <2>2. \A j \in Jobs : HasReceipt(j) => job'[j] = job[j]
    BY <2>1, NoReceiptYet, JobFacts DEF JobBecomes, ReplayInv
  <2>3. Busy(w) /\ {"completing"} \subseteq Past
    BY <2>1 DEF Busy, Past
  <2> QED
    BY <2>1, <2>2, <2>3, MoveKeeps
<1> QED
  BY <1>2, <1>3, <1>4, <1>5

LEMMA CommitKeeps ==
    ASSUME IInv, ReplayInv, NEW w \in Workers, Persist(w)
    PROVE  ReplayInv'
<1>1. /\ worker[w].pc = "persist" /\ Moves(w, {"dispatch"}) /\ Bound(worker[w].job)
      /\ receipts' = receipts \cup {[job |-> worker[w].job, taken |-> worker[w].taken,
                                     of |-> worker[w].of]}
      /\ UNCHANGED <<job, saga, asked>>
  BY PersistEffect DEF IInv
<1>2. \A v \in Workers \ {w} : worker'[v] = worker[v]
  BY <1>1 DEF Moves, Others
<1>3. /\ worker'[w].pc \in Past /\ worker'[w].job = worker[w].job
      /\ worker'[w].holds = worker[w].holds /\ worker[w].pc \notin Past
  BY <1>1 DEF Moves, Past
<1>4. \A r \in receipts' : r \in receipts \/ r.job = worker[w].job
  BY <1>1
<1>5. AllHold'
  BY <1>1, <1>2, <1>3 DEF ReplayInv, AllHold, Busy
<1>6. ReceiptEndsJob'
  BY <1>1, <1>2, <1>3, <1>4 DEF ReplayInv, ReceiptEndsJob
<1>7. HydratedIsKept'
  BY <1>1, <1>4 DEF ReplayInv, HydratedIsKept, Bound
<1> QED
  BY <1>5, <1>6, <1>7 DEF ReplayInv

\* A worker lets go of a job without a receipt, or has completed it.
LEMMA LetGoKeeps ==
    ASSUME IInv, ReplayInv, NEW w \in Workers, worker[w].job \in Jobs, Others(w), worker'[w] = Idle,
           NEW st, NEW a, JobBecomes(worker[w].job, st, a),
           HasReceipt(worker[w].job) => st = "completed",
           UNCHANGED <<saga, asked, receipts>>
    PROVE  ReplayInv'
<1>1. \A r \in receipts : r.job \in Jobs
  BY ReceiptType
<1>2. AllHold'
  BY IdleFields DEF ReplayInv, AllHold, Busy, Others
<1>3. ASSUME NEW r \in receipts, r.job = worker[w].job PROVE job'[r.job].state = "completed"
  BY <1>3 DEF JobBecomes, HasReceipt
<1>4. ASSUME NEW r \in receipts, r.job # worker[w].job
      PROVE  \/ job'[r.job].state = "completed"
             \/ \E v \in Workers : worker'[v].pc \in Past /\ worker'[v].job = r.job
  <2>1. job'[r.job] = job[r.job]
    BY <1>1, <1>4 DEF JobBecomes
  <2>2. \A v \in Workers : worker[v].job = r.job => worker'[v] = worker[v]
    BY <1>4 DEF Others
  <2> QED
    BY <2>1, <2>2 DEF ReplayInv, ReceiptEndsJob
<1>5. ReceiptEndsJob'
  BY <1>3, <1>4 DEF ReceiptEndsJob
<1>6. HydratedIsKept'
  BY DEF ReplayInv, HydratedIsKept
<1> QED
  BY <1>2, <1>5, <1>6 DEF ReplayInv

LEMMA EndsKeep ==
    ASSUME IInv, ReplayInv, NEW w \in Workers,
           \/ DeferInitial(w) \/ Complete(w) \/ Retry(w)
           \/ Crash(w) /\ ~HasReceipt(worker[w].job)
    PROVE  ReplayInv'
<1>1. Busy(w) /\ TypeOK /\ UNCHANGED <<saga, asked, receipts>>
  BY DEF DeferInitial, GivesUpInitial, Complete, Retry, Crash, Busy, IInv
<1>2. /\ worker[w].job \in Jobs /\ worker[w].holds
      /\ job[worker[w].job].attempts \in 0 .. MaxAttempts /\ job[worker[w].job].attempts < MaxAttempts
  BY <1>1, BusyJob DEF ReplayInv, AllHold
<1>3. worker[w].pc \notin Past => ~HasReceipt(worker[w].job)
  BY <1>1, NoReceiptYet DEF ReplayInv
<1> DEFINE used == job[worker[w].job].attempts
           st == IF LastAttempt(used) THEN "dead" ELSE "queued"
<1>4. CASE DeferInitial(w)
  <2>1. Settle(w, "queued", used) /\ worker[w].pc \notin Past
    BY <1>4 DEF DeferInitial, GivesUpInitial, Past
  <2>2. Releases(w) /\ worker'[w] = Idle /\ JobBecomes(worker[w].job, "queued", used)
    BY <1>1, <1>2, <2>1, SettleEffect DEF JobState
  <2> HIDE DEF used
  <2> QED
    BY <1>1, <1>2, <1>3, <2>1, <2>2, LetGoKeeps DEF Releases
<1>5. CASE Complete(w)
  <2>1. Settle(w, "completed", used)
    BY <1>5 DEF Complete
  <2>2. Releases(w) /\ worker'[w] = Idle /\ JobBecomes(worker[w].job, "completed", used)
    BY <1>1, <1>2, <2>1, SettleEffect DEF JobState
  <2> HIDE DEF used
  <2> QED
    BY <1>1, <1>2, <2>2, LetGoKeeps DEF Releases
<1>6. CASE Retry(w)
  <2>1. Settle(w, st, used + 1) /\ worker[w].pc \notin Past
    BY <1>6 DEF Retry, Past
  <2>2. st \in JobState /\ used + 1 \in 0 .. MaxAttempts
    BY <1>2, BindingFacts DEF JobState
  <2> HIDE DEF used, st
  <2>3. Releases(w) /\ worker'[w] = Idle /\ JobBecomes(worker[w].job, st, used + 1)
    BY <1>1, <1>2, <2>1, <2>2, SettleEffect
  <2> QED
    BY <1>1, <1>2, <1>3, <2>1, <2>3, LetGoKeeps DEF Releases
<1>7. CASE Crash(w) /\ ~HasReceipt(worker[w].job)
  <2>1. Releases(w) /\ worker'[w] = Idle /\ JobBecomes(worker[w].job, "queued", used)
    BY <1>2, <1>7, CrashEffect
  <2> HIDE DEF used
  <2> QED
    BY <1>1, <1>2, <1>7, <2>1, LetGoKeeps DEF Releases
<1> QED
  BY <1>4, <1>5, <1>6, <1>7

\* A job that gives up has no receipt, so it revokes nobody's hydrated account.
LEMMA RevokeSpares ==
    ASSUME IInv, ReplayInv, NEW w \in Workers, RevokeInitial(w)
    PROVE  ReplayInv'
<1>1. Busy(w) /\ worker[w].pc \notin Past /\ TypeOK
  BY DEF RevokeInitial, GivesUpInitial, Busy, Past, IInv
<1>2. worker[w].job \in Jobs
  BY <1>1, BusyJob
<1>3. /\ worker[w].job[1] = "initial" /\ worker[w].job[2] \in Bindings
      /\ Unbind(worker[w].job[2]) /\ Moves(w, {"completing"}) /\ UNCHANGED <<job, receipts, asked>>
  BY <1>1, <1>2, RevokeInitialEffect
<1>4. /\ \A v \in Workers \ {w} : worker'[v] = worker[v]
      /\ worker'[w].holds = worker[w].holds
  BY <1>3 DEF Moves, Others
<1>5. AllHold'
  BY <1>1, <1>4 DEF ReplayInv, AllHold, Busy
<1>6. ReceiptEndsJob'
  BY <1>1, <1>3, <1>4, ReceiptFrame, ReceiptType DEF ReplayInv
<1>7. ~HasReceipt(Initial(worker[w].job[2]))
  BY <1>1, <1>2, <1>3, NoReceiptYet, JobFacts DEF ReplayInv
<1>8. \A n \in Bindings \ {worker[w].job[2]} : saga'[n] = saga[n]
  BY <1>1, <1>3, UnbindEffect
<1>9. HydratedIsKept'
  BY <1>3, <1>7, <1>8, HydratedFrame, ReceiptType DEF ReplayInv
<1> QED
  BY <1>5, <1>6, <1>9 DEF ReplayInv

LEMMA TakeKeeps ==
    ASSUME IInv, ReplayInv, NEW w \in Workers, NEW j \in Jobs, Take(w, j)
    PROVE  ReplayInv'
<1>1. /\ worker[w].pc = "idle" /\ job[j].state = "queued" /\ Others(w)
      /\ worker'[w].holds /\ JobBecomes(j, "leased", job[j].attempts)
      /\ UNCHANGED <<saga, asked, receipts>>
  BY TakeEffect DEF IInv
<1>2. AllHold'
  BY <1>1 DEF ReplayInv, AllHold, Busy, Others
<1>3. \A i \in Jobs : HasReceipt(i) => job'[i] = job[i]
  BY <1>1, NoReceiptYet DEF JobBecomes, ReplayInv
<1>4. \A v \in Workers : worker[v].pc \in Past => worker'[v] = worker[v]
  BY <1>1 DEF Others, Past
<1>5. ReceiptEndsJob'
  BY <1>1, <1>3, <1>4, ReceiptFrame, ReceiptType DEF ReplayInv
<1>6. HydratedIsKept'
  BY <1>1 DEF ReplayInv, HydratedIsKept
<1> QED
  BY <1>2, <1>5, <1>6 DEF ReplayInv

LEMMA OwnerKeeps ==
    ASSUME IInv, ReplayInv, Bind \/ Confirm \/ Disconnect \/ Revoked
    PROVE  ReplayInv'
<1>1. UNCHANGED <<worker, receipts>> /\ saga \in [Bindings -> SagaState] /\ TypeOK
  BY DEF Bind, Confirm, Disconnect, Revoked, IInv, TypeOK
<1>2. AllHold'
  BY <1>1 DEF ReplayInv, AllHold, Busy
<1>3. \A j \in Jobs : HasReceipt(j) => job'[j] = job[j]
  <2>1. CASE Confirm
    <3>1. /\ job[Initial(binding)].state = "absent" /\ Initial(binding) \in Jobs
          /\ JobBecomes(Initial(binding), "queued", job[Initial(binding)].attempts)
      BY <2>1, ConfirmEffect
    <3> QED
      BY <3>1, NoReceiptYet DEF JobBecomes, ReplayInv
  <2>2. CASE Bind \/ Disconnect \/ Revoked
    BY <2>2 DEF Bind, Disconnect, Revoked
  <2> QED
    BY <2>1, <2>2
<1>4. ReceiptEndsJob'
  BY <1>1, <1>3, ReceiptFrame, ReceiptType DEF ReplayInv
<1>5. asked \subseteq asked' /\
      \A n \in Bindings : saga[n] = "confirmed" => saga'[n] = "confirmed" \/ n \in asked'
  <2>1. CASE Bind
    BY <2>1 DEF Bind, Replaceable
  <2>2. CASE Confirm
    BY <1>1, <2>2 DEF Confirm
  <2>3. CASE Disconnect
    <3>1. binding \in Bindings /\ Unbind(binding) /\ asked' = asked \cup {binding}
      BY <1>1, <2>3, BindingFacts DEF Disconnect, TypeOK
    <3>2. \A n \in Bindings \ {binding} : saga'[n] = saga[n]
      BY <1>1, <3>1, UnbindEffect
    <3> QED
      BY <3>1, <3>2
  <2>4. CASE Revoked
    BY <1>1, <2>4 DEF Revoked
  <2> QED
    BY <2>1, <2>2, <2>3, <2>4
<1>6. HydratedIsKept'
  BY <1>1, <1>5, HydratedFrame, ReceiptType DEF ReplayInv
<1> QED
  BY <1>2, <1>4, <1>6 DEF ReplayInv

LEMMA NextReplayInv ==
    ASSUME IInv, ReplayInv, [Next]_vars, [UndisturbedStep]_vars
    PROVE  ReplayInv'
<1>1. CASE UNCHANGED vars
  BY <1>1 DEF ReplayInv, AllHold, Busy, ReceiptEndsJob, HydratedIsKept
<1>2. CASE Next /\ UndisturbedStep
  <2>1. CASE Bind \/ Confirm \/ Disconnect \/ Revoked
    BY <2>1, OwnerKeeps
  <2>2. ASSUME NEW w \in Workers, Hydrate(w) PROVE ReplayInv'
    BY <1>2, <2>2, MovesKeep, CommitKeeps DEF Hydrate, Quiet, UndisturbedStep
  <2>3. ASSUME NEW w \in Workers, End(w) PROVE ReplayInv'
    BY <2>3, RevokeSpares, EndsKeep DEF End
  <2>4. ASSUME NEW w \in Workers, Lapse(w) \/ Crash(w) PROVE ReplayInv'
    BY <1>2, <2>4, EndsKeep DEF UndisturbedStep
  <2>5. ASSUME NEW w \in Workers, NEW j \in Jobs, Take(w, j) PROVE ReplayInv'
    BY <2>5, TakeKeeps
  <2> QED
    BY <1>2, <2>1, <2>2, <2>3, <2>4, <2>5 DEF Next
<1> QED
  BY <1>1, <1>2

\* Replaying a job is idempotent, as the documentation says, in every behaviour in
\* which no lease runs out under its holder and nothing goes wrong between a commit
\* and the completion of its job: failed calls, refused snapshots, crashes before
\* the commit, disconnects and new authorizations do not break it.
THEOREM ReplayUndisturbed == Spec /\ Undisturbed => []ReplayIsIdempotent
<1>1. Init => ReplayInv
  BY DEF Init, Idle, ReplayInv, AllHold, Busy, ReceiptEndsJob, HydratedIsKept
<1>2. IInv /\ ReplayInv => ReplayIsIdempotent
  <2> SUFFICES ASSUME IInv, ReplayInv PROVE ReplayIsIdempotent
    OBVIOUS
  <2>1. \A r \in receipts : r.job \in Jobs /\ HasReceipt(r.job)
    BY ReceiptType DEF HasReceipt
  <2>2. \A r \in receipts : job[r.job].state # "dead"
    BY <2>1, NoReceiptYet DEF ReplayInv
  <2> QED
    BY <2>2 DEF ReplayIsIdempotent, ReplayInv, HydratedIsKept
<1>3. IInv /\ ReplayInv /\ [Next]_vars /\ [UndisturbedStep]_vars => ReplayInv'
  BY NextReplayInv
<1> QED
  BY <1>1, <1>2, <1>3, Invariance, PTL DEF Spec, Undisturbed

=============================================================================
