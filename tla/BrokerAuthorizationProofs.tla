----------------------- MODULE BrokerAuthorizationProofs -----------------------
(***************************************************************************)
(* The linking of a broker account, for any number of pairings, workers    *)
(* and interferences.                                                      *)
(***************************************************************************)
EXTENDS BrokerAuthorization, FiniteSetTheorems, TLAPS

-----------------------------------------------------------------------------
(* The invariant.                                                           *)

Bound == {"confirm_pending", "confirm_overdue", "confirmed"}
Taken == {"revoke_pending", "revoked"}

\* Revocation of p's tokens was asked for.
Revoking(p) == attempt[p] \in Taken \/ saga[p] \in Taken

\* What the three tables say of a binding, and that only completed exchanges and
\* consumed pairings have one.
Binding ==
    /\ BindingHasItsSaga
    /\ \A p, q \in Pairings : LiveSaga(p) /\ LiveSaga(q) => p = q
    /\ connection.status = "absent" => \A p \in Pairings : saga[p] = "none"
    /\ \A p \in Pairings : saga[p] # "none" <=> attempt[p] = "completed"
    /\ \A p \in Pairings : connection.holder = p =>
          /\ pairing[p].consumed /\ pairing[p].flow = "none"
          /\ pairing[p].status \in {"authorizing", "connected"}

\* A call takes the steps of its operation.
StepsOf(op) == CASE op = "exchange" -> {"token", "check", "write"}
                 [] op = "confirm" -> {"read", "check", "write"}
                 [] OTHER -> {"unlink", "tombstone"}
CallSteps == \A c \in calls : c.step \in StepsOf(c.op)

\* Who waits for a call asked for it, and waits for no other.
CallOwners ==
    /\ \A c \in calls : c.by \in Runners =>
          /\ c.tx = Target(c.by)
          /\ \/ c.op = "confirm" /\ run[c.by].pc = "confirming"
             \/ c.op = "revoke" /\ run[c.by].pc = "revoking"
    /\ \A c \in calls : c.by \in Pairings =>
          c.op = "exchange" /\ c.tx = c.by /\ callback[c.by] = "exchanging"
    /\ \A c, d \in calls : c.by \in Runners /\ c.by = d.by => c = d

\* The one exchange of a pairing is over before its callback knows its outcome.
ExchangeCalls ==
    /\ \A c \in calls : c.op = "exchange" =>
          attempt[c.tx] # "none" /\ saga[c.tx] = "none" /\ callback[c.tx] # "exchanged"
    /\ \A c, d \in calls : c.op = "exchange" /\ d.op = "exchange" /\ c.tx = d.tx => c = d

\* What a process works on.
KeyOf(pc, key) ==
    /\ pc \notin {"idle", "target"} => key \in JobKey
    /\ pc \in {"load", "stage", "revoking", "ack_revoke"} => key[1] \in {"exchange", "saga"}
    /\ pc \in {"confirming", "ack_confirm"} => key[1] = "saga" /\ saga[key[2]] # "none"
Keys == \A r \in Runners : KeyOf(run[r].pc, run[r].key)

\* A row says "revoked" only once the connector has the tombstone, and so writes
\* the credential no more but for a call that has passed its check.
RevokedIsAcknowledged == \A p \in Pairings : Revoked(p) => p \in tombstones

\* The connector revokes what it was asked to, and is believed after it did.
Revocations ==
    /\ \A c \in calls : c.op = "revoke" => Revoking(c.tx)
    /\ \A p \in tombstones : Revoking(p)
    /\ \A r \in Runners : run[r].pc = "ack_revoke" => Target(r) \in tombstones
    /\ RevokedIsAcknowledged

\* Nothing but a revocation takes a credential that a binding relies on.
Credentials ==
    /\ \A p \in Pairings : callback[p] = "exchanged" => vault[p] # "none" \/ Revoking(p)
    /\ \A p \in Pairings : saga[p] \in Bound => vault[p] # "none"
    /\ \A p \in Pairings : saga[p] = "confirmed" => vault[p] = "confirmed"
    /\ \A r \in Runners : run[r].pc = "ack_confirm" =>
          vault[Target(r)] = "confirmed" \/ saga[Target(r)] \in Taken

IInv ==
    /\ TypeOK /\ Binding /\ CallSteps /\ CallOwners /\ ExchangeCalls /\ Keys
    /\ Revocations /\ Credentials

USE PairingsAssumption

-----------------------------------------------------------------------------
(* What a step does to one process.                                         *)

RunTypes == [pc : {"idle", "load", "stage", "confirming", "revoking",
                   "ack_confirm", "ack_revoke", "done", "failed",
                   "target", "hydrate"},
             key : JobKey \cup {NoKey}, duty : Duty, round : 0 .. 3]

LEMMA KeyFacts ==
    /\ \A p \in Pairings : Exchange(p) \in JobKey /\ Saga(p) \in JobKey /\ Hydrate(p) \in JobKey
    /\ \A k \in JobKey : k[1] \in {"exchange", "saga", "hydrate"} /\ k[2] \in Pairings
    /\ \A p \in Pairings : Exchange(p)[1] = "exchange" /\ Saga(p)[1] = "saga" /\ Hydrate(p)[1] = "hydrate"
    /\ \A p \in Pairings : Exchange(p)[2] = p /\ Saga(p)[2] = p /\ Hydrate(p)[2] = p
  BY DEF Exchange, Saga, Hydrate, JobKey

\* Process r moves to pc with the work key; the others stay where they are.
Moves(r, pc, key) ==
    /\ run' \in [Runners -> RunTypes]
    /\ \A s \in Runners \ {r} : run'[s] = run[s]
    /\ run'[r].pc = pc /\ run'[r].key = key

LEMMA StepMoves ==
    ASSUME TypeOK, NEW r \in Runners, NEW pc, Step(r, pc),
           pc \in {"load", "stage", "confirming", "revoking", "ack_confirm", "ack_revoke",
                   "done", "failed"}
    PROVE  Moves(r, pc, run[r].key)
<1>1. run \in [Runners -> RunTypes]
  BY DEF TypeOK, RunTypes
<1>2. run[r] \in RunTypes
  BY <1>1
<1>3. run' = [run EXCEPT ![r] = [run[r] EXCEPT !.pc = pc]]
  BY <1>1, <1>2 DEF Step, RunTypes
<1>4. [run[r] EXCEPT !.pc = pc] \in RunTypes
  BY <1>2 DEF RunTypes
<1>5. [run[r] EXCEPT !.pc = pc].pc = pc /\ [run[r] EXCEPT !.pc = pc].key = run[r].key
  BY <1>2 DEF RunTypes
<1> QED
  BY <1>1, <1>3, <1>4, <1>5 DEF Moves

LEMMA AnewMoves ==
    ASSUME TypeOK, NEW r \in Runners, NEW value \in RunTypes, run' = [run EXCEPT ![r] = value]
    PROVE  Moves(r, value.pc, value.key)
  BY DEF TypeOK, RunTypes, Moves

\* The callbacks that wait for the connector or know its answer go on doing so; no
\* other starts to.
Quiet == \A p \in Pairings : callback'[p] = callback[p]
            \/ (callback[p] # "exchanging" /\ callback'[p] \notin {"exchanging", "exchanged"})

LEMMA NoCallbackIsQuiet == ASSUME UNCHANGED callback PROVE Quiet
  BY DEF Quiet

\* A process that waits for no call, before or after its move, and believes in none.
LEMMA MoveKeeps ==
    ASSUME IInv, NEW r \in Runners, NEW pc, NEW key, Moves(r, pc, key),
           UNCHANGED <<calls, tombstones, vault>>, Quiet,
           run[r].pc \notin {"confirming", "revoking"},
           pc \notin {"confirming", "revoking", "ack_confirm", "ack_revoke"},
           KeyOf(pc, key),
           \A p \in Pairings : /\ saga[p] # "none" => saga'[p] # "none"
                               /\ saga[p] \in Taken => saga'[p] \in Taken
    PROVE  /\ CallSteps' /\ CallOwners' /\ Keys'
           /\ \A s \in Runners : run'[s].pc = "ack_revoke" => run'[s].key[2] \in tombstones'
           /\ \A s \in Runners : run'[s].pc = "ack_confirm" =>
                 vault'[run'[s].key[2]] = "confirmed" \/ saga'[run'[s].key[2]] \in Taken
<1>1. CallSteps'
  BY DEF IInv, CallSteps
<1>2. CallOwners'
  <2>1. \A c \in calls : c.by \in Runners => c.by # r /\ run'[c.by] = run[c.by]
    BY DEF IInv, CallOwners, Moves
  <2> QED
    BY <2>1 DEF IInv, CallOwners, Target, Quiet
<1>3. \A s \in Runners \ {r} : run[s].pc \in {"confirming", "ack_confirm"} => run[s].key[2] \in Pairings
  BY KeyFacts DEF IInv, Keys, KeyOf
<1>4. Keys'
  <2> SUFFICES ASSUME NEW s \in Runners PROVE KeyOf(run[s].pc, run[s].key)'
    BY DEF Keys
  <2>1. CASE s = r
    BY <2>1 DEF KeyOf, Moves
  <2>2. CASE s # r
    BY <1>3, <2>2 DEF IInv, Keys, KeyOf, Moves
  <2> QED
    BY <2>1, <2>2
<1>5. \A s \in Runners : run'[s].pc = "ack_revoke" => run'[s].key[2] \in tombstones'
  BY DEF IInv, Revocations, Moves, Target
<1>6. \A s \in Runners : run'[s].pc = "ack_confirm" =>
                 vault'[run'[s].key[2]] = "confirmed" \/ saga'[run'[s].key[2]] \in Taken
  BY <1>3 DEF IInv, Credentials, Moves, Target
<1> QED
  BY <1>1, <1>2, <1>4, <1>5, <1>6

\* A step of one process that waits for no call, and writes none of the tables.
LEMMA ProcessStep ==
    ASSUME IInv, NEW r \in Runners, NEW pc, NEW key, Moves(r, pc, key),
           UNCHANGED <<rows, connector, callback>>,
           jobs' \subseteq JobKey, faults' \in 0 .. MaxFaults,
           run[r].pc \notin {"confirming", "revoking"},
           pc \notin {"confirming", "revoking", "ack_confirm", "ack_revoke"},
           KeyOf(pc, key)
    PROVE  IInv'
<1> USE DEF rows, connector
<1>1. /\ CallSteps' /\ CallOwners' /\ Keys'
      /\ \A s \in Runners : run'[s].pc = "ack_revoke" => run'[s].key[2] \in tombstones'
      /\ \A s \in Runners : run'[s].pc = "ack_confirm" =>
            vault'[run'[s].key[2]] = "confirmed" \/ saga'[run'[s].key[2]] \in Taken
  BY MoveKeeps, NoCallbackIsQuiet
<1>2. TypeOK'
  BY DEF IInv, TypeOK, Moves, RunTypes
<1>3. Binding'
  BY DEF IInv, Binding, BindingHasItsSaga, LiveSaga
<1>4. ExchangeCalls'
  BY DEF IInv, ExchangeCalls
<1>5. Revocations'
  BY <1>1 DEF IInv, Revocations, Revoking, RevokedIsAcknowledged, Revoked, Target
<1>6. Credentials'
  BY <1>1 DEF IInv, Credentials, Revoking, Target
<1> QED
  BY <1>1, <1>2, <1>3, <1>4, <1>5, <1>6 DEF IInv

\* The bound of the interferences.
LEMMA FaultIsCounted == ASSUME IInv, Fault PROVE faults' \in 0 .. MaxFaults
  BY DEF IInv, TypeOK, Fault

LEMMA RunnerFacts ==
    /\ Api \in Runners /\ Workers \subseteq Runners
    /\ Pairings \cap Runners = {} /\ NoPairing \notin Runners /\ NoPairing \notin Pairings
  BY DEF Runners

LEMMA IdleFacts ==
    /\ Idle.pc = "idle" /\ Idle.key = NoKey
    /\ Idle \in RunTypes
  BY DEF Idle, RunTypes, Duty

\* The steps that reconciles and requests take on what they read.
LEMMA LoadKeeps ==
    ASSUME IInv, NEW r \in Runners, LoadSettled(r) \/ LoadOverdue(r) \/ LoadNotDue(r)
    PROVE  IInv'
<1>1. PICK pc \in {"done", "stage", "failed"} : Step(r, pc)
  BY DEF LoadSettled, LoadOverdue, LoadNotDue
<1>2. Moves(r, pc, run[r].key)
  BY <1>1, StepMoves DEF IInv
<1>3. /\ UNCHANGED <<rows, connector, callback, jobs>> /\ run[r].pc = "load"
      /\ faults' = faults \/ Fault
  BY DEF LoadSettled, LoadOverdue, LoadNotDue, RunOnly, Reconciles
<1>4. faults' \in 0 .. MaxFaults /\ jobs' \subseteq JobKey
  BY <1>3, FaultIsCounted DEF IInv, TypeOK
<1>5. KeyOf(pc, run[r].key)
  BY <1>3 DEF IInv, Keys, KeyOf
<1> QED
  BY <1>2, <1>3, <1>4, <1>5, ProcessStep

LEMMA FailedKeeps == ASSUME IInv, NEW r \in Runners, Failed(r) PROVE IInv'
<1>1. /\ Moves(r, "idle", NoKey) /\ run[r].pc = "failed"
      /\ UNCHANGED <<rows, connector, callback, jobs, faults>>
  BY AnewMoves, IdleFacts DEF IInv, Failed, RunOnly
<1>2. faults' \in 0 .. MaxFaults /\ jobs' \subseteq JobKey /\ KeyOf("idle", NoKey)
  BY <1>1 DEF IInv, TypeOK, KeyOf
<1> QED
  BY <1>1, <1>2, ProcessStep

LEMMA DoneKeeps == ASSUME IInv, NEW r \in Runners, Done(r) PROVE IInv'
<1> DEFINE target == [Idle EXCEPT !.pc = "target", !.duty = "disconnect", !.round = run[r].round]
<1>1. target \in RunTypes /\ target.pc = "target" /\ target.key = NoKey
  BY DEF IInv, TypeOK, Idle, RunTypes, Duty
<1> HIDE DEF target
<1>2. PICK value \in {Idle, target} : run' = [run EXCEPT ![r] = value]
  BY DEF Done, target
<1>3. Moves(r, value.pc, value.key) /\ value.pc \in {"idle", "target"}
  BY <1>1, <1>2, AnewMoves, IdleFacts DEF IInv
<1>4. UNCHANGED <<rows, connector, callback, faults>> /\ run[r].pc = "done" /\ jobs' \subseteq jobs
  BY DEF Done
<1>5. faults' \in 0 .. MaxFaults /\ jobs' \subseteq JobKey /\ KeyOf(value.pc, value.key)
  BY <1>3, <1>4 DEF IInv, TypeOK, KeyOf
<1> QED
  BY <1>3, <1>4, <1>5, ProcessStep

LEMMA DisconnectKeeps == ASSUME IInv, Disconnect \/ Disconnected \/ DisconnectGivesUp PROVE IInv'
<1> DEFINE target == [Idle EXCEPT !.pc = "target", !.duty = "disconnect"]
<1>1. target \in RunTypes /\ target.pc = "target" /\ target.key = NoKey
  BY IdleFacts DEF RunTypes, Duty
<1> HIDE DEF target
<1>2. PICK value \in {Idle, target} : run' = [run EXCEPT ![Api] = value]
  BY DEF Disconnect, Disconnected, DisconnectGivesUp, target
<1>3. Moves(Api, value.pc, value.key) /\ value.pc \in {"idle", "target"}
  BY <1>1, <1>2, AnewMoves, IdleFacts, RunnerFacts DEF IInv
<1>4. UNCHANGED <<rows, connector, callback, faults, jobs>> /\ run[Api].pc \in {"idle", "target"}
  BY DEF Disconnect, Disconnected, DisconnectGivesUp, RunOnly
<1>5. faults' \in 0 .. MaxFaults /\ jobs' \subseteq JobKey /\ KeyOf(value.pc, value.key)
  BY <1>3, <1>4 DEF IInv, TypeOK, KeyOf
<1> QED
  BY <1>3, <1>4, <1>5, ProcessStep, RunnerFacts

LEMMA PickTargetKeeps == ASSUME IInv, PickTarget PROVE IInv'
<1> DEFINE key == IF LiveSagas # {} THEN Saga(CHOOSE p \in Pairings : LiveSaga(p))
                  ELSE Exchange(CHOOSE p \in Pairings : LiveAttempt(p))
<1>1. key \in JobKey /\ key[1] \in {"exchange", "saga"}
  <2>1. CASE LiveSagas # {}
    <3>1. (CHOOSE p \in Pairings : LiveSaga(p)) \in Pairings
      BY <2>1 DEF LiveSagas
    <3> QED
      BY <2>1, <3>1, KeyFacts
  <2>2. CASE LiveSagas = {}
    <3>1. LiveAttempts # {}
      BY <2>2 DEF PickTarget
    <3>2. (CHOOSE p \in Pairings : LiveAttempt(p)) \in Pairings
      BY <3>1 DEF LiveAttempts
    <3> QED
      BY <2>2, <3>2, KeyFacts
  <2> QED
    BY <2>1, <2>2
<1>2. /\ run' = [run EXCEPT ![Api].pc = "stage", ![Api].key = key, ![Api].round = @ + 1]
      /\ run[Api].pc = "target" /\ run[Api].round < 3
      /\ UNCHANGED <<rows, connector, callback, faults, jobs>>
  BY DEF PickTarget, RunOnly
<1> HIDE DEF key
<1>3. run \in [Runners -> RunTypes] /\ run[Api] \in RunTypes
  BY RunnerFacts DEF IInv, TypeOK, RunTypes
<1> DEFINE value == [run[Api] EXCEPT !.pc = "stage", !.key = key, !.round = @ + 1]
<1>4. value \in RunTypes /\ value.pc = "stage" /\ value.key = key
  <2>1. run[Api].round + 1 \in 0 .. 3
    BY <1>2, <1>3 DEF RunTypes
  <2> QED
    BY <1>1, <1>3, <2>1 DEF RunTypes
<1>5. run' = [run EXCEPT ![Api] = value]
  BY <1>2, <1>3 DEF RunTypes
<1> HIDE DEF value
<1>6. Moves(Api, "stage", key)
  BY <1>4, <1>5, AnewMoves, RunnerFacts DEF IInv
<1>7. faults' \in 0 .. MaxFaults /\ jobs' \subseteq JobKey /\ KeyOf("stage", key)
  BY <1>1, <1>2 DEF IInv, TypeOK, KeyOf
<1> QED
  BY <1>2, <1>6, <1>7, ProcessStep, RunnerFacts

LEMMA TakeJobKeeps == ASSUME IInv, NEW w \in Workers, NEW k \in JobKey, TakeJob(w, k) PROVE IInv'
<1> DEFINE pc == IF k[1] = "hydrate" THEN "hydrate" ELSE "load"
           value == [Idle EXCEPT !.key = k, !.duty = "job", !.pc = pc]
<1>1. /\ run' = [run EXCEPT ![w] = value] /\ run[w].pc = "idle"
      /\ UNCHANGED <<rows, connector, callback, faults, jobs>>
  BY DEF TakeJob, RunOnly
<1>2. value \in RunTypes /\ value.pc = pc /\ value.key = k
  BY IdleFacts DEF RunTypes, Duty
<1> HIDE DEF value
<1>3. Moves(w, pc, k)
  BY <1>1, <1>2, AnewMoves, RunnerFacts DEF IInv
<1>4. faults' \in 0 .. MaxFaults /\ jobs' \subseteq JobKey /\ KeyOf(pc, k)
  BY <1>1, KeyFacts DEF IInv, TypeOK, KeyOf
<1>5. pc \in {"hydrate", "load"}
  OBVIOUS
<1> QED
  BY <1>1, <1>3, <1>4, <1>5, ProcessStep, RunnerFacts

LEMMA HydrationFailsKeeps == ASSUME IInv, NEW w \in Workers, HydrationFails(w) PROVE IInv'
<1>1. /\ Step(w, "failed") /\ run[w].pc = "hydrate"
      /\ UNCHANGED <<rows, connector, callback, jobs>> /\ (Fault \/ faults' = faults)
  BY DEF HydrationFails, RunOnly
<1>2. Moves(w, "failed", run[w].key)
  BY <1>1, StepMoves, RunnerFacts DEF IInv
<1>3. faults' \in 0 .. MaxFaults /\ jobs' \subseteq JobKey
  BY <1>1, FaultIsCounted DEF IInv, TypeOK
<1>4. KeyOf("failed", run[w].key)
  BY <1>1, RunnerFacts DEF IInv, Keys, KeyOf
<1> QED
  BY <1>1, <1>2, <1>3, <1>4, ProcessStep, RunnerFacts

\* A pairing that binds nothing changes, and perhaps its callback before it exchanges.
LEMMA PairingKeeps ==
    ASSUME IInv, NEW p \in Pairings, NEW row, NEW pc,
           pairing' = [pairing EXCEPT ![p] = row],
           row \in [status : PairingStatus, flow : Flow, claimed : BOOLEAN, consumed : BOOLEAN],
           connection.holder # p,
           callback' = [callback EXCEPT ![p] = pc],
           pc = callback[p] \/ (callback[p] \in {"idle", "secrets"} /\ pc \in {"idle", "secrets"}),
           UNCHANGED <<owner, attempt, saga, connection, jobs, connector, run, faults>>
    PROVE  IInv'
<1> USE DEF connector
<1>1. /\ pairing' \in [Pairings -> [status : PairingStatus, flow : Flow, claimed : BOOLEAN, consumed : BOOLEAN]]
      /\ \A q \in Pairings \ {p} : pairing'[q] = pairing[q] /\ callback'[q] = callback[q]
      /\ callback' \in [Pairings -> {"idle", "secrets", "exchanging", "exchanged",
                                     "completed", "failed", "reconcile_exchange"}]
      /\ callback'[p] = pc
  BY DEF IInv, TypeOK
<1>2. TypeOK'
  BY <1>1 DEF IInv, TypeOK
<1>3. Binding'
  <2>1. \A q \in Pairings : connection.holder = q => pairing'[q] = pairing[q]
    BY <1>1
  <2>2. \A q \in Pairings : saga[q] = "confirmed" => connection.holder = q
    BY DEF IInv, Binding, BindingHasItsSaga
  <2>3. BindingHasItsSaga'
    <3>1. connection.status = "connected" =>
             \E q \in Pairings : saga[q] = "confirmed" /\ pairing'[q].status = "connected"
      BY <2>1, <2>2 DEF IInv, Binding, BindingHasItsSaga
    <3>2. \A q \in Pairings :
             pairing'[q].status \in {"canceled", "expired", "error"} => connection.holder # q
      BY <2>1 DEF IInv, Binding, BindingHasItsSaga
    <3> QED
      BY <3>1, <3>2 DEF IInv, Binding, BindingHasItsSaga, LiveSaga
  <2> QED
    BY <2>1, <2>3 DEF IInv, Binding, LiveSaga
<1>4. CallSteps' /\ Keys' /\ Revocations'
  BY DEF IInv, CallSteps, Keys, KeyOf, Revocations, Revoking, RevokedIsAcknowledged, Revoked, Target
<1>5. CallOwners'
  BY <1>1 DEF IInv, CallOwners, Target
<1>6. ExchangeCalls'
  <2>1. \A c \in calls : c.tx \in Pairings
    BY DEF IInv, TypeOK
  <2> QED
    BY <1>1, <2>1 DEF IInv, ExchangeCalls
<1>7. Credentials'
  BY <1>1 DEF IInv, Credentials, Revoking, Target
<1> QED
  BY <1>2, <1>3, <1>4, <1>5, <1>6, <1>7 DEF IInv

\* A row stays a row, whichever of its columns an update sets.
LEMMA RowTyped ==
    ASSUME NEW row \in [status : PairingStatus, flow : Flow, claimed : BOOLEAN, consumed : BOOLEAN],
           NEW status \in PairingStatus
    PROVE  /\ Cleared(row, status)
                  \in [status : PairingStatus, flow : Flow, claimed : BOOLEAN, consumed : BOOLEAN]
           /\ Consumed(row, status)
                  \in [status : PairingStatus, flow : Flow, claimed : BOOLEAN, consumed : BOOLEAN]
  BY DEF Consumed, Cleared, Flow

LEMMA Statuses ==
    /\ "pending" \in PairingStatus /\ "authorizing" \in PairingStatus /\ "expired" \in PairingStatus
    /\ "canceled" \in PairingStatus /\ "error" \in PairingStatus
    /\ "sealed" \in Flow /\ "opened" \in Flow
  BY DEF PairingStatus, Flow

\* What is known of a pairing that binds the connection.
LEMMA HolderFacts ==
    ASSUME IInv, NEW p \in Pairings, connection.holder = p
    PROVE  /\ pairing[p].consumed /\ pairing[p].flow = "none"
           /\ pairing[p].status \in {"authorizing", "connected"}
           /\ saga[p] \in Bound /\ attempt[p] = "completed"
  BY DEF IInv, Binding, BindingHasItsSaga, Bound

LEMMA RequestKeeps == ASSUME IInv, NEW p \in Pairings, Request(p) PROVE IInv'
<1> DEFINE old == pairing[p]
           rowType == [status : PairingStatus, flow : Flow, claimed : BOOLEAN, consumed : BOOLEAN]
<1>1. old \in rowType /\ pairing \in [Pairings -> rowType] /\ callback \in [Pairings -> {callback[q] : q \in Pairings}]
  BY DEF IInv, TypeOK
<1>2. PICK row : /\ pairing' = [pairing EXCEPT ![p] = row]
                 /\ row \in { [old EXCEPT !.status = "pending"], [old EXCEPT !.claimed = TRUE],
                              [old EXCEPT !.status = "expired", !.consumed = TRUE],
                              Consumed(old, "canceled"),
                              [old EXCEPT !.status = "authorizing", !.flow = "sealed"],
                              Cleared(old, "pending"), [old EXCEPT !.flow = "opened"]}
  <2>1. CASE Create(p)
    BY <1>1, <2>1 DEF Create
  <2>2. CASE Claim(p)
    BY <1>1, <2>2 DEF Claim
  <2>3. CASE Expire(p)
    BY <1>1, <2>3 DEF Expire
  <2>4. CASE Cancel(p)
    BY <1>1, <2>4 DEF Cancel
  <2>5. CASE BeginMobileAuthorization(p)
    BY <1>1, <2>5 DEF BeginMobileAuthorization
  <2>6. CASE AbandonMobileAuthorization(p)
    BY <1>1, <2>6 DEF AbandonMobileAuthorization
  <2>7. CASE TakeSecrets(p)
    BY <1>1, <2>7 DEF TakeSecrets
  <2> QED
    BY <2>1, <2>2, <2>3, <2>4, <2>5, <2>6, <2>7 DEF Request
<1>3. row \in rowType
  <2>1. Cleared(old, "pending") \in rowType /\ Consumed(old, "canceled") \in rowType
    BY <1>1, RowTyped, Statuses
  <2>2. [old EXCEPT !.status = "pending"] \in rowType /\ [old EXCEPT !.claimed = TRUE] \in rowType
    BY <1>1, Statuses
  <2>3. [old EXCEPT !.status = "expired", !.consumed = TRUE] \in rowType
    BY <1>1, Statuses
  <2>4. /\ [old EXCEPT !.status = "authorizing", !.flow = "sealed"] \in rowType
        /\ [old EXCEPT !.flow = "opened"] \in rowType
    BY <1>1, Statuses
  <2> QED
    BY <1>2, <2>1, <2>2, <2>3, <2>4
<1>4. connection.holder # p
  BY HolderFacts DEF Request, Create, Claim, Expire, Cancel, Cancelable, BeginMobileAuthorization,
                     AbandonMobileAuthorization, TakeSecrets
<1>5. PICK pc : /\ callback' = [callback EXCEPT ![p] = pc]
                /\ pc = callback[p] \/ (callback[p] \in {"idle", "secrets"} /\ pc \in {"idle", "secrets"})
  <2>1. CASE TakeSecrets(p)
    BY <2>1 DEF TakeSecrets
  <2>2. CASE UNCHANGED callback
    BY <1>1, <2>2
  <2> QED
    BY <2>1, <2>2 DEF Request, Create, Claim, Expire, Cancel, BeginMobileAuthorization,
                      AbandonMobileAuthorization
<1>6. UNCHANGED <<owner, attempt, saga, connection, jobs, connector, run, faults>>
  BY DEF Request, Create, Claim, Expire, Cancel, BeginMobileAuthorization,
         AbandonMobileAuthorization, TakeSecrets, PairingOnly
<1> QED
  BY <1>2, <1>3, <1>4, <1>5, <1>6, PairingKeeps

LEMMA ConcludeKeeps == ASSUME IInv, NEW p \in Pairings, Conclude(p) PROVE IInv'
<1> DEFINE old == pairing[p]
           rowType == [status : PairingStatus, flow : Flow, claimed : BOOLEAN, consumed : BOOLEAN]
<1>1. old \in rowType /\ pairing \in [Pairings -> rowType]
  BY DEF IInv, TypeOK
<1>2. /\ callback' = [callback EXCEPT ![p] = "idle"] /\ callback[p] = "secrets"
      /\ UNCHANGED <<owner, attempt, saga, connection, jobs, connector, run, faults>>
  BY DEF Conclude, PairingOnly
<1>3. CASE UNCHANGED pairing
  <2>1. TypeOK' /\ Binding'
    BY <1>2, <1>3 DEF IInv, TypeOK, Binding, BindingHasItsSaga, LiveSaga, connector
  <2>2. /\ \A q \in Pairings \ {p} : callback'[q] = callback[q]
        /\ callback'[p] = "idle"
    BY <1>2 DEF IInv, TypeOK
  <2>3. CallSteps' /\ Keys' /\ Revocations'
    BY <1>2 DEF IInv, CallSteps, Keys, KeyOf, Revocations, Revoking, RevokedIsAcknowledged, Revoked, Target, connector
  <2>4. CallOwners'
    BY <1>2, <2>2 DEF IInv, CallOwners, Target, connector
  <2>5. ExchangeCalls'
    <3>1. \A c \in calls : c.tx \in Pairings
      BY DEF IInv, TypeOK
    <3> QED
      BY <1>2, <2>2, <3>1 DEF IInv, ExchangeCalls, connector
  <2>6. Credentials'
    BY <1>2, <2>2 DEF IInv, Credentials, Revoking, Target, connector
  <2> QED
    BY <2>1, <2>3, <2>4, <2>5, <2>6 DEF IInv
<1>4. CASE \E row \in {Cleared(old, "pending"), Consumed(old, "error")} :
             pairing' = [pairing EXCEPT ![p] = row] /\ pairing[p].flow = "opened"
  <2>1. PICK row \in {Cleared(old, "pending"), Consumed(old, "error")} :
             pairing' = [pairing EXCEPT ![p] = row] /\ pairing[p].flow = "opened"
    BY <1>4
  <2>2. row \in rowType
    BY <1>1, <2>1, RowTyped, Statuses
  <2>3. connection.holder # p
    BY <2>1, HolderFacts
  <2> QED
    BY <1>2, <2>1, <2>2, <2>3, PairingKeeps
<1> QED
  BY <1>1, <1>3, <1>4 DEF Conclude

-----------------------------------------------------------------------------
(* What a step does to the tables.                                          *)

\* Attempts and sagas only move forward, and no saga begins.
Forward ==
    \A p \in Pairings :
       /\ attempt[p] # "none" => attempt'[p] # "none"
       /\ saga[p] = "none" <=> saga'[p] = "none"
       /\ attempt[p] \in Taken => attempt'[p] \in Taken
       /\ saga[p] \in Taken => saga'[p] \in Taken
       /\ attempt'[p] = "revoked" => attempt[p] = "revoked" \/ p \in tombstones
       /\ saga'[p] = "revoked" => saga[p] = "revoked" \/ p \in tombstones
       /\ saga'[p] \in Bound => saga[p] \in Bound
       /\ saga'[p] = "confirmed" => saga[p] = "confirmed" \/ vault[p] = "confirmed"

\* The connector and its callers do not mind a step forward of the tables.
LEMMA ForwardKeeps ==
    ASSUME IInv, Forward, UNCHANGED connector, Quiet
    PROVE  /\ ExchangeCalls' /\ (Keys' /\ (\A r \in Runners : run'[r].pc = "ack_revoke" => run'[r].key[2] \in tombstones)
                => Revocations')
           /\ ((\A r \in Runners : run'[r].pc = "ack_confirm" =>
                   vault[run'[r].key[2]] = "confirmed" \/ saga'[run'[r].key[2]] \in Taken)
                => Credentials')
<1> USE DEF connector
<1>1. \A c \in calls : c.tx \in Pairings
  BY DEF IInv, TypeOK
<1>2. tombstones \subseteq Pairings
  BY DEF IInv, TypeOK
<1>3. \A p \in Pairings : Revoking(p) => Revoking(p)'
  BY DEF Forward, Revoking
<1>4. ExchangeCalls'
  BY <1>1 DEF IInv, ExchangeCalls, Forward, Quiet
<1>5. /\ \A c \in calls : c.op = "revoke" => Revoking(c.tx)'
      /\ \A p \in tombstones : Revoking(p)'
  BY <1>1, <1>2, <1>3 DEF IInv, Revocations
<1>6. RevokedIsAcknowledged'
  BY DEF IInv, Revocations, RevokedIsAcknowledged, Revoked, Forward
<1>7. (\A r \in Runners : run'[r].pc = "ack_revoke" => run'[r].key[2] \in tombstones) => Revocations'
  BY <1>5, <1>6 DEF Revocations, Target
<1>8. /\ \A p \in Pairings : callback'[p] = "exchanged" => vault[p] # "none" \/ Revoking(p)'
      /\ \A p \in Pairings : saga'[p] \in Bound => vault[p] # "none"
      /\ \A p \in Pairings : saga'[p] = "confirmed" => vault[p] = "confirmed"
  BY <1>3 DEF IInv, Credentials, Forward, Quiet
<1>9. (\A r \in Runners : run'[r].pc = "ack_confirm" =>
         vault[run'[r].key[2]] = "confirmed" \/ saga'[run'[r].key[2]] \in Taken) => Credentials'
  BY <1>8 DEF Credentials, Target
<1> QED
  BY <1>4, <1>7, <1>9

\* A step of the tables with no process on the move.
LEMMA RowsStep ==
    ASSUME IInv, Forward, TypeOK', Binding', UNCHANGED <<connector, run>>, Quiet
    PROVE  IInv'
<1> USE DEF connector
<1>1. CallSteps' /\ CallOwners'
  BY DEF IInv, CallSteps, CallOwners, Target, Quiet
<1>2. \A r \in Runners : run[r].pc \in {"confirming", "ack_confirm"} => run[r].key[2] \in Pairings
  BY KeyFacts DEF IInv, Keys, KeyOf
<1>3. Keys'
  BY <1>2 DEF IInv, Keys, KeyOf, Forward
<1>4. \A r \in Runners : run[r].pc = "ack_confirm" =>
         vault[run[r].key[2]] = "confirmed" \/ saga'[run[r].key[2]] \in Taken
  BY <1>2 DEF IInv, Credentials, Target, Forward
<1>5. \A r \in Runners : run[r].pc = "ack_revoke" => run[r].key[2] \in tombstones
  BY DEF IInv, Revocations, Target
<1> QED
  BY <1>1, <1>3, <1>4, <1>5, ForwardKeeps DEF IInv

\* A step of the tables that process r takes.
LEMMA RowsProcessStep ==
    ASSUME IInv, Forward, TypeOK', Binding', UNCHANGED connector, Quiet,
           NEW r \in Runners, NEW pc, NEW key, Moves(r, pc, key),
           run[r].pc \notin {"confirming", "revoking"},
           pc \notin {"confirming", "revoking", "ack_confirm", "ack_revoke"},
           KeyOf(pc, key)
    PROVE  IInv'
<1> USE DEF connector
<1>1. \A p \in Pairings : /\ saga[p] # "none" => saga'[p] # "none"
                          /\ saga[p] \in Taken => saga'[p] \in Taken
  BY DEF Forward
<1>2. /\ CallSteps' /\ CallOwners' /\ Keys'
      /\ \A s \in Runners : run'[s].pc = "ack_revoke" => run'[s].key[2] \in tombstones'
      /\ \A s \in Runners : run'[s].pc = "ack_confirm" =>
            vault'[run'[s].key[2]] = "confirmed" \/ saga'[run'[s].key[2]] \in Taken
  BY <1>1, MoveKeeps
<1> QED
  BY <1>2, ForwardKeeps DEF IInv

\* Requesting the revocation of an exchange leaves every binding alone.
LEMMA StageExchange ==
    ASSUME IInv, NEW p \in Pairings, StageExchangeRevocation(p), UNCHANGED <<saga, connection>>
    PROVE  /\ Binding' /\ Forward
           /\ attempt' \in [Pairings -> ExchangeStatus] /\ jobs' \subseteq JobKey
           /\ pairing' \in [Pairings -> [status : PairingStatus, flow : Flow, claimed : BOOLEAN, consumed : BOOLEAN]]
<1> DEFINE rowType == [status : PairingStatus, flow : Flow, claimed : BOOLEAN, consumed : BOOLEAN]
<1>1. pairing \in [Pairings -> rowType] /\ pairing[p] \in rowType /\ attempt \in [Pairings -> ExchangeStatus]
      /\ jobs \subseteq JobKey
  BY DEF IInv, TypeOK
<1>2. CASE ~LiveAttempt(p)
  <2>1. UNCHANGED <<pairing, attempt, jobs, saga, connection>>
    BY <1>2 DEF StageExchangeRevocation
  <2> QED
    BY <1>1, <2>1 DEF IInv, Binding, BindingHasItsSaga, LiveSaga, Forward
<1>3. CASE LiveAttempt(p)
  <2>1. /\ attempt' = [attempt EXCEPT ![p] = "revoke_pending"] /\ jobs' = jobs \cup {Exchange(p)}
        /\ attempt[p] # "completed" /\ attempt[p] # "none" /\ attempt[p] # "revoked"
    BY <1>3 DEF StageExchangeRevocation, LiveAttempt, Enqueue
  <2>2. PICK row \in {pairing[p], Consumed(pairing[p], "error")} : pairing' = [pairing EXCEPT ![p] = row]
    BY <1>1, <1>3 DEF StageExchangeRevocation
  <2>3. row \in rowType
    BY <1>1, <2>2, RowTyped, Statuses
  <2>4. pairing' \in [Pairings -> rowType] /\ \A q \in Pairings \ {p} : pairing'[q] = pairing[q]
    BY <1>1, <2>2, <2>3
  <2>5. attempt' \in [Pairings -> ExchangeStatus] /\ jobs' \subseteq JobKey
    BY <1>1, <2>1, KeyFacts DEF ExchangeStatus
  <2>6. attempt'[p] = "revoke_pending" /\ \A q \in Pairings \ {p} : attempt'[q] = attempt[q]
    BY <1>1, <2>1
  <2>7. saga[p] = "none" /\ connection.holder # p
    BY <2>1, HolderFacts DEF IInv, Binding
  <2>8. Forward
    BY <2>1, <2>6 DEF Forward, Taken
  <2>9. Binding'
    <3>1. \A q \in Pairings : saga[q] = "confirmed" => q # p
      BY <2>7
    <3>2. BindingHasItsSaga'
      <4>1. connection.status = "connected" =>
               \E q \in Pairings : saga[q] = "confirmed" /\ pairing'[q].status = "connected"
        BY <2>4, <3>1 DEF IInv, Binding, BindingHasItsSaga
      <4>2. \A q \in Pairings :
               pairing'[q].status \in {"canceled", "expired", "error"} => connection.holder # q
        BY <2>4, <2>7 DEF IInv, Binding, BindingHasItsSaga
      <4> QED
        BY <4>1, <4>2 DEF IInv, Binding, BindingHasItsSaga, LiveSaga
    <3>3. \A q \in Pairings : saga[q] # "none" <=> attempt'[q] = "completed"
      BY <2>6, <2>7 DEF IInv, Binding
    <3>4. \A q \in Pairings : connection.holder = q =>
            /\ pairing'[q].consumed /\ pairing'[q].flow = "none"
            /\ pairing'[q].status \in {"authorizing", "connected"}
      BY <2>4, <2>7 DEF IInv, Binding
    <3> QED
      BY <3>2, <3>3, <3>4 DEF IInv, Binding, LiveSaga
  <2> QED
    BY <2>4, <2>5, <2>8, <2>9
<1> QED
  BY <1>2, <1>3

\* Requesting the revocation of a saga takes the one binding there can be.
LEMMA StageSaga ==
    ASSUME IInv, NEW p \in Pairings, StageSagaRevocation(p), UNCHANGED attempt
    PROVE  /\ Binding' /\ Forward
           /\ saga' \in [Pairings -> SagaStatus] /\ jobs' \subseteq JobKey
           /\ connection' \in [status : ConnectionStatus, holder : Pairings \cup {NoPairing},
                              confirmed : BOOLEAN]
           /\ pairing' \in [Pairings -> [status : PairingStatus, flow : Flow, claimed : BOOLEAN, consumed : BOOLEAN]]
<1> DEFINE rowType == [status : PairingStatus, flow : Flow, claimed : BOOLEAN, consumed : BOOLEAN]
<1>1. /\ pairing \in [Pairings -> rowType] /\ pairing[p] \in rowType /\ saga \in [Pairings -> SagaStatus]
      /\ jobs \subseteq JobKey
      /\ connection \in [status : ConnectionStatus, holder : Pairings \cup {NoPairing}, confirmed : BOOLEAN]
  BY DEF IInv, TypeOK
<1>2. CASE ~LiveSaga(p)
  <2>1. UNCHANGED <<pairing, attempt, jobs, saga, connection>>
    BY <1>2 DEF StageSagaRevocation
  <2> QED
    BY <1>1, <2>1 DEF IInv, Binding, BindingHasItsSaga, LiveSaga, Forward
<1>3. CASE LiveSaga(p)
  <2>1. /\ saga' = [saga EXCEPT ![p] = "revoke_pending"] /\ jobs' = jobs \cup {Saga(p)}
        /\ connection' = Unbinding /\ saga[p] # "none" /\ saga[p] # "revoked"
    BY <1>3 DEF StageSagaRevocation, LiveSaga, Enqueue
  <2>2. PICK row \in {pairing[p], Consumed(pairing[p], "error")} : pairing' = [pairing EXCEPT ![p] = row]
    BY <1>1, <1>3 DEF StageSagaRevocation
  <2>3. row \in rowType
    BY <1>1, <2>2, RowTyped, Statuses
  <2>4. pairing' \in [Pairings -> rowType]
    BY <1>1, <2>2, <2>3
  <2>5. saga' \in [Pairings -> SagaStatus] /\ jobs' \subseteq JobKey
    BY <1>1, <2>1, KeyFacts DEF SagaStatus
  <2>6. saga'[p] = "revoke_pending" /\ \A q \in Pairings \ {p} : saga'[q] = saga[q]
    BY <1>1, <2>1
  <2>7. connection' = [status |-> "error", holder |-> NoPairing, confirmed |-> FALSE]
    BY <2>1 DEF Unbinding, Unbound
  <2>8. \A q \in Pairings \ {p} : saga[q] \in {"none", "revoked"}
    BY <1>3 DEF IInv, Binding, LiveSaga
  <2>9. Forward
    BY <2>1, <2>6 DEF Forward, Taken, Bound
  <2>10. Binding'
    <3>1. \A q \in Pairings : connection'.holder # q /\ saga'[q] \notin Bound
      BY <2>6, <2>7, <2>8, RunnerFacts DEF Bound
    <3>2. LiveSaga(p)'
      BY <2>6 DEF LiveSaga
    <3>3. BindingHasItsSaga'
      BY <2>7, <3>1, <3>2 DEF BindingHasItsSaga, Bound
    <3>4. \A q, r \in Pairings : LiveSaga(q)' /\ LiveSaga(r)' => q = r
      BY <2>6, <2>8 DEF LiveSaga
    <3>5. \A q \in Pairings : saga'[q] # "none" <=> attempt[q] = "completed"
      BY <2>1, <2>6 DEF IInv, Binding
    <3> QED
      BY <2>7, <3>1, <3>3, <3>4, <3>5 DEF Binding
  <2>11. connection' \in [status : ConnectionStatus, holder : Pairings \cup {NoPairing}, confirmed : BOOLEAN]
    BY <2>7 DEF ConnectionStatus
  <2> QED
    BY <2>4, <2>5, <2>9, <2>10, <2>11
<1> QED
  BY <1>2, <1>3

LEMMA ClockKeeps ==
    ASSUME IInv, NEW p \in Pairings, CleanupFallsDue(p) \/ DeadlinePasses(p)
    PROVE  IInv'
<1>1. /\ attempt \in [Pairings -> ExchangeStatus] /\ saga \in [Pairings -> SagaStatus]
      /\ UNCHANGED <<owner, pairing, connection, jobs, connector, callback, run, faults>>
  BY DEF IInv, TypeOK, CleanupFallsDue, DeadlinePasses
<1>2. CASE CleanupFallsDue(p)
  <2>1. /\ attempt' \in [Pairings -> ExchangeStatus] /\ UNCHANGED saga
        /\ attempt[p] = "exchange_pending" /\ attempt'[p] = "exchange_overdue"
        /\ \A q \in Pairings \ {p} : attempt'[q] = attempt[q]
    BY <1>1, <1>2 DEF CleanupFallsDue, ExchangeStatus
  <2>2. Forward
    BY <2>1 DEF Forward, Taken
  <2>3. TypeOK'
    BY <1>1, <2>1 DEF IInv, TypeOK, connector
  <2>4. Binding'
    BY <1>1, <2>1 DEF IInv, Binding, BindingHasItsSaga, LiveSaga
  <2> QED
    BY <1>1, <2>2, <2>3, <2>4, RowsStep, NoCallbackIsQuiet
<1>3. CASE DeadlinePasses(p)
  <2>1. /\ saga' \in [Pairings -> SagaStatus] /\ UNCHANGED attempt
        /\ saga[p] = "confirm_pending" /\ saga'[p] = "confirm_overdue"
        /\ \A q \in Pairings \ {p} : saga'[q] = saga[q]
    BY <1>1, <1>3 DEF DeadlinePasses, SagaStatus
  <2>2. Forward
    BY <2>1 DEF Forward, Taken, Bound
  <2>3. TypeOK'
    BY <1>1, <2>1 DEF IInv, TypeOK, connector
  <2>4. Binding'
    <3>1. \A q \in Pairings : /\ (LiveSaga(q)' <=> LiveSaga(q))
                              /\ (saga'[q] \in Bound <=> saga[q] \in Bound)
                              /\ (saga'[q] = "confirmed" <=> saga[q] = "confirmed")
                              /\ (saga'[q] = "none" <=> saga[q] = "none")
      BY <2>1 DEF LiveSaga, Bound
    <3>2. BindingHasItsSaga'
      BY <1>1, <3>1 DEF IInv, Binding, BindingHasItsSaga, Bound
    <3> QED
      BY <1>1, <2>1, <3>1, <3>2 DEF IInv, Binding
  <2> QED
    BY <1>1, <2>2, <2>3, <2>4, RowsStep, NoCallbackIsQuiet
<1> QED
  BY <1>2, <1>3

LEMMA SignOutKeeps == ASSUME IInv, SignOut PROVE IInv'
<1>1. /\ UNCHANGED <<pairing, attempt, saga, connection, jobs, connector, callback, run>>
      /\ owner' = "signed_out" /\ faults' \in 0 .. MaxFaults
  BY DEF SignOut, IInv, TypeOK
<1>2. TypeOK' /\ Binding' /\ Forward
  BY <1>1 DEF IInv, TypeOK, Binding, BindingHasItsSaga, LiveSaga, Forward, connector
<1> QED
  BY <1>1, <1>2, RowsStep, NoCallbackIsQuiet

LEMMA CloseAccountKeeps == ASSUME IInv, CloseAccount PROVE IInv'
<1> DEFINE rowType == [status : PairingStatus, flow : Flow, claimed : BOOLEAN, consumed : BOOLEAN]
<1>1. /\ attempt \in [Pairings -> ExchangeStatus] /\ saga \in [Pairings -> SagaStatus]
      /\ pairing \in [Pairings -> rowType] /\ jobs \subseteq JobKey
      /\ connection \in [status : ConnectionStatus, holder : Pairings \cup {NoPairing}, confirmed : BOOLEAN]
  BY DEF IInv, TypeOK
<1>2. /\ attempt' = [p \in Pairings |-> IF LiveAttempt(p) THEN "revoke_pending" ELSE attempt[p]]
      /\ saga' = [p \in Pairings |-> IF LiveSaga(p) THEN "revoke_pending" ELSE saga[p]]
      /\ jobs' \subseteq JobKey
      /\ connection' = IF connection.status = "absent" THEN connection ELSE Unbound
      /\ pairing' = [p \in Pairings |->
                     IF pairing[p].status \in {"pending", "authorizing", "connected"}
                     THEN Consumed(pairing[p], "canceled") ELSE pairing[p]]
      /\ owner' = "closed" /\ faults' \in 0 .. MaxFaults
      /\ UNCHANGED <<connector, callback, run>>
  BY <1>1, KeyFacts DEF CloseAccount, IInv, TypeOK
<1>3. TypeOK'
  <2>1. attempt' \in [Pairings -> ExchangeStatus] /\ saga' \in [Pairings -> SagaStatus]
    BY <1>1, <1>2 DEF ExchangeStatus, SagaStatus
  <2>2. pairing' \in [Pairings -> rowType]
    <3>1. \A p \in Pairings : Consumed(pairing[p], "canceled") \in rowType
      BY <1>1, RowTyped, Statuses
    <3> QED
      BY <1>1, <1>2, <3>1
  <2>3. connection' \in [status : ConnectionStatus, holder : Pairings \cup {NoPairing}, confirmed : BOOLEAN]
    BY <1>1, <1>2 DEF Unbound, ConnectionStatus
  <2> QED
    BY <1>2, <2>1, <2>2, <2>3 DEF IInv, TypeOK, connector
<1>4. Forward
  BY <1>2 DEF Forward, LiveAttempt, LiveSaga, Taken, Bound
<1>5. Binding'
  <2>1. \A p \in Pairings : saga'[p] \notin Bound /\ (saga'[p] = "none" <=> saga[p] = "none")
                           /\ (LiveSaga(p)' <=> LiveSaga(p))
    BY <1>1, <1>2 DEF LiveSaga, Bound, SagaStatus
  <2>2. \A p \in Pairings : attempt'[p] = "completed" <=> attempt[p] = "completed"
    BY <1>1, <1>2 DEF LiveAttempt
  <2>3. /\ \A p \in Pairings : connection'.holder # p
        /\ ~connection'.confirmed /\ connection'.status \in {"absent", "revoked"}
    <3>1. CASE connection.status = "absent"
      <4>1. \A p \in Pairings : saga[p] = "none"
        BY <3>1 DEF IInv, Binding
      <4> QED
        BY <1>2, <3>1, <4>1 DEF IInv, Binding, BindingHasItsSaga
    <3>2. CASE connection.status # "absent"
      BY <1>2, <3>2, RunnerFacts DEF Unbound
    <3> QED
      BY <3>1, <3>2
  <2>4. BindingHasItsSaga'
    BY <2>1, <2>3 DEF BindingHasItsSaga, Bound
  <2>5. connection'.status = "absent" => \A p \in Pairings : saga'[p] = "none"
    BY <1>2, <2>1 DEF IInv, Binding, Unbound
  <2> QED
    BY <2>1, <2>2, <2>3, <2>4, <2>5 DEF IInv, Binding
<1> QED
  BY <1>2, <1>3, <1>4, <1>5, RowsStep, NoCallbackIsQuiet

LEMMA RowsSame == ASSUME IInv, UNCHANGED rows PROVE Binding' /\ Forward
  BY DEF IInv, Binding, BindingHasItsSaga, LiveSaga, Forward, rows

LEMMA JobsKeep == ASSUME IInv, UNCHANGED <<rows, connector, callback, run>>, jobs' \subseteq JobKey,
                         faults' \in 0 .. MaxFaults
                  PROVE  IInv'
<1>1. TypeOK'
  BY DEF IInv, TypeOK, rows, connector
<1> QED
  BY <1>1, RowsSame, RowsStep, NoCallbackIsQuiet

LEMMA JanitorKeeps == ASSUME IInv, NEW p \in Pairings, Janitor(p) PROVE IInv'
<1>1. /\ jobs' \in {jobs \cup {k} : k \in {Saga(p), Hydrate(p), Exchange(p)}}
      /\ UNCHANGED <<rows, connector, callback, run, faults>>
  BY DEF Janitor, Enqueue
<1>2. jobs' \subseteq JobKey /\ faults' \in 0 .. MaxFaults
  BY <1>1, KeyFacts DEF IInv, TypeOK
<1> QED
  BY <1>1, <1>2, JobsKeep

LEMMA JobRemovedKeeps == ASSUME IInv, NEW k \in JobKey, JobRemoved(k) PROVE IInv'
<1>1. jobs' \subseteq JobKey /\ faults' \in 0 .. MaxFaults
  BY FaultIsCounted DEF JobRemoved, IInv, TypeOK
<1> QED
  BY <1>1, JobsKeep DEF JobRemoved

LEMMA CallbackRevokesKeeps == ASSUME IInv, NEW p \in Pairings, CallbackRevokes(p) PROVE IInv'
<1>1. /\ callback[p] = "failed" /\ callback' = [callback EXCEPT ![p] = "reconcile_exchange"]
      /\ StageExchangeRevocation(p)
      /\ UNCHANGED <<owner, saga, connection, connector, run, faults>>
  BY DEF CallbackRevokes
<1>2. /\ Binding' /\ Forward
      /\ attempt' \in [Pairings -> ExchangeStatus] /\ jobs' \subseteq JobKey
      /\ pairing' \in [Pairings -> [status : PairingStatus, flow : Flow, claimed : BOOLEAN, consumed : BOOLEAN]]
  BY <1>1, StageExchange
<1>3. /\ callback' \in [Pairings -> {"idle", "secrets", "exchanging", "exchanged",
                                     "completed", "failed", "reconcile_exchange"}]
      /\ Quiet
  BY <1>1 DEF IInv, TypeOK, Quiet
<1>4. TypeOK'
  BY <1>1, <1>2, <1>3 DEF IInv, TypeOK, connector
<1> QED
  BY <1>1, <1>2, <1>3, <1>4, RowsStep

\* A process requests the revocation of what it works on.
LEMMA StagingKeeps ==
    ASSUME IInv, NEW r \in Runners, NEW pc \in {"load", "done"}, Step(r, pc),
           run[r].pc \in {"stage", "failed"}, pc = "load" => run[r].pc = "stage",
           IF run[r].key[1] = "exchange"
           THEN StageExchangeRevocation(Target(r)) /\ UNCHANGED <<saga, connection>>
           ELSE StageSagaRevocation(Target(r)) /\ UNCHANGED attempt,
           UNCHANGED <<owner, connector, callback, faults>>
    PROVE  IInv'
<1>1. Target(r) \in Pairings
  BY KeyFacts DEF IInv, Keys, KeyOf, Target
<1>2. Moves(r, pc, run[r].key)
  BY StepMoves DEF IInv
<1>3. KeyOf(pc, run[r].key)
  BY DEF IInv, Keys, KeyOf
<1>4. run' \in [Runners -> RunTypes]
  BY <1>2 DEF Moves
<1>5. TypeOK' /\ Binding' /\ Forward
  <2>1. CASE run[r].key[1] = "exchange"
    <3>1. /\ Binding' /\ Forward /\ UNCHANGED <<saga, connection>>
          /\ attempt' \in [Pairings -> ExchangeStatus] /\ jobs' \subseteq JobKey
          /\ pairing' \in [Pairings -> [status : PairingStatus, flow : Flow, claimed : BOOLEAN, consumed : BOOLEAN]]
      BY <1>1, <2>1, StageExchange
    <3> QED
      BY <1>4, <3>1 DEF IInv, TypeOK, connector, RunTypes
  <2>2. CASE run[r].key[1] # "exchange"
    <3>1. /\ Binding' /\ Forward /\ UNCHANGED attempt
          /\ saga' \in [Pairings -> SagaStatus] /\ jobs' \subseteq JobKey
          /\ connection' \in [status : ConnectionStatus, holder : Pairings \cup {NoPairing},
                              confirmed : BOOLEAN]
          /\ pairing' \in [Pairings -> [status : PairingStatus, flow : Flow, claimed : BOOLEAN, consumed : BOOLEAN]]
      BY <1>1, <2>2, StageSaga
    <3> QED
      BY <1>4, <3>1 DEF IInv, TypeOK, connector, RunTypes
  <2> QED
    BY <2>1, <2>2
<1> QED
  BY <1>2, <1>3, <1>5, RowsProcessStep, NoCallbackIsQuiet

LEMMA StageKeeps == ASSUME IInv, NEW r \in Runners, Stage(r) PROVE IInv'
  BY StagingKeeps DEF Stage

LEMMA ExhaustedKeeps == ASSUME IInv, NEW w \in Workers, Exhausted(w) PROVE IInv'
  BY StagingKeeps, RunnerFacts DEF Exhausted

LEMMA HydratedKeeps == ASSUME IInv, NEW w \in Workers, Hydrated(w) PROVE IInv'
<1> DEFINE p == Target(w)
           rowType == [status : PairingStatus, flow : Flow, claimed : BOOLEAN, consumed : BOOLEAN]
<1>1. /\ run[w].pc = "hydrate" /\ Step(w, "done")
      /\ saga[p] = "confirmed" /\ connection.confirmed
      /\ connection' = [connection EXCEPT !.status = "connected"]
      /\ pairing' = [pairing EXCEPT ![p].status = "connected"]
      /\ UNCHANGED <<owner, attempt, saga, jobs, connector, callback, faults>>
  BY DEF Hydrated, MayHydrate
<1>2. p \in Pairings
  BY <1>1, RunnerFacts, KeyFacts DEF IInv, Keys, KeyOf, Target
<1> HIDE DEF p
<1>3. pairing \in [Pairings -> rowType] /\ pairing[p] \in rowType
  BY <1>2 DEF IInv, TypeOK
<1>4. /\ pairing' \in [Pairings -> rowType]
      /\ \A q \in Pairings : q # p => pairing'[q] = pairing[q]
      /\ pairing'[p].status = "connected" /\ pairing'[p].consumed = pairing[p].consumed
      /\ pairing'[p].flow = pairing[p].flow
  <2>1. pairing' = [pairing EXCEPT ![p] = [pairing[p] EXCEPT !.status = "connected"]]
    BY <1>1, <1>2, <1>3
  <2>2. [pairing[p] EXCEPT !.status = "connected"] \in rowType
    BY <1>3 DEF PairingStatus
  <2> QED
    BY <1>2, <1>3, <2>1, <2>2
<1>5. /\ connection' \in [status : ConnectionStatus, holder : Pairings \cup {NoPairing},
                          confirmed : BOOLEAN]
      /\ connection'.status = "connected" /\ connection'.holder = connection.holder
      /\ connection'.confirmed = connection.confirmed
  BY <1>1 DEF IInv, TypeOK, ConnectionStatus
<1>6. connection.holder = p
  BY <1>1, <1>2 DEF IInv, Binding, BindingHasItsSaga
<1>7. Forward
  BY <1>1 DEF Forward
<1>8. Binding'
  <2>1. BindingHasItsSaga'
    BY <1>1, <1>2, <1>4, <1>5, <1>6 DEF IInv, Binding, BindingHasItsSaga, LiveSaga
  <2> QED
    BY <1>1, <1>2, <1>4, <1>5, <2>1 DEF IInv, Binding, LiveSaga
<1>9. Moves(w, "done", run[w].key)
  BY <1>1, StepMoves, RunnerFacts DEF IInv
<1>10. TypeOK'
  BY <1>1, <1>4, <1>5, <1>9 DEF IInv, TypeOK, connector, Moves, RunTypes
<1>11. KeyOf("done", run[w].key)
  BY <1>1, RunnerFacts DEF IInv, Keys, KeyOf
<1> QED
  BY <1>1, <1>7, <1>8, <1>9, <1>10, <1>11, RowsProcessStep, NoCallbackIsQuiet, RunnerFacts

LEMMA AcknowledgeConfirmationKeeps ==
    ASSUME IInv, NEW r \in Runners, AcknowledgeConfirmation(r) PROVE IInv'
<1> DEFINE p == Target(r)
<1>1. /\ run[r].pc = "ack_confirm" /\ UNCHANGED <<owner, attempt, connector, callback, faults>>
      /\ p \in Pairings /\ run[r].key \in JobKey /\ run[r].key[1] = "saga"
      /\ vault[p] = "confirmed" \/ saga[p] \in Taken
  BY KeyFacts DEF AcknowledgeConfirmation, IInv, Keys, KeyOf, Target, Credentials
<1>2. PICK pc \in {"done", "load"} : Step(r, pc)
  BY DEF AcknowledgeConfirmation
<1>3. Moves(r, pc, run[r].key) /\ KeyOf(pc, run[r].key)
  BY <1>1, <1>2, StepMoves DEF IInv, KeyOf
<1>4. run' \in [Runners -> RunTypes]
  BY <1>3 DEF Moves
<1>5. TypeOK' /\ Binding' /\ Forward
  <2>1. CASE /\ saga[p] = "confirm_pending"
             /\ connection.status = "pending" /\ connection.holder = p /\ ~connection.confirmed
             /\ connection' = [connection EXCEPT !.confirmed = TRUE]
             /\ saga' = [saga EXCEPT ![p] = "confirmed"]
             /\ Enqueue(Hydrate(p))
             /\ UNCHANGED pairing
    <3>1. /\ saga' \in [Pairings -> SagaStatus] /\ saga'[p] = "confirmed"
          /\ \A q \in Pairings : q # p => saga'[q] = saga[q]
      BY <1>1, <2>1 DEF IInv, TypeOK, SagaStatus
    <3>2. /\ connection' \in [status : ConnectionStatus, holder : Pairings \cup {NoPairing},
                              confirmed : BOOLEAN]
          /\ connection'.status = connection.status /\ connection'.holder = connection.holder
          /\ connection'.confirmed
      BY <2>1 DEF IInv, TypeOK
    <3>3. jobs' \subseteq JobKey
      BY <1>1, <2>1, KeyFacts DEF IInv, TypeOK, Enqueue
    <3>4. Forward
      BY <1>1, <2>1, <3>1 DEF Forward, Taken, Bound
    <3>5. TypeOK'
      BY <1>1, <1>4, <2>1, <3>1, <3>2, <3>3 DEF IInv, TypeOK, connector, RunTypes
    <3>6. \A q \in Pairings : /\ (LiveSaga(q)' <=> LiveSaga(q))
                              /\ (saga'[q] \in Bound <=> saga[q] \in Bound)
                              /\ (saga'[q] = "none" <=> saga[q] = "none")
      BY <2>1, <3>1 DEF LiveSaga, Bound
    <3>7. BindingHasItsSaga'
      BY <1>1, <2>1, <3>1, <3>2, <3>6 DEF IInv, Binding, BindingHasItsSaga, Bound
    <3>8. Binding'
      BY <1>1, <2>1, <3>2, <3>6, <3>7 DEF IInv, Binding
    <3> QED
      BY <3>4, <3>5, <3>8
  <2>2. CASE StageSagaRevocation(p)
    <3>1. /\ Binding' /\ Forward
          /\ saga' \in [Pairings -> SagaStatus] /\ jobs' \subseteq JobKey
          /\ connection' \in [status : ConnectionStatus, holder : Pairings \cup {NoPairing},
                              confirmed : BOOLEAN]
          /\ pairing' \in [Pairings -> [status : PairingStatus, flow : Flow, claimed : BOOLEAN, consumed : BOOLEAN]]
      BY <1>1, <2>2, StageSaga
    <3> QED
      BY <1>1, <1>4, <3>1 DEF IInv, TypeOK, connector, RunTypes
  <2>3. CASE UNCHANGED <<pairing, saga, connection, jobs>>
    BY <1>1, <1>4, <2>3, RowsSame DEF IInv, TypeOK, connector, RunTypes, rows
  <2> QED
    BY <2>1, <2>2, <2>3 DEF AcknowledgeConfirmation
<1> QED
  BY <1>1, <1>3, <1>5, RowsProcessStep, NoCallbackIsQuiet

LEMMA AcknowledgeRevocationKeeps ==
    ASSUME IInv, NEW r \in Runners, AcknowledgeRevocation(r) PROVE IInv'
<1> DEFINE p == Target(r)
<1>1. /\ run[r].pc = "ack_revoke" /\ UNCHANGED <<owner, pairing, jobs, connector, callback, faults>>
      /\ p \in Pairings /\ p \in tombstones /\ run[r].key \in JobKey
  BY KeyFacts DEF AcknowledgeRevocation, IInv, Keys, KeyOf, Target, Revocations
<1>2. Moves(r, "done", run[r].key) /\ KeyOf("done", run[r].key)
  BY <1>1, StepMoves DEF IInv, KeyOf, AcknowledgeRevocation
<1>3. run' \in [Runners -> RunTypes]
  BY <1>2 DEF Moves
<1>4. TypeOK' /\ Binding' /\ Forward
  <2>1. CASE UNCHANGED <<attempt, saga, connection>>
    BY <1>1, <1>3, <2>1, RowsSame DEF IInv, TypeOK, connector, RunTypes, rows
  <2>2. CASE /\ attempt[p] = "revoke_pending" /\ attempt' = [attempt EXCEPT ![p] = "revoked"]
             /\ UNCHANGED <<saga, connection>>
    <3>1. /\ attempt' \in [Pairings -> ExchangeStatus] /\ attempt'[p] = "revoked"
          /\ \A q \in Pairings : q # p => attempt'[q] = attempt[q]
      BY <1>1, <2>2 DEF IInv, TypeOK, ExchangeStatus
    <3>2. Forward
      BY <1>1, <2>2, <3>1 DEF Forward, Taken
    <3>3. Binding'
      BY <1>1, <2>2, <3>1 DEF IInv, Binding, BindingHasItsSaga, LiveSaga
    <3> QED
      BY <1>1, <1>3, <2>2, <3>1, <3>2, <3>3 DEF IInv, TypeOK, connector, RunTypes
  <2>3. CASE /\ saga[p] = "revoke_pending" /\ saga' = [saga EXCEPT ![p] = "revoked"]
             /\ connection' = Unbound /\ UNCHANGED attempt
    <3>1. /\ saga' \in [Pairings -> SagaStatus] /\ saga'[p] = "revoked"
          /\ \A q \in Pairings : q # p => saga'[q] = saga[q]
      BY <1>1, <2>3 DEF IInv, TypeOK, SagaStatus
    <3>2. \A q \in Pairings : q # p => saga[q] \in {"none", "revoked"}
      BY <1>1, <2>3 DEF IInv, Binding, LiveSaga
    <3>3. Forward
      BY <1>1, <2>3, <3>1 DEF Forward, Taken, Bound
    <3>4. connection' \in [status : ConnectionStatus, holder : Pairings \cup {NoPairing},
                           confirmed : BOOLEAN]
      BY <2>3 DEF Unbound, ConnectionStatus
    <3>5. Binding'
      <4>1. connection' = [status |-> "revoked", holder |-> NoPairing, confirmed |-> FALSE]
        BY <2>3 DEF Unbound
      <4>2. \A q \in Pairings : saga'[q] \in {"none", "revoked"} /\ connection'.holder # q
        BY <3>1, <3>2, <4>1, RunnerFacts
      <4>3. BindingHasItsSaga'
        BY <4>1, <4>2 DEF BindingHasItsSaga
      <4>4. \A q \in Pairings : saga'[q] # "none" <=> attempt'[q] = "completed"
        BY <2>3, <3>1 DEF IInv, Binding
      <4> QED
        BY <4>1, <4>2, <4>3, <4>4 DEF Binding, LiveSaga
    <3> QED
      BY <1>1, <1>3, <2>3, <3>1, <3>3, <3>4, <3>5 DEF IInv, TypeOK, connector, RunTypes
  <2> QED
    BY <2>1, <2>2, <2>3 DEF AcknowledgeRevocation, Status
<1> QED
  BY <1>1, <1>2, <1>4, RowsProcessStep, NoCallbackIsQuiet

-----------------------------------------------------------------------------
(* The callback request.                                                    *)

CallbackTypes == {"idle", "secrets", "exchanging", "exchanged", "completed", "failed",
                  "reconcile_exchange"}
CallTypes == [op : {"exchange", "confirm", "revoke"}, tx : Pairings,
              step : {"token", "read", "check", "write", "unlink", "tombstone"},
              by : Pairings \cup Runners \cup {NoPairing}]

LEMMA CompletionRefusedKeeps == ASSUME IInv, NEW p \in Pairings, CompletionRefused(p) PROVE IInv'
<1>1. /\ callback[p] = "exchanged" /\ callback' = [callback EXCEPT ![p] = "failed"]
      /\ UNCHANGED <<rows, jobs, connector, run, faults>>
  BY DEF CompletionRefused
<1>2. callback' \in [Pairings -> CallbackTypes] /\ Quiet
  BY <1>1 DEF IInv, TypeOK, Quiet, CallbackTypes
<1>3. TypeOK'
  BY <1>1, <1>2 DEF IInv, TypeOK, rows, connector, CallbackTypes
<1> QED
  BY <1>1, <1>2, <1>3, RowsSame, RowsStep

LEMMA CallbackReconcilesKeeps == ASSUME IInv, NEW p \in Pairings, CallbackReconciles(p) PROVE IInv'
<1>1. PICK key \in {Saga(p), Exchange(p)} :
         run' = [run EXCEPT ![Api] = [Idle EXCEPT !.pc = "load", !.key = key, !.duty = "request"]]
  BY DEF CallbackReconciles
<1>2. /\ run[Api].pc = "idle" /\ callback[p] \in {"completed", "reconcile_exchange"}
      /\ callback' = [callback EXCEPT ![p] = "idle"]
      /\ UNCHANGED <<rows, jobs, connector, faults>>
  BY DEF CallbackReconciles
<1> DEFINE value == [Idle EXCEPT !.pc = "load", !.key = key, !.duty = "request"]
<1>3. key \in JobKey /\ key[1] \in {"exchange", "saga"}
  BY KeyFacts
<1>4. value \in RunTypes /\ value.pc = "load" /\ value.key = key
  BY <1>3, IdleFacts DEF RunTypes, Duty
<1>5. run' = [run EXCEPT ![Api] = value]
  BY <1>1
<1> HIDE DEF value
<1>6. Moves(Api, "load", key)
  BY <1>4, <1>5, AnewMoves, RunnerFacts DEF IInv
<1>7. callback' \in [Pairings -> CallbackTypes] /\ Quiet
  BY <1>2 DEF IInv, TypeOK, Quiet, CallbackTypes
<1>8. TypeOK'
  BY <1>2, <1>6, <1>7 DEF IInv, TypeOK, rows, connector, CallbackTypes, Moves, RunTypes
<1>9. KeyOf("load", key)
  BY <1>3 DEF KeyOf
<1> QED
  BY <1>2, <1>6, <1>7, <1>8, <1>9, RowsSame, RowsProcessStep, RunnerFacts

\* A saga begins: its exchange is over, its credential was not revoked.
LEMMA CompleteKeeps == ASSUME IInv, NEW p \in Pairings, Complete(p) PROVE IInv'
<1> DEFINE rowType == [status : PairingStatus, flow : Flow, claimed : BOOLEAN, consumed : BOOLEAN]
<1>1. /\ callback[p] = "exchanged" /\ attempt[p] = "exchange_pending" /\ connection.holder = NoPairing
      /\ attempt' = [attempt EXCEPT ![p] = "completed"]
      /\ connection' = [status |-> "pending", holder |-> p, confirmed |-> FALSE]
      /\ saga' = [saga EXCEPT ![p] = "confirm_pending"]
      /\ jobs' = jobs \cup {Saga(p)}
      /\ pairing' = [pairing EXCEPT ![p] = Consumed(pairing[p], "authorizing")]
      /\ callback' = [callback EXCEPT ![p] = "completed"]
      /\ UNCHANGED <<owner, connector, run, faults>>
  BY DEF Complete, MayComplete, Enqueue
<1>2. /\ pairing \in [Pairings -> rowType] /\ pairing[p] \in rowType
      /\ attempt \in [Pairings -> ExchangeStatus] /\ saga \in [Pairings -> SagaStatus]
      /\ callback \in [Pairings -> CallbackTypes]
  BY DEF IInv, TypeOK, CallbackTypes
<1>3. /\ Consumed(pairing[p], "authorizing") \in rowType
      /\ Consumed(pairing[p], "authorizing").status = "authorizing"
      /\ Consumed(pairing[p], "authorizing").flow = "none"
      /\ Consumed(pairing[p], "authorizing").consumed
  BY <1>2 DEF Consumed, Cleared, PairingStatus, Flow
<1>4. /\ pairing' \in [Pairings -> rowType]
      /\ pairing'[p].status = "authorizing" /\ pairing'[p].flow = "none" /\ pairing'[p].consumed
  BY <1>1, <1>2, <1>3
<1>5. /\ attempt' \in [Pairings -> ExchangeStatus] /\ saga' \in [Pairings -> SagaStatus]
      /\ callback' \in [Pairings -> CallbackTypes]
      /\ attempt'[p] = "completed" /\ saga'[p] = "confirm_pending" /\ callback'[p] = "completed"
      /\ \A q \in Pairings : q # p => /\ attempt'[q] = attempt[q] /\ saga'[q] = saga[q]
                                      /\ callback'[q] = callback[q]
  BY <1>1, <1>2 DEF ExchangeStatus, SagaStatus, CallbackTypes
<1>6. /\ saga[p] = "none" /\ ~Revoking(p) /\ vault[p] # "none"
      /\ \A c \in calls : c.op = "exchange" => c.tx # p
  BY <1>1 DEF IInv, Binding, Revoking, Taken, Credentials, ExchangeCalls
<1>7. \A q \in Pairings : saga[q] \in {"none", "revoked"}
  BY DEF Complete, MayComplete, LiveSaga
<1>8. TypeOK'
  <2>1. jobs' \subseteq JobKey
    BY <1>1, KeyFacts DEF IInv, TypeOK
  <2>2. connection' \in [status : ConnectionStatus, holder : Pairings \cup {NoPairing},
                         confirmed : BOOLEAN]
    BY <1>1 DEF ConnectionStatus
  <2> QED
    BY <1>1, <1>4, <1>5, <2>1, <2>2 DEF IInv, TypeOK, connector, CallbackTypes
<1>9. Binding'
  <2>1. connection'.status = "pending" /\ connection'.holder = p /\ connection'.confirmed = FALSE
    BY <1>1
  <2>2. BindingHasItsSaga'
    BY <1>4, <1>5, <1>7, <2>1 DEF BindingHasItsSaga, LiveSaga
  <2>3. \A q, r \in Pairings : LiveSaga(q)' /\ LiveSaga(r)' => q = r
    BY <1>5, <1>7 DEF LiveSaga
  <2>4. \A q \in Pairings : saga'[q] # "none" <=> attempt'[q] = "completed"
    BY <1>5 DEF IInv, Binding
  <2> QED
    BY <1>4, <2>1, <2>2, <2>3, <2>4 DEF Binding
<1>10. CallSteps' /\ CallOwners'
  BY <1>1, <1>5 DEF IInv, CallSteps, CallOwners, Target, connector
<1>11. ExchangeCalls'
  <2>1. \A c \in calls : c.tx \in Pairings
    BY DEF IInv, TypeOK
  <2> QED
    BY <1>1, <1>5, <1>6, <2>1 DEF IInv, ExchangeCalls, connector
<1>12. \A r \in Runners : run[r].pc \in {"confirming", "ack_confirm"} =>
          run[r].key[2] \in Pairings /\ run[r].key[2] # p
  BY <1>6, KeyFacts DEF IInv, Keys, KeyOf
<1>13. Keys'
  BY <1>1, <1>5, <1>12 DEF IInv, Keys, KeyOf
<1>14. Revocations'
  <2>1. \A q \in Pairings : Revoking(q) => Revoking(q)'
    BY <1>5, <1>6 DEF Revoking, Taken
  <2>2. \A c \in calls : c.tx \in Pairings
    BY DEF IInv, TypeOK
  <2>3. tombstones \subseteq Pairings
    BY DEF IInv, TypeOK
  <2>4. RevokedIsAcknowledged'
    BY <1>1, <1>5 DEF IInv, Revocations, RevokedIsAcknowledged, Revoked, connector
  <2> QED
    BY <1>1, <2>1, <2>2, <2>3, <2>4 DEF IInv, Revocations, Target, connector
<1>15. Credentials'
  <2>1. \A q \in Pairings : Revoking(q) => Revoking(q)'
    BY <1>5, <1>6 DEF Revoking, Taken
  <2>2. \A q \in Pairings : callback'[q] = "exchanged" => vault[q] # "none" \/ Revoking(q)'
    BY <1>5, <2>1 DEF IInv, Credentials
  <2>3. \A q \in Pairings : /\ saga'[q] \in Bound => vault[q] # "none"
                            /\ saga'[q] = "confirmed" => vault[q] = "confirmed"
    BY <1>5, <1>6 DEF IInv, Credentials
  <2>4. \A r \in Runners : run[r].pc = "ack_confirm" =>
           vault[run[r].key[2]] = "confirmed" \/ saga'[run[r].key[2]] \in Taken
    BY <1>5, <1>12 DEF IInv, Credentials, Target
  <2> QED
    BY <1>1, <2>2, <2>3, <2>4 DEF Credentials, Target, connector
<1> QED
  BY <1>8, <1>9, <1>10, <1>11, <1>13, <1>14, <1>15 DEF IInv

\* The one exchange of a pairing begins.
LEMMA BeginExchangeKeeps == ASSUME IInv, NEW p \in Pairings, BeginExchange(p) PROVE IInv'
<1> DEFINE call == [op |-> "exchange", tx |-> p, step |-> "token", by |-> p]
<1>1. /\ callback[p] = "secrets" /\ attempt[p] = "none"
      /\ attempt' = [attempt EXCEPT ![p] = "exchange_pending"]
      /\ jobs' = jobs \cup {Exchange(p)} /\ calls' = calls \cup {call}
      /\ callback' = [callback EXCEPT ![p] = "exchanging"]
      /\ UNCHANGED <<owner, pairing, saga, connection, vault, tombstones, run, faults>>
  BY DEF BeginExchange, Enqueue
<1>2. call \in CallTypes /\ call.op = "exchange" /\ call.tx = p /\ call.by = p /\ call.step = "token"
  BY DEF CallTypes
<1> HIDE DEF call
<1>3. /\ attempt' \in [Pairings -> ExchangeStatus] /\ callback' \in [Pairings -> CallbackTypes]
      /\ attempt'[p] = "exchange_pending" /\ callback'[p] = "exchanging"
      /\ \A q \in Pairings : q # p => attempt'[q] = attempt[q] /\ callback'[q] = callback[q]
  BY <1>1 DEF IInv, TypeOK, ExchangeStatus, CallbackTypes
<1>4. \A c \in calls : c.tx \in Pairings /\ (c.op = "exchange" => c.tx # p)
  BY <1>1 DEF IInv, TypeOK, ExchangeCalls
<1>5. saga[p] = "none"
  BY <1>1 DEF IInv, Binding
<1>6. TypeOK'
  <2>1. calls' \subseteq CallTypes /\ jobs' \subseteq JobKey
    BY <1>1, <1>2, KeyFacts DEF IInv, TypeOK, CallTypes
  <2> QED
    BY <1>1, <1>3, <2>1 DEF IInv, TypeOK, CallbackTypes, CallTypes
<1>7. Binding'
  <2>1. \A q \in Pairings : saga[q] # "none" <=> attempt'[q] = "completed"
    BY <1>3, <1>5 DEF IInv, Binding
  <2> QED
    BY <1>1, <2>1 DEF IInv, Binding, BindingHasItsSaga, LiveSaga
<1>8. CallSteps'
  BY <1>1, <1>2 DEF IInv, CallSteps, StepsOf
<1>9. CallOwners'
  <2>1. \A c \in calls : c.by # p
    BY <1>1 DEF IInv, CallOwners
  <2>2. call.by \notin Runners
    BY <1>2, RunnerFacts
  <2> QED
    BY <1>1, <1>2, <1>3, <2>1, <2>2 DEF IInv, CallOwners, Target
<1>10. ExchangeCalls'
  BY <1>1, <1>2, <1>3, <1>4, <1>5 DEF IInv, ExchangeCalls
<1>11. Keys'
  BY <1>1 DEF IInv, Keys, KeyOf
<1>12. \A q \in Pairings : Revoking(q) <=> Revoking(q)'
  BY <1>1, <1>3 DEF Revoking, Taken
<1>13. Revocations'
  <2>1. tombstones \subseteq Pairings
    BY DEF IInv, TypeOK
  <2>2. RevokedIsAcknowledged'
    BY <1>1, <1>3 DEF IInv, Revocations, RevokedIsAcknowledged, Revoked
  <2> QED
    BY <1>1, <1>2, <1>4, <1>12, <2>1, <2>2 DEF IInv, Revocations, Target
<1>14. Credentials'
  <2>1. \A q \in Pairings : callback'[q] = "exchanged" => vault[q] # "none" \/ Revoking(q)'
    BY <1>3, <1>12 DEF IInv, Credentials
  <2> QED
    BY <1>1, <2>1 DEF IInv, Credentials, Target
<1> QED
  BY <1>6, <1>7, <1>8, <1>9, <1>10, <1>11, <1>13, <1>14 DEF IInv

-----------------------------------------------------------------------------
(* Calls and their owners.                                                  *)

\* Call d is what became of call c: a further step of it, with or without its owner.
Follows(d, c) ==
    d \in CallTypes /\ d.op = c.op /\ d.tx = c.tx /\ d.step \in StepsOf(c.op)
    /\ d.by \in {c.by, NoPairing}

\* Calls go on, are left by their owners or end (f and those left, S), and the
\* others are waited for still.
CallsPass(S, f) ==
    /\ S \subseteq calls /\ calls' = {f[c] : c \in S}
    /\ \A c \in S : Follows(f[c], c)
    /\ \A c \in S : f[c].by = c.by =>
          /\ c.by \in Runners => run'[c.by] = run[c.by]
          /\ c.by \in Pairings => callback'[c.by] = callback[c.by]
    /\ \A c \in S : c.op = "exchange" => callback'[c.tx] # "exchanged"

LEMMA CallsFollow ==
    ASSUME IInv, NEW S, NEW f, CallsPass(S, f), UNCHANGED <<attempt, saga>>
    PROVE  /\ calls' \subseteq CallTypes /\ CallSteps' /\ CallOwners' /\ ExchangeCalls'
           /\ \A d \in calls' : d.op = "revoke" => Revoking(d.tx)'
<1> USE DEF CallsPass
<1>1. calls' \subseteq CallTypes
  BY DEF Follows
<1>2. CallSteps'
  BY DEF Follows, CallSteps
<1>3. \A c \in S : f[c].by \in Runners \cup Pairings => f[c].by = c.by
  BY RunnerFacts DEF Follows
<1>4. CallOwners'
  <2>1. \A d \in calls' : d.by \in Runners =>
          /\ d.tx = run'[d.by].key[2]
          /\ \/ d.op = "confirm" /\ run'[d.by].pc = "confirming"
             \/ d.op = "revoke" /\ run'[d.by].pc = "revoking"
    <3> SUFFICES ASSUME NEW c \in S, f[c].by \in Runners
                 PROVE  /\ f[c].tx = run'[f[c].by].key[2]
                        /\ \/ f[c].op = "confirm" /\ run'[f[c].by].pc = "confirming"
                           \/ f[c].op = "revoke" /\ run'[f[c].by].pc = "revoking"
      OBVIOUS
    <3>1. f[c].by = c.by /\ run'[c.by] = run[c.by] /\ f[c].tx = c.tx /\ f[c].op = c.op
      BY <1>3 DEF Follows
    <3>2. /\ c.tx = run[c.by].key[2]
          /\ \/ c.op = "confirm" /\ run[c.by].pc = "confirming"
             \/ c.op = "revoke" /\ run[c.by].pc = "revoking"
      BY <3>1 DEF IInv, CallOwners, Target
    <3> QED
      BY <3>1, <3>2
  <2>2. \A d \in calls' : d.by \in Pairings =>
          d.op = "exchange" /\ d.tx = d.by /\ callback'[d.by] = "exchanging"
    <3> SUFFICES ASSUME NEW c \in S, f[c].by \in Pairings
                 PROVE  f[c].op = "exchange" /\ f[c].tx = f[c].by /\ callback'[f[c].by] = "exchanging"
      OBVIOUS
    <3>1. f[c].by = c.by /\ callback'[c.by] = callback[c.by] /\ f[c].tx = c.tx /\ f[c].op = c.op
      BY <1>3 DEF Follows
    <3> QED
      BY <3>1 DEF IInv, CallOwners
  <2>3. \A d, e \in calls' : d.by \in Runners /\ d.by = e.by => d = e
    <3> SUFFICES ASSUME NEW c \in S, NEW e \in S, f[c].by \in Runners, f[c].by = f[e].by
                 PROVE  f[c] = f[e]
      OBVIOUS
    <3>1. c.by = e.by /\ c.by \in Runners
      BY <1>3
    <3> QED
      BY <3>1 DEF IInv, CallOwners
  <2> QED
    BY <2>1, <2>2, <2>3 DEF CallOwners, Target
<1>5. ExchangeCalls'
  <2>1. \A d \in calls' : d.op = "exchange" =>
          attempt[d.tx] # "none" /\ saga[d.tx] = "none" /\ callback'[d.tx] # "exchanged"
    BY DEF IInv, ExchangeCalls, Follows
  <2>2. \A d, e \in calls' : d.op = "exchange" /\ e.op = "exchange" /\ d.tx = e.tx => d = e
    BY DEF IInv, ExchangeCalls, Follows
  <2> QED
    BY <2>1, <2>2 DEF ExchangeCalls
<1>6. \A d \in calls' : d.op = "revoke" => Revoking(d.tx)'
  BY DEF IInv, Revocations, Follows, Revoking
<1> QED
  BY <1>1, <1>2, <1>4, <1>5, <1>6

LEMMA CallFollowsItself ==
    ASSUME IInv, NEW c \in calls, NEW d, d \in {c, [c EXCEPT !.by = NoPairing]}
    PROVE  Follows(d, c)
<1>1. c \in CallTypes /\ c.step \in StepsOf(c.op)
  BY DEF IInv, TypeOK, CallTypes, CallSteps
<1> QED
  BY <1>1 DEF Follows, CallTypes

\* A call takes its next step.
LEMMA GoesKeeps ==
    ASSUME IInv, NEW c \in calls, NEW step \in StepsOf(c.op), Goes(c, step),
           UNCHANGED <<rows, jobs, tombstones, callback, run, faults>>,
           vault' \in [Pairings -> {"none", "provisional", "confirmed"}], Credentials'
    PROVE  IInv'
<1> DEFINE next == [c EXCEPT !.step = step]
           f == [d \in calls |-> IF d = c THEN next ELSE d]
<1>1. c \in CallTypes
  BY DEF IInv, TypeOK, CallTypes
<1>2. Follows(next, c)
  <2>1. step \in {"token", "read", "check", "write", "unlink", "tombstone"}
    BY DEF StepsOf
  <2> QED
    BY <1>1, <2>1 DEF Follows, CallTypes
<1>3. calls' = {f[d] : d \in calls}
  BY DEF Goes
<1>4. \A d \in calls : Follows(f[d], d)
  BY <1>2, CallFollowsItself
<1>5. \A d \in calls : d.op = "exchange" => callback'[d.tx] # "exchanged"
  BY DEF IInv, ExchangeCalls
<1> HIDE DEF f, next
<1>6. /\ calls' \subseteq CallTypes /\ CallSteps' /\ CallOwners' /\ ExchangeCalls'
      /\ \A d \in calls' : d.op = "revoke" => Revoking(d.tx)'
  <2>1. CallsPass(calls, f)
    BY <1>3, <1>4, <1>5 DEF CallsPass
  <2> QED
    BY <2>1, CallsFollow DEF rows
<1>7. TypeOK'
  BY <1>6 DEF IInv, TypeOK, rows, CallTypes
<1>8. Keys' /\ Revocations'
  BY <1>6 DEF IInv, Keys, KeyOf, Revocations, Revoking, RevokedIsAcknowledged, Revoked, Target, rows
<1> QED
  BY <1>6, <1>7, <1>8, RowsSame DEF IInv

\* What the owner of call c does when the call ends, or when it gives up.
Answered(c, ok) ==
    /\ callback' = IF c.by \in Pairings
                   THEN [callback EXCEPT ![c.by] = IF ok THEN "exchanged" ELSE "failed"]
                   ELSE callback
    /\ run' = IF c.by \in Runners
              THEN [run EXCEPT ![c.by].pc =
                      IF ~ok THEN "failed"
                      ELSE IF c.op = "confirm" THEN "ack_confirm" ELSE "ack_revoke"]
              ELSE run

LEMMA AnsweredFacts ==
    ASSUME IInv, NEW c \in calls, NEW ok \in BOOLEAN, Answered(c, ok), UNCHANGED rows,
           \/ calls' = calls \ {c}
           \/ ~ok /\ calls' = (calls \ {c}) \cup {[c EXCEPT !.by = NoPairing]}
    PROVE  /\ calls' \subseteq CallTypes /\ CallSteps' /\ CallOwners' /\ ExchangeCalls' /\ Keys'
           /\ \A d \in calls' : d.op = "revoke" => Revoking(d.tx)'
           /\ run' \in [Runners -> RunTypes] /\ callback' \in [Pairings -> CallbackTypes]
           /\ \A r \in Runners : run'[r] = run[r] \/
                 /\ run'[r].key = run[r].key /\ run[r].key[2] = c.tx /\ r = c.by
                 /\ \/ run'[r].pc = "failed"
                    \/ ok /\ c.op = "confirm" /\ run'[r].pc = "ack_confirm"
                    \/ ok /\ c.op = "revoke" /\ run'[r].pc = "ack_revoke"
           /\ \A p \in Pairings : callback'[p] = "exchanged" =>
                 \/ callback[p] = "exchanged"
                 \/ ok /\ c.op = "exchange" /\ c.tx = p
<1> USE DEF rows
<1>1. /\ c \in CallTypes /\ run \in [Runners -> RunTypes] /\ callback \in [Pairings -> CallbackTypes]
      /\ Pairings \cap Runners = {} /\ NoPairing \notin Runners \cup Pairings
  BY RunnerFacts DEF IInv, TypeOK, CallTypes, RunTypes, CallbackTypes
<1>2. /\ run' \in [Runners -> RunTypes]
      /\ \A r \in Runners : r # c.by => run'[r] = run[r]
      /\ c.by \in Runners =>
            /\ run'[c.by].key = run[c.by].key
            /\ run'[c.by].pc = IF ~ok THEN "failed"
                               ELSE IF c.op = "confirm" THEN "ack_confirm" ELSE "ack_revoke"
  <2>1. CASE c.by \in Runners
    <3> DEFINE pc == IF ~ok THEN "failed"
                     ELSE IF c.op = "confirm" THEN "ack_confirm" ELSE "ack_revoke"
    <3>1. run' = [run EXCEPT ![c.by] = [run[c.by] EXCEPT !.pc = pc]]
      BY <1>1, <2>1 DEF Answered, RunTypes
    <3>2. run[c.by] \in RunTypes /\ pc \in {"failed", "ack_confirm", "ack_revoke"}
      BY <1>1, <2>1
    <3> HIDE DEF pc
    <3>3. [run[c.by] EXCEPT !.pc = pc] \in RunTypes /\ [run[c.by] EXCEPT !.pc = pc].pc = pc
          /\ [run[c.by] EXCEPT !.pc = pc].key = run[c.by].key
      BY <3>2 DEF RunTypes
    <3>4. /\ run' \in [Runners -> RunTypes] /\ \A r \in Runners : r # c.by => run'[r] = run[r]
          /\ run'[c.by] = [run[c.by] EXCEPT !.pc = pc]
      BY <1>1, <2>1, <3>1, <3>3
    <3> QED
      BY <3>3, <3>4 DEF pc
  <2>2. CASE c.by \notin Runners
    BY <1>1, <2>2 DEF Answered
  <2> QED
    BY <2>1, <2>2
<1>3. /\ callback' \in [Pairings -> CallbackTypes]
      /\ \A p \in Pairings : p # c.by => callback'[p] = callback[p]
      /\ c.by \in Pairings => callback'[c.by] = IF ok THEN "exchanged" ELSE "failed"
  BY <1>1 DEF Answered, CallbackTypes
<1>4. /\ c.by \in Runners => /\ c.tx = run[c.by].key[2] /\ run[c.by].pc \in {"confirming", "revoking"}
                             /\ c.op \in {"confirm", "revoke"}
                             /\ (c.op = "confirm" <=> run[c.by].pc = "confirming")
      /\ c.by \in Pairings => c.op = "exchange" /\ c.tx = c.by
  BY DEF IInv, CallOwners, Target
<1>5. \A r \in Runners : run'[r] = run[r] \/
                 /\ run'[r].key = run[r].key /\ run[r].key[2] = c.tx /\ r = c.by
                 /\ \/ run'[r].pc = "failed"
                    \/ ok /\ c.op = "confirm" /\ run'[r].pc = "ack_confirm"
                    \/ ok /\ c.op = "revoke" /\ run'[r].pc = "ack_revoke"
  BY <1>2, <1>4
<1>6. \A p \in Pairings : callback'[p] = "exchanged" =>
                 \/ callback[p] = "exchanged"
                 \/ ok /\ c.op = "exchange" /\ c.tx = p
  BY <1>3, <1>4
<1>7. Keys'
  <2> SUFFICES ASSUME NEW r \in Runners PROVE KeyOf(run[r].pc, run[r].key)'
    BY DEF Keys
  <2>1. CASE r # c.by
    BY <1>2, <2>1 DEF IInv, Keys, KeyOf
  <2>2. CASE r = c.by
    <3>1. KeyOf(run[r].pc, run[r].key)
      BY DEF IInv, Keys
    <3> QED
      BY <1>2, <1>4, <2>2, <3>1 DEF KeyOf
  <2> QED
    BY <2>1, <2>2
<1>8. PICK S \in {calls, calls \ {c}}, left \in {c, [c EXCEPT !.by = NoPairing]} :
         /\ calls' = {IF d = c THEN left ELSE d : d \in S}
         /\ c \in S => left.by = NoPairing /\ ~ok
  <2>1. CASE calls' = calls \ {c}
    <3>1. calls' = {IF d = c THEN c ELSE d : d \in calls \ {c}}
      BY <2>1
    <3> QED
      BY <3>1
  <2>2. CASE ~ok /\ calls' = (calls \ {c}) \cup {[c EXCEPT !.by = NoPairing]}
    <3>1. calls' = {IF d = c THEN [c EXCEPT !.by = NoPairing] ELSE d : d \in calls}
      BY <2>2
    <3>2. [c EXCEPT !.by = NoPairing].by = NoPairing
      BY <1>1 DEF CallTypes
    <3> QED
      BY <2>2, <3>1, <3>2
  <2> QED
    BY <2>1, <2>2
<1> DEFINE f == [d \in calls |-> IF d = c THEN left ELSE d]
<1>9. S \in SUBSET calls /\ calls' = {f[d] : d \in S}
  <2>1. S \in SUBSET calls
    BY <1>8
  <2>2. \A d \in S : f[d] = IF d = c THEN left ELSE d
    BY <2>1
  <2> HIDE DEF f
  <2> QED
    BY <1>8, <2>1, <2>2
<1>10. \A d \in S : Follows(f[d], d)
  BY <1>9, CallFollowsItself
<1>11. \A d \in S : d # c => /\ d.by \in Runners => d.by # c.by
                             /\ d.by \in Pairings => d.by # c.by
  BY <1>9 DEF IInv, CallOwners, ExchangeCalls
<1>12. \A d \in S : f[d].by = d.by =>
              /\ d.by \in Runners => run'[d.by] = run[d.by]
              /\ d.by \in Pairings => callback'[d.by] = callback[d.by]
  BY <1>1, <1>2, <1>3, <1>8, <1>9, <1>11
<1>13. \A d \in S : d.op = "exchange" => callback'[d.tx] # "exchanged"
  <2> SUFFICES ASSUME NEW d \in S, d.op = "exchange", callback'[d.tx] = "exchanged" PROVE FALSE
    OBVIOUS
  <2>1. d \in calls /\ d.tx \in Pairings
    BY <1>9 DEF IInv, TypeOK
  <2>2. callback[d.tx] # "exchanged"
    BY <2>1 DEF IInv, ExchangeCalls
  <2>3. ok /\ c.op = "exchange" /\ c.tx = d.tx
    BY <1>6, <2>1, <2>2
  <2>4. d = c
    BY <2>1, <2>3 DEF IInv, ExchangeCalls
  <2> QED
    BY <1>8, <2>3, <2>4
<1> HIDE DEF f
<1>14. /\ calls' \subseteq CallTypes /\ CallSteps' /\ CallOwners' /\ ExchangeCalls'
       /\ \A d \in calls' : d.op = "revoke" => Revoking(d.tx)'
  <2>1. CallsPass(S, f)
    BY <1>9, <1>10, <1>12, <1>13 DEF CallsPass
  <2> QED
    BY <2>1, CallsFollow
<1> QED
  BY <1>2, <1>3, <1>5, <1>6, <1>7, <1>14

-----------------------------------------------------------------------------
(* The connector.                                                           *)

LEMMA AnswerIsAnswered == ASSUME NEW c, NEW ok, Answer(c, ok)
                          PROVE  Answered(c, ok) /\ calls' = calls \ {c}
  BY DEF Answer, Answered

\* A call fails or its owner gives up: nobody learns anything.
LEMMA FailedCallKeeps ==
    ASSUME IInv, NEW c \in calls, Answered(c, FALSE), UNCHANGED <<rows, jobs, vault, tombstones>>,
           faults' \in 0 .. MaxFaults,
           \/ calls' = calls \ {c}
           \/ calls' = (calls \ {c}) \cup {[c EXCEPT !.by = NoPairing]}
    PROVE  IInv'
<1>1. /\ calls' \subseteq CallTypes /\ CallSteps' /\ CallOwners' /\ ExchangeCalls' /\ Keys'
      /\ \A d \in calls' : d.op = "revoke" => Revoking(d.tx)'
      /\ run' \in [Runners -> RunTypes] /\ callback' \in [Pairings -> CallbackTypes]
      /\ \A r \in Runners : run'[r].key = run[r].key
                            /\ (run'[r].pc = run[r].pc \/ run'[r].pc = "failed")
      /\ \A p \in Pairings : callback'[p] = "exchanged" => callback[p] = "exchanged"
  BY AnsweredFacts
<1>2. TypeOK'
  BY <1>1 DEF IInv, TypeOK, rows, RunTypes, CallTypes, CallbackTypes
<1>3. Revocations'
  BY <1>1 DEF IInv, Revocations, Revoking, RevokedIsAcknowledged, Revoked, Target, rows
<1>4. Credentials'
  BY <1>1 DEF IInv, Credentials, Revoking, Target, rows
<1> QED
  BY <1>1, <1>2, <1>3, <1>4, RowsSame DEF IInv

LEMMA FailedAnswerKeeps ==
    ASSUME IInv, NEW c \in calls, Answer(c, FALSE), UNCHANGED <<rows, jobs, vault, tombstones>>,
           faults' \in 0 .. MaxFaults
    PROVE  IInv'
  BY FailedCallKeeps, AnswerIsAnswered

\* A call goes on with its next step, and touches no credential.
LEMMA NextStepKeeps ==
    ASSUME IInv, NEW c \in calls, NEW step \in StepsOf(c.op), Goes(c, step),
           UNCHANGED <<rows, jobs, vault, tombstones, callback, run, faults>>
    PROVE  IInv'
<1>1. vault' \in [Pairings -> {"none", "provisional", "confirmed"}] /\ Credentials'
  BY DEF IInv, TypeOK, Credentials, Revoking, Target, rows
<1> QED
  BY <1>1, GoesKeeps

LEMMA TokenAnswerKeeps == ASSUME IInv, NEW c \in calls, TokenAnswer(c) PROVE IInv'
<1>1. UNCHANGED <<rows, jobs, vault, tombstones>> /\ c.op = "exchange"
  BY DEF TokenAnswer, ConnectorOnly
<1>2. CASE Goes(c, "check") /\ UNCHANGED <<callback, run, faults>>
  <2>1. "check" \in StepsOf(c.op)
    BY <1>1 DEF StepsOf
  <2> QED
    BY <1>1, <1>2, <2>1, NextStepKeeps
<1>3. CASE Fault /\ Answer(c, FALSE)
  BY <1>1, <1>3, FaultIsCounted, FailedAnswerKeeps
<1> QED
  BY <1>2, <1>3 DEF TokenAnswer

LEMMA ReadCredentialKeeps == ASSUME IInv, NEW c \in calls, ReadCredential(c) PROVE IInv'
<1>1. UNCHANGED <<rows, jobs, vault, tombstones, faults>> /\ c.op = "confirm"
  BY DEF ReadCredential, ConnectorOnly
<1>2. "check" \in StepsOf(c.op) /\ faults' \in 0 .. MaxFaults
  BY <1>1 DEF StepsOf, IInv, TypeOK
<1> QED
  BY <1>1, <1>2, NextStepKeeps, FailedAnswerKeeps DEF ReadCredential

LEMMA CheckTombstoneKeeps == ASSUME IInv, NEW c \in calls, CheckTombstone(c) PROVE IInv'
<1>1. UNCHANGED <<rows, jobs, vault, tombstones, faults>> /\ c.step = "check"
  BY DEF CheckTombstone, ConnectorOnly
<1>2. c.op \in {"exchange", "confirm", "revoke"} /\ c.step \in StepsOf(c.op)
  BY DEF IInv, TypeOK, CallSteps
<1>3. "write" \in StepsOf(c.op) /\ faults' \in 0 .. MaxFaults
  BY <1>1, <1>2 DEF StepsOf, IInv, TypeOK
<1> QED
  BY <1>1, <1>3, NextStepKeeps, FailedAnswerKeeps DEF CheckTombstone

\* A saga that is bound has no revoked tokens: revocation is of one or of the other.
LEMMA BoundIsNotRevoking ==
    ASSUME IInv, NEW p \in Pairings, Revoking(p), saga[p] # "none"
    PROVE  saga[p] \in Taken
  BY DEF IInv, Binding, Revoking, Taken

LEMMA UnlinkKeeps == ASSUME IInv, NEW c \in calls, Unlink(c) PROVE IInv'
<1>1. /\ c.op = "revoke" /\ Goes(c, "tombstone") /\ vault' = [vault EXCEPT ![c.tx] = "none"]
      /\ UNCHANGED <<rows, jobs, tombstones, callback, run, faults>>
  BY DEF Unlink, ConnectorOnly
<1>2. "tombstone" \in StepsOf(c.op)
  BY <1>1 DEF StepsOf
<1>3. c.tx \in Pairings /\ Revoking(c.tx) /\ saga[c.tx] \notin Bound
  <2>1. c.tx \in Pairings /\ Revoking(c.tx)
    BY <1>1 DEF IInv, TypeOK, Revocations
  <2> QED
    BY <2>1, BoundIsNotRevoking DEF Bound, Taken
<1>4. /\ vault' \in [Pairings -> {"none", "provisional", "confirmed"}]
      /\ \A p \in Pairings : p # c.tx => vault'[p] = vault[p]
  BY <1>1, <1>3 DEF IInv, TypeOK
<1>5. Credentials'
  <2>1. \A p \in Pairings : callback[p] = "exchanged" => vault'[p] # "none" \/ Revoking(p)
    BY <1>3, <1>4 DEF IInv, Credentials
  <2>2. \A p \in Pairings : /\ saga[p] \in Bound => vault'[p] # "none"
                            /\ saga[p] = "confirmed" => vault'[p] = "confirmed"
    BY <1>3, <1>4 DEF IInv, Credentials, Bound
  <2>3. \A r \in Runners : run[r].pc = "ack_confirm" =>
           vault'[run[r].key[2]] = "confirmed" \/ saga[run[r].key[2]] \in Taken
    <3> SUFFICES ASSUME NEW r \in Runners, run[r].pc = "ack_confirm"
                 PROVE  vault'[run[r].key[2]] = "confirmed" \/ saga[run[r].key[2]] \in Taken
      OBVIOUS
    <3>1. run[r].key[2] \in Pairings /\ saga[run[r].key[2]] # "none"
      BY KeyFacts DEF IInv, Keys, KeyOf
    <3> QED
      BY <1>3, <1>4, <3>1, BoundIsNotRevoking DEF IInv, Credentials, Target
  <2>4. \A p \in Pairings : Revoking(p)' <=> Revoking(p)
    BY <1>1 DEF Revoking, rows
  <2> QED
    BY <1>1, <2>1, <2>2, <2>3, <2>4 DEF Credentials, Target, rows
<1> QED
  BY <1>1, <1>2, <1>4, <1>5, GoesKeeps

LEMMA WriteTombstoneKeeps == ASSUME IInv, NEW c \in calls, WriteTombstone(c) PROVE IInv'
<1>1. /\ c.op = "revoke" /\ Answer(c, TRUE) /\ tombstones' = tombstones \cup {c.tx}
      /\ UNCHANGED <<rows, jobs, vault, faults>>
  BY DEF WriteTombstone, ConnectorOnly
<1>2. c.tx \in Pairings /\ Revoking(c.tx)
  BY <1>1 DEF IInv, TypeOK, Revocations
<1>3. /\ calls' \subseteq CallTypes /\ CallSteps' /\ CallOwners' /\ ExchangeCalls' /\ Keys'
      /\ \A d \in calls' : d.op = "revoke" => Revoking(d.tx)'
      /\ run' \in [Runners -> RunTypes] /\ callback' \in [Pairings -> CallbackTypes]
      /\ \A r \in Runners : run'[r] = run[r] \/
            /\ run'[r].key = run[r].key /\ run[r].key[2] = c.tx
            /\ run'[r].pc \in {"failed", "ack_revoke"}
      /\ \A p \in Pairings : callback'[p] = "exchanged" => callback[p] = "exchanged"
  BY <1>1, AnswerIsAnswered, AnsweredFacts
<1>4. TypeOK'
  BY <1>1, <1>2, <1>3 DEF IInv, TypeOK, rows, RunTypes, CallTypes, CallbackTypes
<1>5. Revocations'
  <2>1. \A p \in Pairings : Revoking(p)' <=> Revoking(p)
    BY <1>1 DEF Revoking, rows
  <2>2. \A p \in tombstones' : Revoking(p)'
    BY <1>1, <1>2, <2>1 DEF IInv, Revocations, TypeOK
  <2>3. \A r \in Runners : run'[r].pc = "ack_revoke" => run'[r].key[2] \in tombstones'
    BY <1>1, <1>3 DEF IInv, Revocations, Target
  <2>4. RevokedIsAcknowledged'
    BY <1>1 DEF IInv, Revocations, RevokedIsAcknowledged, Revoked, rows
  <2> QED
    BY <1>3, <2>2, <2>3, <2>4 DEF Revocations, Target
<1>6. Credentials'
  BY <1>1, <1>3 DEF IInv, Credentials, Revoking, Target, rows
<1> QED
  BY <1>1, <1>3, <1>4, <1>5, <1>6, RowsSame DEF IInv

LEMMA WriteCredentialKeeps == ASSUME IInv, NEW c \in calls, WriteCredential(c) PROVE IInv'
<1> DEFINE written == IF c.op = "exchange" THEN "provisional" ELSE "confirmed"
<1>1. /\ c.step = "write" /\ Answer(c, TRUE) /\ vault' = [vault EXCEPT ![c.tx] = written]
      /\ UNCHANGED <<rows, jobs, tombstones, faults>>
  BY DEF WriteCredential, ConnectorOnly
<1>2. c.tx \in Pairings /\ c.op \in {"exchange", "confirm"}
  <2>1. c.op \in {"exchange", "confirm", "revoke"} /\ c.step \in StepsOf(c.op) /\ c.tx \in Pairings
    BY DEF IInv, TypeOK, CallSteps
  <2> QED
    BY <1>1, <2>1 DEF StepsOf
<1>3. /\ calls' \subseteq CallTypes /\ CallSteps' /\ CallOwners' /\ ExchangeCalls' /\ Keys'
      /\ \A d \in calls' : d.op = "revoke" => Revoking(d.tx)'
      /\ run' \in [Runners -> RunTypes] /\ callback' \in [Pairings -> CallbackTypes]
      /\ \A r \in Runners : run'[r] = run[r] \/
            /\ run'[r].key = run[r].key /\ run[r].key[2] = c.tx
            /\ run'[r].pc = "failed" \/ (c.op = "confirm" /\ run'[r].pc = "ack_confirm")
      /\ \A p \in Pairings : callback'[p] = "exchanged" => callback[p] = "exchanged" \/ c.tx = p
  BY <1>1, <1>2, AnswerIsAnswered, AnsweredFacts
<1>4. /\ vault' \in [Pairings -> {"none", "provisional", "confirmed"}]
      /\ vault'[c.tx] = written /\ \A p \in Pairings : p # c.tx => vault'[p] = vault[p]
  BY <1>1, <1>2 DEF IInv, TypeOK
<1>5. c.op = "exchange" => saga[c.tx] = "none"
  BY DEF IInv, ExchangeCalls
<1>6. TypeOK'
  BY <1>1, <1>3, <1>4 DEF IInv, TypeOK, rows, RunTypes, CallTypes, CallbackTypes
<1>7. Revocations'
  BY <1>1, <1>3 DEF IInv, Revocations, Revoking, RevokedIsAcknowledged, Revoked, Target, rows
<1>8. Credentials'
  <2>1. \A p \in Pairings : callback'[p] = "exchanged" => vault'[p] # "none" \/ Revoking(p)
    BY <1>3, <1>4 DEF IInv, Credentials
  <2>2. \A p \in Pairings : /\ saga[p] \in Bound => vault'[p] # "none"
                            /\ saga[p] = "confirmed" => vault'[p] = "confirmed"
    BY <1>4, <1>5 DEF IInv, Credentials, Bound
  <2>3. \A r \in Runners : run'[r].pc = "ack_confirm" =>
           vault'[run'[r].key[2]] = "confirmed" \/ saga[run'[r].key[2]] \in Taken
    <3> SUFFICES ASSUME NEW r \in Runners, run'[r].pc = "ack_confirm"
                 PROVE  vault'[run'[r].key[2]] = "confirmed" \/ saga[run'[r].key[2]] \in Taken
      OBVIOUS
    <3>1. CASE run'[r] = run[r]
      <4>1. run[r].key[2] \in Pairings /\ saga[run[r].key[2]] # "none"
        BY <3>1, KeyFacts DEF IInv, Keys, KeyOf
      <4> QED
        BY <1>2, <1>4, <1>5, <3>1, <4>1 DEF IInv, Credentials, Target
    <3>2. CASE run'[r] # run[r]
      BY <1>3, <1>4, <3>2
    <3> QED
      BY <3>1, <3>2
  <2>4. \A p \in Pairings : Revoking(p)' <=> Revoking(p)
    BY <1>1 DEF Revoking, rows
  <2> QED
    BY <1>1, <2>1, <2>2, <2>3, <2>4 DEF Credentials, Target, rows
<1> QED
  BY <1>1, <1>3, <1>6, <1>7, <1>8, RowsSame DEF IInv

LEMMA GiveUpKeeps == ASSUME IInv, NEW c \in calls, GiveUp(c) PROVE IInv'
<1>1. Answered(c, FALSE) /\ calls' = (calls \ {c}) \cup {[c EXCEPT !.by = NoPairing]}
  BY DEF GiveUp, Answered
<1> QED
  BY <1>1, FaultIsCounted, FailedCallKeeps DEF GiveUp, ConnectorOnly

LEMMA CallLostKeeps == ASSUME IInv, NEW c \in calls, CallLost(c) PROVE IInv'
  BY FaultIsCounted, FailedAnswerKeeps DEF CallLost, ConnectorOnly

\* A process asks the connector, which it did not wait for.
LEMMA CallConnectorKeeps ==
    ASSUME IInv, NEW r \in Runners, run[r].pc = "load",
           NEW op \in {"confirm", "revoke"}, NEW step \in StepsOf(op), NEW pc,
           CallConnector(r, op, step, pc),
           IF op = "confirm" THEN pc = "confirming" /\ Status(r) = "confirm_pending"
           ELSE pc = "revoking" /\ Status(r) = "revoke_pending"
    PROVE  IInv'
<1> DEFINE call == [op |-> op, tx |-> Target(r), step |-> step, by |-> r]
<1>1. /\ calls' = calls \cup {call} /\ Step(r, pc)
      /\ UNCHANGED <<rows, jobs, vault, tombstones, callback, faults>>
  BY DEF CallConnector, Call
<1>2. run[r].key \in JobKey /\ run[r].key[1] \in {"exchange", "saga"} /\ Target(r) \in Pairings
  BY KeyFacts DEF IInv, Keys, KeyOf, Target
<1>3. /\ call \in CallTypes /\ call.op = op /\ call.tx = run[r].key[2]
      /\ call.step = step /\ call.by = r
  <2>1. step \in {"token", "read", "check", "write", "unlink", "tombstone"}
    BY DEF StepsOf
  <2> QED
    BY <1>2, <2>1 DEF CallTypes, Target
<1> HIDE DEF call
<1>4. Moves(r, pc, run[r].key) /\ pc \in {"confirming", "revoking"}
  BY <1>1, StepMoves DEF IInv
<1>5. op = "confirm" => run[r].key[1] = "saga" /\ saga[run[r].key[2]] = "confirm_pending"
  <2>1. Status(r) = "confirm_pending" => run[r].key[1] = "saga"
    BY <1>2 DEF IInv, TypeOK, ExchangeStatus, Status
  <2> QED
    BY <2>1 DEF Status, Target
<1>6. op = "revoke" => Revoking(run[r].key[2])
  BY DEF Status, Target, Revoking, Taken
<1>7. TypeOK'
  BY <1>1, <1>3, <1>4 DEF IInv, TypeOK, rows, CallTypes, Moves, RunTypes
<1>8. CallSteps'
  BY <1>1, <1>3 DEF IInv, CallSteps
<1>9. CallOwners'
  <2>1. \A c \in calls : c.by # r
    BY DEF IInv, CallOwners
  <2>2. /\ \A c \in calls : c.by \in Runners => run'[c.by] = run[c.by]
        /\ run'[r].pc = pc /\ run'[r].key = run[r].key
    BY <1>4, <2>1 DEF Moves
  <2>3. call.by \notin Pairings
    BY <1>3, RunnerFacts
  <2>4. \A c \in calls' : c.by \in Runners =>
          /\ c.tx = run'[c.by].key[2]
          /\ \/ c.op = "confirm" /\ run'[c.by].pc = "confirming"
             \/ c.op = "revoke" /\ run'[c.by].pc = "revoking"
    BY <1>1, <1>3, <2>2 DEF IInv, CallOwners, Target
  <2>5. \A c \in calls' : c.by \in Pairings =>
          c.op = "exchange" /\ c.tx = c.by /\ callback'[c.by] = "exchanging"
    BY <1>1, <2>3 DEF IInv, CallOwners
  <2>6. \A c, d \in calls' : c.by \in Runners /\ c.by = d.by => c = d
    BY <1>1, <1>3, <2>1 DEF IInv, CallOwners
  <2> QED
    BY <2>4, <2>5, <2>6 DEF CallOwners, Target
<1>10. ExchangeCalls'
  BY <1>1, <1>3 DEF IInv, ExchangeCalls, rows
<1>11. Keys'
  <2> SUFFICES ASSUME NEW s \in Runners PROVE KeyOf(run[s].pc, run[s].key)'
    BY DEF Keys
  <2>1. CASE s = r
    BY <1>1, <1>2, <1>4, <1>5, <2>1 DEF KeyOf, Moves, rows
  <2>2. CASE s # r
    BY <1>1, <1>4, <2>2 DEF IInv, Keys, KeyOf, Moves, rows
  <2> QED
    BY <2>1, <2>2
<1>12. Revocations'
  <2>1. \A p \in Pairings : Revoking(p)' <=> Revoking(p)
    BY <1>1 DEF Revoking, rows
  <2>2. \A c \in calls' : c.op = "revoke" => Revoking(c.tx)'
    <3>1. \A c \in calls : c.tx \in Pairings
      BY DEF IInv, TypeOK
    <3> QED
      BY <1>1, <1>2, <1>3, <1>6, <2>1, <3>1 DEF IInv, Revocations, Target
  <2>3. \A p \in tombstones' : Revoking(p)'
    BY <1>1, <2>1 DEF IInv, Revocations, TypeOK
  <2>4. \A s \in Runners : run'[s].pc = "ack_revoke" => run'[s].key[2] \in tombstones'
    BY <1>1, <1>4 DEF IInv, Revocations, Target, Moves
  <2>5. RevokedIsAcknowledged'
    BY <1>1 DEF IInv, Revocations, RevokedIsAcknowledged, Revoked, rows
  <2> QED
    BY <2>2, <2>3, <2>4, <2>5 DEF Revocations, Target
<1>13. Credentials'
  BY <1>1, <1>4 DEF IInv, Credentials, Revoking, Target, Moves, rows
<1> QED
  BY <1>1, <1>7, <1>8, <1>9, <1>10, <1>11, <1>12, <1>13, RowsSame DEF IInv

LEMMA LoadCallsKeep == ASSUME IInv, NEW r \in Runners, LoadConfirm(r) \/ LoadRevoke(r) PROVE IInv'
<1>1. "read" \in StepsOf("confirm") /\ "unlink" \in StepsOf("revoke")
  BY DEF StepsOf
<1> QED
  BY <1>1, CallConnectorKeeps DEF LoadConfirm, LoadRevoke, Reconciles

-----------------------------------------------------------------------------
(* Crashes.                                                                 *)

\* The calls once who has crashed, which is nobody's owner any more.
Orphaned(who) == {IF c.by = who THEN [c EXCEPT !.by = NoPairing] ELSE c : c \in calls}

LEMMA OrphansFollow ==
    ASSUME IInv, NEW who \in Runners \cup Pairings, UNCHANGED <<attempt, saga>>,
           calls' = Orphaned(who),
           \A r \in Runners : r # who => run'[r] = run[r],
           \A p \in Pairings : p # who => callback'[p] = callback[p],
           who \in Pairings => callback'[who] = "idle"
    PROVE  /\ calls' \subseteq CallTypes /\ CallSteps' /\ CallOwners' /\ ExchangeCalls'
           /\ \A d \in calls' : d.op = "revoke" => Revoking(d.tx)'
<1> DEFINE f == [c \in calls |-> IF c.by = who THEN [c EXCEPT !.by = NoPairing] ELSE c]
<1>1. calls' = {f[c] : c \in calls}
  BY DEF Orphaned
<1>2. \A c \in calls : Follows(f[c], c)
  BY CallFollowsItself
<1>3. \A c \in calls : c.by = who => f[c].by = NoPairing
  BY DEF IInv, TypeOK
<1>4. \A c \in calls : f[c].by = c.by =>
              /\ c.by \in Runners => run'[c.by] = run[c.by]
              /\ c.by \in Pairings => callback'[c.by] = callback[c.by]
  BY <1>3, RunnerFacts
<1>5. \A c \in calls : c.op = "exchange" => callback'[c.tx] # "exchanged"
  <2>1. \A c \in calls : c.tx \in Pairings
    BY DEF IInv, TypeOK
  <2> QED
    BY <2>1 DEF IInv, ExchangeCalls
<1> HIDE DEF f
<1>6. CallsPass(calls, f)
  BY <1>1, <1>2, <1>4, <1>5 DEF CallsPass
<1> QED
  BY <1>6, CallsFollow

LEMMA CrashKeeps == ASSUME IInv, NEW r \in Runners, Crash(r) PROVE IInv'
<1>1. /\ run' = [run EXCEPT ![r] = Idle] /\ faults' \in 0 .. MaxFaults
      /\ calls' = Orphaned(r)
      /\ UNCHANGED <<rows, jobs, vault, tombstones, callback>>
  BY FaultIsCounted DEF Crash, Orphaned
<1>2. Moves(r, "idle", NoKey)
  BY <1>1, IdleFacts, AnewMoves DEF IInv
<1>3. /\ calls' \subseteq CallTypes /\ CallSteps' /\ CallOwners' /\ ExchangeCalls'
      /\ \A d \in calls' : d.op = "revoke" => Revoking(d.tx)'
  BY <1>1, <1>2, OrphansFollow, RunnerFacts DEF Moves, rows
<1>4. TypeOK'
  BY <1>1, <1>2, <1>3 DEF IInv, TypeOK, rows, CallTypes, Moves, RunTypes
<1>5. Keys'
  BY <1>1, <1>2 DEF IInv, Keys, KeyOf, Moves, rows
<1>6. Revocations'
  BY <1>1, <1>2, <1>3 DEF IInv, Revocations, Revoking, RevokedIsAcknowledged, Revoked, Target, Moves, rows
<1>7. Credentials'
  BY <1>1, <1>2 DEF IInv, Credentials, Revoking, Target, Moves, rows
<1> QED
  BY <1>1, <1>3, <1>4, <1>5, <1>6, <1>7, RowsSame DEF IInv

LEMMA CallbackCrashKeeps == ASSUME IInv, NEW p \in Pairings, CallbackCrash(p) PROVE IInv'
<1>1. /\ callback' = [callback EXCEPT ![p] = "idle"] /\ faults' \in 0 .. MaxFaults
      /\ calls' = Orphaned(p)
      /\ UNCHANGED <<rows, jobs, vault, tombstones, run>>
  BY FaultIsCounted DEF CallbackCrash, Orphaned
<1>2. /\ callback' \in [Pairings -> CallbackTypes] /\ callback'[p] = "idle"
      /\ \A q \in Pairings : q # p => callback'[q] = callback[q]
  BY <1>1 DEF IInv, TypeOK, CallbackTypes
<1>3. /\ calls' \subseteq CallTypes /\ CallSteps' /\ CallOwners' /\ ExchangeCalls'
      /\ \A d \in calls' : d.op = "revoke" => Revoking(d.tx)'
  BY <1>1, <1>2, OrphansFollow, RunnerFacts DEF rows
<1>4. TypeOK'
  BY <1>1, <1>2, <1>3 DEF IInv, TypeOK, rows, CallTypes, CallbackTypes
<1>5. Keys'
  BY <1>1 DEF IInv, Keys, KeyOf, rows
<1>6. Revocations'
  BY <1>1, <1>3 DEF IInv, Revocations, Revoking, RevokedIsAcknowledged, Revoked, Target, rows
<1>7. Credentials'
  BY <1>1, <1>2 DEF IInv, Credentials, Revoking, Target, rows
<1> QED
  BY <1>1, <1>3, <1>4, <1>5, <1>6, <1>7, RowsSame DEF IInv

-----------------------------------------------------------------------------
(* The invariant holds, and what follows from it.                           *)

LEMMA InitIInv == Init => IInv
<1> SUFFICES ASSUME Init PROVE IInv
  OBVIOUS
<1> USE DEF Init
<1>1. run \in [Runners -> RunTypes] /\ \A r \in Runners : run[r].pc = "idle"
  BY IdleFacts
<1>2. TypeOK
  BY <1>1 DEF TypeOK, RunTypes, PairingStatus, Flow, ExchangeStatus, SagaStatus, ConnectionStatus
<1>3. Binding
  BY RunnerFacts DEF Binding, BindingHasItsSaga, LiveSaga
<1>4. CallSteps /\ CallOwners /\ ExchangeCalls
  BY DEF CallSteps, CallOwners, ExchangeCalls
<1>5. Keys
  BY <1>1 DEF Keys, KeyOf
<1>6. Revocations /\ Credentials
  BY <1>1 DEF Revocations, Credentials, RevokedIsAcknowledged, Revoked, Bound
<1> QED
  BY <1>2, <1>3, <1>4, <1>5, <1>6 DEF IInv

LEMMA NextKeepsIInv == ASSUME IInv, [Next]_vars PROVE IInv'
<1>1. CASE Clock
  BY <1>1, ClockKeeps DEF Clock
<1>2. CASE Owner
  BY <1>2, SignOutKeeps, CloseAccountKeeps, DisconnectKeeps DEF Owner
<1>3. CASE DisconnectStep
  BY <1>3, PickTargetKeeps, DisconnectKeeps DEF DisconnectStep
<1>4. ASSUME NEW p \in Pairings, Request(p) \/ Callback(p) \/ CallbackCrash(p) \/ Janitor(p)
      PROVE  IInv'
  <2>1. CASE Request(p)
    BY <2>1, RequestKeeps
  <2>2. CASE Callback(p)
    BY <2>2, ConcludeKeeps, BeginExchangeKeeps, CompleteKeeps, CompletionRefusedKeeps,
       CallbackRevokesKeeps, CallbackReconcilesKeeps DEF Callback
  <2>3. CASE CallbackCrash(p)
    BY <2>3, CallbackCrashKeeps
  <2>4. CASE Janitor(p)
    BY <2>4, JanitorKeeps
  <2> QED
    BY <1>4, <2>1, <2>2, <2>3, <2>4
<1>5. ASSUME NEW c \in calls, Connector(c) \/ GiveUp(c) \/ CallLost(c)
      PROVE  IInv'
  <2>1. CASE Connector(c)
    BY <2>1, TokenAnswerKeeps, ReadCredentialKeeps, CheckTombstoneKeeps, WriteCredentialKeeps,
       UnlinkKeeps, WriteTombstoneKeeps DEF Connector
  <2>2. CASE GiveUp(c) \/ CallLost(c)
    BY <2>2, GiveUpKeeps, CallLostKeeps
  <2> QED
    BY <1>5, <2>1, <2>2
<1>6. ASSUME NEW r \in Runners, Reconcile(r) \/ Crash(r)
      PROVE  IInv'
  <2>1. CASE Reconcile(r)
    BY <2>1, LoadKeeps, LoadCallsKeep, StageKeeps, AcknowledgeConfirmationKeeps,
       AcknowledgeRevocationKeeps, DoneKeeps, FailedKeeps DEF Reconcile
  <2>2. CASE Crash(r)
    BY <2>2, CrashKeeps
  <2> QED
    BY <1>6, <2>1, <2>2
<1>7. ASSUME NEW w \in Workers, Worker(w)
      PROVE  IInv'
  BY <1>7, HydratedKeeps, HydrationFailsKeeps, ExhaustedKeeps, TakeJobKeeps DEF Worker
<1>8. ASSUME NEW k \in JobKey, JobRemoved(k)
      PROVE  IInv'
  BY <1>8, JobRemovedKeeps
<1>9. CASE UNCHANGED vars
  <2>1. /\ UNCHANGED <<rows, connector, callback, run>>
        /\ jobs' \subseteq JobKey /\ faults' \in 0 .. MaxFaults
    BY <1>9 DEF vars, IInv, TypeOK
  <2> QED
    BY <2>1, JobsKeep
<1> QED
  BY <1>1, <1>2, <1>3, <1>4, <1>5, <1>6, <1>7, <1>8, <1>9 DEF Next

\* The invariant holds in every state of every behaviour.
THEOREM Invariance == Spec => []IInv
<1>1. IInv /\ [Next]_vars => IInv'
  BY NextKeepsIInv
<1> QED
  BY <1>1, InitIInv, PTL DEF Spec

\* Every variable keeps its type.
THEOREM TypeCorrect == Spec => []TypeOK
<1>1. IInv => TypeOK
  BY DEF IInv
<1> QED
  BY <1>1, Invariance, PTL

\* The connection row is bound exactly while the one saga that owns the binding
\* awaits or has confirmation, and a pairing that ended binds nothing, whatever
\* completions, confirmations, cancellations and revocations cross.
THEOREM BindingOwned == Spec => []BindingHasItsSaga
<1>1. IInv => BindingHasItsSaga
  BY DEF IInv, Binding
<1> QED
  BY <1>1, Invariance, PTL

\* At most one authorization of the owner is live: two callbacks that complete
\* side by side never both begin a saga.
THEOREM OneAuthorization == Spec => []OneLiveAuthorization
<1>1. IInv => OneLiveAuthorization
  <2> SUFFICES ASSUME IInv PROVE Cardinality({p \in Pairings : LiveSaga(p)}) <= 1
    BY DEF OneLiveAuthorization
  <2> DEFINE live == {p \in Pairings : LiveSaga(p)}
  <2>1. \A p, q \in live : p = q
    BY DEF IInv, Binding
  <2>2. live = {} \/ \E p \in live : live = {p}
    BY <2>1
  <2> HIDE DEF live
  <2>3. CASE live = {}
    BY <2>3, FS_EmptySet DEF live
  <2>4. CASE \E p \in live : live = {p}
    <3>1. PICK p \in live : live = {p}
      BY <2>4
    <3>2. Cardinality({p}) = 1
      BY FS_Singleton
    <3> QED
      BY <3>1, <3>2 DEF live
  <2> QED
    BY <2>2, <2>3, <2>4
<1> QED
  BY <1>1, Invariance, PTL

LEMMA GoesOn ==
    ASSUME TypeOK, NEW c \in calls, NEW step, Goes(c, step)
    PROVE  \A d \in calls' : d \in calls \/ (d.tx = c.tx /\ d.step = step)
<1>1. [c EXCEPT !.step = step].tx = c.tx /\ [c EXCEPT !.step = step].step = step
  BY DEF TypeOK
<1> QED
  BY <1>1 DEF Goes

\* A step that leaves the connector alone, or moves its calls without a write.
LEMMA RevokedStep ==
    ASSUME IInv, Next, NEW p \in Pairings, Revoked(p), ~Writing(p)
    PROVE  /\ \A d \in calls' : d.tx = p => d.step # "write"
           /\ vault'[p] \in {vault[p], "none"}
<1>1. /\ p \in tombstones /\ \A c \in calls : c.tx = p => c.step # "write"
      /\ vault \in [Pairings -> {"none", "provisional", "confirmed"}]
  BY DEF IInv, TypeOK, Revocations, RevokedIsAcknowledged, Writing
<1>2. CASE UNCHANGED <<calls, vault>>
  BY <1>1, <1>2
<1>3. ASSUME NEW c \in calls, Connector(c)
      PROVE  /\ \A d \in calls' : d.tx = p => d.step # "write"
             /\ vault'[p] \in {vault[p], "none"}
  <2>1. CASE TokenAnswer(c)
    <3>1. vault' = vault /\ \A d \in calls' : d \in calls \/ d.step = "check"
      BY <2>1, GoesOn DEF TokenAnswer, Answer, IInv
    <3> QED
      BY <1>1, <3>1
  <2>2. CASE ReadCredential(c)
    <3>1. vault' = vault /\ \A d \in calls' : d \in calls \/ d.step = "check"
      BY <2>2, GoesOn DEF ReadCredential, Answer, IInv
    <3> QED
      BY <1>1, <3>1
  <2>3. CASE CheckTombstone(c)
    <3>1. vault' = vault /\ \A d \in calls' : d \in calls \/ (d.tx = c.tx /\ c.tx \notin tombstones)
      BY <2>3, GoesOn DEF CheckTombstone, Answer, IInv
    <3> QED
      BY <1>1, <3>1
  <2>4. CASE WriteCredential(c)
    <3>1. c.tx # p /\ calls' \subseteq calls
      BY <1>1, <2>4 DEF WriteCredential, Answer
    <3>2. vault'[p] = vault[p]
      BY <1>1, <2>4, <3>1 DEF WriteCredential
    <3> QED
      BY <1>1, <3>1, <3>2
  <2>5. CASE Unlink(c)
    <3>1. \A d \in calls' : d \in calls \/ d.step = "tombstone"
      BY <2>5, GoesOn DEF Unlink, IInv
    <3>2. vault'[p] \in {vault[p], "none"}
      BY <1>1, <2>5 DEF Unlink
    <3> QED
      BY <1>1, <3>1, <3>2
  <2>6. CASE WriteTombstone(c)
    <3>1. vault' = vault /\ calls' \subseteq calls
      BY <2>6 DEF WriteTombstone, Answer
    <3> QED
      BY <1>1, <3>1
  <2> QED
    BY <1>3, <2>1, <2>2, <2>3, <2>4, <2>5, <2>6 DEF Connector
<1>4. ASSUME vault' = vault, \A d \in calls' : \E c \in calls : d.tx = c.tx /\ d.step = c.step
      PROVE  /\ \A d \in calls' : d.tx = p => d.step # "write"
             /\ vault'[p] \in {vault[p], "none"}
  BY <1>1, <1>4
<1>14. ASSUME NEW c \in calls
       PROVE  /\ [c EXCEPT !.by = NoPairing].tx = c.tx
              /\ [c EXCEPT !.by = NoPairing].step = c.step
  BY DEF IInv, TypeOK
<1>5. ASSUME NEW c \in calls, GiveUp(c) \/ CallLost(c)
      PROVE  vault' = vault /\ \A d \in calls' : \E e \in calls : d.tx = e.tx /\ d.step = e.step
  <2>1. CASE GiveUp(c)
    BY <2>1, <1>14 DEF GiveUp
  <2>2. CASE CallLost(c)
    BY <2>2 DEF CallLost, Answer
  <2> QED
    BY <1>5, <2>1, <2>2
<1>6. ASSUME NEW r \in Runners, Crash(r)
      PROVE  vault' = vault /\ \A d \in calls' : \E e \in calls : d.tx = e.tx /\ d.step = e.step
  BY <1>6, <1>14 DEF Crash
<1>7. ASSUME NEW q \in Pairings, CallbackCrash(q)
      PROVE  vault' = vault /\ \A d \in calls' : \E e \in calls : d.tx = e.tx /\ d.step = e.step
  BY <1>7, <1>14 DEF CallbackCrash
<1>8. ASSUME vault' = vault,
             \A d \in calls' : d \in calls \/ d.step \in {"token", "read", "unlink"}
      PROVE  /\ \A d \in calls' : d.tx = p => d.step # "write"
             /\ vault'[p] \in {vault[p], "none"}
  BY <1>1, <1>8
<1>9. ASSUME NEW q \in Pairings, Callback(q)
      PROVE  /\ \A d \in calls' : d.tx = p => d.step # "write"
             /\ vault'[p] \in {vault[p], "none"}
  <2>1. CASE BeginExchange(q)
    BY <1>8, <2>1 DEF BeginExchange
  <2> QED
    BY <1>2, <1>9, <2>1 DEF Callback, Conclude, PairingOnly, Complete, CompletionRefused, CallbackRevokes,
                            CallbackReconciles, connector
<1>10. ASSUME NEW r \in Runners, Reconcile(r)
       PROVE  /\ \A d \in calls' : d.tx = p => d.step # "write"
              /\ vault'[p] \in {vault[p], "none"}
  <2>1. CASE LoadConfirm(r) \/ LoadRevoke(r)
    BY <1>8, <2>1 DEF LoadConfirm, LoadRevoke, CallConnector, Call
  <2> QED
    BY <1>2, <1>10, <2>1 DEF Reconcile, LoadSettled, LoadOverdue, LoadNotDue, RunOnly, Stage,
                             AcknowledgeConfirmation, AcknowledgeRevocation, Done, Failed, connector
<1>11. ASSUME NEW w \in Workers, Worker(w)
       PROVE  UNCHANGED <<calls, vault>>
  BY <1>11 DEF Worker, Hydrated, HydrationFails, Exhausted, TakeJob, RunOnly, connector
<1>12. ASSUME NEW q \in Pairings, Request(q) \/ Janitor(q)
       PROVE  UNCHANGED <<calls, vault>>
  BY <1>12 DEF Request, Create, Claim, Expire, Cancel, BeginMobileAuthorization,
               AbandonMobileAuthorization, TakeSecrets, PairingOnly, Janitor, connector
<1>13. ASSUME Clock \/ Owner \/ DisconnectStep \/ \E k \in JobKey : JobRemoved(k)
       PROVE  UNCHANGED <<calls, vault>>
  BY <1>13 DEF Clock, CleanupFallsDue, DeadlinePasses, Owner, SignOut, CloseAccount, Disconnect,
               DisconnectStep, PickTarget, Disconnected, DisconnectGivesUp, RunOnly, JobRemoved, connector
<1> QED
  BY <1>2, <1>3, <1>4, <1>5, <1>6, <1>7, <1>9, <1>10, <1>11, <1>12, <1>13 DEF Next

\* Once a row says "revoked", however many callers gave up, crashed or tried again,
\* no further call of that authorization comes to write its credential, and none
\* writes it but one that had passed its tombstone check before.
THEOREM RevokedIsFinal == Spec => RevokedStaysRevoked
<1>1. ASSUME IInv, [Next]_vars
      PROVE  [\A p \in Pairings : Revoked(p) /\ ~Writing(p) =>
                ~Writing(p)' /\ vault'[p] \in {vault[p], "none"}]_vars
  <2>1. ASSUME Next, NEW p \in Pairings, Revoked(p), ~Writing(p)
        PROVE  ~Writing(p)' /\ vault'[p] \in {vault[p], "none"}
    BY <2>1, <1>1, RevokedStep DEF Writing
  <2> QED
    BY <1>1, <2>1
<1> QED
  BY <1>1, Invariance, PTL DEF Spec, RevokedStaysRevoked

\* No cleanup that runs late, whoever asked for it, takes the credential of a
\* binding that is still in use.
THEOREM CredentialKept == Spec => []LiveBindingKeepsCredential
<1>1. IInv => LiveBindingKeepsCredential
  <2> SUFFICES ASSUME IInv, NEW p \in Pairings, connection.holder = p
               PROVE  /\ p \notin tombstones
                      /\ vault[p] # "none"
                      /\ connection.confirmed => vault[p] = "confirmed"
    BY DEF LiveBindingKeepsCredential
  <2>1. saga[p] \in Bound
    BY HolderFacts
  <2>2. p \notin tombstones
    BY <2>1, BoundIsNotRevoking DEF IInv, Revocations, Bound, Taken
  <2>3. connection.confirmed => saga[p] = "confirmed"
    <3>1. \A q \in Pairings : saga[q] = "confirmed" => connection.holder = q
      BY DEF IInv, Binding, BindingHasItsSaga
    <3> QED
      BY <3>1 DEF IInv, Binding, BindingHasItsSaga
  <2> QED
    BY <2>1, <2>2, <2>3 DEF IInv, Credentials
<1> QED
  BY <1>1, Invariance, PTL

\* When a disconnect finds nothing left to revoke, the revocation of every
\* authorization that was ever begun is acknowledged, in its row and by a tombstone,
\* however many began while the request ran.
THEOREM DisconnectRevokedAll == Spec => DisconnectedMeansRevoked
<1>1. IInv /\ [Next]_vars =>
         [Disconnected =>
            \A p \in Pairings : attempt[p] # "none" => Revoked(p) /\ p \in tombstones]_vars
  <2> SUFFICES ASSUME IInv, Disconnected, NEW p \in Pairings, attempt[p] # "none"
               PROVE  Revoked(p) /\ p \in tombstones
    OBVIOUS
  <2>1. saga[p] \in {"none", "revoked"}
        /\ attempt[p] \notin {"exchange_pending", "exchange_overdue", "revoke_pending"}
    BY DEF Disconnected, LiveSagas, LiveAttempts, LiveSaga, LiveAttempt
  <2>2. attempt[p] = "completed" => saga[p] = "revoked"
    BY <2>1 DEF IInv, Binding
  <2>3. attempt[p] \in {"completed", "revoked"}
    BY <2>1 DEF IInv, TypeOK, ExchangeStatus
  <2>4. Revoked(p)
    BY <2>2, <2>3 DEF Revoked
  <2> QED
    BY <2>4 DEF IInv, Revocations, RevokedIsAcknowledged
<1> QED
  BY <1>1, Invariance, PTL DEF Spec, DisconnectedMeansRevoked
=============================================================================
