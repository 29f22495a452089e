--------------------------- MODULE ExecutionProofs ---------------------------
(***************************************************************************)
(* Proofs about Execution, for any number of proposals and workers, any    *)
(* quantity and any number of failures.                                    *)
(***************************************************************************)
EXTENDS Execution, TLAPS

-----------------------------------------------------------------------------
(* Types                                                                    *)

PcValue == InHandler \cup {"idle", "succeeding", "failing", "deferring"}

\* The broker's answers are well formed and fill no more than was ordered.
LEMMA SubmissionType ==
    ASSUME NEW s \in Submission
    PROVE  /\ s.status \in {"submitted", "partially_filled", "filled"}
           /\ s.filled \in 0..Quantity
<1>1. ImmediateFill \in 1..Quantity
  <2>1. Quantity \in Nat /\ Quantity >= 1 /\ PartialThreshold \in Nat /\ PartialThreshold >= 1
    BY ConstantsAssumption
  <2>2. Quantity \div 2 \in Nat /\ Quantity \div 2 <= Quantity
    BY <2>1
  <2> QED
    BY <2>1, <2>2 DEF ImmediateFill, PartiallyFills
<1> QED
  BY <1>1, ConstantsAssumption DEF Submission, Resting, Executed

LEMMA InitTypeOK == Init => TypeOK
<1> SUFFICES ASSUME Init PROVE TypeOK
    OBVIOUS
<1>1. budget \in [Hazard -> Nat]
  BY ConstantsAssumption DEF Init
<1>2. /\ initial \in [Proposals -> 0..Quantity]
      /\ reconciled \in [Proposals -> 0..Quantity]
  BY ConstantsAssumption DEF Init
<1>3. persisted \in [Workers -> Aggregate] /\ agg \in [Workers -> Aggregate]
  BY DEF Init, Aggregate, Unread, LateStatus
<1> QED
  BY <1>1, <1>2, <1>3 DEF Init, TypeOK, LateStatus, OrderStatus, ReconStatus, JobStatus

LEMMA CurrentType ==
    ASSUME TypeOK, NEW p \in Proposals PROVE Current(p) \in Aggregate
BY DEF TypeOK, Current, Aggregate

LEMMA SpendType ==
    ASSUME TypeOK, NEW hazard \in Hazard, Spend(hazard)
    PROVE  budget' \in [Hazard -> Nat]
BY DEF TypeOK, Spend

\* Ending a call gives its variables well-typed values.
LEMMA EndCallType ==
    ASSUME TypeOK, NEW w \in Workers, EndCall(w)
    PROVE  /\ pc' \in [Workers -> PcValue]
           /\ task' \in [Workers -> Job \cup {NoJob}]
           /\ late' \in [Workers -> BOOLEAN]
           /\ persisted' \in [Workers -> Aggregate]
           /\ agg' \in [Workers -> Aggregate]
           /\ sub' \in [Workers -> Submission \cup {NoSubmission}]
BY DEF TypeOK, EndCall, PcValue, Unread, Aggregate, LateStatus

LEMMA MoveType ==
    ASSUME TypeOK, NEW p \in Proposals, NEW to \in LateStatus, Move(p, to)
    PROVE  status' \in [Proposals -> LateStatus] /\ version' \in [Proposals -> Nat]
BY DEF TypeOK, Move

\* A worker that is not idle has a job.
HasTask == \A w \in Workers : pc[w] # "idle" => task[w] \in Job

LEMMA TaskProposal ==
    ASSUME HasTask, NEW w \in Workers, pc[w] # "idle"
    PROVE  ProposalOf(w) \in Proposals
BY DEF HasTask, ProposalOf, Job

LEMMA NextHasTask == TypeOK /\ HasTask /\ [Next]_vars => HasTask'
<1> SUFFICES ASSUME TypeOK, HasTask, [Next]_vars PROVE HasTask'
    OBVIOUS
<1>1. ASSUME NEW w \in Workers, NEW j \in Job, Claim(w, j) PROVE HasTask'
  BY <1>1 DEF Claim, HasTask, TypeOK
<1>2. ASSUME NEW w \in Workers, EndCall(w) PROVE HasTask'
  BY <1>2 DEF EndCall, HasTask, TypeOK
<1>3. ASSUME NEW w \in Workers, pc[w] # "idle", NEW s, Goto(w, s), UNCHANGED task
      PROVE  HasTask'
  BY <1>3 DEF Goto, HasTask, TypeOK
<1>4. ASSUME UNCHANGED <<pc, task>> PROVE HasTask'
  BY <1>4 DEF HasTask
<1>5. ASSUME NEW p \in Proposals, UserStep(p) \/ Expire(p) \/ Poll(p) PROVE HasTask'
  BY <1>5, <1>4 DEF UserStep, Expire, Poll, Approve, ExpireUnapproved, Reject, CancelOrder,
     PollClaim, PollEnqueue
<1>6. CASE Pause \/ Resume
  BY <1>6, <1>4 DEF Pause, Resume
<1>7. ASSUME NEW w \in Workers, SubmitStep(w) PROVE HasTask'
  BY <1>7, <1>3 DEF SubmitStep, CaptureNow, ReadProposal, LoadAuthorized, AssessRisk,
     RecoverFound, RecoverNotFound, BeginSubmission, ExpireStale, RecordPlacementAttempt,
     Place, MarkAmbiguous, ApplySubmission, PersistOutcome, StoreTransition
<1>8. ASSUME NEW w \in Workers, ReconcileStep(w) PROVE HasTask'
  BY <1>8, <1>3 DEF ReconcileStep, ReconcileUnfillable, ReconcileFills
<1>9. ASSUME NEW w \in Workers, Settle(w) PROVE HasTask'
  BY <1>9, <1>2 DEF Settle
<1>10. ASSUME NEW w \in Workers, Trouble(w) PROVE HasTask'
  BY <1>10, <1>2, <1>3, <1>4 DEF Trouble, HandlerThrows, PlaceThrows, FindStale, NeedQuote,
     ReconcileDeferred, Lapse, Crash, InHandler
<1>11. CASE UNCHANGED vars
  BY <1>11, <1>4 DEF vars
<1> QED
  BY <1>1, <1>5, <1>6, <1>7, <1>8, <1>9, <1>10, <1>11 DEF Next

\* A worker that applies or persists an outcome has one.
HasSubmission ==
    \A w \in Workers : pc[w] \in {"applying", "persisting"} => sub[w] \in Submission

LEMMA NextHasSubmission ==
    TypeOK /\ HasTask /\ HasSubmission /\ [Next]_vars => HasSubmission'
<1> SUFFICES ASSUME TypeOK, HasTask, HasSubmission, [Next]_vars PROVE HasSubmission'
    OBVIOUS
<1>1. ASSUME NEW w \in Workers, NEW j \in Job, Claim(w, j) PROVE HasSubmission'
  BY <1>1 DEF Claim, HasSubmission, TypeOK, localVars
<1>2. ASSUME NEW w \in Workers, EndCall(w) PROVE HasSubmission'
  BY <1>2 DEF EndCall, HasSubmission, TypeOK
<1>3. ASSUME NEW w \in Workers, NEW s, Goto(w, s), UNCHANGED sub,
             s \in {"applying", "persisting"} => pc[w] = "applying"
      PROVE  HasSubmission'
  BY <1>3 DEF Goto, HasSubmission, TypeOK
<1>4. ASSUME UNCHANGED <<pc, sub>> PROVE HasSubmission'
  BY <1>4 DEF HasSubmission
<1>5. ASSUME NEW p \in Proposals, UserStep(p) \/ Expire(p) \/ Poll(p) PROVE HasSubmission'
  BY <1>5, <1>4 DEF UserStep, Expire, Poll, Approve, ExpireUnapproved, Reject, CancelOrder,
     PollClaim, PollEnqueue, localVars
<1>6. CASE Pause \/ Resume
  BY <1>6, <1>4 DEF Pause, Resume, localVars
<1>7. ASSUME NEW w \in Workers, SubmitStep(w) PROVE HasSubmission'
  <2>1. ASSUME NEW s \in Submission, Remember(w, s), Goto(w, "applying")
        PROVE  HasSubmission'
    BY <2>1 DEF Remember, Goto, HasSubmission, TypeOK
  <2>2. CASE RecoverFound(w) \/ Place(w)
    BY <2>2, <2>1 DEF RecoverFound, Place
  <2>3. CASE \/ CaptureNow(w) \/ ReadProposal(w) \/ LoadAuthorized(w) \/ AssessRisk(w)
             \/ RecoverNotFound(w) \/ ExpireStale(w) \/ RecordPlacementAttempt(w)
    BY <2>3, <1>3 DEF CaptureNow, ReadProposal, LoadAuthorized, AssessRisk,
       RecoverNotFound, ExpireStale, RecordPlacementAttempt, localVars
  <2>4. CASE BeginSubmission(w) \/ MarkAmbiguous(w) \/ ApplySubmission(w)
    BY <2>4, <1>3 DEF BeginSubmission, MarkAmbiguous, ApplySubmission, StoreTransition,
       localVars
  <2>5. CASE PersistOutcome(w)
    BY <2>5, <1>3 DEF PersistOutcome, localVars
  <2> QED
    BY <1>7, <2>2, <2>3, <2>4, <2>5 DEF SubmitStep
<1>8. ASSUME NEW w \in Workers, ReconcileStep(w) PROVE HasSubmission'
  BY <1>8, <1>3 DEF ReconcileStep, ReconcileUnfillable, ReconcileFills, localVars
<1>9. ASSUME NEW w \in Workers, Settle(w) PROVE HasSubmission'
  BY <1>9, <1>2 DEF Settle
<1>10. ASSUME NEW w \in Workers, Trouble(w) PROVE HasSubmission'
  BY <1>10, <1>2, <1>3, <1>4 DEF Trouble, HandlerThrows, PlaceThrows, FindStale, NeedQuote,
     ReconcileDeferred, Lapse, Crash, localVars
<1>11. CASE UNCHANGED vars
  BY <1>11, <1>4 DEF vars, localVars
<1> QED
  BY <1>1, <1>5, <1>6, <1>7, <1>8, <1>9, <1>10, <1>11 DEF Next

Typed == TypeOK /\ HasTask /\ HasSubmission

\* A transition through the store, whether it is accepted or not.
LEMMA StoreTransitionType ==
    ASSUME Typed, NEW w \in Workers, pc[w] # "idle",
           NEW to \in LateStatus, NEW next \in PcValue, StoreTransition(w, to, next)
    PROVE  TypeOK'
<1>1. ProposalOf(w) \in Proposals
  BY TaskProposal DEF Typed
<1>2. /\ status' \in [Proposals -> LateStatus]
      /\ version' \in [Proposals -> Nat]
  BY <1>1, MoveType DEF StoreTransition, Typed, TypeOK
<1>3. agg' \in [Workers -> Aggregate]
  <2>1. agg \in [Workers -> Aggregate] /\ agg[w].version \in Nat
    BY DEF Typed, TypeOK, Aggregate
  <2>2. [status |-> to, version |-> agg[w].version + 1] \in Aggregate
    BY <2>1 DEF Aggregate
  <2> QED
    BY <2>1, <2>2 DEF StoreTransition
<1>4. pc' \in [Workers -> PcValue]
  BY DEF StoreTransition, Goto, Typed, TypeOK, PcValue
<1> QED
  BY <1>2, <1>3, <1>4 DEF StoreTransition, Typed, TypeOK, PcValue, queueVars, envVars,
     brokerVars

LEMMA UserStepType ==
    ASSUME TypeOK, NEW p \in Proposals, UserStep(p) PROVE TypeOK'
<1> USE DEF queueVars, envVars, localVars, brokerVars
<1>1. CASE Approve(p)
  <2>1. status' \in [Proposals -> LateStatus] /\ version' \in [Proposals -> Nat]
    BY <1>1, MoveType DEF Approve, LateStatus
  <2>2. job' \in [Job -> JobStatus]
    BY <1>1 DEF Approve, EnqueueJob, TypeOK, JobStatus
  <2> QED
    BY <1>1, <2>1, <2>2 DEF Approve, TypeOK
<1>2. CASE ExpireUnapproved(p)
  <2>1. status' \in [Proposals -> LateStatus] /\ version' \in [Proposals -> Nat]
    BY <1>2, MoveType DEF ExpireUnapproved, LateStatus
  <2> QED
    BY <1>2, <2>1 DEF ExpireUnapproved, TypeOK
<1>3. CASE Reject(p)
  <2>1. status' \in [Proposals -> LateStatus] /\ version' \in [Proposals -> Nat]
    BY <1>3, MoveType DEF Reject, LateStatus
  <2> QED
    BY <1>3, <2>1 DEF Reject, TypeOK
<1>4. CASE CancelOrder(p)
  <2>1. status' \in [Proposals -> LateStatus] /\ version' \in [Proposals -> Nat]
    BY <1>4, MoveType DEF CancelOrder, LateStatus
  <2>2. job' \in [Job -> JobStatus]
    BY <1>4 DEF CancelOrder, DeadLetterWaiting, TypeOK, JobStatus
  <2>3. /\ order' \in [Proposals -> OrderStatus]
        /\ recon' \in [Proposals -> ReconStatus]
        /\ released' \in [Proposals -> BOOLEAN]
    BY <1>4 DEF CancelOrder, TypeOK, OrderStatus, ReconStatus
  <2> QED
    BY <1>4, <2>1, <2>2, <2>3 DEF CancelOrder, TypeOK
<1> QED
  BY <1>1, <1>2, <1>3, <1>4 DEF UserStep

LEMMA PauseType == ASSUME TypeOK, Pause \/ Resume PROVE TypeOK'
<1> USE DEF dbVars, queueVars, envVars, localVars, brokerVars
<1>1. CASE Pause
  <2>1. job' \in [Job -> JobStatus]
    BY <1>1 DEF Pause, DeadLetterWaiting, TypeOK, JobStatus
  <2>2. /\ status' \in [Proposals -> LateStatus]
        /\ version' \in [Proposals -> Nat]
        /\ released' \in [Proposals -> BOOLEAN]
    BY <1>1 DEF Pause, TypeOK, LateStatus
  <2> QED
    BY <1>1, <2>1, <2>2 DEF Pause, TypeOK
<1>2. CASE Resume
  BY <1>2 DEF Resume, TypeOK
<1> QED
  BY <1>1, <1>2

LEMMA EnvironmentType ==
    ASSUME TypeOK, NEW p \in Proposals, Expire(p) \/ Poll(p) PROVE TypeOK'
<1> USE DEF dbVars, queueVars, envVars, localVars, brokerVars
<1>1. CASE Expire(p)
  BY <1>1 DEF Expire, TypeOK
<1>2. CASE PollClaim(p)
  BY <1>2 DEF PollClaim, TypeOK, ReconStatus
<1>3. CASE PollEnqueue(p)
  <2>1. job' \in [Job -> JobStatus]
    BY <1>3 DEF PollEnqueue, EnqueueJob, TypeOK, JobStatus
  <2> QED
    BY <1>3, <2>1 DEF PollEnqueue, TypeOK
<1> QED
  BY <1>1, <1>2, <1>3 DEF Poll

LEMMA QueueStepType ==
    ASSUME Typed, NEW w \in Workers,
           (\E j \in Job : Claim(w, j)) \/ Settle(w) \/ Lapse(w) \/ Crash(w)
    PROVE  TypeOK'
<1> USE DEF dbVars, queueVars, envVars, localVars, brokerVars, Typed
<1>1. ASSUME NEW j \in Job, Claim(w, j) PROVE TypeOK'
  <2>1. pc' \in [Workers -> PcValue]
    BY <1>1 DEF Claim, TypeOK, PcValue, InHandler
  <2>2. /\ job' \in [Job -> JobStatus]
        /\ holder' \in [Job -> Workers \cup {NoWorker}]
        /\ task' \in [Workers -> Job \cup {NoJob}]
    BY <1>1 DEF Claim, TypeOK, JobStatus
  <2> QED
    BY <1>1, <2>1, <2>2 DEF Claim, TypeOK, PcValue
<1>2. CASE Settle(w)
  <2>1. EndCall(w) /\ task[w] \in Job
    BY <1>2 DEF Settle, HasTask
  <2>2. SettledStatus(task[w], pc[w]) \in JobStatus
    BY Zenon DEF SettledStatus, JobStatus
  <2>3. /\ job' \in [Job -> JobStatus]
        /\ holder' \in [Job -> Workers \cup {NoWorker}]
        /\ attempts' \in [Job -> Nat]
    <3>1. CASE holder[task[w]] = w
      <4>1. /\ job' = [job EXCEPT ![task[w]] = SettledStatus(task[w], pc[w])]
            /\ holder' = [holder EXCEPT ![task[w]] = NoWorker]
            /\ attempts' = IF pc[w] = "failing"
                           THEN [attempts EXCEPT ![task[w]] = @ + 1] ELSE attempts
        BY <1>2, <3>1 DEF Settle
      <4> QED
        BY <2>1, <2>2, <4>1 DEF TypeOK
    <3>2. CASE holder[task[w]] # w
      BY <1>2, <3>2 DEF Settle, TypeOK
    <3> QED
      BY <3>1, <3>2
  <2> QED
    BY <1>2, <2>1, <2>3, EndCallType DEF Settle, TypeOK, PcValue
<1>3. CASE Lapse(w)
  <2>1. budget' \in [Hazard -> Nat]
    BY <1>3, SpendType DEF Lapse, Hazard
  <2>2. holder' \in [Job -> Workers \cup {NoWorker}]
    BY <1>3 DEF Lapse, TypeOK
  <2> QED
    BY <1>3, <2>1, <2>2 DEF Lapse, TypeOK
<1>4. CASE Crash(w)
  <2>1. budget' \in [Hazard -> Nat]
    BY <1>4, SpendType DEF Crash, Hazard
  <2>2. /\ holder' \in [Job -> Workers \cup {NoWorker}]
        /\ memory' \in [Workers -> [Proposals -> Submission \cup {NoSubmission}]]
    BY <1>4 DEF Crash, TypeOK
  <2>3. EndCall(w)
    BY <1>4 DEF Crash
  <2> QED
    BY <1>4, <2>1, <2>2, <2>3, EndCallType DEF Crash, TypeOK, PcValue
<1> QED
  BY <1>1, <1>2, <1>3, <1>4

LEMMA SubmitStepType ==
    ASSUME Typed, NEW w \in Workers, SubmitStep(w) PROVE TypeOK'
<1> USE DEF dbVars, queueVars, envVars, localVars, brokerVars, Typed
<1>p. ASSUME pc[w] # "idle" PROVE ProposalOf(w) \in Proposals /\ Current(ProposalOf(w)) \in Aggregate
  BY <1>p, TaskProposal, CurrentType
<1>g. ASSUME NEW s \in PcValue, Goto(w, s) PROVE pc' \in [Workers -> PcValue]
  BY <1>g DEF Goto, TypeOK, PcValue
<1>1. CASE CaptureNow(w)
  <2>1. late' \in [Workers -> BOOLEAN]
    BY <1>1, <1>p DEF CaptureNow, TypeOK
  <2> QED
    BY <1>1, <2>1 DEF CaptureNow, Goto, TypeOK, InHandler
<1>2. CASE ReadProposal(w)
  <2>1. persisted' \in [Workers -> Aggregate]
    BY <1>2, <1>p DEF ReadProposal, TypeOK
  <2> QED
    BY <1>2, <2>1 DEF ReadProposal, Goto, TypeOK, InHandler
<1>3. CASE LoadAuthorized(w)
  <2>1. agg' \in [Workers -> Aggregate] /\ pc' \in [Workers -> PcValue]
    BY <1>3, <1>p, <1>g DEF LoadAuthorized, TypeOK, PcValue, InHandler
  <2> QED
    BY <1>3, <2>1 DEF LoadAuthorized, TypeOK, PcValue
<1>4. CASE AssessRisk(w)
  BY <1>4 DEF AssessRisk, Goto, TypeOK, InHandler
<1>5. CASE RecoverFound(w) \/ Place(w)
  <2>1. PICK s \in Submission : Remember(w, s)
    BY <1>5 DEF RecoverFound, Place
  <2>2. /\ memory' \in [Workers -> [Proposals -> Submission \cup {NoSubmission}]]
        /\ placed' \in [Proposals -> BOOLEAN]
        /\ sub' \in [Workers -> Submission \cup {NoSubmission}]
    BY <2>1 DEF Remember, TypeOK
  <2>3. pc' \in [Workers -> PcValue]
    BY <1>5, <1>g DEF RecoverFound, Place, PcValue, InHandler
  <2> QED
    BY <1>5, <2>2, <2>3 DEF RecoverFound, Place, TypeOK, PcValue
<1>6. CASE RecoverNotFound(w)
  BY <1>6 DEF RecoverNotFound, Goto, TypeOK, InHandler
<1>7. CASE BeginSubmission(w)
  BY <1>7, StoreTransitionType DEF BeginSubmission, LateStatus, PcValue, InHandler
<1>8. CASE ExpireStale(w)
  <2>1. /\ status' \in [Proposals -> LateStatus]
        /\ version' \in [Proposals -> Nat]
    BY <1>8, <1>p, MoveType DEF ExpireStale, TypeOK, LateStatus
  <2>2. pc' \in [Workers -> PcValue]
    BY <1>8, <1>g DEF ExpireStale, PcValue
  <2> QED
    BY <1>8, <2>1, <2>2 DEF ExpireStale, TypeOK, PcValue
<1>9. CASE RecordPlacementAttempt(w)
  <2>1. order' \in [Proposals -> OrderStatus]
    BY <1>9 DEF RecordPlacementAttempt, TypeOK, OrderStatus
  <2>2. pc' \in [Workers -> PcValue]
    BY <1>9, <1>g DEF RecordPlacementAttempt, PcValue, InHandler
  <2> QED
    BY <1>9, <2>1, <2>2 DEF RecordPlacementAttempt, TypeOK, PcValue
<1>10. CASE MarkAmbiguous(w)
  BY <1>10, StoreTransitionType DEF MarkAmbiguous, LateStatus, PcValue
<1>11. CASE ApplySubmission(w)
  <2> DEFINE to == NextStatus(agg[w].status, sub[w].status)
  <2>1. ASSUME to # agg[w].status PROVE to \in LateStatus
    BY <2>1, Zenon DEF NextStatus, LateStatus
  <2>2. CASE to # agg[w].status /\ ~Regresses(agg[w].status, sub[w].status)
    <3>1. StoreTransition(w, to, "applying") /\ pc[w] # "idle"
      BY <1>11, <2>2 DEF ApplySubmission
    <3> QED
      BY <2>1, <2>2, <3>1, StoreTransitionType DEF PcValue, InHandler
  <2>3. CASE ~(to # agg[w].status /\ ~Regresses(agg[w].status, sub[w].status))
    BY <1>11, <2>3 DEF ApplySubmission, Goto, TypeOK, InHandler
  <2> QED
    BY <2>2, <2>3
<1>12. CASE PersistOutcome(w)
  <2>1. PICK s : s = sub[w] /\ s \in Submission
    BY <1>12 DEF PersistOutcome, HasSubmission
  <2>2. s.status \in OrderStatus /\ s.filled \in 0..Quantity
    BY <2>1, SubmissionType DEF OrderStatus
  <2>3. /\ order' \in [Proposals -> OrderStatus] /\ initial' \in [Proposals -> 0..Quantity]
        /\ recon' \in [Proposals -> ReconStatus]
    <3> DEFINE p == ProposalOf(w)
               amount == IF initial[p] = 0 THEN s.filled ELSE initial[p]
               row == IF NeedsReconciliation(s) /\ recon[p] = "none" THEN "queued" ELSE recon[p]
    <3>1. /\ order \in [Proposals -> OrderStatus] /\ initial \in [Proposals -> 0..Quantity]
          /\ recon \in [Proposals -> ReconStatus]
      BY DEF TypeOK
    <3>2. \/ /\ order' = [order EXCEPT ![p] = s.status] /\ initial' = [initial EXCEPT ![p] = amount]
             /\ recon' = [recon EXCEPT ![p] = row]
          \/ UNCHANGED <<order, initial, recon>>
      BY <1>12, <2>1 DEF PersistOutcome
    <3>3. initial[p] \in 0..Quantity /\ recon[p] \in ReconStatus
      <4>1. p \in Proposals
        BY <1>12, <1>p DEF PersistOutcome
      <4> HIDE DEF p
      <4>2. initial[p] \in 0..Quantity
        BY <3>1, <4>1
      <4>3. recon[p] \in ReconStatus
        BY <3>1, <4>1
      <4> QED
        BY <4>2, <4>3
    <3>4. amount \in 0..Quantity /\ row \in ReconStatus
      BY <2>2, <3>3 DEF ReconStatus
    <3> HIDE DEF p, amount, row
    <3> QED
      BY <2>2, <3>1, <3>2, <3>4
  <2>5. pc' \in [Workers -> PcValue]
    BY <1>12, <1>g DEF PersistOutcome, PcValue
  <2> QED
    BY <1>12, <2>3, <2>5 DEF PersistOutcome, TypeOK, PcValue
<1> QED
  BY <1>1, <1>2, <1>3, <1>4, <1>5, <1>6, <1>7, <1>8, <1>9, <1>10, <1>11, <1>12
     DEF SubmitStep

LEMMA ReconcileStepType ==
    ASSUME Typed, NEW w \in Workers, ReconcileStep(w) \/ ReconcileDeferred(w)
    PROVE  TypeOK'
<1> USE DEF dbVars, queueVars, envVars, localVars, brokerVars, Typed
<1>p. ProposalOf(w) \in Proposals
  BY TaskProposal DEF ReconcileStep, ReconcileUnfillable, ReconcileFills,
     ReconcileDeferred
<1>1. CASE ReconcileUnfillable(w)
  BY <1>1, <1>p DEF ReconcileUnfillable, Goto, TypeOK, ReconStatus
<1>2. CASE ReconcileDeferred(w)
  <2>1. budget' \in [Hazard -> Nat]
    BY <1>2, SpendType DEF ReconcileDeferred, Hazard
  <2> QED
    BY <1>2, <2>1 DEF ReconcileDeferred, Goto, TypeOK, ReconStatus
<1>3. CASE ReconcileFills(w)
  <2>1. Remaining(ProposalOf(w)) \in 0..Quantity
    BY <1>3, <1>p, ConstantsAssumption DEF ReconcileFills, Reconcilable, Remaining, TypeOK
  <2>2. status' \in [Proposals -> LateStatus] /\ version' \in [Proposals -> Nat]
    BY <1>3, <1>p, MoveType DEF ReconcileFills, LateStatus
  <2>3. /\ reconciled' \in [Proposals -> 0..Quantity]
        /\ order' \in [Proposals -> OrderStatus]
        /\ recon' \in [Proposals -> ReconStatus]
    BY <1>3, <2>1 DEF ReconcileFills, TypeOK, OrderStatus, ReconStatus
  <2> QED
    BY <1>3, <2>2, <2>3 DEF ReconcileFills, Goto, TypeOK
<1> QED
  BY <1>1, <1>2, <1>3 DEF ReconcileStep

LEMMA TroubleType ==
    ASSUME Typed, NEW w \in Workers,
           HandlerThrows(w) \/ PlaceThrows(w) \/ FindStale(w) \/ NeedQuote(w)
    PROVE  TypeOK'
<1> USE DEF dbVars, queueVars, envVars, localVars, brokerVars, Typed
<1>1. budget' \in [Hazard -> Nat]
  <2>1. budget' = budget \/ Spend("throw") \/ Spend("defer")
    BY DEF HandlerThrows, PlaceThrows, FindStale, NeedQuote
  <2> QED
    BY <2>1, SpendType DEF Hazard, TypeOK
<1>2. pc' \in [Workers -> PcValue]
  <2>1. \/ Goto(w, "failing") \/ Goto(w, "marking") \/ Goto(w, "expiring") \/ Goto(w, "deferring")
    BY DEF HandlerThrows, PlaceThrows, FindStale, NeedQuote
  <2>2. pc \in [Workers -> PcValue]
    BY DEF TypeOK, PcValue
  <2> QED
    BY <2>1, <2>2 DEF Goto, PcValue, InHandler
<1> QED
  BY <1>1, <1>2 DEF HandlerThrows, PlaceThrows, FindStale, NeedQuote, TypeOK, PcValue

LEMMA NextTyped == Typed /\ [Next]_vars => Typed'
<1> SUFFICES ASSUME Typed, [Next]_vars PROVE TypeOK'
    BY NextHasTask, NextHasSubmission DEF Typed
<1>1. ASSUME NEW w \in Workers, Trouble(w) PROVE TypeOK'
  BY <1>1, TroubleType, ReconcileStepType, QueueStepType DEF Trouble
<1>2. ASSUME NEW p \in Proposals, UserStep(p) \/ Expire(p) \/ Poll(p) PROVE TypeOK'
  BY <1>2, UserStepType, EnvironmentType DEF Typed
<1>3. CASE Pause \/ Resume
  BY <1>3, PauseType DEF Typed
<1>4. CASE UNCHANGED vars
  BY <1>4 DEF vars, dbVars, queueVars, envVars, localVars, brokerVars, Typed, TypeOK
<1> QED
  BY <1>1, <1>2, <1>3, <1>4, SubmitStepType, ReconcileStepType, QueueStepType DEF Next

\* Every variable keeps its type, and the broker's answer that a handler applies
\* and persists is always one the broker gave.
THEOREM TypeCorrect == Spec => []TypeOK
<1>1. Init => Typed
  BY InitTypeOK DEF Init, Typed, HasTask, HasSubmission
<1>2. Typed => TypeOK
  BY DEF Typed
<1> QED
  BY <1>1, <1>2, NextTyped, PTL DEF Spec

-----------------------------------------------------------------------------
(* The receipt comes first                                                  *)

\* The statuses a proposal has once the broker may hold its order.
Working == {"SUBMITTED", "PARTIALLY_FILLED", "FILLED", "RECONCILIATION_ERROR"}

\* No step removes an order row.
LEMMA OrderStays ==
    ASSUME Typed, [Next]_vars, NEW p \in Proposals, order[p] # "none"
    PROVE  order'[p] # "none"
<1> USE DEF dbVars, queueVars, envVars, localVars, brokerVars
<1>1. CASE UNCHANGED order
  BY <1>1
<1>2. ASSUME NEW q \in Proposals, CancelOrder(q) PROVE order'[p] # "none"
  BY <1>2 DEF CancelOrder, Typed, TypeOK
<1>3. ASSUME NEW w \in Workers, RecordPlacementAttempt(w) PROVE order'[p] # "none"
  BY <1>3 DEF RecordPlacementAttempt, Typed, TypeOK
<1>4. ASSUME NEW w \in Workers, PersistOutcome(w) PROVE order'[p] # "none"
  <2>1. sub[w].status # "none"
    BY <1>4, SubmissionType DEF PersistOutcome, Typed, HasSubmission
  <2> QED
    BY <1>4, <2>1 DEF PersistOutcome, Typed, TypeOK
<1>5. ASSUME NEW w \in Workers, ReconcileFills(w) PROVE order'[p] # "none"
  BY <1>5 DEF ReconcileFills, Typed, TypeOK
<1>6. ASSUME NEW q \in Proposals, UserStep(q) \/ Expire(q) \/ Poll(q)
      PROVE  UNCHANGED order \/ CancelOrder(q)
  BY <1>6 DEF UserStep, Expire, Poll, Approve, ExpireUnapproved, Reject, PollClaim,
     PollEnqueue
<1>7. ASSUME Pause \/ Resume \/ UNCHANGED vars PROVE UNCHANGED order
  BY <1>7 DEF Pause, Resume, vars
<1>8. ASSUME NEW w \in Workers, SubmitStep(w)
      PROVE  UNCHANGED order \/ RecordPlacementAttempt(w) \/ PersistOutcome(w)
  BY <1>8 DEF SubmitStep, CaptureNow, ReadProposal, LoadAuthorized, AssessRisk,
     RecoverFound, RecoverNotFound, BeginSubmission, ExpireStale, Place, MarkAmbiguous,
     ApplySubmission, StoreTransition
<1>9. ASSUME NEW w \in Workers, ReconcileStep(w) \/ Settle(w) \/ Trouble(w)
      PROVE  UNCHANGED order \/ ReconcileFills(w)
  BY <1>9 DEF ReconcileStep, ReconcileUnfillable, Settle, Trouble,
     HandlerThrows, PlaceThrows, FindStale, NeedQuote, ReconcileDeferred, Lapse, Crash
<1>10. ASSUME NEW w \in Workers, NEW j \in Job, Claim(w, j) PROVE UNCHANGED order
  BY <1>10 DEF Claim
<1> QED
  BY <1>1, <1>2, <1>3, <1>4, <1>5, <1>6, <1>7, <1>8, <1>9, <1>10 DEF Next

\* What a worker knows of the proposal's order: it is about to place or has
\* placed it, or it read a status no proposal reaches without a receipt.
Committed(w) ==
    \/ pc[w] \in {"placing", "marking", "applying", "persisting"}
    \/ agg[w].status \in Working

WorkersHaveReceipts ==
    \A w \in Workers :
        Committed(w) => pc[w] # "idle" /\ order[ProposalOf(w)] # "none"

ReceiptInv ==
    /\ \A p \in Proposals :
         /\ placed[p] => order[p] # "none"
         /\ status[p] \in Working => order[p] # "none"
         /\ \A w \in Workers : memory[w][p] # NoSubmission => placed[p]
    /\ WorkersHaveReceipts

\* A transition of the store needs the receipt only where it commits to one.
LEMMA StoreKeepsReceipts ==
    ASSUME Typed, ReceiptInv, [Next]_vars, NEW w \in Workers, pc[w] # "idle",
           NEW to \in LateStatus, NEW next \in PcValue \ {"idle"},
           StoreTransition(w, to, next),
           to \in Working \/ next \in {"placing", "marking", "applying", "persisting"}
             => order[ProposalOf(w)] # "none"
    PROVE  ReceiptInv'
<1> USE DEF queueVars, envVars, brokerVars
<1>p. ProposalOf(w) \in Proposals
  BY TaskProposal DEF Typed
<1>1. ASSUME NEW p \in Proposals, status'[p] \in Working PROVE order'[p] # "none"
  BY <1>1, <1>p DEF StoreTransition, Move, ReceiptInv, Typed, TypeOK
<1>2. WorkersHaveReceipts'
  <2> SUFFICES ASSUME NEW v \in Workers, Committed(v)'
               PROVE  pc'[v] # "idle" /\ order'[ProposalOf(v)'] # "none"
      BY DEF WorkersHaveReceipts
  <2>1. UNCHANGED <<order, task>> /\ ProposalOf(v)' = ProposalOf(v)
    BY DEF StoreTransition, ProposalOf
  <2>2. CASE v # w
    <3>1. pc'[v] = pc[v] /\ agg'[v] = agg[v]
      BY <2>2 DEF StoreTransition, Goto, Typed, TypeOK
    <3> QED
      BY <2>1, <3>1 DEF ReceiptInv, WorkersHaveReceipts, Committed
  <2>3. CASE v = w /\ agg' = agg
    BY <2>1, <2>3 DEF StoreTransition, Goto, Typed, TypeOK, ReceiptInv,
       WorkersHaveReceipts, Committed
  <2>4. CASE v = w /\ agg' # agg
    <3>1. agg'[w].status = to /\ pc'[w] = next
      BY <2>4 DEF StoreTransition, Goto, Typed, TypeOK
    <3> QED
      BY <2>1, <2>4, <3>1 DEF Committed
  <2> QED
    BY <2>2, <2>3, <2>4
<1> QED
  BY <1>1, <1>2 DEF StoreTransition, ReceiptInv

\* A step that moves proposals nowhere they need a receipt, and places nothing.
LEMMA RowsKeepReceipts ==
    ASSUME Typed, ReceiptInv, [Next]_vars, UNCHANGED <<placed, pc, task, agg, memory>>,
           \A p \in Proposals : status'[p] \in Working => order[p] # "none"
    PROVE  ReceiptInv'
<1>1. ASSUME NEW w \in Workers, Committed(w)'
      PROVE  pc'[w] # "idle" /\ order'[ProposalOf(w)'] # "none"
  <2>1. Committed(w) /\ pc[w] # "idle" /\ ProposalOf(w)' = ProposalOf(w)
    BY <1>1 DEF Committed, ReceiptInv, WorkersHaveReceipts, ProposalOf
  <2> QED
    BY <2>1, OrderStays, TaskProposal DEF Typed, ReceiptInv, WorkersHaveReceipts
<1> QED
  BY <1>1, OrderStays DEF ReceiptInv, WorkersHaveReceipts

\* A worker's step that leaves the proposals alone and commits to nothing new.
LEMMA LocalKeepsReceipts ==
    ASSUME Typed, ReceiptInv, [Next]_vars, NEW w \in Workers,
           UNCHANGED <<status, placed, memory>>,
           \A v \in Workers \ {w} : UNCHANGED <<pc[v], task[v], agg[v]>>,
           Committed(w)' => /\ Committed(w) /\ pc'[w] # "idle" /\ task'[w] = task[w]
    PROVE  ReceiptInv'
<1>1. ASSUME NEW v \in Workers, Committed(v)'
      PROVE  pc'[v] # "idle" /\ order'[ProposalOf(v)'] # "none"
  <2>1. Committed(v) /\ pc'[v] # "idle" /\ ProposalOf(v)' = ProposalOf(v)
    BY <1>1 DEF Committed, ReceiptInv, WorkersHaveReceipts, ProposalOf
  <2> QED
    BY <2>1, OrderStays, TaskProposal DEF Typed, ReceiptInv, WorkersHaveReceipts
<1> QED
  BY <1>1, OrderStays DEF ReceiptInv, WorkersHaveReceipts

LEMMA NextReceipt == Typed /\ ReceiptInv /\ [Next]_vars => ReceiptInv'
<1> SUFFICES ASSUME Typed, ReceiptInv, [Next]_vars PROVE ReceiptInv'
    OBVIOUS
<1> USE DEF dbVars, queueVars, envVars, localVars, brokerVars
<1>c. ASSUME NEW w \in Workers, EndCall(w), UNCHANGED <<status, placed>>,
             \A v \in Workers, p \in Proposals :
                 memory'[v][p] # NoSubmission => memory'[v][p] = memory[v][p]
      PROVE  ReceiptInv'
  <2>1. ~Committed(w)' /\ \A v \in Workers \ {w} : UNCHANGED <<pc[v], task[v], agg[v]>>
    BY <1>c DEF EndCall, Committed, Unread, Working, Typed, TypeOK
  <2>2. ASSUME NEW v \in Workers, Committed(v)'
        PROVE  pc'[v] # "idle" /\ order'[ProposalOf(v)'] # "none"
    <3>1. Committed(v) /\ pc'[v] # "idle" /\ ProposalOf(v)' = ProposalOf(v)
      BY <2>1, <2>2 DEF Committed, ReceiptInv, WorkersHaveReceipts, ProposalOf
    <3> QED
      BY <3>1, OrderStays, TaskProposal DEF Typed, ReceiptInv, WorkersHaveReceipts
  <2> QED
    BY <1>c, <2>2, OrderStays DEF ReceiptInv, WorkersHaveReceipts
<1>g. ASSUME NEW w \in Workers, pc[w] # "idle", NEW s, Goto(w, s),
             UNCHANGED <<status, task, agg, brokerVars>>,
             s \notin {"idle", "placing", "marking", "applying", "persisting"} \/ Committed(w),
             s # "idle"
      PROVE  ReceiptInv'
  BY <1>g, LocalKeepsReceipts DEF Goto, Typed, TypeOK, Committed
<1>1. ASSUME NEW p \in Proposals, UserStep(p) PROVE ReceiptInv'
  <2>1. \A q \in Proposals : status'[q] \in Working => order[q] # "none"
    BY <1>1 DEF UserStep, Approve, ExpireUnapproved, Reject, CancelOrder, Move,
       ReceiptInv, Working, Typed, TypeOK
  <2> QED
    BY <1>1, <2>1, RowsKeepReceipts DEF UserStep, Approve, ExpireUnapproved, Reject,
       CancelOrder
<1>2. ASSUME NEW p \in Proposals, Expire(p) \/ Poll(p) PROVE ReceiptInv'
  BY <1>2, RowsKeepReceipts DEF Expire, Poll, PollClaim, PollEnqueue, ReceiptInv
<1>3. CASE Pause \/ Resume
  <2>1. \A q \in Proposals : status'[q] \in Working => order[q] # "none"
    BY <1>3 DEF Pause, Resume, ReceiptInv, Working
  <2> QED
    BY <1>3, <2>1, RowsKeepReceipts DEF Pause, Resume
<1>4. ASSUME NEW w \in Workers, NEW j \in Job, Claim(w, j) PROVE ReceiptInv'
  <2>1. ~Committed(w)
    BY <1>4 DEF Claim, ReceiptInv, WorkersHaveReceipts
  <2>2. pc'[w] \in {"claimed", "reconciling"}
    BY <1>4 DEF Claim, Typed, TypeOK
  <2> QED
    BY <1>4, <2>1, <2>2, LocalKeepsReceipts DEF Claim, Typed, TypeOK, Committed
<1>5. ASSUME NEW w \in Workers, SubmitStep(w) PROVE ReceiptInv'
  <2>1. CASE CaptureNow(w) \/ ReadProposal(w) \/ RecoverNotFound(w) \/ AssessRisk(w)
    BY <2>1, <1>g DEF CaptureNow, ReadProposal, RecoverNotFound, AssessRisk
  <2>2. CASE LoadAuthorized(w)
    <3>1. CASE UNCHANGED agg
      BY <2>2, <3>1, <1>g DEF LoadAuthorized
    <3>2. CASE agg' = [agg EXCEPT ![w] = Current(ProposalOf(w))] /\ Goto(w, "assessing")
      <4>1. UNCHANGED <<status, order, task, placed, memory>>
        BY <2>2 DEF LoadAuthorized
      <4>2. ASSUME NEW v \in Workers, Committed(v)'
            PROVE  pc'[v] # "idle" /\ order[ProposalOf(v)] # "none"
        <5>1. CASE v = w
          <6>1. agg'[w].status = status[ProposalOf(w)] /\ pc'[w] = "assessing"
            BY <3>2 DEF Goto, Current, Typed, TypeOK
          <6>2. ProposalOf(w) \in Proposals
            BY <2>2, TaskProposal DEF LoadAuthorized, Typed
          <6> QED
            BY <4>2, <5>1, <6>1, <6>2 DEF Committed, ReceiptInv
        <5>2. CASE v # w
          BY <3>2, <4>2, <5>2 DEF Goto, Committed, ReceiptInv, WorkersHaveReceipts, Typed, TypeOK
        <5> QED
          BY <5>1, <5>2
      <4> QED
        BY <4>1, <4>2 DEF ReceiptInv, WorkersHaveReceipts, ProposalOf
    <3> QED
      BY <2>2, <3>1, <3>2 DEF LoadAuthorized
  <2>3. CASE RecoverFound(w) \/ Place(w)
    <3>1. ProposalOf(w) \in Proposals /\ pc[w] # "idle"
      BY <2>3, TaskProposal DEF RecoverFound, Place, Typed
    <3>2. PICK p \in Proposals : p = ProposalOf(w)
      BY <3>1
    <3>3. order[p] # "none"
      BY <2>3, <3>2, NoSubmissionAssumption DEF RecoverFound, Place, ReceiptInv,
         WorkersHaveReceipts, Committed, Working
    <3>4. /\ UNCHANGED <<status, order, task, agg>>
          /\ Goto(w, "applying")
          /\ \E s \in Submission : Remember(w, s)
      BY <2>3 DEF RecoverFound, Place
    <3>5. \A q \in Proposals :
            /\ placed'[q] => order'[q] # "none"
            /\ \A v \in Workers : memory'[v][q] # NoSubmission => placed'[q]
      BY <3>2, <3>3, <3>4 DEF Remember, ReceiptInv, Typed, TypeOK
    <3>6. ASSUME NEW v \in Workers, Committed(v)'
          PROVE  pc'[v] # "idle" /\ order'[ProposalOf(v)'] # "none"
      BY <3>2, <3>3, <3>4, <3>6 DEF Goto, Committed, ReceiptInv, WorkersHaveReceipts,
         ProposalOf, Typed, TypeOK
    <3> QED
      BY <3>4, <3>5, <3>6 DEF ReceiptInv, WorkersHaveReceipts
  <2>4. CASE BeginSubmission(w)
    BY <2>4, StoreKeepsReceipts DEF BeginSubmission, LateStatus, PcValue, InHandler, Working
  <2>5. CASE MarkAmbiguous(w)
    BY <2>5, StoreKeepsReceipts DEF MarkAmbiguous, LateStatus, PcValue, ReceiptInv,
       WorkersHaveReceipts, Committed
  <2>6. CASE ExpireStale(w)
    <3>p. ProposalOf(w) \in Proposals /\ pc[w] # "idle"
      BY <2>6, TaskProposal DEF ExpireStale, Typed
    <3>1. \A q \in Proposals : status'[q] \in Working => order[q] # "none"
      BY <2>6, <3>p DEF ExpireStale, Move, ReceiptInv, Working, Typed, TypeOK
    <3>2. UNCHANGED <<order, task, agg, brokerVars>>
      BY <2>6 DEF ExpireStale
    <3>3. ASSUME NEW v \in Workers, Committed(v)'
          PROVE  pc'[v] # "idle" /\ order'[ProposalOf(v)'] # "none"
      BY <2>6, <3>2, <3>3 DEF ExpireStale, Goto, Committed, ReceiptInv,
         WorkersHaveReceipts, ProposalOf, Typed, TypeOK
    <3> QED
      BY <3>1, <3>2, <3>3 DEF ReceiptInv, WorkersHaveReceipts
  <2>7. CASE RecordPlacementAttempt(w)
    <3>p. ProposalOf(w) \in Proposals
      BY <2>7, TaskProposal DEF RecordPlacementAttempt, Typed
    <3>1. UNCHANGED <<status, task, agg, brokerVars>>
      BY <2>7 DEF RecordPlacementAttempt
    <3>2. ASSUME NEW v \in Workers, Committed(v)'
          PROVE  pc'[v] # "idle" /\ order'[ProposalOf(v)'] # "none"
      <4>1. CASE Committed(v)
        <5>1. pc[v] # "idle" /\ order[ProposalOf(v)] # "none" /\ ProposalOf(v) \in Proposals
          BY <4>1, TaskProposal DEF ReceiptInv, WorkersHaveReceipts, Typed
        <5>2. pc'[v] # "idle"
          BY <2>7, <5>1 DEF RecordPlacementAttempt, Goto, Typed, TypeOK
        <5> QED
          BY <3>1, <5>1, <5>2, OrderStays DEF ProposalOf
      <4>2. CASE ~Committed(v)
        <5>1. v = w /\ pc'[v] = "placing" /\ order'[ProposalOf(w)] = "pending"
          BY <2>7, <3>p, <3>1, <3>2, <4>2 DEF RecordPlacementAttempt, Goto, Committed,
             Typed, TypeOK
        <5> QED
          BY <3>1, <5>1 DEF ProposalOf
      <4> QED
        BY <4>1, <4>2
    <3> QED
      BY <3>1, <3>2, OrderStays DEF ReceiptInv, WorkersHaveReceipts
  <2>8. CASE ApplySubmission(w)
    <3> DEFINE to == NextStatus(agg[w].status, sub[w].status)
    <3>1. Committed(w) /\ pc[w] # "idle" /\ order[ProposalOf(w)] # "none"
      BY <2>8 DEF ApplySubmission, ReceiptInv, WorkersHaveReceipts, Committed
    <3>2. ASSUME to # agg[w].status PROVE to \in LateStatus
      BY <3>2, Zenon DEF NextStatus, LateStatus
    <3>3. CASE to # agg[w].status /\ ~Regresses(agg[w].status, sub[w].status)
      <4>1. StoreTransition(w, to, "applying")
        BY <2>8, <3>3 DEF ApplySubmission
      <4> QED
        BY <3>1, <3>2, <3>3, <4>1, StoreKeepsReceipts DEF PcValue, InHandler
    <3>4. CASE ~(to # agg[w].status /\ ~Regresses(agg[w].status, sub[w].status))
      BY <2>8, <3>1, <3>4, <1>g DEF ApplySubmission
    <3> QED
      BY <3>3, <3>4
  <2>9. CASE PersistOutcome(w)
    BY <2>9, <1>g DEF PersistOutcome
  <2> QED
    BY <1>5, <2>1, <2>2, <2>3, <2>4, <2>5, <2>6, <2>7, <2>8, <2>9 DEF SubmitStep
<1>6. ASSUME NEW w \in Workers, ReconcileUnfillable(w) \/ ReconcileDeferred(w)
      PROVE  ReceiptInv'
  BY <1>6, <1>g DEF ReconcileUnfillable, ReconcileDeferred
<1>7. ASSUME NEW w \in Workers, ReconcileFills(w) PROVE ReceiptInv'
  <2>p. ProposalOf(w) \in Proposals
    BY <1>7, TaskProposal DEF ReconcileFills, Typed
  <2>1. \A q \in Proposals : status'[q] \in Working => order[q] # "none"
    BY <1>7, <2>p DEF ReconcileFills, OpenOrder, Move, ReceiptInv, Typed, TypeOK
  <2>2. UNCHANGED <<task, agg, brokerVars>>
    BY <1>7 DEF ReconcileFills
  <2>3. ASSUME NEW v \in Workers, Committed(v)'
        PROVE  pc'[v] # "idle" /\ order'[ProposalOf(v)'] # "none"
    <3>1. Committed(v) /\ pc'[v] # "idle"
      BY <1>7, <2>2, <2>3 DEF ReconcileFills, Goto, Committed, ReceiptInv,
         WorkersHaveReceipts, Typed, TypeOK
    <3>2. order[ProposalOf(v)] # "none" /\ ProposalOf(v) \in Proposals
      BY <3>1, TaskProposal DEF ReceiptInv, WorkersHaveReceipts, Typed
    <3> QED
      BY <2>2, <3>1, <3>2, OrderStays DEF ProposalOf
  <2> QED
    BY <2>1, <2>2, <2>3, OrderStays DEF ReceiptInv, WorkersHaveReceipts
<1>8. ASSUME NEW w \in Workers, Settle(w) PROVE ReceiptInv'
  BY <1>8, <1>c DEF Settle
<1>9. ASSUME NEW w \in Workers, Crash(w) PROVE ReceiptInv'
  <2>1. \A v \in Workers, p \in Proposals :
          memory'[v][p] # NoSubmission => memory'[v][p] = memory[v][p]
    BY <1>9 DEF Crash, Typed, TypeOK
  <2> QED
    BY <1>9, <2>1, <1>c DEF Crash
<1>10. ASSUME NEW w \in Workers, Lapse(w) PROVE ReceiptInv'
  BY <1>10, RowsKeepReceipts DEF Lapse, ReceiptInv
<1>11. ASSUME NEW w \in Workers, HandlerThrows(w) \/ FindStale(w) \/ NeedQuote(w)
       PROVE  ReceiptInv'
  BY <1>11, <1>g DEF HandlerThrows, FindStale, NeedQuote, InHandler
<1>12. ASSUME NEW w \in Workers, PlaceThrows(w) PROVE ReceiptInv'
  BY <1>12, <1>g DEF PlaceThrows, Committed
<1>13. CASE UNCHANGED vars
  BY <1>13, RowsKeepReceipts DEF vars, ReceiptInv
<1> QED
  BY <1>1, <1>2, <1>3, <1>4, <1>5, <1>6, <1>7, <1>8, <1>9, <1>10, <1>11, <1>12, <1>13
     DEF Next, ReconcileStep, Trouble

\* NoPlacementWithoutReceipt: an order never reaches the broker before its
\* receipt is durable, whatever other workers and the user do meanwhile.
THEOREM ReceiptFirst == Spec => []NoPlacementWithoutReceipt
<1>1. Init => Typed /\ ReceiptInv
  <2>1. Init => ReceiptInv
    BY DEF Init, ReceiptInv, WorkersHaveReceipts, Committed, Unread, Working
  <2> QED
    BY <2>1, InitTypeOK DEF Init, Typed, HasTask, HasSubmission
<1>2. Typed /\ ReceiptInv /\ [Next]_vars => Typed' /\ ReceiptInv'
  BY NextTyped, NextReceipt
<1>3. ReceiptInv => NoPlacementWithoutReceipt
  BY DEF ReceiptInv, NoPlacementWithoutReceipt
<1> QED
  BY <1>1, <1>2, <1>3, PTL DEF Spec

-----------------------------------------------------------------------------
(* Verdicts stay                                                            *)

\* A step of the store changes no proposal that is in a terminal status.
LEMMA StoreSparesTerminal ==
    ASSUME Typed, NEW w \in Workers, pc[w] # "idle", NEW to, NEW next,
           StoreTransition(w, to, next),
           NEW p \in Proposals, status[p] \in TerminalStatus
    PROVE  status'[p] = status[p] /\ version'[p] = version[p]
<1>1. CASE Accepted(w, agg[w], to)
  <2>1. p # ProposalOf(w)
    BY <1>1 DEF Accepted
  <2> QED
    BY <1>1, <2>1 DEF StoreTransition, Move, Typed, TypeOK
<1>2. CASE ~Accepted(w, agg[w], to)
  BY <1>2 DEF StoreTransition
<1> QED
  BY <1>1, <1>2

LEMMA TerminalStays ==
    ASSUME Typed, [Next]_vars, NEW p \in Proposals, status[p] \in TerminalStatus
    PROVE  status'[p] = status[p] /\ version'[p] = version[p]
<1> DEFINE Kept == status'[p] = status[p] /\ version'[p] = version[p]
<1> USE DEF dbVars, queueVars, envVars, localVars, brokerVars
<1>1. CASE UNCHANGED <<status, version>>
  BY <1>1
<1>2. ASSUME NEW q \in Proposals, UserStep(q) \/ Expire(q) \/ Poll(q) PROVE Kept
  BY <1>1, <1>2 DEF UserStep, Expire, Poll, Approve, ExpireUnapproved, Reject, CancelOrder,
     Cancelable, PollClaim, PollEnqueue, Move, TerminalStatus, Typed, TypeOK
<1>3. CASE Pause \/ Resume \/ UNCHANGED vars
  BY <1>1, <1>3 DEF Pause, Resume, vars, Unsubmitted, TerminalStatus
<1>4. ASSUME NEW w \in Workers, SubmitStep(w) PROVE Kept
  <2>1. CASE BeginSubmission(w) \/ MarkAmbiguous(w) \/ ApplySubmission(w)
    BY <1>1, <2>1, StoreSparesTerminal DEF BeginSubmission, MarkAmbiguous, ApplySubmission
  <2>2. CASE ExpireStale(w)
    BY <2>2 DEF ExpireStale, Accepted, Move, Typed, TypeOK
  <2>3. CASE ~(BeginSubmission(w) \/ MarkAmbiguous(w) \/ ApplySubmission(w) \/ ExpireStale(w))
    BY <1>4, <2>3 DEF SubmitStep, CaptureNow, ReadProposal, LoadAuthorized, AssessRisk,
       RecoverFound, RecoverNotFound, RecordPlacementAttempt, Place, PersistOutcome
  <2> QED
    BY <2>1, <2>2, <2>3
<1>5. ASSUME NEW w \in Workers, ReconcileStep(w) PROVE Kept
  BY <1>1, <1>5 DEF ReconcileStep, ReconcileUnfillable, ReconcileFills, Reconcilable,
     ReconcilableProposal, Move, TerminalStatus, Typed, TypeOK
<1>6. ASSUME NEW w \in Workers, Settle(w) \/ Trouble(w) PROVE Kept
  BY <1>6 DEF Settle, Trouble, HandlerThrows, PlaceThrows, FindStale, NeedQuote,
     ReconcileDeferred, Lapse, Crash
<1>7. ASSUME NEW w \in Workers, NEW j \in Job, Claim(w, j) PROVE Kept
  BY <1>7 DEF Claim
<1> QED
  BY <1>2, <1>3, <1>4, <1>5, <1>6, <1>7 DEF Next

\* What a step does to an order and its fills, and when it may.
LEMMA OrderSteps ==
    ASSUME Typed, [Next]_vars, NEW p \in Proposals
    PROVE  \/ /\ order'[p] = order[p]
              /\ initial'[p] = initial[p]
              /\ reconciled'[p] = reconciled[p]
           \/ /\ order'[p] = "canceled" /\ status'[p] = "CANCELED"
              /\ OpenOrder(p) \/ order[p] = "pending"
              /\ initial'[p] = initial[p]
              /\ reconciled'[p] = reconciled[p]
           \/ /\ order[p] \in {"none", "pending"} /\ order'[p] = "pending"
              /\ status[p] = "SUBMITTING" /\ status'[p] = "SUBMITTING"
              /\ initial'[p] = initial[p]
              /\ reconciled'[p] = reconciled[p]
           \/ \E w \in Workers, s \in Submission :
              /\ pc[w] = "persisting" /\ ProposalOf(w) = p /\ sub[w] = s
              /\ OutcomeFits(p, s) /\ order'[p] = s.status
              /\ initial'[p] = IF initial[p] = 0 THEN s.filled ELSE initial[p]
              /\ reconciled'[p] = reconciled[p] /\ status'[p] = status[p]
           \/ /\ OpenOrder(p) /\ order'[p] = "filled" /\ status'[p] = "FILLED"
              /\ initial'[p] = initial[p]
              /\ Remaining(p) > 0 /\ reconciled'[p] = Remaining(p)
<1> DEFINE Kept == /\ order'[p] = order[p]
                   /\ initial'[p] = initial[p]
                   /\ reconciled'[p] = reconciled[p]
<1> USE DEF dbVars, queueVars, envVars, localVars, brokerVars
<1>1. ASSUME NEW q \in Proposals, CancelOrder(q)
      PROVE  \/ Kept
             \/ /\ order'[p] = "canceled" /\ status'[p] = "CANCELED"
                /\ OpenOrder(p) \/ order[p] = "pending"
                /\ initial'[p] = initial[p]
                /\ reconciled'[p] = reconciled[p]
  BY <1>1 DEF CancelOrder, Cancelable, OpenOrder, Move, Typed, TypeOK
<1>2. ASSUME NEW w \in Workers, RecordPlacementAttempt(w)
      PROVE  \/ Kept
             \/ /\ order[p] \in {"none", "pending"} /\ order'[p] = "pending"
                /\ status[p] = "SUBMITTING" /\ status'[p] = "SUBMITTING"
                /\ initial'[p] = initial[p]
                /\ reconciled'[p] = reconciled[p]
  BY <1>2 DEF RecordPlacementAttempt, ReceiptAllowed, Typed, TypeOK
<1>3. ASSUME NEW w \in Workers, PersistOutcome(w)
      PROVE  \/ Kept
             \/ \E s \in Submission :
                /\ pc[w] = "persisting" /\ ProposalOf(w) = p /\ sub[w] = s
                /\ OutcomeFits(p, s) /\ order'[p] = s.status
                /\ initial'[p] = IF initial[p] = 0 THEN s.filled ELSE initial[p]
                /\ reconciled'[p] = reconciled[p] /\ status'[p] = status[p]
  <2>1. pc[w] = "persisting" /\ sub[w] \in Submission /\ UNCHANGED <<reconciled, status>>
    BY <1>3 DEF PersistOutcome, Typed, HasSubmission
  <2>2. CASE OutcomeFits(ProposalOf(w), sub[w]) /\ p = ProposalOf(w)
    BY <1>3, <2>1, <2>2 DEF PersistOutcome, Typed, TypeOK
  <2>3. CASE ~(OutcomeFits(ProposalOf(w), sub[w]) /\ p = ProposalOf(w))
    BY <1>3, <2>1, <2>3 DEF PersistOutcome, Typed, TypeOK
  <2> QED
    BY <2>2, <2>3
<1>4. ASSUME NEW w \in Workers, ReconcileFills(w)
      PROVE  \/ Kept
             \/ /\ OpenOrder(p) /\ order'[p] = "filled" /\ status'[p] = "FILLED"
                /\ initial'[p] = initial[p]
                /\ Remaining(p) > 0 /\ reconciled'[p] = Remaining(p)
  BY <1>4 DEF ReconcileFills, Reconcilable, Move, Typed, TypeOK
<1>5. ASSUME NEW q \in Proposals, UserStep(q) \/ Expire(q) \/ Poll(q)
      PROVE  UNCHANGED <<order, initial, reconciled>> \/ CancelOrder(q)
  BY <1>5 DEF UserStep, Expire, Poll, Approve, ExpireUnapproved, Reject, PollClaim,
     PollEnqueue
<1>6. ASSUME Pause \/ Resume \/ UNCHANGED vars
      PROVE  UNCHANGED <<order, initial, reconciled>>
  BY <1>6 DEF Pause, Resume, vars
<1>7. ASSUME NEW w \in Workers, SubmitStep(w)
      PROVE  \/ UNCHANGED <<order, initial, reconciled>>
             \/ RecordPlacementAttempt(w) \/ PersistOutcome(w)
  BY <1>7 DEF SubmitStep, CaptureNow, ReadProposal, LoadAuthorized, AssessRisk,
     RecoverFound, RecoverNotFound, BeginSubmission, ExpireStale, Place, MarkAmbiguous,
     ApplySubmission, StoreTransition
<1>8. ASSUME NEW w \in Workers, ReconcileStep(w) \/ Settle(w) \/ Trouble(w)
      PROVE  UNCHANGED <<order, initial, reconciled>> \/ ReconcileFills(w)
  BY <1>8 DEF ReconcileStep, ReconcileUnfillable, Settle, Trouble,
     HandlerThrows, PlaceThrows, FindStale, NeedQuote, ReconcileDeferred, Lapse, Crash
<1>9. ASSUME NEW w \in Workers, NEW j \in Job, Claim(w, j)
      PROVE  UNCHANGED <<order, initial, reconciled>>
  BY <1>9 DEF Claim
<1> QED
  BY <1>1, <1>2, <1>3, <1>4, <1>5, <1>6, <1>7, <1>8, <1>9 DEF Next

\* TerminalIsFinal: a rejected, expired, canceled or filled proposal and a
\* canceled order stay so, whatever a worker still has under way.
THEOREM VerdictsStay == Spec => TerminalIsFinal
<1> DEFINE Stay == \A p \in Proposals :
             /\ status[p] \in TerminalStatus =>
                  status'[p] = status[p] /\ version'[p] = version[p]
             /\ order[p] = "canceled" =>
                  order'[p] = "canceled" /\ initial'[p] = initial[p]
                  /\ reconciled'[p] = reconciled[p]
<1>1. Init => Typed
  BY InitTypeOK DEF Init, Typed, HasTask, HasSubmission
<1>2. Typed /\ [Next]_vars => Stay
  <2> SUFFICES ASSUME Typed, [Next]_vars, NEW p \in Proposals, order[p] = "canceled"
               PROVE  order'[p] = "canceled" /\ initial'[p] = initial[p]
                      /\ reconciled'[p] = reconciled[p]
      BY TerminalStays
  <2>1. \A s \in Submission : ~OutcomeFits(p, s)
    BY SubmissionType DEF OutcomeFits
  <2> QED
    BY <2>1, OrderSteps DEF OpenOrder
<1>3. Typed /\ [Next]_vars => [Stay]_vars
  BY <1>2
<1> QED
  BY <1>1, <1>3, NextTyped, PTL DEF Spec, TerminalIsFinal

-----------------------------------------------------------------------------
(* Fills                                                                    *)

\* While the broker never executes in full at once, a reconciled fill is the
\* last thing that happens to its order.
FillsInv ==
    \A p \in Proposals :
        /\ initial[p] + reconciled[p] <= Quantity
        /\ reconciled[p] # 0 => order[p] = "filled"

LEMMA NextFills ==
    ASSUME PartiallyFills, Typed, FillsInv, [Next]_vars PROVE FillsInv'
<1> SUFFICES ASSUME NEW p \in Proposals
             PROVE  /\ initial'[p] + reconciled'[p] <= Quantity
                    /\ reconciled'[p] # 0 => order'[p] = "filled"
    BY DEF FillsInv
<1>1. initial[p] \in 0..Quantity /\ reconciled[p] \in 0..Quantity /\ Quantity \in Nat
  BY ConstantsAssumption DEF Typed, TypeOK
<1>2. ASSUME NEW s \in Submission PROVE s.status # "filled" /\ s.filled \in 0..Quantity
  BY <1>2, SubmissionType DEF Submission, Resting, Executed
<1>3. ASSUME NEW s \in Submission, OutcomeFits(p, s) PROVE reconciled[p] = 0
  BY <1>2, <1>3 DEF OutcomeFits, FillsInv
<1>4. OpenOrder(p) \/ order[p] \in {"none", "pending"} => reconciled[p] = 0
  BY DEF OpenOrder, FillsInv
<1>5. initial[p] + reconciled[p] <= Quantity /\ (reconciled[p] # 0 => order[p] = "filled")
  BY DEF FillsInv
<1> QED
  BY <1>1, <1>2, <1>3, <1>4, <1>5, OrderSteps DEF Remaining

\* FillsWithinQuantity for every quantity above the partial-fill threshold: the
\* overfill the run execution_overfill shows needs an order the broker fills at once.
THEOREM FillsBounded == PartiallyFills => (Spec => []FillsWithinQuantity)
<1> SUFFICES ASSUME PartiallyFills PROVE Spec => []FillsWithinQuantity
    OBVIOUS
<1>1. Init => Typed /\ FillsInv
  <2>1. Init => FillsInv
    BY ConstantsAssumption DEF Init, FillsInv
  <2> QED
    BY <2>1, InitTypeOK DEF Init, Typed, HasTask, HasSubmission
<1>2. Typed /\ FillsInv /\ [Next]_vars => Typed' /\ FillsInv'
  BY NextTyped, NextFills
<1>3. FillsInv => FillsWithinQuantity
  BY DEF FillsInv, FillsWithinQuantity
<1> QED
  BY <1>1, <1>2, <1>3, PTL DEF Spec

-----------------------------------------------------------------------------
(* The order row and the proposal row agree                                 *)

\* Where a proposal comes from, by the lifecycle's graph.
LEMMA Predecessors ==
    ASSUME NEW s \in LateStatus
    PROVE  /\ "SUBMITTING" \in AllowedTransitions(s) => s \in {"APPROVED", "RECONCILIATION_ERROR"}
           /\ "SUBMITTED" \in AllowedTransitions(s) => s \in {"SUBMITTING", "RECONCILIATION_ERROR"}
           /\ "PARTIALLY_FILLED" \in AllowedTransitions(s) =>
                s \in {"SUBMITTED", "PARTIALLY_FILLED", "RECONCILIATION_ERROR"}
           /\ "FILLED" \in AllowedTransitions(s) =>
                s \in {"SUBMITTED", "PARTIALLY_FILLED", "RECONCILIATION_ERROR"}
           /\ "EXPIRED" \in AllowedTransitions(s) => s \in {"AWAITING_USER_APPROVAL", "APPROVED"}
           /\ "RECONCILIATION_ERROR" \in AllowedTransitions(s) =>
                s \in {"SUBMITTING", "SUBMITTED", "PARTIALLY_FILLED"}
BY DEF LateStatus, AllowedTransitions, BrokerOutcome

\* What a step does to a proposal's row.
LEMMA RowSteps ==
    ASSUME Typed, [Next]_vars, NEW p \in Proposals
    PROVE  \/ status'[p] = status[p] /\ version'[p] = version[p]
           \/ /\ version'[p] = version[p] + 1
              /\ \/ /\ status[p] = "AWAITING_USER_APPROVAL"
                    /\ status'[p] \in {"APPROVED", "EXPIRED", "USER_REJECTED"}
                 \/ Unsubmitted(p) /\ status'[p] = "CANCELED"
                 \/ Cancelable(p) /\ status'[p] = "CANCELED" /\ order'[p] = "canceled"
                 \/ status'[p] = "EXPIRED" /\ "EXPIRED" \in AllowedTransitions(status[p])
                 \/ /\ status'[p] = "RECONCILIATION_ERROR"
                    /\ \E w \in Workers : /\ pc[w] = "marking" /\ ProposalOf(w) = p
                                          /\ version[p] = agg[w].version
                 \/ /\ status'[p] \in {"SUBMITTING", "SUBMITTED", "PARTIALLY_FILLED", "FILLED"}
                    /\ status'[p] \in AllowedTransitions(status[p])
                 \/ ReconcilableProposal(p) /\ status'[p] = "FILLED" /\ order'[p] = "filled"
<1> DEFINE Kept == status'[p] = status[p] /\ version'[p] = version[p]
           Up == version'[p] = version[p] + 1
<1> USE DEF dbVars, queueVars, envVars, localVars, brokerVars
<1>1. ASSUME NEW q \in Proposals, UserStep(q)
      PROVE  \/ Kept
             \/ /\ Up
                /\ \/ /\ status[p] = "AWAITING_USER_APPROVAL"
                      /\ status'[p] \in {"APPROVED", "EXPIRED", "USER_REJECTED"}
                   \/ Cancelable(p) /\ status'[p] = "CANCELED" /\ order'[p] = "canceled"
  BY <1>1 DEF UserStep, Approve, ExpireUnapproved, Reject, CancelOrder, Move, Typed, TypeOK
<1>2. ASSUME NEW q \in Proposals, Expire(q) \/ Poll(q) PROVE Kept
  BY <1>2 DEF Expire, Poll, PollClaim, PollEnqueue
<1>3. ASSUME Pause \/ Resume \/ UNCHANGED vars
      PROVE  Kept \/ (Up /\ Unsubmitted(p) /\ status'[p] = "CANCELED")
  BY <1>3 DEF Pause, Resume, vars
<1>4. ASSUME NEW w \in Workers, NEW to, NEW next, StoreTransition(w, to, next)
      PROVE  \/ Kept
             \/ /\ Up /\ status'[p] = to /\ to \in AllowedTransitions(status[p])
                /\ ProposalOf(w) = p /\ version[p] = agg[w].version
  <2>1. CASE Accepted(w, agg[w], to) /\ ProposalOf(w) = p
    BY <1>4, <2>1 DEF StoreTransition, Accepted, VersionMatches, Move, Typed, TypeOK
  <2>2. CASE ~(Accepted(w, agg[w], to) /\ ProposalOf(w) = p)
    BY <1>4, <2>2 DEF StoreTransition, Move, Typed, TypeOK
  <2> QED
    BY <2>1, <2>2
<1>5. ASSUME NEW w \in Workers, SubmitStep(w)
      PROVE  \/ Kept
             \/ /\ Up
                /\ \/ status'[p] = "EXPIRED" /\ "EXPIRED" \in AllowedTransitions(status[p])
                   \/ /\ status'[p] = "RECONCILIATION_ERROR" /\ pc[w] = "marking"
                      /\ ProposalOf(w) = p /\ version[p] = agg[w].version
                   \/ /\ status'[p] \in {"SUBMITTING", "SUBMITTED", "PARTIALLY_FILLED", "FILLED"}
                      /\ status'[p] \in AllowedTransitions(status[p])
  <2>1. CASE BeginSubmission(w)
    BY <1>4, <2>1 DEF BeginSubmission
  <2>2. CASE MarkAmbiguous(w)
    BY <1>4, <2>2 DEF MarkAmbiguous
  <2>3. CASE ApplySubmission(w)
    <3> DEFINE to == NextStatus(agg[w].status, sub[w].status)
    <3>1. ASSUME to # agg[w].status PROVE to \in {"SUBMITTED", "PARTIALLY_FILLED", "FILLED"}
      BY <3>1, Zenon DEF NextStatus
    <3>2. CASE to # agg[w].status /\ ~Regresses(agg[w].status, sub[w].status)
      <4>1. StoreTransition(w, to, "applying")
        BY <2>3, <3>2 DEF ApplySubmission
      <4> HIDE DEF to
      <4> QED
        BY <1>4, <3>1, <3>2, <4>1
    <3>3. CASE ~(to # agg[w].status /\ ~Regresses(agg[w].status, sub[w].status))
      BY <2>3, <3>3 DEF ApplySubmission
    <3> QED
      BY <3>2, <3>3
  <2>4. CASE ExpireStale(w)
    BY <2>4 DEF ExpireStale, Accepted, Move, Typed, TypeOK
  <2>5. CASE ~(BeginSubmission(w) \/ MarkAmbiguous(w) \/ ApplySubmission(w) \/ ExpireStale(w))
    BY <1>5, <2>5 DEF SubmitStep, CaptureNow, ReadProposal, LoadAuthorized, AssessRisk,
       RecoverFound, RecoverNotFound, RecordPlacementAttempt, Place, PersistOutcome
  <2> QED
    BY <2>1, <2>2, <2>3, <2>4, <2>5
<1>6. ASSUME NEW w \in Workers, ReconcileStep(w)
      PROVE  \/ Kept
             \/ /\ Up /\ ReconcilableProposal(p) /\ status'[p] = "FILLED"
                /\ order'[p] = "filled"
  BY <1>6 DEF ReconcileStep, ReconcileUnfillable, ReconcileFills, Reconcilable, Move,
     Typed, TypeOK
<1>7. ASSUME NEW w \in Workers, Settle(w) \/ Trouble(w) PROVE Kept
  BY <1>7 DEF Settle, Trouble, HandlerThrows, PlaceThrows, FindStale, NeedQuote,
     ReconcileDeferred, Lapse, Crash
<1>8. ASSUME NEW w \in Workers, NEW j \in Job, Claim(w, j) PROVE Kept
  BY <1>8 DEF Claim
<1> QED
  BY <1>1, <1>2, <1>3, <1>5, <1>6, <1>7, <1>8 DEF Next

\* What a worker may hold at each step of its handler.
Control(w) ==
    /\ pc[w] = "idle" => agg[w] = Unread
    /\ pc[w] \in {"recording", "placing", "marking"} => agg[w].status = "SUBMITTING"
    /\ pc[w] = "assessing" =>
         agg[w].status \in ReconciliationStatus \cup {"FILLED", "APPROVED"}
    /\ pc[w] \in {"recovering", "applying"} =>
         agg[w].status \in ReconciliationStatus \cup {"FILLED"}
    /\ pc[w] = "persisting" =>
         /\ agg[w].status \in {"SUBMITTED", "PARTIALLY_FILLED", "FILLED"}
         /\ sub[w].status = "filled" => agg[w].status = "FILLED"

\* The aggregate a worker holds is the row, or older than it; and an order that
\* it saw working has not been taken back.
Fresh(w) ==
    pc[w] # "idle" =>
        /\ agg[w].version <= version[ProposalOf(w)]
        /\ agg[w].version = version[ProposalOf(w)] => agg[w].status = status[ProposalOf(w)]
        /\ agg[w].status \in {"SUBMITTED", "PARTIALLY_FILLED"} =>
             status[ProposalOf(w)] \in {"SUBMITTED", "PARTIALLY_FILLED", "FILLED", "CANCELED"}
        /\ agg[w].status = "FILLED" => status[ProposalOf(w)] = "FILLED"

Rows ==
    \A p \in Proposals :
        /\ version[p] = 0 => status[p] = "AWAITING_USER_APPROVAL"
        /\ order[p] = "none" => status[p] \notin Working
        /\ order[p] = "pending" => status[p] \in ReconciliationStatus \cup {"FILLED"}
        /\ OpenOrder(p) => status[p] \in {"SUBMITTED", "PARTIALLY_FILLED", "FILLED"}
        /\ order[p] = "filled" => status[p] = "FILLED"
        /\ order[p] = "canceled" => status[p] = "CANCELED"

RowsInv == Rows /\ \A w \in Workers : Control(w) /\ Fresh(w)

\* A proposal that is working goes back to no status from which a worker would
\* submit it again: RECONCILIATION_ERROR is entered from SUBMITTING only.
LEMMA Evolution ==
    ASSUME Typed, RowsInv, [Next]_vars, NEW p \in Proposals
    PROVE  /\ \/ status'[p] = status[p] /\ version'[p] = version[p]
              \/ version'[p] = version[p] + 1
           /\ status'[p] = "RECONCILIATION_ERROR" =>
                status[p] \in {"SUBMITTING", "RECONCILIATION_ERROR"}
           /\ status[p] \in {"SUBMITTED", "PARTIALLY_FILLED", "FILLED", "CANCELED"} =>
                status'[p] \in {"SUBMITTED", "PARTIALLY_FILLED", "FILLED", "CANCELED"}
           /\ status[p] = "FILLED" => status'[p] = "FILLED"
<1>1. status[p] \in LateStatus
  BY DEF Typed, TypeOK
<1>2. ASSUME NEW w \in Workers, pc[w] = "marking", ProposalOf(w) = p,
             version[p] = agg[w].version
      PROVE  status[p] = "SUBMITTING"
  BY <1>2 DEF RowsInv, Control, Fresh
<1>3. ASSUME NEW s \in {"SUBMITTING", "SUBMITTED", "PARTIALLY_FILLED", "FILLED"},
             s \in AllowedTransitions(status[p])
      PROVE  /\ s = "SUBMITTING" => status[p] \in {"APPROVED", "RECONCILIATION_ERROR"}
             /\ status[p] # "FILLED"
  BY <1>1, <1>3, Predecessors
<1>4. "EXPIRED" \in AllowedTransitions(status[p]) =>
        status[p] \in {"AWAITING_USER_APPROVAL", "APPROVED"}
  BY <1>1, Predecessors
<1>5. status[p] \in {"FILLED", "CANCELED"} => status'[p] = status[p]
  BY TerminalStays DEF TerminalStatus
<1> QED
  BY <1>2, <1>3, <1>4, <1>5, RowSteps DEF Unsubmitted, Cancelable, ReconcilableProposal

\* What a step does to a worker's aggregate.
LEMMA AggregateSteps ==
    ASSUME Typed, [Next]_vars, NEW w \in Workers
    PROVE  \/ pc'[w] = "idle" /\ (agg'[w] = Unread \/ (pc[w] = "idle" /\ agg'[w] = agg[w]))
           \/ pc[w] = "idle" /\ agg'[w] = agg[w] /\ UNCHANGED <<status, version>>
              /\ pc'[w] \in {"claimed", "reconciling"} /\ task'[w] \in Job
           \/ /\ pc[w] # "idle" /\ pc'[w] # "idle" /\ task'[w] = task[w]
              /\ \/ agg'[w] = agg[w]
                 \/ agg'[w] = [status |-> status'[ProposalOf(w)],
                              version |-> version'[ProposalOf(w)]]
<1> DEFINE Goal ==
           \/ pc'[w] = "idle" /\ (agg'[w] = Unread \/ (pc[w] = "idle" /\ agg'[w] = agg[w]))
           \/ pc[w] = "idle" /\ agg'[w] = agg[w] /\ UNCHANGED <<status, version>>
              /\ pc'[w] \in {"claimed", "reconciling"} /\ task'[w] \in Job
           \/ /\ pc[w] # "idle" /\ pc'[w] # "idle" /\ task'[w] = task[w]
              /\ \/ agg'[w] = agg[w]
                 \/ agg'[w] = [status |-> status'[ProposalOf(w)],
                              version |-> version'[ProposalOf(w)]]
<1> USE DEF dbVars, queueVars, envVars, localVars, brokerVars
<1>1. CASE pc'[w] = pc[w] /\ task'[w] = task[w] /\ agg'[w] = agg[w]
  BY <1>1
<1>2. ASSUME NEW v \in Workers, pc[v] # "idle", NEW s, s # "idle", Goto(v, s),
             UNCHANGED <<task, agg>>
      PROVE  Goal
  BY <1>2 DEF Goto, Typed, TypeOK
<1>3. ASSUME NEW v \in Workers, EndCall(v) PROVE Goal
  BY <1>1, <1>3 DEF EndCall, Typed, TypeOK
<1>4. ASSUME NEW v \in Workers, NEW j \in Job, Claim(v, j) PROVE Goal
  BY <1>1, <1>4 DEF Claim, Typed, TypeOK
<1>5. ASSUME NEW v \in Workers, pc[v] # "idle", NEW to, NEW next, next # "idle",
             StoreTransition(v, to, next)
      PROVE  Goal
  <2>1. CASE Accepted(v, agg[v], to)
    <3>1. PICK p \in Proposals : p = ProposalOf(v)
      BY <1>5, TaskProposal DEF Typed
    <3>2. status'[p] = to /\ version'[p] = agg[v].version + 1 /\ task' = task
      BY <1>5, <2>1, <3>1 DEF StoreTransition, Move, Accepted, VersionMatches, Typed, TypeOK
    <3>3. /\ agg' = [agg EXCEPT ![v] = [status |-> to, version |-> agg[v].version + 1]]
          /\ pc' = [pc EXCEPT ![v] = next]
      BY <1>5, <2>1 DEF StoreTransition, Goto
    <3> QED
      BY <1>1, <1>5, <3>1, <3>2, <3>3 DEF Typed, TypeOK
  <2>2. CASE ~Accepted(v, agg[v], to)
    BY <1>2, <1>5, <2>2 DEF StoreTransition
  <2> QED
    BY <2>1, <2>2
<1>6. ASSUME NEW v \in Workers, SubmitStep(v) PROVE Goal
  <2>1. CASE LoadAuthorized(v)
    <3>1. CASE UNCHANGED agg
      BY <1>2, <2>1, <3>1 DEF LoadAuthorized
    <3>2. CASE agg' = [agg EXCEPT ![v] = Current(ProposalOf(v))] /\ Goto(v, "assessing")
      BY <1>1, <2>1, <3>2 DEF LoadAuthorized, Goto, Current, Typed, TypeOK
    <3> QED
      BY <2>1, <3>1, <3>2 DEF LoadAuthorized
  <2>2. CASE BeginSubmission(v) \/ MarkAmbiguous(v) \/ ApplySubmission(v)
    BY <1>2, <1>5, <2>2 DEF BeginSubmission, MarkAmbiguous, ApplySubmission
  <2>3. CASE ~(LoadAuthorized(v) \/ BeginSubmission(v) \/ MarkAmbiguous(v) \/ ApplySubmission(v))
    BY <1>2, <1>6, <2>3 DEF SubmitStep, CaptureNow, ReadProposal, AssessRisk, RecoverFound,
       RecoverNotFound, ExpireStale, RecordPlacementAttempt, Place, PersistOutcome
  <2> QED
    BY <2>1, <2>2, <2>3
<1>7. ASSUME NEW v \in Workers, ReconcileStep(v) \/ Settle(v) \/ Trouble(v) PROVE Goal
  <2>1. CASE Settle(v) \/ Crash(v)
    BY <1>3, <2>1 DEF Settle, Crash
  <2>2. CASE Lapse(v)
    BY <1>1, <2>2 DEF Lapse
  <2>3. CASE ~(Settle(v) \/ Crash(v) \/ Lapse(v))
    BY <1>2, <1>7, <2>3 DEF ReconcileStep, ReconcileUnfillable, ReconcileFills,
       Trouble, HandlerThrows, PlaceThrows, FindStale, NeedQuote, ReconcileDeferred, InHandler
  <2> QED
    BY <2>1, <2>2, <2>3
<1>8. ASSUME NEW p \in Proposals, UserStep(p) \/ Expire(p) \/ Poll(p) PROVE Goal
  BY <1>1, <1>8 DEF UserStep, Expire, Poll, Approve, ExpireUnapproved, Reject, CancelOrder,
     PollClaim, PollEnqueue
<1>9. CASE Pause \/ Resume \/ UNCHANGED vars
  BY <1>1, <1>9 DEF Pause, Resume, vars
<1> QED
  BY <1>4, <1>6, <1>7, <1>8, <1>9 DEF Next

LEMMA NextFresh ==
    ASSUME Typed, RowsInv, [Next]_vars, NEW w \in Workers PROVE Fresh(w)'
<1> SUFFICES ASSUME pc'[w] # "idle" PROVE Fresh(w)'
    BY DEF Fresh
<1>1. CASE pc[w] = "idle"
  <2>1. agg'[w] = Unread /\ UNCHANGED <<status, version>> /\ task'[w] \in Job
    BY <1>1, AggregateSteps DEF RowsInv, Control
  <2>2. PICK p \in Proposals : ProposalOf(w)' = p
    BY <2>1 DEF ProposalOf, Job
  <2>3. version[p] \in Nat /\ (version[p] = 0 => status[p] = "AWAITING_USER_APPROVAL")
    BY DEF Typed, TypeOK, RowsInv, Rows
  <2> QED
    BY <2>1, <2>2, <2>3 DEF Fresh, Unread
<1>2. CASE pc[w] # "idle"
  <2>1. PICK p \in Proposals : p = ProposalOf(w)
    BY <1>2, TaskProposal DEF Typed
  <2>2. ProposalOf(w)' = p
    BY <1>2, <2>1, AggregateSteps DEF ProposalOf
  <2>3. CASE agg'[w] = [status |-> status'[p], version |-> version'[p]]
    <3>1. version'[p] \in Nat
      BY NextTyped DEF Typed, TypeOK
    <3> QED
      BY <2>2, <2>3, <3>1 DEF Fresh
  <2>4. CASE agg'[w] = agg[w]
    <3>1. version[p] \in Nat /\ agg[w].version \in Nat
      BY DEF Typed, TypeOK, Aggregate
    <3>2. /\ agg[w].version <= version[p]
          /\ agg[w].version = version[p] => agg[w].status = status[p]
          /\ agg[w].status \in {"SUBMITTED", "PARTIALLY_FILLED"} =>
               status[p] \in {"SUBMITTED", "PARTIALLY_FILLED", "FILLED", "CANCELED"}
          /\ agg[w].status = "FILLED" => status[p] = "FILLED"
      BY <1>2, <2>1 DEF RowsInv, Fresh
    <3> QED
      BY <2>2, <2>4, <3>1, <3>2, Evolution DEF Fresh
  <2> QED
    BY <1>2, <2>1, <2>3, <2>4, AggregateSteps
<1> QED
  BY <1>1, <1>2

\* The steps a worker may be at whatever it holds.
FreeStep ==
    {"claimed", "reading", "loading", "beginning", "resubmitting", "expiring", "reconciling",
     "succeeding", "failing", "deferring"}

LEMMA NextControl ==
    ASSUME Typed, RowsInv, [Next]_vars, NEW w \in Workers PROVE Control(w)'
<1> USE DEF dbVars, queueVars, envVars, localVars, brokerVars
<1>0. Control(w)
  BY DEF RowsInv
<1>1. CASE pc'[w] = pc[w] /\ agg'[w] = agg[w] /\ sub'[w] = sub[w]
  BY <1>0, <1>1 DEF Control, Unread
<1>2. CASE pc'[w] \in FreeStep
  BY <1>2 DEF Control, FreeStep
<1>3. ASSUME NEW v \in Workers, EndCall(v) PROVE Control(w)'
  <2>1. CASE v = w
    <3>1. pc'[w] = "idle" /\ agg'[w] = Unread
      BY <1>3, <2>1 DEF EndCall, Typed, TypeOK
    <3> QED
      BY <3>1 DEF Control, Unread
  <2>2. CASE v # w
    BY <1>1, <1>3, <2>2 DEF EndCall, Typed, TypeOK
  <2> QED
    BY <2>1, <2>2
<1>4. ASSUME NEW v \in Workers, NEW s \in FreeStep, Goto(v, s), UNCHANGED <<agg, sub>>
      PROVE  Control(w)'
  BY <1>1, <1>2, <1>4 DEF Goto, Typed, TypeOK
<1>5. ASSUME NEW v \in Workers, NEW s, Goto(v, s), UNCHANGED sub,
             \A u \in Workers \ {v} : agg'[u] = agg[u],
             v = w => Control(w)'
      PROVE  Control(w)'
  BY <1>1, <1>5 DEF Goto, Typed, TypeOK
<1>6. ASSUME NEW v \in Workers, NEW to, NEW next, StoreTransition(v, to, next),
             \/ next \in FreeStep
             \/ next = "recording" /\ to = "SUBMITTING"
             \/ next = "applying" /\ to \in {"SUBMITTED", "PARTIALLY_FILLED", "FILLED"}
      PROVE  Control(w)'
  <2>1. CASE ~Accepted(v, agg[v], to)
    BY <1>4, <1>6, <2>1 DEF StoreTransition, FreeStep
  <2>2. CASE Accepted(v, agg[v], to)
    <3>1. /\ Goto(v, next) /\ UNCHANGED sub
          /\ agg' = [agg EXCEPT ![v] = [status |-> to, version |-> agg[v].version + 1]]
      BY <1>6, <2>2 DEF StoreTransition
    <3>2. agg'[v].status = to /\ pc'[v] = next /\ \A u \in Workers \ {v} : agg'[u] = agg[u]
      BY <3>1 DEF Goto, Typed, TypeOK
    <3>3. v = w => Control(w)'
      BY <1>6, <3>2 DEF Control, FreeStep, ReconciliationStatus
    <3> QED
      BY <1>5, <3>1, <3>2, <3>3
  <2> QED
    BY <2>1, <2>2
<1>7. ASSUME NEW v \in Workers, NEW j \in Job, Claim(v, j) PROVE Control(w)'
  <2>1. v = w => pc'[w] \in FreeStep
    BY <1>7 DEF Claim, FreeStep, Typed, TypeOK
  <2> QED
    BY <1>1, <1>2, <1>7, <2>1 DEF Claim, Typed, TypeOK
<1>8. ASSUME NEW v \in Workers, SubmitStep(v) PROVE Control(w)'
  <2>c. Control(v)
    BY DEF RowsInv
  <2>1. CASE CaptureNow(v) \/ ReadProposal(v)
    BY <1>4, <2>1 DEF CaptureNow, ReadProposal, FreeStep
  <2>2. CASE LoadAuthorized(v)
    <3>1. CASE ~Loadable(v)
      BY <1>4, <2>2, <3>1 DEF LoadAuthorized, FreeStep
    <3>2. CASE Loadable(v)
      <4>1. /\ agg' = [agg EXCEPT ![v] = Current(ProposalOf(v))]
            /\ Goto(v, "assessing") /\ UNCHANGED sub
        BY <2>2, <3>2 DEF LoadAuthorized
      <4>2. status[ProposalOf(v)] \in ReconciliationStatus \cup {"FILLED", "APPROVED"}
        BY <3>2 DEF Loadable
      <4>3. /\ agg'[v].status = status[ProposalOf(v)] /\ pc'[v] = "assessing"
            /\ \A u \in Workers \ {v} : agg'[u] = agg[u]
        BY <4>1 DEF Current, Goto, Typed, TypeOK
      <4>4. v = w => Control(w)'
        BY <4>2, <4>3 DEF Control
      <4> QED
        BY <1>5, <4>1, <4>3, <4>4
    <3> QED
      BY <3>1, <3>2
  <2>3. CASE AssessRisk(v)
    <3>1. /\ pc'[v] \in FreeStep \/ (pc'[v] = "recovering" /\ agg[v].status # "APPROVED")
          /\ pc[v] = "assessing" /\ UNCHANGED <<agg, sub>>
          /\ \A u \in Workers \ {v} : pc'[u] = pc[u]
      BY <2>3 DEF AssessRisk, Goto, FreeStep, Typed, TypeOK
    <3> QED
      BY <1>1, <1>2, <2>c, <3>1 DEF Control
  <2>4. CASE RecoverFound(v) \/ Place(v)
    <3>1. /\ agg[v].status \in ReconciliationStatus \cup {"FILLED"}
          /\ pc'[v] = "applying" /\ UNCHANGED agg
          /\ \A u \in Workers \ {v} : pc'[u] = pc[u] /\ sub'[u] = sub[u]
      BY <2>4, <2>c DEF RecoverFound, Place, Remember, Goto, Control, ReconciliationStatus,
         Typed, TypeOK
    <3>2. v = w => Control(w)'
      BY <3>1 DEF Control
    <3> QED
      BY <1>1, <3>1, <3>2
  <2>5. CASE RecoverNotFound(v)
    <3>1. /\ pc'[v] \in FreeStep \/ (pc'[v] = "recording" /\ agg[v].status = "SUBMITTING")
          /\ UNCHANGED <<agg, sub>>
          /\ \A u \in Workers \ {v} : pc'[u] = pc[u]
      BY <2>5 DEF RecoverNotFound, Goto, FreeStep, Typed, TypeOK
    <3> QED
      BY <1>1, <1>2, <3>1 DEF Control
  <2>6. CASE BeginSubmission(v)
    BY <1>6, <2>6 DEF BeginSubmission
  <2>7. CASE ExpireStale(v)
    BY <1>4, <2>7 DEF ExpireStale, FreeStep
  <2>8. CASE RecordPlacementAttempt(v)
    <3>1. /\ pc'[v] \in FreeStep \cup {"placing"} /\ pc[v] = "recording"
          /\ UNCHANGED <<agg, sub>> /\ \A u \in Workers \ {v} : pc'[u] = pc[u]
      BY <2>8 DEF RecordPlacementAttempt, Goto, FreeStep, Typed, TypeOK
    <3> QED
      BY <1>1, <1>2, <2>c, <3>1 DEF Control
  <2>9. CASE MarkAmbiguous(v)
    BY <1>6, <2>9 DEF MarkAmbiguous, FreeStep
  <2>10. CASE ApplySubmission(v)
    <3> DEFINE have == agg[v].status
               to == NextStatus(have, sub[v].status)
    <3>1. ASSUME to # have PROVE to \in {"SUBMITTED", "PARTIALLY_FILLED", "FILLED"}
      BY <3>1, Zenon DEF NextStatus
    <3>2. CASE to # have /\ ~Regresses(have, sub[v].status)
      <4>1. StoreTransition(v, to, "applying")
        BY <2>10, <3>2 DEF ApplySubmission
      <4> HIDE DEF to
      <4> QED
        BY <1>6, <3>1, <3>2, <4>1
    <3>3. CASE Regresses(have, sub[v].status)
      BY <1>4, <2>10, <3>3 DEF ApplySubmission, FreeStep
    <3>4. CASE to = have /\ ~Regresses(have, sub[v].status)
      <4>1. have \in ReconciliationStatus \cup {"FILLED"} /\ sub[v] \in Submission
        BY <2>10, <2>c DEF Control, ApplySubmission, Typed, HasSubmission
      <4>2. sub[v].status \in {"submitted", "partially_filled", "filled"}
        BY <4>1, SubmissionType
      <4>3. /\ have \in {"SUBMITTED", "PARTIALLY_FILLED", "FILLED"}
            /\ sub[v].status = "filled" => have = "FILLED"
        BY <3>4, <4>1, <4>2 DEF NextStatus, ReconciliationStatus
      <4>4. /\ pc'[v] = "persisting" /\ UNCHANGED <<agg, sub>>
            /\ \A u \in Workers \ {v} : pc'[u] = pc[u]
        BY <2>10, <3>4 DEF ApplySubmission, Goto, Typed, TypeOK
      <4>5. v = w => Control(w)'
        BY <4>3, <4>4 DEF Control
      <4> QED
        BY <1>1, <4>4, <4>5
    <3> QED
      BY <3>2, <3>3, <3>4
  <2>11. CASE PersistOutcome(v)
    BY <1>4, <2>11 DEF PersistOutcome, FreeStep
  <2> QED
    BY <1>8, <2>1, <2>2, <2>3, <2>4, <2>5, <2>6, <2>7, <2>8, <2>9, <2>10, <2>11 DEF SubmitStep
<1>9. ASSUME NEW v \in Workers, ReconcileStep(v) \/ Settle(v) \/ Trouble(v) PROVE Control(w)'
  <2>1. CASE Settle(v) \/ Crash(v)
    BY <1>3, <2>1 DEF Settle, Crash
  <2>2. CASE Lapse(v)
    BY <1>1, <2>2 DEF Lapse
  <2>3. CASE PlaceThrows(v)
    <3>1. pc[v] = "placing" /\ pc'[v] = "marking" /\ UNCHANGED <<agg, sub>>
          /\ \A u \in Workers \ {v} : pc'[u] = pc[u]
      BY <2>3 DEF PlaceThrows, Goto, Typed, TypeOK
    <3> QED
      BY <1>0, <1>1, <3>1 DEF Control
  <2>4. CASE ~(Settle(v) \/ Crash(v) \/ Lapse(v) \/ PlaceThrows(v))
    BY <1>4, <1>9, <2>4 DEF ReconcileStep, ReconcileUnfillable, ReconcileFills,
       Trouble, HandlerThrows, FindStale, NeedQuote, ReconcileDeferred, FreeStep
  <2> QED
    BY <2>1, <2>2, <2>3, <2>4
<1>10. ASSUME NEW p \in Proposals, UserStep(p) \/ Expire(p) \/ Poll(p) PROVE Control(w)'
  BY <1>1, <1>10 DEF UserStep, Expire, Poll, Approve, ExpireUnapproved, Reject, CancelOrder,
     PollClaim, PollEnqueue
<1>11. CASE Pause \/ Resume \/ UNCHANGED vars
  BY <1>1, <1>11 DEF Pause, Resume, vars
<1> QED
  BY <1>7, <1>8, <1>9, <1>10, <1>11 DEF Next


LEMMA NextRows == ASSUME Typed, ReceiptInv, RowsInv, [Next]_vars PROVE Rows'
<1> SUFFICES ASSUME NEW p \in Proposals
             PROVE  /\ version'[p] = 0 => status'[p] = "AWAITING_USER_APPROVAL"
                    /\ order'[p] = "none" => status'[p] \notin Working
                    /\ order'[p] = "pending" =>
                         status'[p] \in ReconciliationStatus \cup {"FILLED"}
                    /\ order'[p] \in {"submitted", "partially_filled"} =>
                         status'[p] \in {"SUBMITTED", "PARTIALLY_FILLED", "FILLED"}
                    /\ order'[p] = "filled" => status'[p] = "FILLED"
                    /\ order'[p] = "canceled" => status'[p] = "CANCELED"
    BY DEF Rows, OpenOrder
<1> USE DEF OpenOrder
<1>r. /\ version[p] = 0 => status[p] = "AWAITING_USER_APPROVAL"
      /\ order[p] = "pending" => status[p] \in ReconciliationStatus \cup {"FILLED"}
      /\ OpenOrder(p) => status[p] \in {"SUBMITTED", "PARTIALLY_FILLED", "FILLED"}
      /\ order[p] = "filled" => status[p] = "FILLED"
      /\ order[p] = "canceled" => status[p] = "CANCELED"
  BY DEF RowsInv, Rows
<1>1. version'[p] = 0 => status'[p] = "AWAITING_USER_APPROVAL"
  BY <1>r, Evolution DEF Typed, TypeOK
<1>2. order'[p] = "none" => status'[p] \notin Working
  BY NextReceipt DEF ReceiptInv
<1>3. CASE order'[p] = order[p]
  <2>1. "EXPIRED" \in AllowedTransitions(status[p]) =>
          status[p] \in {"AWAITING_USER_APPROVAL", "APPROVED"}
    BY Predecessors DEF Typed, TypeOK
  <2>2. order[p] = "pending" => status'[p] \in ReconciliationStatus \cup {"FILLED"}
    BY <1>3, <1>r, <2>1, RowSteps DEF ReconciliationStatus, Unsubmitted
  <2>3. OpenOrder(p) => status'[p] \in {"SUBMITTED", "PARTIALLY_FILLED", "FILLED"}
    BY <1>3, <1>r, <2>1, RowSteps, Evolution DEF Unsubmitted
  <2>4. /\ order[p] = "filled" => status'[p] = "FILLED"
        /\ order[p] = "canceled" => status'[p] = "CANCELED"
    BY <1>r, TerminalStays DEF TerminalStatus
  <2> QED
    BY <1>1, <1>2, <1>3, <2>2, <2>3, <2>4
<1>4. ASSUME NEW w \in Workers, NEW s \in Submission, pc[w] = "persisting",
             ProposalOf(w) = p, sub[w] = s, order[p] = "pending"
      PROVE  /\ status[p] \in {"SUBMITTED", "PARTIALLY_FILLED", "FILLED"}
             /\ s.status = "filled" => status[p] = "FILLED"
  BY <1>4, <1>r DEF RowsInv, Control, Fresh, ReconciliationStatus
<1>5. CASE order'[p] # order[p]
  BY <1>1, <1>2, <1>4, <1>5, OrderSteps, SubmissionType DEF OutcomeFits, ReconciliationStatus
<1> QED
  BY <1>3, <1>5

LEMMA NextRowsInv == Typed /\ ReceiptInv /\ RowsInv /\ [Next]_vars => RowsInv'
BY NextRows, NextControl, NextFresh DEF RowsInv

LEMMA InitRowsInv == Init => RowsInv
BY DEF Init, RowsInv, Rows, OpenOrder, Working, Control, Fresh, Unread

\* OrderAgreesWithProposal: though a worker writes the proposal's row and the
\* order's row in different transactions, and the user cancels and another
\* worker reconciles between them, the two rows never contradict each other.
THEOREM RowsAgree == Spec => []OrderAgreesWithProposal
<1>1. Init => Typed /\ ReceiptInv /\ RowsInv
  <2>1. Init => ReceiptInv
    BY DEF Init, ReceiptInv, WorkersHaveReceipts, Committed, Unread, Working
  <2> QED
    BY <2>1, InitTypeOK, InitRowsInv DEF Init, Typed, HasTask, HasSubmission
<1>2. Typed /\ ReceiptInv /\ RowsInv /\ [Next]_vars => Typed' /\ ReceiptInv' /\ RowsInv'
  BY NextTyped, NextReceipt, NextRowsInv
<1>3. RowsInv => OrderAgreesWithProposal
  BY DEF RowsInv, Rows, Working, OrderAgreesWithProposal
<1> QED
  BY <1>1, <1>2, <1>3, PTL DEF Spec

-----------------------------------------------------------------------------
(* An open order can be found by the poller                                 *)

\* Nothing about the proposal's reconciliation exists yet.
Unseen(p) ==
    /\ recon[p] = "none"
    /\ p \notin polled
    /\ job[<<p, "reconcile">>] = "absent"
    /\ \A w \in Workers : pc[w] # "idle" => task[w] # <<p, "reconcile">>

ReconTask == \A w \in Workers : pc[w] = "reconciling" => task[w][2] = "reconcile"

Findable ==
    \A p \in Proposals :
        /\ order[p] \in {"none", "pending"} => Unseen(p)
        /\ OpenOrder(p) => recon[p] \in {"queued", "leased"}

LEMMA NextReconTask ==
    ASSUME Typed, ReconTask, [Next]_vars PROVE ReconTask'
<1> USE DEF dbVars, queueVars, envVars, localVars, brokerVars
<1>1. ASSUME UNCHANGED <<pc, task>> PROVE ReconTask'
  BY <1>1 DEF ReconTask
<1>2. ASSUME NEW w \in Workers, NEW s, s # "reconciling", Goto(w, s), UNCHANGED task
      PROVE  ReconTask'
  BY <1>2 DEF Goto, ReconTask, Typed, TypeOK
<1>3. ASSUME NEW w \in Workers, EndCall(w) PROVE ReconTask'
  BY <1>3 DEF EndCall, ReconTask, Typed, TypeOK
<1>4. ASSUME NEW w \in Workers, NEW j \in Job, Claim(w, j) PROVE ReconTask'
  BY <1>4 DEF Claim, ReconTask, Job, Kind, Typed, TypeOK
<1>5. ASSUME NEW w \in Workers, SubmitStep(w) PROVE ReconTask'
  BY <1>2, <1>5 DEF SubmitStep, CaptureNow, ReadProposal, LoadAuthorized, AssessRisk,
     RecoverFound, RecoverNotFound, BeginSubmission, ExpireStale, RecordPlacementAttempt,
     Place, MarkAmbiguous, ApplySubmission, PersistOutcome, StoreTransition
<1>6. ASSUME NEW w \in Workers, ReconcileStep(w) \/ Settle(w) \/ Trouble(w) PROVE ReconTask'
  BY <1>1, <1>2, <1>3, <1>6 DEF ReconcileStep, ReconcileUnfillable,
     ReconcileFills, Settle, Trouble, HandlerThrows, PlaceThrows, FindStale, NeedQuote,
     ReconcileDeferred, Lapse, Crash
<1>7. ASSUME NEW p \in Proposals, UserStep(p) \/ Expire(p) \/ Poll(p) PROVE ReconTask'
  BY <1>1, <1>7 DEF UserStep, Expire, Poll, Approve, ExpireUnapproved, Reject, CancelOrder,
     PollClaim, PollEnqueue
<1>8. CASE Pause \/ Resume \/ UNCHANGED vars
  BY <1>1, <1>8 DEF Pause, Resume, vars
<1> QED
  BY <1>4, <1>5, <1>6, <1>7, <1>8 DEF Next

\* A reconcile job's handler works on an order it has seen.
LEMMA ReconcilerSees ==
    ASSUME Typed, ReconTask, NEW w \in Workers, pc[w] = "reconciling",
           NEW p \in Proposals, Unseen(p)
    PROVE  ProposalOf(w) # p
<1>1. task[w] \in Job /\ task[w][2] = "reconcile"
  BY DEF Typed, HasTask, ReconTask
<1>2. task[w] = <<ProposalOf(w), "reconcile">>
  BY <1>1 DEF Job, ProposalOf
<1> QED
  BY <1>2 DEF Unseen

LEMMA UnseenStays ==
    ASSUME Typed, ReconTask, [Next]_vars, NEW p \in Proposals, Unseen(p),
           order[p] \in {"none", "pending"}, order'[p] \in {"none", "pending"}
    PROVE  Unseen(p)'
<1> USE DEF dbVars, queueVars, envVars, localVars, brokerVars
<1>1. ASSUME NEW q \in Proposals, UserStep(q) PROVE Unseen(p)'
  BY <1>1 DEF UserStep, Approve, ExpireUnapproved, Reject, CancelOrder, EnqueueJob,
     DeadLetterWaiting, Unseen, Job, Kind, Typed, TypeOK
<1>2. ASSUME NEW q \in Proposals, Expire(q) \/ Poll(q) PROVE Unseen(p)'
  BY <1>2 DEF Expire, Poll, PollClaim, PollEnqueue, EnqueueJob, Unseen, Job, Kind,
     Typed, TypeOK
<1>3. CASE Pause \/ Resume \/ UNCHANGED vars
  BY <1>3 DEF Pause, Resume, vars, DeadLetterWaiting, Unseen, Job, Kind
<1>4. ASSUME NEW w \in Workers, NEW j \in Job, Claim(w, j) PROVE Unseen(p)'
  <2>1. j # <<p, "reconcile">>
    BY <1>4 DEF Claim, Unseen
  <2>2. <<p, "reconcile">> \in Job
    BY DEF Job, Kind
  <2>3. job'[<<p, "reconcile">>] = "absent"
    BY <1>4, <2>1, <2>2 DEF Claim, Unseen, Typed, TypeOK
  <2>4. \A v \in Workers : pc'[v] # "idle" => task'[v] # <<p, "reconcile">>
    BY <1>4, <2>1 DEF Claim, Unseen, Typed, TypeOK
  <2>5. UNCHANGED <<recon, polled>>
    BY <1>4 DEF Claim
  <2> QED
    BY <2>3, <2>4, <2>5 DEF Unseen
<1>5. ASSUME NEW w \in Workers, NEW s, Goto(w, s), pc[w] # "idle",
             UNCHANGED <<recon, polled, job, task>>
      PROVE  Unseen(p)'
  BY <1>5 DEF Goto, Unseen, Typed, TypeOK
<1>6. ASSUME NEW w \in Workers, EndCall(w), pc[w] # "idle", UNCHANGED <<recon, polled>>,
             UNCHANGED job \/ \E s : job' = [job EXCEPT ![task[w]] = s]
      PROVE  Unseen(p)'
  <2>1. task[w] # <<p, "reconcile">>
    BY <1>6 DEF Unseen
  <2>2. job'[<<p, "reconcile">>] = "absent"
    BY <1>6, <2>1 DEF Unseen, Job, Kind, Typed, TypeOK
  <2>3. \A v \in Workers : pc'[v] # "idle" => task'[v] # <<p, "reconcile">>
    BY <1>6 DEF EndCall, Unseen, Typed, TypeOK
  <2> QED
    BY <1>6, <2>2, <2>3 DEF Unseen
<1>7. ASSUME NEW w \in Workers, SubmitStep(w) PROVE Unseen(p)'
  <2>1. CASE PersistOutcome(w)
    <3>1. recon'[p] = recon[p]
      <4>1. sub[w] \in Submission
        BY <2>1 DEF PersistOutcome, Typed, HasSubmission
      <4>2. sub[w].status \notin {"none", "pending"}
        BY <4>1, SubmissionType
      <4> QED
        BY <2>1, <4>2 DEF PersistOutcome, Typed, TypeOK
    <3>2. /\ UNCHANGED <<polled, job, task>> /\ pc[w] # "idle"
          /\ Goto(w, "succeeding") \/ Goto(w, "failing")
      BY <2>1 DEF PersistOutcome
    <3> QED
      BY <3>1, <3>2 DEF Goto, Unseen, Typed, TypeOK
  <2>2. CASE ~PersistOutcome(w)
    BY <1>5, <1>7, <2>2 DEF SubmitStep, CaptureNow, ReadProposal, LoadAuthorized, AssessRisk,
       RecoverFound, RecoverNotFound, BeginSubmission, ExpireStale, RecordPlacementAttempt,
       Place, MarkAmbiguous, ApplySubmission, StoreTransition
  <2> QED
    BY <2>1, <2>2
<1>8. ASSUME NEW w \in Workers, ReconcileStep(w) \/ ReconcileDeferred(w) PROVE Unseen(p)'
  <2>1. pc[w] = "reconciling" /\ ProposalOf(w) # p
    BY <1>8, ReconcilerSees DEF ReconcileStep, ReconcileUnfillable,
       ReconcileFills, ReconcileDeferred
  <2>2. recon'[p] = recon[p] /\ UNCHANGED <<polled, job, task>>
    BY <1>8, <2>1 DEF ReconcileStep, ReconcileUnfillable, ReconcileFills,
       ReconcileDeferred, Typed, TypeOK
  <2>3. Goto(w, "succeeding") \/ Goto(w, "failing") \/ Goto(w, "deferring")
    BY <1>8 DEF ReconcileStep, ReconcileUnfillable, ReconcileFills, ReconcileDeferred
  <2> QED
    BY <2>1, <2>2, <2>3 DEF Goto, Unseen, Typed, TypeOK
<1>9. ASSUME NEW w \in Workers, Settle(w) PROVE Unseen(p)'
  BY <1>6, <1>9 DEF Settle
<1>10. ASSUME NEW w \in Workers, Trouble(w), ~ReconcileDeferred(w) PROVE Unseen(p)'
  <2>1. CASE Crash(w)
    BY <1>6, <2>1 DEF Crash
  <2>2. CASE Lapse(w)
    BY <2>2 DEF Lapse, Unseen
  <2>3. CASE ~(Crash(w) \/ Lapse(w))
    BY <1>5, <1>10, <2>3 DEF Trouble, HandlerThrows, PlaceThrows, FindStale, NeedQuote, InHandler
  <2> QED
    BY <2>1, <2>2, <2>3
<1> QED
  BY <1>1, <1>2, <1>3, <1>4, <1>7, <1>8, <1>9, <1>10 DEF Next

LEMMA NextFindable ==
    ASSUME Typed, ReconTask, Findable, [Next]_vars PROVE Findable'
<1> USE DEF dbVars, queueVars, envVars, localVars, brokerVars
<1> SUFFICES ASSUME NEW p \in Proposals
             PROVE  /\ order'[p] \in {"none", "pending"} => Unseen(p)'
                    /\ OpenOrder(p)' => recon'[p] \in {"queued", "leased"}
    BY DEF Findable
<1>1. order'[p] \in {"none", "pending"} => Unseen(p)'
  <2>1. order'[p] \in {"none", "pending"} => order[p] \in {"none", "pending"}
    BY OrderSteps, SubmissionType
  <2> QED
    BY <2>1, UnseenStays DEF Findable
<1>2. ASSUME OpenOrder(p)' PROVE recon'[p] \in {"queued", "leased"}
  <2>1. ASSUME NEW w \in Workers, PersistOutcome(w)
        PROVE  recon'[p] \in {"queued", "leased"}
    <3>1. sub[w] \in Submission /\ ProposalOf(w) \in Proposals
      BY <2>1, TaskProposal DEF PersistOutcome, Typed, HasSubmission
    <3>2. CASE ProposalOf(w) = p /\ OutcomeFits(p, sub[w])
      <4>1. order'[p] = sub[w].status
        BY <2>1, <3>2 DEF PersistOutcome, Typed, TypeOK
      <4>2. NeedsReconciliation(sub[w])
        BY <1>2, <4>1 DEF OpenOrder, NeedsReconciliation
      <4>3. recon'[p] = IF recon[p] = "none" THEN "queued" ELSE recon[p]
        BY <2>1, <3>2, <4>2 DEF PersistOutcome, Typed, TypeOK
      <4>4. recon[p] \in {"none", "queued", "leased"}
        BY <1>2, <3>2, <4>1 DEF OutcomeFits, OpenOrder, Findable, Unseen
      <4> QED
        BY <4>3, <4>4
    <3>3. CASE ~(ProposalOf(w) = p /\ OutcomeFits(p, sub[w]))
      <4>1. order'[p] = order[p] /\ recon'[p] = recon[p]
        BY <2>1, <3>3 DEF PersistOutcome, Typed, TypeOK
      <4> QED
        BY <1>2, <4>1 DEF OpenOrder, Findable
    <3> QED
      BY <3>2, <3>3
  <2>2. ASSUME UNCHANGED recon, order'[p] = order[p]
        PROVE  recon'[p] \in {"queued", "leased"}
    BY <1>2, <2>2 DEF OpenOrder, Findable
  <2>3. ASSUME NEW q \in Proposals, CancelOrder(q) \/ PollClaim(q)
        PROVE  recon'[p] \in {"queued", "leased"}
    BY <1>2, <2>3 DEF CancelOrder, PollClaim, OpenOrder, Findable, Typed, TypeOK
  <2>4. ASSUME NEW w \in Workers, ReconcileStep(w) \/ ReconcileDeferred(w)
        PROVE  recon'[p] \in {"queued", "leased"}
    BY <1>2, <2>4 DEF ReconcileStep, ReconcileUnfillable, ReconcileFills,
       ReconcileDeferred, OpenOrder, Findable, Typed, TypeOK
  <2>5. ASSUME NEW w \in Workers, RecordPlacementAttempt(w)
        PROVE  recon'[p] \in {"queued", "leased"}
    BY <1>2, <2>5 DEF RecordPlacementAttempt, OpenOrder, Findable, Typed, TypeOK
  <2>6. ASSUME NEW w \in Workers, SubmitStep(w)
        PROVE  recon'[p] \in {"queued", "leased"}
    BY <2>1, <2>2, <2>5, <2>6 DEF SubmitStep, CaptureNow, ReadProposal, LoadAuthorized,
       AssessRisk, RecoverFound, RecoverNotFound, BeginSubmission, ExpireStale, Place,
       MarkAmbiguous, ApplySubmission, StoreTransition
  <2>7. ASSUME NEW w \in Workers, Settle(w) \/ Trouble(w)
        PROVE  recon'[p] \in {"queued", "leased"}
    BY <2>2, <2>4, <2>7 DEF Settle, Trouble, HandlerThrows, PlaceThrows, FindStale,
       NeedQuote, Lapse, Crash
  <2>8. ASSUME NEW q \in Proposals, UserStep(q) \/ Expire(q) \/ Poll(q)
        PROVE  recon'[p] \in {"queued", "leased"}
    BY <2>2, <2>3, <2>8 DEF UserStep, Expire, Poll, Approve, ExpireUnapproved, Reject,
       PollEnqueue
  <2>9. ASSUME Pause \/ Resume \/ UNCHANGED vars
        PROVE  recon'[p] \in {"queued", "leased"}
    BY <2>2, <2>9 DEF Pause, Resume, vars
  <2>10. ASSUME NEW w \in Workers, NEW j \in Job, Claim(w, j)
         PROVE  recon'[p] \in {"queued", "leased"}
    BY <2>2, <2>10 DEF Claim
  <2> QED
    BY <2>4, <2>6, <2>7, <2>8, <2>9, <2>10 DEF Next
<1> QED
  BY <1>1, <1>2

\* OpenOrderIsReconciled: however persisting an outcome, the poller, the user's
\* cancellation and the reconcile handler interleave, an order that rests at the
\* broker keeps a reconciliation row the poller can claim.
THEOREM OpenOrdersFindable == Spec => []OpenOrderIsReconciled
<1>1. Init => Typed /\ ReconTask /\ Findable
  <2>1. Init => ReconTask /\ Findable
    BY DEF Init, ReconTask, Findable, Unseen, OpenOrder, Job, Kind
  <2> QED
    BY <2>1, InitTypeOK DEF Init, Typed, HasTask, HasSubmission
<1>2. Typed /\ ReconTask /\ Findable /\ [Next]_vars => Typed' /\ ReconTask' /\ Findable'
  BY NextTyped, NextReconTask, NextFindable
<1>3. Findable => OpenOrderIsReconciled
  BY DEF Findable, OpenOrderIsReconciled
<1> QED
  BY <1>1, <1>2, <1>3, PTL DEF Spec

-----------------------------------------------------------------------------
(* Execution implements OrderContract                                       *)

LEMMA PhaseValues ==
    /\ PhaseOf("AWAITING_USER_APPROVAL") = "proposed" /\ PhaseOf("APPROVED") = "approved"
    /\ \A s \in ReconciliationStatus : PhaseOf(s) = "working"
    /\ PhaseOf("FILLED") = "filled" /\ PhaseOf("CANCELED") = "canceled"
    /\ PhaseOf("EXPIRED") = "closed" /\ PhaseOf("USER_REJECTED") = "closed"
BY DEF PhaseOf, ReconciliationStatus

LEMMA MovePhase ==
    ASSUME Typed, NEW p \in Proposals, NEW to, status' = [status EXCEPT ![p] = to]
    PROVE  Phase' = [Phase EXCEPT ![p] = PhaseOf(to)]
BY DEF Phase, Typed, TypeOK

\* The contract's own step that a step of Execution is.
ContractStep == Contract!Next \/ UNCHANGED Contract!vars

LEMMA StoreKeepsContract ==
    ASSUME Typed, FillsInv, NEW w \in Workers, pc[w] # "idle", NEW next,
           NEW to \in {"SUBMITTING", "SUBMITTED", "PARTIALLY_FILLED", "FILLED",
                      "RECONCILIATION_ERROR"},
           StoreTransition(w, to, next)
    PROVE  ContractStep
<1>1. UNCHANGED <<Traded, Reserved>>
  BY DEF StoreTransition, Traded, Reserved
<1>2. CASE ~Accepted(w, agg[w], to)
  <2>1. UNCHANGED Phase
    BY <1>2 DEF StoreTransition, Phase
  <2> QED
    BY <1>1, <2>1 DEF ContractStep, Contract!vars
<1>3. CASE Accepted(w, agg[w], to)
  <2>1. PICK p \in Proposals : p = ProposalOf(w)
    BY TaskProposal DEF Typed
  <2>2. /\ Phase' = [Phase EXCEPT ![p] = PhaseOf(to)]
        /\ to \in AllowedTransitions(status[p])
    BY <1>3, <2>1, MovePhase DEF StoreTransition, Accepted, Move
  <2>3. Phase[p] = PhaseOf(status[p]) /\ DOMAIN Phase = Proposals /\ status[p] \in LateStatus
    BY DEF Phase, Typed, TypeOK
  <2>4. Phase = [q \in Proposals |-> Phase[q]]
    BY DEF Phase
  <2>5. CASE to = "SUBMITTING" /\ status[p] = "APPROVED"
    <3>1. Phase[p] = "approved" /\ PhaseOf(to) = "working"
      BY <2>3, <2>5, PhaseValues DEF ReconciliationStatus
    <3> QED
      BY <1>1, <2>2, <3>1 DEF ContractStep, Contract!Next, Contract!StartWorking
  <2>6. CASE to # "FILLED" /\ status[p] # "APPROVED"
    <3>1. status[p] \in ReconciliationStatus
      BY <2>2, <2>3, <2>6, Predecessors DEF ReconciliationStatus
    <3>2. Phase[p] = "working" /\ PhaseOf(to) = "working"
      BY <2>3, <2>6, <3>1, PhaseValues DEF ReconciliationStatus
    <3>3. Phase' = Phase
      BY <2>2, <2>4, <3>2
    <3> QED
      BY <1>1, <3>3 DEF ContractStep, Contract!vars
  <2>7. CASE to = "FILLED"
    <3>1. status[p] \in ReconciliationStatus
      BY <2>2, <2>3, <2>7, Predecessors DEF ReconciliationStatus
    <3>2. Phase[p] = "working" /\ PhaseOf(to) = "filled"
      BY <2>3, <2>7, <3>1, PhaseValues
    <3>3. Traded[p] \in Traded[p]..Quantity
      <4>1. Traded[p] = initial[p] + reconciled[p] /\ initial[p] + reconciled[p] <= Quantity
        BY DEF Traded, FillsInv
      <4>2. initial[p] \in Nat /\ reconciled[p] \in Nat /\ Quantity \in Nat
        BY ConstantsAssumption DEF Typed, TypeOK
      <4> QED
        BY <4>1, <4>2
    <3>4. Traded' = [Traded EXCEPT ![p] = Traded[p]]
      BY <1>1 DEF Traded
    <3>5. Contract!Trade(p)
      BY <1>1, <2>2, <3>2, <3>3, <3>4 DEF Contract!Trade
    <3> QED
      BY <3>5 DEF ContractStep, Contract!Next
  <2> QED
    BY <2>2, <2>3, <2>5, <2>6, <2>7, Predecessors
<1> QED
  BY <1>2, <1>3

LEMMA NextContract ==
    ASSUME PartiallyFills, Typed, FillsInv, RowsInv, [Next]_vars PROVE ContractStep
<1> USE DEF dbVars, queueVars, envVars, localVars, brokerVars
<1>0. ASSUME UNCHANGED <<status, initial, reconciled, released>> PROVE ContractStep
  BY <1>0 DEF ContractStep, Contract!vars, Phase, Traded, Reserved
<1>v. ASSUME NEW p \in Proposals
      PROVE  Phase[p] = PhaseOf(status[p]) /\ status[p] \in LateStatus
  BY DEF Phase, Typed, TypeOK
<1>m. ASSUME NEW p \in Proposals, NEW to, Move(p, to)
      PROVE  Phase' = [Phase EXCEPT ![p] = PhaseOf(to)]
  BY <1>m, MovePhase DEF Move
<1>1. ASSUME NEW p \in Proposals, Approve(p) PROVE ContractStep
  <2>p. status[p] = "AWAITING_USER_APPROVAL" /\ Move(p, "APPROVED")
    BY <1>1 DEF Approve
  <2>1. Phase[p] = "proposed" /\ Phase' = [Phase EXCEPT ![p] = "approved"]
    BY <2>p, <1>v, <1>m, PhaseValues
  <2>2. UNCHANGED <<Traded, Reserved>>
    BY <1>1 DEF Approve, Traded, Reserved
  <2> QED
    BY <2>1, <2>2 DEF ContractStep, Contract!Next, Contract!Approve
<1>2. ASSUME NEW p \in Proposals, NEW to \in {"EXPIRED", "USER_REJECTED"}, Move(p, to),
             status[p] \in {"AWAITING_USER_APPROVAL", "APPROVED"},
             UNCHANGED <<initial, reconciled, released>>
      PROVE  ContractStep
  <2>1. Phase[p] \in {"proposed", "approved"} /\ Phase' = [Phase EXCEPT ![p] = "closed"]
    <3>1. Phase' = [Phase EXCEPT ![p] = PhaseOf(to)] /\ PhaseOf(to) = "closed"
      BY <1>2, <1>m, PhaseValues
    <3> QED
      BY <1>2, <1>v, <3>1, PhaseValues
  <2>2. UNCHANGED <<Traded, Reserved>>
    BY <1>2 DEF Traded, Reserved
  <2> QED
    BY <2>1, <2>2 DEF ContractStep, Contract!Next, Contract!Close
<1>3. ASSUME NEW p \in Proposals, CancelOrder(p) PROVE ContractStep
  <2>p. /\ status[p] = "APPROVED" \/ status[p] \in ReconciliationStatus
        /\ Move(p, "CANCELED")
    BY <1>3 DEF CancelOrder, Cancelable, ReconciliationStatus
  <2>1. Phase[p] \in {"approved", "working"} /\ Phase' = [Phase EXCEPT ![p] = "canceled"]
    BY <2>p, <1>v, <1>m, PhaseValues
  <2>2. Phase' = [q \in Proposals |-> IF q \in {p} THEN "canceled" ELSE Phase[q]]
    BY <2>1 DEF Phase
  <2>3. UNCHANGED Traded /\ Reserved' = [q \in Proposals |-> Reserved[q] /\ q \notin {p}]
    BY <1>3 DEF CancelOrder, Traded, Reserved, Typed, TypeOK
  <2>4. Contract!Cancel({p})
    BY <2>1, <2>2, <2>3 DEF Contract!Cancel
  <2> QED
    BY <2>4 DEF ContractStep, Contract!Next
<1>4. CASE Pause
  <2>1. PICK ps \in SUBSET Proposals : ps = {p \in Proposals : Unsubmitted(p)}
    OBVIOUS
  <2>2. \A p \in ps : Phase[p] \in {"proposed", "approved"}
    BY <1>v, <2>1, PhaseValues DEF Unsubmitted
  <2>3. Phase' = [q \in Proposals |-> IF q \in ps THEN "canceled" ELSE Phase[q]]
    BY <1>4, <2>1, PhaseValues DEF Pause, Phase
  <2>4. UNCHANGED Traded /\ Reserved' = [q \in Proposals |-> Reserved[q] /\ q \notin ps]
    BY <1>4, <2>1 DEF Pause, Traded, Reserved, Typed, TypeOK
  <2>5. Contract!Cancel(ps)
    BY <2>2, <2>3, <2>4 DEF Contract!Cancel
  <2> QED
    BY <2>5 DEF ContractStep, Contract!Next
<1>5. ASSUME NEW w \in Workers, PersistOutcome(w) PROVE ContractStep
  <2>1. PICK p \in Proposals, s \in Submission : p = ProposalOf(w) /\ s = sub[w]
    BY <1>5, TaskProposal DEF PersistOutcome, Typed, HasSubmission
  <2>2. CASE OutcomeFits(p, s)
    <3>1. /\ initial' = [initial EXCEPT ![p] = IF initial[p] = 0 THEN s.filled ELSE initial[p]]
          /\ UNCHANGED <<status, reconciled, released>>
      BY <1>5, <2>1, <2>2 DEF PersistOutcome
    <3>2. status[p] \in ReconciliationStatus \cup {"FILLED"}
      BY <2>2, SubmissionType DEF OutcomeFits, RowsInv, Rows, OpenOrder, ReconciliationStatus
    <3>3. Phase[p] \in {"working", "filled"} /\ UNCHANGED <<Phase, Reserved>>
      BY <1>v, <3>1, <3>2, PhaseValues DEF Phase, Reserved
    <3>4. initial'[p] + reconciled[p] \in (initial[p] + reconciled[p])..Quantity
      <4>1. initial'[p] + reconciled'[p] <= Quantity
        BY NextFills DEF FillsInv
      <4>2. s.filled \in Nat /\ initial[p] \in Nat /\ reconciled[p] \in Nat /\ Quantity \in Nat
        BY SubmissionType, ConstantsAssumption DEF Typed, TypeOK
      <4> QED
        BY <3>1, <4>1, <4>2 DEF Typed, TypeOK
    <3>5. /\ Traded[p] = initial[p] + reconciled[p]
          /\ Traded' = [Traded EXCEPT ![p] = initial'[p] + reconciled[p]]
      BY <3>1 DEF Traded, Typed, TypeOK
    <3>6. Contract!Trade(p)
      BY <3>3, <3>4, <3>5 DEF Contract!Trade
    <3> QED
      BY <3>6 DEF ContractStep, Contract!Next
  <2>3. CASE ~OutcomeFits(p, s)
    BY <1>0, <1>5, <2>1, <2>3 DEF PersistOutcome
  <2> QED
    BY <2>2, <2>3
<1>6. ASSUME NEW w \in Workers, ReconcileFills(w) PROVE ContractStep
  <2>1. PICK p \in Proposals : p = ProposalOf(w)
    BY <1>6, TaskProposal DEF ReconcileFills, Typed
  <2>p. status[p] \in ReconciliationStatus /\ Move(p, "FILLED")
    BY <1>6, <2>1 DEF ReconcileFills, Reconcilable, ReconcilableProposal, ReconciliationStatus
  <2>2. Phase[p] = "working" /\ Phase' = [Phase EXCEPT ![p] = "filled"]
    BY <2>p, <1>v, <1>m, PhaseValues
  <2>3. /\ Remaining(p) > 0 /\ UNCHANGED <<initial, released>>
        /\ reconciled' = [reconciled EXCEPT ![p] = Remaining(p)]
    BY <1>6, <2>1 DEF ReconcileFills, Reconcilable
  <2>4. initial[p] + Remaining(p) \in (initial[p] + reconciled[p])..Quantity
    <3>1. OpenOrder(p) => reconciled[p] = 0
      BY DEF OpenOrder, FillsInv
    <3>2. reconciled[p] = 0
      BY <1>6, <2>1, <3>1 DEF ReconcileFills
    <3>3. initial[p] \in Nat /\ Quantity \in Nat
      BY ConstantsAssumption DEF Typed, TypeOK
    <3> QED
      BY <2>3, <3>2, <3>3 DEF Remaining
  <2>5. /\ Traded[p] = initial[p] + reconciled[p] /\ UNCHANGED Reserved
        /\ Traded' = [Traded EXCEPT ![p] = initial[p] + Remaining(p)]
    BY <2>3 DEF Traded, Reserved, Typed, TypeOK
  <2>6. Contract!Trade(p)
    BY <2>2, <2>4, <2>5 DEF Contract!Trade
  <2> QED
    BY <2>6 DEF ContractStep, Contract!Next
<1>7. ASSUME NEW w \in Workers, ExpireStale(w) PROVE ContractStep
  <2>1. PICK p \in Proposals : p = ProposalOf(w)
    BY <1>7, TaskProposal DEF ExpireStale, Typed
  <2>2. "EXPIRED" \in AllowedTransitions(status[p]) =>
          status[p] \in {"AWAITING_USER_APPROVAL", "APPROVED"}
    BY <1>v, Predecessors
  <2> QED
    BY <1>0, <1>2, <1>7, <2>1, <2>2 DEF ExpireStale, Accepted
<1>8. ASSUME NEW w \in Workers, ApplySubmission(w) PROVE ContractStep
  <2> DEFINE to == NextStatus(agg[w].status, sub[w].status)
  <2>1. ASSUME to # agg[w].status PROVE to \in {"SUBMITTED", "PARTIALLY_FILLED", "FILLED"}
    BY <2>1, Zenon DEF NextStatus
  <2>2. CASE to # agg[w].status /\ ~Regresses(agg[w].status, sub[w].status)
    <3>1. StoreTransition(w, to, "applying") /\ pc[w] # "idle"
      BY <1>8, <2>2 DEF ApplySubmission
    <3> HIDE DEF to
    <3> QED
      BY <2>1, <2>2, <3>1, StoreKeepsContract
  <2>3. CASE ~(to # agg[w].status /\ ~Regresses(agg[w].status, sub[w].status))
    BY <1>0, <1>8, <2>3 DEF ApplySubmission
  <2> QED
    BY <2>2, <2>3
<1>9. ASSUME NEW w \in Workers, SubmitStep(w) PROVE ContractStep
  BY <1>0, <1>5, <1>7, <1>8, <1>9, StoreKeepsContract DEF SubmitStep, CaptureNow,
     ReadProposal, LoadAuthorized, AssessRisk, RecoverFound, RecoverNotFound,
     BeginSubmission, MarkAmbiguous, RecordPlacementAttempt, Place
<1>10. ASSUME NEW w \in Workers, ReconcileStep(w) \/ Settle(w) \/ Trouble(w)
       PROVE  ContractStep
  BY <1>0, <1>6, <1>10 DEF ReconcileStep, ReconcileUnfillable, Settle, Trouble,
     HandlerThrows, PlaceThrows, FindStale, NeedQuote, ReconcileDeferred, Lapse, Crash
<1>11. ASSUME NEW p \in Proposals, UserStep(p) PROVE ContractStep
  BY <1>1, <1>2, <1>3, <1>11 DEF UserStep, ExpireUnapproved, Reject
<1>12. ASSUME NEW p \in Proposals, Expire(p) \/ Poll(p) PROVE ContractStep
  BY <1>0, <1>12 DEF Expire, Poll, PollClaim, PollEnqueue
<1>13. CASE Resume \/ UNCHANGED vars
  BY <1>0, <1>13 DEF Resume, vars
<1>14. ASSUME NEW w \in Workers, NEW j \in Job, Claim(w, j) PROVE ContractStep
  BY <1>0, <1>14 DEF Claim
<1> QED
  BY <1>4, <1>9, <1>10, <1>11, <1>12, <1>13, <1>14 DEF Next

\* KeepsContract for every quantity above the partial-fill threshold: approvals,
\* trades, cancellations and verdicts of the whole path are those of OrderContract.
THEOREM ContractKept == PartiallyFills => (Spec => KeepsContract)
<1> SUFFICES ASSUME PartiallyFills PROVE Spec => KeepsContract
    OBVIOUS
<1>1. Init => Typed /\ ReceiptInv /\ RowsInv /\ FillsInv /\ Contract!Init
  <2>1. Init => ReceiptInv
    BY DEF Init, ReceiptInv, WorkersHaveReceipts, Committed, Unread, Working
  <2>2. Init => FillsInv
    BY ConstantsAssumption DEF Init, FillsInv
  <2>3. Init => Contract!Init
    <3> SUFFICES ASSUME Init PROVE Contract!Init
        OBVIOUS
    <3>1. Phase = [p \in Proposals |-> "proposed"]
      BY PhaseValues DEF Init, Phase
    <3>2. Traded = [p \in Proposals |-> 0]
      BY DEF Init, Traded
    <3>3. Reserved = [p \in Proposals |-> TRUE]
      BY DEF Init, Reserved
    <3> QED
      BY <3>1, <3>2, <3>3 DEF Contract!Init
  <2> QED
    BY <2>1, <2>2, <2>3, InitTypeOK, InitRowsInv DEF Init, Typed, HasTask, HasSubmission
<1>2. Typed /\ ReceiptInv /\ RowsInv /\ FillsInv /\ [Next]_vars
      => Typed' /\ ReceiptInv' /\ RowsInv' /\ FillsInv'
  BY NextTyped, NextReceipt, NextRowsInv, NextFills
<1>3. Typed /\ RowsInv /\ FillsInv /\ [Next]_vars => [Contract!Next]_(Contract!vars)
  BY NextContract DEF ContractStep
<1> QED
  BY <1>1, <1>2, <1>3, PTL DEF Spec, KeepsContract, Contract!Spec
=============================================================================
