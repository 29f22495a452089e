----------------------- MODULE ProposalLifecycleProofs -----------------------
(***************************************************************************)
(* Proofs about ProposalLifecycle, for every set of proposals and callers  *)
(* and every bound of the clock and of the versions.                       *)
(***************************************************************************)
EXTENDS ProposalLifecycle, TLAPS

\* Init gives every variable a value of its type.
LEMMA InitTypeOK == Init => TypeOK
<1> USE BoundsAssumption DEF Init, TypeOK, Time, Never, ProposalStatus, Evidence,
        ApprovalMode
<1> QED OBVIOUS

\* What the guards of Transition say about a command that takes effect.
LEMMA CommandType ==
    ASSUME TypeOK, NEW c \in Callers, command[c] # NoCommand
    PROVE  /\ command[c] \in Command
           /\ command[c].proposal \in Proposals
           /\ command[c].to \in ProposalStatus
           /\ command[c].at \in Time
BY DEF TypeOK, Command

\* The transition graph leads into proposal statuses only.
LEMMA AllowedTransitionsType ==
    ASSUME NEW s PROVE AllowedTransitions(s) \subseteq ProposalStatus
BY DEF AllowedTransitions, ProposalStatus, BrokerOutcome

\* Recording a first time keeps the table of times well typed.
LEMMA FirstTimeType ==
    ASSUME NEW prior \in [Proposals -> Time \cup {Never}], NEW p \in Proposals,
           NEW entered, NEW to, NEW at \in Time
    PROVE  FirstTime(prior, p, entered, to, at) \in [Proposals -> Time \cup {Never}]
BY DEF FirstTime

\* A transition touches the row of its own proposal only.
LEMMA MoveIsLocal ==
    ASSUME TypeOK, NEW p \in Proposals, NEW to, NEW at, NEW proof, NEW q \in Proposals,
           MoveProposal(p, to, at, proof)
    PROVE  /\ q # p =>
                /\ status'[q] = status[q] /\ version'[q] = version[q]
                /\ updatedAt'[q] = updatedAt[q] /\ trail'[q] = trail[q]
                /\ approvedAt'[q] = approvedAt[q] /\ submittedAt'[q] = submittedAt[q]
                /\ evidence'[q] = evidence[q]
           /\ status'[p] = to /\ version'[p] = version[p] + 1
           /\ updatedAt'[p] = at /\ trail'[p] = trail[p] \cup {to}
           /\ approvedAt'[p] = IF to = "APPROVED" /\ approvedAt[p] = Never
                               THEN at ELSE approvedAt[p]
           /\ submittedAt'[p] = IF to = "SUBMITTING" /\ submittedAt[p] = Never
                                THEN at ELSE submittedAt[p]
           /\ evidence'[p] = IF to = "APPROVED" THEN proof ELSE evidence[p]
BY DEF TypeOK, MoveProposal, FirstTime

\* Every step keeps every variable in its type.
LEMMA NextTypeOK == TypeOK /\ [Next]_vars => TypeOK'
<1> SUFFICES ASSUME TypeOK, [Next]_vars PROVE TypeOK'
    OBVIOUS
<1> USE BoundsAssumption
<1>1. CASE Tick
  BY <1>1 DEF Tick, TypeOK, Time, Never, proposalVars, callerVars, Command
<1>2. ASSUME NEW p \in Proposals, Create(p) PROVE TypeOK'
  BY <1>2 DEF Create, TypeOK, ProposalStatus, callerVars
<1>3. ASSUME NEW c \in Callers, NEW p \in Proposals, Compose(c, p) PROVE TypeOK'
  <2>1. PICK to \in AllowedTransitions(status[p]) \cup {"APPROVED", "SUBMITTING"} :
          command' = [command EXCEPT ![c] =
            [proposal |-> p, to |-> to, expected |-> version[p], at |-> now]]
    BY <1>3 DEF Compose
  <2>2. to \in ProposalStatus
    BY AllowedTransitionsType DEF ProposalStatus
  <2>3. [proposal |-> p, to |-> to, expected |-> version[p], at |-> now] \in Command
    BY <2>2 DEF Command, TypeOK
  <2>4. command' \in [Callers -> Command \cup {NoCommand}]
    BY <2>1, <2>3 DEF TypeOK
  <2> QED
    BY <1>3, <2>4 DEF Compose, TypeOK, proposalVars
<1>4. ASSUME NEW c \in Callers, Reread(c) PROVE TypeOK'
  <2>1. command[c] # NoCommand /\ command[c] \in Command
    BY <1>4, CommandType DEF Reread
  <2>2. [command[c] EXCEPT !.expected = version[command[c].proposal]] \in Command
    BY <2>1 DEF Command, TypeOK
  <2>3. command' \in [Callers -> Command \cup {NoCommand}]
    BY <1>4, <2>2 DEF Reread, TypeOK
  <2> QED
    BY <1>4, <2>3 DEF Reread, TypeOK, proposalVars
<1>5. ASSUME NEW c \in Callers, NEW actor \in ActorType, NEW proof \in Evidence,
             Transition(c, actor, proof)
      PROVE  TypeOK'
  <2> DEFINE p == command[c].proposal
             to == command[c].to
             at == command[c].at
  <2>1. p \in Proposals /\ to \in ProposalStatus /\ at \in Time
    BY <1>5, CommandType DEF Transition
  <2>2. MoveProposal(p, to, at, proof) /\ version[p] < MaxVersion
    BY <1>5 DEF Transition
  <2>3. version' \in [Proposals -> 0..MaxVersion]
    BY <2>1, <2>2 DEF MoveProposal, TypeOK
  <2>4. approvedAt' \in [Proposals -> Time \cup {Never}]
        /\ submittedAt' \in [Proposals -> Time \cup {Never}]
    BY <2>1, <2>2, FirstTimeType DEF MoveProposal, TypeOK
  <2>5. /\ status' \in [Proposals -> ProposalStatus \cup {Absent}]
        /\ updatedAt' \in [Proposals -> Time]
        /\ trail' \in [Proposals -> SUBSET ProposalStatus]
        /\ evidence' \in [Proposals -> Evidence]
    BY <2>1, <2>2 DEF MoveProposal, TypeOK
  <2>6. applied' \in [Callers -> BOOLEAN] /\ effects' \in [Callers -> Nat]
    BY <1>5 DEF Transition, TypeOK
  <2> QED
    BY <1>5, <2>3, <2>4, <2>5, <2>6 DEF Transition, TypeOK
<1>6. CASE UNCHANGED vars
  BY <1>6 DEF TypeOK, vars, proposalVars, callerVars
<1> QED
  BY <1>1, <1>2, <1>3, <1>4, <1>5, <1>6 DEF Next

\* In every reachable state the proposals' rows and the callers' commands have
\* their types; versions and times stay within their ranges.
THEOREM TypeCorrect == Spec => []TypeOK
BY InitTypeOK, NextTypeOK, PTL DEF Spec

-----------------------------------------------------------------------------
(* Authorization                                                            *)

\* What a proposal's status says about the statuses it went through: the
\* strengthening that makes OnlyAuthorizedSubmission inductive.  Nothing is
\* known of the terminal statuses but what was true when they were entered.
Reviewed == {"BROKER_REVIEWED", "AWAITING_USER_APPROVAL", "APPROVED"} \cup ReconciliationStatus
Unasked == {Absent, "DRAFT", "ANALYZED", "SCHEMA_VALIDATED", "RISK_CHECKED", "BROKER_REVIEWED"}
Entered(p, s) == s \in trail[p]

TrailMatchesStatus(p) ==
    /\ status[p] \in Unasked => ~Entered(p, "AWAITING_USER_APPROVAL")
    /\ status[p] \in Unasked \cup {"AWAITING_USER_APPROVAL", "APPROVED"} =>
         ~Entered(p, "SUBMITTING")
    /\ status[p] \in Reviewed \cup {"RISK_CHECKED"} => Entered(p, "RISK_CHECKED")
    /\ status[p] \in Reviewed => Entered(p, "BROKER_REVIEWED")
    /\ status[p] = "AWAITING_USER_APPROVAL" => Entered(p, "AWAITING_USER_APPROVAL")
    /\ status[p] \in ReconciliationStatus \cup {"APPROVED"} =>
         Entered(p, "APPROVED") /\ ProperlyApproved(p)

AuthorizedTrail ==
    OnlyAuthorizedSubmission /\ \A p \in Proposals : TrailMatchesStatus(p)

\* A step that leaves the proposals' rows alone keeps what is said of them.
LEMMA AuthorizedTrailStutters ==
    ASSUME AuthorizedTrail, UNCHANGED <<status, trail, mode, evidence>>
    PROVE  AuthorizedTrail'
BY DEF AuthorizedTrail, TrailMatchesStatus, OnlyAuthorizedSubmission, ProperlyApproved, Entered

\* The edges of the graph, as far as authorization is concerned.
LEMMA EdgesByTarget ==
    ASSUME NEW s, NEW to \in AllowedTransitions(s), s \notin TerminalStatus
    PROVE  /\ to \notin {Absent, "DRAFT"}
           /\ to \in {"ANALYZED", "SCHEMA_VALIDATED", "RISK_CHECKED"} => s \in Unasked
           /\ to = "BROKER_REVIEWED" => s = "RISK_CHECKED"
           /\ to = "AWAITING_USER_APPROVAL" => s = "BROKER_REVIEWED"
           /\ to = "APPROVED" => s \in {"BROKER_REVIEWED", "AWAITING_USER_APPROVAL"}
           /\ to = "SUBMITTING" => s \in {"APPROVED", "RECONCILIATION_ERROR"}
           /\ to \in ReconciliationStatus => s \in ReconciliationStatus \cup {"APPROVED"}
BY DEF AllowedTransitions, ReconciliationStatus, BrokerOutcome, Unasked, Absent

\* Every step keeps the trail authorized.
LEMMA NextAuthorizedTrail == TypeOK /\ AuthorizedTrail /\ [Next]_vars => AuthorizedTrail'
<1> SUFFICES ASSUME TypeOK, AuthorizedTrail, [Next]_vars PROVE AuthorizedTrail'
    OBVIOUS
<1>1. CASE Tick
  BY <1>1, AuthorizedTrailStutters DEF Tick, proposalVars
<1>2. ASSUME NEW p \in Proposals, Create(p) PROVE AuthorizedTrail'
  BY <1>2 DEF Create, AuthorizedTrail, TrailMatchesStatus, OnlyAuthorizedSubmission,
        ProperlyApproved, Entered, Unasked, Reviewed, ReconciliationStatus, TypeOK, Absent
<1>3. ASSUME NEW c \in Callers, NEW p \in Proposals, Compose(c, p) PROVE AuthorizedTrail'
  BY <1>3, AuthorizedTrailStutters DEF Compose, proposalVars
<1>4. ASSUME NEW c \in Callers, Reread(c) PROVE AuthorizedTrail'
  BY <1>4, AuthorizedTrailStutters DEF Reread, proposalVars
<1>5. ASSUME NEW c \in Callers, NEW actor \in ActorType, NEW proof \in Evidence,
             Transition(c, actor, proof)
      PROVE  AuthorizedTrail'
  <2>1. PICK p \in Proposals, to \in ProposalStatus, at \in Time :
          p = command[c].proposal /\ to = command[c].to /\ at = command[c].at
    BY <1>5, CommandType DEF Transition
  <2>2. /\ MoveProposal(p, to, at, proof) /\ mode' = mode
        /\ status[p] \notin TerminalStatus /\ to \in AllowedTransitions(status[p])
        /\ ApprovalAuthorized(p, to, actor, proof)
    BY <1>5, <2>1 DEF Transition, EdgeAllowed
  <2>3. /\ status'[p] = to /\ trail'[p] = trail[p] \cup {to}
        /\ evidence'[p] = IF to = "APPROVED" THEN proof ELSE evidence[p]
    BY <2>1, <2>2, MoveIsLocal
  <2>4. TrailMatchesStatus(p) /\ (Entered(p, "SUBMITTING") => ProperlyApproved(p))
    BY <2>1 DEF AuthorizedTrail, OnlyAuthorizedSubmission, Entered
  <2>5. /\ to \notin {Absent, "DRAFT"}
        /\ to \in {"ANALYZED", "SCHEMA_VALIDATED", "RISK_CHECKED"} => status[p] \in Unasked
        /\ to = "BROKER_REVIEWED" => status[p] = "RISK_CHECKED"
        /\ to = "AWAITING_USER_APPROVAL" => status[p] = "BROKER_REVIEWED"
        /\ to = "APPROVED" => status[p] \in {"BROKER_REVIEWED", "AWAITING_USER_APPROVAL"}
        /\ to = "SUBMITTING" => status[p] \in {"APPROVED", "RECONCILIATION_ERROR"}
        /\ to \in ReconciliationStatus => status[p] \in ReconciliationStatus \cup {"APPROVED"}
    BY <2>2, EdgesByTarget
  <2>6. to = "APPROVED" => ProperlyApproved(p)'
    BY <2>2, <2>3, <2>4, <2>5
       DEF ApprovalAuthorized, ProperlyApproved, TrailMatchesStatus, Entered, Unasked
  <2>7. status[p] \in ReconciliationStatus \cup {"APPROVED"} => ProperlyApproved(p)'
    BY <2>2, <2>3, <2>4, <2>5
       DEF ProperlyApproved, TrailMatchesStatus, ReconciliationStatus, Unasked
  <2>8. TrailMatchesStatus(p)'
    BY <2>3, <2>4, <2>5, <2>6, <2>7
       DEF TrailMatchesStatus, Entered, Unasked, Reviewed, ReconciliationStatus
  <2>9. Entered(p, "SUBMITTING")' =>
          /\ {"RISK_CHECKED", "BROKER_REVIEWED", "APPROVED"} \subseteq trail'[p]
          /\ ProperlyApproved(p)'
    <3>1. CASE Entered(p, "SUBMITTING")
      <4>1. status[p] \in ReconciliationStatus
        BY <2>2, <2>4, <3>1
           DEF TrailMatchesStatus, AllowedTransitions, Unasked, ReconciliationStatus
      <4> QED
        BY <2>3, <2>4, <2>7, <4>1 DEF TrailMatchesStatus, Entered, Reviewed
    <3>2. CASE to = "SUBMITTING"
      BY <2>3, <2>4, <2>5, <2>7, <3>2
         DEF TrailMatchesStatus, Entered, Reviewed, ReconciliationStatus
    <3> QED
      BY <2>3, <3>1, <3>2 DEF Entered
  <2>10. ASSUME NEW q \in Proposals, q # p
         PROVE  /\ TrailMatchesStatus(q)'
                /\ Entered(q, "SUBMITTING")' =>
                     /\ {"RISK_CHECKED", "BROKER_REVIEWED", "APPROVED"} \subseteq trail'[q]
                     /\ ProperlyApproved(q)'
    <3>1. status'[q] = status[q] /\ trail'[q] = trail[q] /\ evidence'[q] = evidence[q]
      BY <2>1, <2>2, <2>10, MoveIsLocal
    <3> QED
      BY <2>2, <3>1 DEF AuthorizedTrail, TrailMatchesStatus, OnlyAuthorizedSubmission,
            ProperlyApproved, Entered
  <2> QED
    BY <2>8, <2>9, <2>10 DEF AuthorizedTrail, OnlyAuthorizedSubmission, Entered
<1>6. CASE UNCHANGED vars
  BY <1>6, AuthorizedTrailStutters DEF vars, proposalVars
<1> QED
  BY <1>1, <1>2, <1>3, <1>4, <1>5, <1>6 DEF Next

\* No order is submitted without a risk check, a broker review and the approval
\* its mode demands, whatever stale or repeated commands any number of callers
\* send (transitionProposal, assertApprovalAuthorization).
THEOREM AuthorizedSubmission == Spec => []OnlyAuthorizedSubmission
<1>1. Init => AuthorizedTrail
  BY DEF Init, AuthorizedTrail, TrailMatchesStatus, OnlyAuthorizedSubmission, Entered,
         Unasked, Reviewed, ReconciliationStatus, Absent
<1>2. AuthorizedTrail => OnlyAuthorizedSubmission
  BY DEF AuthorizedTrail
<1> QED
  BY <1>1, <1>2, NextAuthorizedTrail, TypeCorrect, PTL DEF Spec

-----------------------------------------------------------------------------
(* Expiration                                                               *)

\* Times of first approval and submission against the trail, the row's
\* updatedAt and the expiration: what makes SubmittedInTime inductive.
TimesMatchTrail(p) ==
    /\ status[p] = Absent => trail[p] = {}
    /\ submittedAt[p] # Never <=> Entered(p, "SUBMITTING")
    /\ approvedAt[p] # Never <=> Entered(p, "APPROVED")
    /\ approvedAt[p] # Never => approvedAt[p] <= updatedAt[p]
    /\ submittedAt[p] # Never =>
         approvedAt[p] <= submittedAt[p] /\ submittedAt[p] < expiresAt[p]
    /\ status[p] \in ReconciliationStatus => Entered(p, "SUBMITTING")
    /\ trail[p] \cap {"SUBMITTED", "PARTIALLY_FILLED", "FILLED"} # {} =>
         Entered(p, "SUBMITTING")

TimelyTrail == \A p \in Proposals : TimesMatchTrail(p)

LEMMA TimelyTrailStutters ==
    ASSUME TimelyTrail,
           UNCHANGED <<status, trail, updatedAt, expiresAt, approvedAt, submittedAt>>
    PROVE  TimelyTrail'
BY DEF TimelyTrail, TimesMatchTrail, Entered

\* One applied command keeps the times of its own proposal in order.
LEMMA MoveKeepsTimes ==
    ASSUME TypeOK, NEW p \in Proposals, NEW to \in ProposalStatus, NEW at \in Time, NEW proof,
           TimesMatchTrail(p), TrailMatchesStatus(p), UNCHANGED expiresAt,
           MoveProposal(p, to, at, proof), EdgeAllowed(p, to),
           InOrder(p, at), Unexpired(p, to, at)
    PROVE  TimesMatchTrail(p)'
<1>1. /\ status'[p] = to /\ to # Absent
      /\ updatedAt'[p] = at /\ trail'[p] = trail[p] \cup {to}
      /\ approvedAt'[p] = IF to = "APPROVED" /\ approvedAt[p] = Never
                          THEN at ELSE approvedAt[p]
      /\ submittedAt'[p] = IF to = "SUBMITTING" /\ submittedAt[p] = Never
                           THEN at ELSE submittedAt[p]
  BY MoveIsLocal DEF ProposalStatus, Absent
<1>2. /\ at \in Nat /\ updatedAt[p] \in Nat /\ expiresAt[p] \in Nat
      /\ at # Never /\ updatedAt[p] <= at
      /\ approvedAt[p] \in Nat /\ submittedAt[p] \in Nat /\ Never \in Nat
      /\ submittedAt[p] # Never => submittedAt[p] < Never
  BY BoundsAssumption DEF TypeOK, Time, Never, InOrder
<1>3. /\ to = "SUBMITTING" => status[p] \in {"APPROVED", "RECONCILIATION_ERROR"}
      /\ to \in ReconciliationStatus => status[p] \in ReconciliationStatus \cup {"APPROVED"}
      /\ to = "APPROVED" => status[p] \in {"BROKER_REVIEWED", "AWAITING_USER_APPROVAL"}
  BY EdgesByTarget DEF EdgeAllowed
<1>4. to \in {"SUBMITTED", "PARTIALLY_FILLED", "FILLED"} => status[p] \in ReconciliationStatus
  BY DEF EdgeAllowed, AllowedTransitions, ReconciliationStatus, BrokerOutcome
<1>5. approvedAt'[p] # Never <=> Entered(p, "APPROVED")'
  BY <1>1, <1>2 DEF TimesMatchTrail, Entered
<1>6. submittedAt'[p] # Never <=> Entered(p, "SUBMITTING")'
  BY <1>1, <1>2 DEF TimesMatchTrail, Entered
<1>7. approvedAt'[p] # Never => approvedAt'[p] <= updatedAt'[p]
  BY <1>1, <1>2 DEF TimesMatchTrail
<1>8. submittedAt'[p] # Never =>
        approvedAt'[p] <= submittedAt'[p] /\ submittedAt'[p] < expiresAt'[p]
  <2>1. CASE to = "SUBMITTING" /\ submittedAt[p] = Never
    <3>1. status[p] = "APPROVED"
      BY <1>3, <2>1 DEF TimesMatchTrail, ReconciliationStatus
    <3>2. approvedAt[p] # Never /\ approvedAt[p] <= at
      BY <1>2, <3>1 DEF TimesMatchTrail, TrailMatchesStatus
    <3>3. at < expiresAt[p]
      BY <2>1, <3>1 DEF Unexpired, ReconciliationStatus
    <3> QED
      BY <1>1, <2>1, <3>2, <3>3
  <2>2. CASE submittedAt[p] # Never
    <3>1. approvedAt[p] # Never
      BY <1>2, <2>2 DEF TimesMatchTrail
    <3> QED
      BY <1>1, <2>2, <3>1 DEF TimesMatchTrail
  <2>3. CASE to # "SUBMITTING" /\ submittedAt[p] = Never
    BY <1>1, <2>3
  <2> QED
    BY <2>1, <2>2, <2>3
<1>9. status'[p] \in ReconciliationStatus => Entered(p, "SUBMITTING")'
  BY <1>1, <1>3, <1>4 DEF TimesMatchTrail, Entered, ReconciliationStatus, EdgeAllowed,
     AllowedTransitions
<1>10. trail'[p] \cap {"SUBMITTED", "PARTIALLY_FILLED", "FILLED"} # {} =>
         Entered(p, "SUBMITTING")'
  BY <1>1, <1>4 DEF TimesMatchTrail, Entered
<1> QED
  BY <1>1, <1>5, <1>6, <1>7, <1>8, <1>9, <1>10 DEF TimesMatchTrail

\* Every step keeps the times in order.
LEMMA NextTimelyTrail ==
    TypeOK /\ AuthorizedTrail /\ TimelyTrail /\ [Next]_vars => TimelyTrail'
<1> SUFFICES ASSUME TypeOK, AuthorizedTrail, TimelyTrail, [Next]_vars PROVE TimelyTrail'
    OBVIOUS
<1>1. CASE Tick
  BY <1>1, TimelyTrailStutters DEF Tick, proposalVars
<1>2. ASSUME NEW p \in Proposals, Create(p) PROVE TimelyTrail'
  <2>1. approvedAt[p] = Never
    BY <1>2 DEF Create, TimelyTrail, TimesMatchTrail, Entered
  <2> QED
    BY <1>2, <2>1 DEF Create, TimelyTrail, TimesMatchTrail, Entered, TypeOK, Absent,
       ReconciliationStatus
<1>3. ASSUME NEW c \in Callers, NEW p \in Proposals, Compose(c, p) PROVE TimelyTrail'
  BY <1>3, TimelyTrailStutters DEF Compose, proposalVars
<1>4. ASSUME NEW c \in Callers, Reread(c) PROVE TimelyTrail'
  BY <1>4, TimelyTrailStutters DEF Reread, proposalVars
<1>5. ASSUME NEW c \in Callers, NEW actor \in ActorType, NEW proof \in Evidence,
             Transition(c, actor, proof)
      PROVE  TimelyTrail'
  <2>1. PICK p \in Proposals, to \in ProposalStatus, at \in Time :
          p = command[c].proposal /\ to = command[c].to /\ at = command[c].at
    BY <1>5, CommandType DEF Transition
  <2>2. /\ MoveProposal(p, to, at, proof) /\ UNCHANGED expiresAt
        /\ EdgeAllowed(p, to) /\ InOrder(p, at) /\ Unexpired(p, to, at)
    BY <1>5, <2>1 DEF Transition
  <2>3. TimesMatchTrail(p)'
    BY <2>2, MoveKeepsTimes DEF TimelyTrail, AuthorizedTrail
  <2>4. ASSUME NEW q \in Proposals, q # p PROVE TimesMatchTrail(q)'
    BY <2>2, <2>4, MoveIsLocal DEF TimelyTrail, TimesMatchTrail, Entered
  <2> QED
    BY <2>3, <2>4 DEF TimelyTrail
<1>6. CASE UNCHANGED vars
  BY <1>6, TimelyTrailStutters DEF vars, proposalVars
<1> QED
  BY <1>1, <1>2, <1>3, <1>4, <1>5, <1>6 DEF Next

\* An order is first handed to a broker after its approval and before its
\* expiration, however late commands arrive and with whatever time they were
\* composed (transitionProposal's monotone event time and expiration guard).
THEOREM TimelySubmission == Spec => []SubmittedInTime
<1>1. Init => AuthorizedTrail /\ TimelyTrail
  BY DEF Init, AuthorizedTrail, TrailMatchesStatus, OnlyAuthorizedSubmission, Entered,
         Unasked, Reviewed, ReconciliationStatus, Absent, TimelyTrail, TimesMatchTrail
<1>2. TimelyTrail => SubmittedInTime
  BY DEF TimelyTrail, TimesMatchTrail, SubmittedInTime
<1> QED
  BY <1>1, <1>2, NextAuthorizedTrail, NextTimelyTrail, TypeCorrect, PTL DEF Spec

-----------------------------------------------------------------------------
(* Idempotency and finality                                                 *)

\* An effect is recorded with the key that had it.
EffectsAreKeyed == \A c \in Callers : effects[c] = IF applied[c] THEN 1 ELSE 0

\* A command changes a proposal at most once, however often it is sent and
\* with whatever expected version (InMemoryProposalStore.transitionKeys).
THEOREM KeyedEffects == Spec => []KeyTakesEffectOnce
<1>1. Init => EffectsAreKeyed
  BY DEF Init, EffectsAreKeyed
<1>2. TypeOK /\ EffectsAreKeyed /\ [Next]_vars => EffectsAreKeyed'
  <2> SUFFICES ASSUME TypeOK, EffectsAreKeyed, [Next]_vars PROVE EffectsAreKeyed'
      OBVIOUS
  <2>1. CASE Tick
    BY <2>1 DEF Tick, callerVars, EffectsAreKeyed
  <2>2. ASSUME NEW p \in Proposals, Create(p) PROVE EffectsAreKeyed'
    BY <2>2 DEF Create, callerVars, EffectsAreKeyed
  <2>3. ASSUME NEW c \in Callers, NEW p \in Proposals, Compose(c, p) PROVE EffectsAreKeyed'
    BY <2>3 DEF Compose, EffectsAreKeyed, TypeOK
  <2>4. ASSUME NEW c \in Callers, Reread(c) PROVE EffectsAreKeyed'
    BY <2>4 DEF Reread, EffectsAreKeyed
  <2>5. ASSUME NEW c \in Callers, NEW actor \in ActorType, NEW proof \in Evidence,
               Transition(c, actor, proof)
        PROVE  EffectsAreKeyed'
    BY <2>5 DEF Transition, KeyUnused, EffectsAreKeyed, TypeOK
  <2>6. CASE UNCHANGED vars
    BY <2>6 DEF vars, callerVars, EffectsAreKeyed
  <2> QED
    BY <2>1, <2>2, <2>3, <2>4, <2>5, <2>6 DEF Next
<1>3. EffectsAreKeyed => KeyTakesEffectOnce
  BY DEF EffectsAreKeyed, KeyTakesEffectOnce
<1> QED
  BY <1>1, <1>2, <1>3, TypeCorrect, PTL DEF Spec

\* A proposal in a terminal status never moves again (transitionProposal's
\* first guard).
THEOREM TerminalStays == Spec => TerminalIsFinal
<1> DEFINE Stays == \A p \in Proposals :
               status[p] \in TerminalStatus =>
                   status'[p] = status[p] /\ version'[p] = version[p]
<1>1. TypeOK /\ [Next]_vars => Stays
  <2> SUFFICES ASSUME TypeOK, [Next]_vars PROVE Stays
      OBVIOUS
  <2>1. ASSUME NEW p \in Proposals, Create(p) PROVE Stays
    BY <2>1 DEF Create, TypeOK, TerminalStatus, Absent
  <2>2. ASSUME NEW c \in Callers, NEW actor \in ActorType, NEW proof \in Evidence,
               Transition(c, actor, proof)
        PROVE  Stays
    <3>1. PICK p \in Proposals : p = command[c].proposal
      BY <2>2, CommandType DEF Transition
    <3>2. MoveProposal(p, command[c].to, command[c].at, proof) /\ status[p] \notin TerminalStatus
      BY <2>2, <3>1 DEF Transition, EdgeAllowed
    <3> QED
      BY <3>2, MoveIsLocal
  <2>3. CASE Tick \/ UNCHANGED vars
    BY <2>3 DEF Tick, vars, proposalVars
  <2>4. ASSUME NEW c \in Callers, Reread(c) \/ \E p \in Proposals : Compose(c, p)
        PROVE  Stays
    BY <2>4 DEF Reread, Compose, proposalVars
  <2> QED
    BY <2>1, <2>2, <2>3, <2>4 DEF Next
<1> QED
  BY <1>1, TypeCorrect, PTL DEF Spec, TerminalIsFinal
=============================================================================
