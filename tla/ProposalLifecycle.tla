-------------------------- MODULE ProposalLifecycle --------------------------
(***************************************************************************)
(* The proposal state machine of the agent orchestrator                    *)
(* (transitionProposal) behind its store (InMemoryProposalStore).          *)
(*                                                                         *)
(* Callers of the store are concurrent and hold old information: a caller  *)
(* composes a command from the proposal it read, captures the time once,   *)
(* and may send it late, send it again after a lost answer, or send it     *)
(* again with a freshly read expectedVersion (the idempotency key covers   *)
(* the command and not the expected version).  A caller's key is live      *)
(* until the caller gives its command up, so `applied' needs one entry per *)
(* caller: it says whether the live key is in the store's transitionKeys.  *)
(* The actor and the approval evidence are chosen when a command is sent:  *)
(* the store must be safe against any sender.                              *)
(*                                                                         *)
(* The immutable `transitions' history is kept as the set of statuses      *)
(* entered (trail), the times of the first approval and submission, and    *)
(* the evidence recorded with the approval.                                *)
(***************************************************************************)
EXTENDS ProposalStates, Naturals

CONSTANTS
    Proposals,      \* proposal ids
    Callers,        \* concurrent users of the store
    NoCommand,      \* model value: the caller holds no command
    MaxTime,        \* bound of the clock
    MaxVersion      \* bound of a proposal's version

ASSUME BoundsAssumption ==
    /\ MaxTime \in Nat
    /\ MaxVersion \in Nat
    /\ NoCommand \notin [proposal : Proposals, to : ProposalStatus,
                         expected : Nat, at : Nat]

VARIABLES
    now,            \* wall clock
    mode,           \* proposal.requiredApprovalMode
    expiresAt,      \* proposal.expirationTimestamp
    status, version, updatedAt,
    trail,          \* statuses entered so far, from transitions
    approvedAt, submittedAt,   \* time of the first event into each, or Never
    evidence,       \* what the APPROVED event's metadata proves
    command,        \* command[c]: the caller's pending command
    applied,        \* command[c]'s key is recorded in transitionKeys
    effects         \* how often command[c] changed the proposal (history)

proposalVars == <<mode, expiresAt, status, version, updatedAt, trail,
                  approvedAt, submittedAt, evidence>>
callerVars == <<command, applied, effects>>
vars == <<now, proposalVars, callerVars>>

Time == 0..MaxTime
Never == MaxTime + 1
Absent == "absent"
ApprovalMode == {"observe", "confirm_every_trade", "automatic_within_limits"}
\* Valid, fresh evidence a command carries; "none" stands for any evidence
\* that is missing, someone else's or dated after the event.
Evidence == {"none", "authenticated_owner", "autonomous_gate"}
Command == [proposal : Proposals, to : ProposalStatus,
            expected : 0..MaxVersion, at : Time]

Init ==
    /\ now = 0
    /\ mode \in [Proposals -> ApprovalMode]
    /\ expiresAt \in [Proposals -> Time]
    /\ status = [p \in Proposals |-> Absent]
    /\ version = [p \in Proposals |-> 0]
    /\ updatedAt = [p \in Proposals |-> 0]
    /\ trail = [p \in Proposals |-> {}]
    /\ approvedAt = [p \in Proposals |-> Never]
    /\ submittedAt = [p \in Proposals |-> Never]
    /\ evidence = [p \in Proposals |-> "none"]
    /\ command = [c \in Callers |-> NoCommand]
    /\ applied = [c \in Callers |-> FALSE]
    /\ effects = [c \in Callers |-> 0]

Tick ==
    /\ now < MaxTime
    /\ now' = now + 1
    /\ UNCHANGED <<proposalVars, callerVars>>

\* create: a second call with the creation key returns the prior aggregate.
Create(p) ==
    /\ status[p] = Absent
    /\ status' = [status EXCEPT ![p] = "DRAFT"]
    /\ updatedAt' = [updatedAt EXCEPT ![p] = now]
    /\ UNCHANGED <<now, mode, expiresAt, version, trail, approvedAt,
                   submittedAt, evidence, callerVars>>

\* A caller reads the proposal and composes a command under a fresh key.  The
\* targets worth sending: every legal one, and the two that execute a trade.
Compose(c, p) ==
    /\ status[p] # Absent
    /\ \E to \in AllowedTransitions(status[p]) \cup {"APPROVED", "SUBMITTING"} :
         command' = [command EXCEPT ![c] =
             [proposal |-> p, to |-> to, expected |-> version[p], at |-> now]]
    /\ applied' = [applied EXCEPT ![c] = FALSE]
    /\ effects' = [effects EXCEPT ![c] = 0]
    /\ UNCHANGED <<now, proposalVars>>

\* The answer was lost or a conflict reported: same command and key, but the
\* expected version is read again.
Reread(c) ==
    /\ command[c] # NoCommand
    /\ command' = [command EXCEPT ![c].expected = version[command[c].proposal]]
    /\ UNCHANGED <<now, proposalVars, applied, effects>>

-----------------------------------------------------------------------------
(* transitionProposal                                                       *)

\* Mutant: expiring is allowed from everywhere.
EdgeAllowedOrExpires(p, to) == to \in AllowedTransitions(status[p]) \cup {"EXPIRED"}

EdgeAllowed(p, to) ==
    /\ status[p] \notin TerminalStatus
    /\ to \in AllowedTransitions(status[p])

\* Mutant: the instant of expiration still counts as unexpired.
UnexpiredAtTheInstant(p, to, at) ==
    \/ at <= expiresAt[p]
    \/ to = "EXPIRED"
    \/ status[p] \in ReconciliationStatus

Unexpired(p, to, at) ==
    \/ at < expiresAt[p]
    \/ to = "EXPIRED"
    \/ status[p] \in ReconciliationStatus

\* Mutant: the status the user approves in is not checked.
ApprovalFromAnyStatus(p, to, actor, proof) ==
    to = "APPROVED" =>
        \/ /\ mode[p] = "confirm_every_trade"
           /\ actor = "user"
           /\ proof = "authenticated_owner"
        \/ /\ mode[p] = "automatic_within_limits"
           /\ actor = "worker"
           /\ proof = "autonomous_gate"

\* assertApprovalAuthorization
ApprovalAuthorized(p, to, actor, proof) ==
    to = "APPROVED" =>
        \/ /\ mode[p] = "confirm_every_trade"
           /\ status[p] = "AWAITING_USER_APPROVAL"
           /\ actor = "user"
           /\ proof = "authenticated_owner"
        \/ /\ mode[p] = "automatic_within_limits"
           /\ status[p] = "BROKER_REVIEWED"
           /\ actor = "worker"
           /\ proof = "autonomous_gate"

FirstTime(prior, p, entered, to, at) ==
    IF to = entered /\ prior[p] = Never THEN [prior EXCEPT ![p] = at] ELSE prior

MoveProposal(p, to, at, proof) ==
    /\ status' = [status EXCEPT ![p] = to]
    /\ version' = [version EXCEPT ![p] = @ + 1]
    /\ updatedAt' = [updatedAt EXCEPT ![p] = at]
    /\ trail' = [trail EXCEPT ![p] = @ \cup {to}]
    /\ approvedAt' = FirstTime(approvedAt, p, "APPROVED", to, at)
    /\ submittedAt' = FirstTime(submittedAt, p, "SUBMITTING", to, at)
    /\ evidence' = IF to = "APPROVED" THEN [evidence EXCEPT ![p] = proof] ELSE evidence

\* Mutant: a recorded key is not looked up.
KeyNotLookedUp(c) == command[c] # NoCommand
KeyUnused(c) == ~applied[c]
VersionMatches(c) == version[command[c].proposal] = command[c].expected
InOrder(p, at) == updatedAt[p] <= at

\* transition: the store's critical section for one command.  Every refusal
\* (unknown key reuse, stale version, illegal edge, actor, time, expiration,
\* approval) and the replay of a recorded key leave the store as it is.
Transition(c, actor, proof) ==
    LET cmd == command[c]
        p == cmd.proposal
    IN  /\ cmd # NoCommand
        /\ KeyUnused(c)
        /\ VersionMatches(c)
        /\ version[p] < MaxVersion
        /\ EdgeAllowed(p, cmd.to)
        /\ actor \in AuthorizedActors(cmd.to)
        /\ InOrder(p, cmd.at)
        /\ Unexpired(p, cmd.to, cmd.at)
        /\ ApprovalAuthorized(p, cmd.to, actor, proof)
        /\ MoveProposal(p, cmd.to, cmd.at, proof)
        /\ applied' = [applied EXCEPT ![c] = TRUE]
        /\ effects' = [effects EXCEPT ![c] = @ + 1]
        /\ UNCHANGED <<now, mode, expiresAt, command>>

Next ==
    \/ Tick
    \/ \E p \in Proposals : Create(p)
    \/ \E c \in Callers, p \in Proposals : Compose(c, p)
    \/ \E c \in Callers : Reread(c)
    \/ \E c \in Callers, actor \in ActorType, proof \in Evidence :
         Transition(c, actor, proof)

Spec == Init /\ [][Next]_vars

-----------------------------------------------------------------------------
(* Properties                                                               *)

TypeOK ==
    /\ now \in Time
    /\ mode \in [Proposals -> ApprovalMode]
    /\ expiresAt \in [Proposals -> Time]
    /\ status \in [Proposals -> ProposalStatus \cup {Absent}]
    /\ version \in [Proposals -> 0..MaxVersion]
    /\ updatedAt \in [Proposals -> Time]
    /\ trail \in [Proposals -> SUBSET ProposalStatus]
    /\ approvedAt \in [Proposals -> Time \cup {Never}]
    /\ submittedAt \in [Proposals -> Time \cup {Never}]
    /\ evidence \in [Proposals -> Evidence]
    /\ command \in [Callers -> Command \cup {NoCommand}]
    /\ applied \in [Callers -> BOOLEAN]
    /\ effects \in [Callers -> Nat]

\* What an authorized approval must have left in the history for its mode.
ProperlyApproved(p) ==
    \/ /\ mode[p] = "confirm_every_trade"
       /\ evidence[p] = "authenticated_owner"
       /\ "AWAITING_USER_APPROVAL" \in trail[p]
    \/ /\ mode[p] = "automatic_within_limits"
       /\ evidence[p] = "autonomous_gate"
       /\ "AWAITING_USER_APPROVAL" \notin trail[p]

\* No interleaving of stale, repeated or hostile commands gets an order to a
\* broker (SUBMITTING and beyond) unless the proposal was risk checked, broker
\* reviewed and approved in the way its mode demands; Observe mode never.
OnlyAuthorizedSubmission ==
    \A p \in Proposals :
        "SUBMITTING" \in trail[p] =>
            /\ {"RISK_CHECKED", "BROKER_REVIEWED", "APPROVED"} \subseteq trail[p]
            /\ ProperlyApproved(p)

\* The order was first handed to a broker before the proposal's expiration and
\* not before its approval; later recovery may outlive the expiration, and a
\* fill only ever exists for a proposal that was submitted in time.
SubmittedInTime ==
    \A p \in Proposals :
        /\ submittedAt[p] # Never =>
             approvedAt[p] <= submittedAt[p] /\ submittedAt[p] < expiresAt[p]
        /\ trail[p] \cap {"SUBMITTED", "PARTIALLY_FILLED", "FILLED"} # {} =>
             submittedAt[p] # Never

\* A command is applied at most once under its key, also when it is repeated
\* with the version it produced and the graph would allow the same edge again
\* (PARTIALLY_FILLED to PARTIALLY_FILLED, SUBMITTING after a reconciliation).
KeyTakesEffectOnce == \A c \in Callers : effects[c] <= 1

\* A terminal proposal never changes again, whoever holds commands for it.
TerminalIsFinal ==
    [][\A p \in Proposals :
         status[p] \in TerminalStatus =>
             status'[p] = status[p] /\ version'[p] = version[p]]_vars
=============================================================================
