---------------------------- MODULE ProposalStates ----------------------------
(***************************************************************************)
(* The vocabulary of a trade proposal's lifecycle: its statuses            *)
(* (packages/contracts), the transition graph and the actor allowed to     *)
(* move a proposal into each status (agent-orchestrator).  Everything here *)
(* is constant-level; the modules that keep proposals extend it.           *)
(***************************************************************************)

ProposalStatus ==
    {"DRAFT", "ANALYZED", "SCHEMA_VALIDATED", "RISK_CHECKED", "RISK_REJECTED",
     "BROKER_REVIEWED", "BROKER_REJECTED", "AWAITING_USER_APPROVAL",
     "USER_REJECTED", "APPROVED", "SUBMITTING", "SUBMITTED",
     "PARTIALLY_FILLED", "FILLED", "CANCELED", "REJECTED", "EXPIRED",
     "RECONCILIATION_ERROR"}

TerminalStatus ==
    {"RISK_REJECTED", "BROKER_REJECTED", "USER_REJECTED", "FILLED",
     "CANCELED", "REJECTED", "EXPIRED"}

ActorType == {"system", "user", "worker", "broker", "operator"}

\* Mutant: a status the contract does not list.
BrokerOutcomeMisspelt ==
    {"FILLED", "CANCELED", "REJECTED", "PARTIAL_FILL", "RECONCILIATION_ERROR"}

\* What follows a placement the broker may have accepted, whatever is known.
BrokerOutcome ==
    {"FILLED", "CANCELED", "REJECTED", "PARTIALLY_FILLED", "RECONCILIATION_ERROR"}

\* ALLOWED_PROPOSAL_TRANSITIONS: the statuses reachable from s in one step.
AllowedTransitions(s) ==
    CASE s = "DRAFT"                  -> {"ANALYZED", "CANCELED", "EXPIRED"}
      [] s = "ANALYZED"               -> {"SCHEMA_VALIDATED", "REJECTED", "EXPIRED"}
      [] s = "SCHEMA_VALIDATED"       -> {"RISK_CHECKED", "RISK_REJECTED", "EXPIRED"}
      [] s = "RISK_CHECKED"           -> {"BROKER_REVIEWED", "BROKER_REJECTED", "EXPIRED"}
      [] s = "BROKER_REVIEWED"        -> {"AWAITING_USER_APPROVAL", "APPROVED",
                                          "BROKER_REJECTED", "EXPIRED"}
      [] s = "AWAITING_USER_APPROVAL" -> {"APPROVED", "USER_REJECTED", "EXPIRED", "CANCELED"}
      [] s = "APPROVED"               -> {"SUBMITTING", "CANCELED", "EXPIRED"}
      [] s = "SUBMITTING"             -> {"SUBMITTED", "REJECTED", "RECONCILIATION_ERROR"}
      [] s = "SUBMITTED"              -> BrokerOutcome
      [] s = "PARTIALLY_FILLED"       -> BrokerOutcome
      [] s = "RECONCILIATION_ERROR"   -> {"SUBMITTING", "SUBMITTED", "PARTIALLY_FILLED",
                                          "FILLED", "CANCELED", "REJECTED"}
      [] OTHER                        -> {}

\* actorAuthorization: who may move a proposal into status s.
AuthorizedActors(s) ==
    CASE s \in {"ANALYZED", "SCHEMA_VALIDATED", "EXPIRED"} -> {"system", "worker"}
      [] s \in {"RISK_CHECKED", "RISK_REJECTED", "AWAITING_USER_APPROVAL",
                "SUBMITTING", "RECONCILIATION_ERROR"} -> {"worker"}
      [] s \in {"BROKER_REVIEWED", "BROKER_REJECTED", "SUBMITTED",
                "PARTIALLY_FILLED", "FILLED", "REJECTED"} -> {"worker", "broker"}
      [] s = "USER_REJECTED" -> {"user"}
      [] s = "APPROVED"      -> {"user", "worker"}
      [] s = "CANCELED"      -> {"user", "worker", "broker", "operator"}
      [] OTHER               -> {}

\* The statuses an order may already be working in: expiration no longer bites.
ReconciliationStatus ==
    {"SUBMITTING", "SUBMITTED", "PARTIALLY_FILLED", "RECONCILIATION_ERROR"}
=============================================================================
