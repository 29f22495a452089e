---------------------------- MODULE OrderContract ----------------------------
(***************************************************************************)
(* What the order path promises a user, without services, workers, brokers *)
(* or jobs: a proposal is approved before it trades; trading only adds to  *)
(* what was bought and never beyond the proposal's quantity; the capital   *)
(* reserved for it is given back by a cancellation and by nothing else;    *)
(* and a canceled, closed or filled proposal keeps that verdict.           *)
(***************************************************************************)
EXTENDS Integers

CONSTANTS Proposals, Quantity

VARIABLES
    phase,      \* "proposed", "approved", "working", "filled", "canceled", "closed"
    traded,     \* quantity filled so far
    reserved    \* the proposal's capital is set aside

vars == <<phase, traded, reserved>>

Init ==
    /\ phase = [p \in Proposals |-> "proposed"]
    /\ traded = [p \in Proposals |-> 0]
    /\ reserved = [p \in Proposals |-> TRUE]

Approve(p) ==
    /\ phase[p] = "proposed"
    /\ phase' = [phase EXCEPT ![p] = "approved"]
    /\ UNCHANGED <<traded, reserved>>

\* Rejected by the user or expired.
Close(p) ==
    /\ phase[p] \in {"proposed", "approved"}
    /\ phase' = [phase EXCEPT ![p] = "closed"]
    /\ UNCHANGED <<traded, reserved>>

StartWorking(p) ==
    /\ phase[p] = "approved"
    /\ phase' = [phase EXCEPT ![p] = "working"]
    /\ UNCHANGED <<traded, reserved>>

\* The order trades, and may be done; its last fill may be recorded after the
\* proposal was reported filled.
Trade(p) ==
    /\ phase[p] \in {"working", "filled"}
    /\ \E q \in traded[p]..Quantity : traded' = [traded EXCEPT ![p] = q]
    /\ phase' \in {phase, [phase EXCEPT ![p] = "filled"]}
    /\ UNCHANGED reserved

\* Canceling withdraws any set of proposals that are not done.
Cancel(ps) ==
    /\ \A p \in ps : phase[p] \in {"proposed", "approved", "working"}
    /\ phase' = [p \in Proposals |-> IF p \in ps THEN "canceled" ELSE phase[p]]
    /\ reserved' = [p \in Proposals |-> reserved[p] /\ p \notin ps]
    /\ UNCHANGED traded

Next ==
    \/ \E p \in Proposals : Approve(p) \/ Close(p) \/ StartWorking(p) \/ Trade(p)
    \/ \E ps \in SUBSET Proposals : Cancel(ps)

Spec == Init /\ [][Next]_vars
=============================================================================
