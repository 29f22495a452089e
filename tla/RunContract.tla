----------------------------- MODULE RunContract -----------------------------
(***************************************************************************)
(* What the agent runs promise their user, without transactions, snapshots,*)
(* clocks or money: a run is decided once and at one instant; it offers a  *)
(* symbol only while no other offer of that symbol stands; capital is set  *)
(* aside with the request for approval and given back by a cancellation    *)
(* alone; nothing is approved or submitted for an agent that may not       *)
(* trade; and what stopping an agent withdraws never comes back.           *)
(***************************************************************************)
CONSTANTS Agents, Runs, Symbols     \* a run is a pair: its agent, and which of its runs

VARIABLES
    trading,    \* the agents that may trade
    phase,      \* how far each run came
    offers,     \* <<run, symbol>>: what the runs offered
    reserved    \* the runs with capital set aside

vars == <<trading, phase, offers, reserved>>

Standing == {"shown", "asked", "approved"}

Stands(r, s) == <<r, s>> \in offers /\ phase[r] \in Standing

Move(r, p) == phase' = [phase EXCEPT ![r] = p]

Init ==
    /\ trading = Agents
    /\ phase = [r \in Runs |-> "undecided"]
    /\ offers = {} /\ reserved = {}

Decline(r) ==
    /\ phase[r] = "undecided"
    /\ Move(r, "declined")
    /\ UNCHANGED <<trading, offers, reserved>>

\* What is offered is only shown to the user, or asked to be approved.
Offer(r, s) ==
    /\ phase[r] = "undecided"
    /\ \A q \in Runs : ~Stands(q, s)
    /\ offers' = offers \cup {<<r, s>>}
    /\ \/ Move(r, "shown") /\ UNCHANGED reserved
       \/ Move(r, "asked") /\ reserved' = reserved \cup {r}
    /\ UNCHANGED trading

\* A refusal, or a lapse, leaves the capital to lapse as well.
Answer(r) ==
    /\ phase[r] = "asked"
    /\ Move(r, "closed") \/ (r[1] \in trading /\ Move(r, "approved"))
    /\ UNCHANGED <<trading, offers, reserved>>

Submit(r) ==
    /\ phase[r] = "approved" /\ r[1] \in trading /\ r \in reserved
    /\ Move(r, "submitted")
    /\ UNCHANGED <<trading, offers, reserved>>

Finish(r) ==
    /\ phase[r] = "submitted"
    /\ \/ Move(r, "filled") /\ UNCHANGED reserved
       \/ Move(r, "canceled") /\ reserved' = reserved \ {r}
    /\ UNCHANGED <<trading, offers>>

Stop(A) ==
    LET withdrawn == {r \in Runs : r[1] \in A /\ phase[r] \in Standing}
    IN /\ trading' = trading \ A
       /\ phase' = [r \in Runs |-> IF r \in withdrawn THEN "canceled" ELSE phase[r]]
       /\ reserved' = reserved \ withdrawn
       /\ UNCHANGED offers

Resume(a) ==
    /\ trading' = trading \cup {a}
    /\ UNCHANGED <<phase, offers, reserved>>

Next ==
    \/ \E a \in Agents : Resume(a)
    \/ \E A \in SUBSET Agents : Stop(A)
    \/ \E r \in Runs : Decline(r) \/ Answer(r) \/ Submit(r) \/ Finish(r)
    \/ \E r \in Runs, s \in Symbols : Offer(r, s)

Spec == Init /\ [][Next]_vars
=============================================================================
