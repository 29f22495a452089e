------------------------- MODULE AtLeastOnceDelivery -------------------------
(***************************************************************************)
(* What the durable job queue promises to whoever enqueues a job, without  *)
(* leases, locks, workers or time: a job is open until it is settled for   *)
(* good; it is only reported successful after its handler has run to the   *)
(* end at least once; and every job is settled eventually.  The handler    *)
(* may run more often than that, even after the job was settled.           *)
(***************************************************************************)
CONSTANT Jobs

VARIABLES
    phase,      \* "absent", "open", "succeeded" or "dead_letter"
    handled     \* the handler has returned normally at least once

vars == <<phase, handled>>

Init ==
    /\ phase = [j \in Jobs |-> "absent"]
    /\ handled = [j \in Jobs |-> FALSE]

Enqueue(j) ==
    /\ phase[j] = "absent"
    /\ phase' = [phase EXCEPT ![j] = "open"]
    /\ UNCHANGED handled

Handle(j) ==
    /\ phase[j] # "absent"
    /\ handled' = [handled EXCEPT ![j] = TRUE]
    /\ UNCHANGED phase

Succeed(j) ==
    /\ phase[j] = "open"
    /\ handled[j]
    /\ phase' = [phase EXCEPT ![j] = "succeeded"]
    /\ UNCHANGED handled

GiveUp(j) ==
    /\ phase[j] = "open"
    /\ phase' = [phase EXCEPT ![j] = "dead_letter"]
    /\ UNCHANGED handled

Next == \E j \in Jobs : Enqueue(j) \/ Handle(j) \/ Succeed(j) \/ GiveUp(j)

Fairness == \A j \in Jobs : WF_vars(Succeed(j) \/ GiveUp(j))

Spec == Init /\ [][Next]_vars
FairSpec == Spec /\ Fairness
=============================================================================
