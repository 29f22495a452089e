---------------------------- MODULE MCPlanCycles ----------------------------
EXTENDS PlanCycles, TLC
Symmetry == Permutations(Workers)
MCFrequency == [a \in Agents |-> 2 * a]
MCWatches == [a \in Agents |-> IF a = 1 THEN "AAPL" ELSE "MSFT"]
MCAttempts == [k \in {"refresh", "research", "quote", "run", "order"} |-> IF k = "research" THEN 2 ELSE 1]

\* Two agents of one cohort; or one agent, and either whatever may fail, or an
\* agent that joins or leaves, or a new catalog beside the scheduler.
MCInit ==
    /\ Init
    /\ since[2] = 0
    /\ \/ now = 1 /\ since[1] = 0
          /\ <<changes, faults, catalog>> = <<MaxChanges, MaxFaults, MaxCatalogs>>
       \/ now = 0 /\ since[1] = Never
          /\ <<changes, faults, catalog>> = <<MaxChanges, 0, MaxCatalogs>>
       \/ now = 2 /\ since[1] = Never
          /\ <<changes, faults, catalog>> = <<0, MaxFaults, MaxCatalogs>>
       \/ now = 1 /\ since[1] = Never
          /\ <<changes, faults, catalog>> = <<MaxChanges, MaxFaults, 1>>
MCSpec == MCInit /\ [][Next]_vars
=============================================================================
