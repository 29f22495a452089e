---------------------------- MODULE MCExecution ----------------------------
EXTENDS Execution

Failures(throws, defers, lapses, crashes) ==
    [h \in Hazard |-> CASE h = "throw" -> throws [] h = "defer" -> defers
                        [] h = "lapse" -> lapses [] h = "crash" -> crashes]

\* A stalled worker beside its successor, or one of each other failure.
StallOrFail == {Failures(0, 0, 1, 0), Failures(1, 1, 0, 1)}

\* A stalled worker.
Stall == {Failures(0, 0, 1, 0)}
=============================================================================
