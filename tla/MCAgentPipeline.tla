--------------------------- MODULE MCAgentPipeline ---------------------------
(* The instances of AgentPipeline that TLC checks. *)
EXTENDS AgentPipeline, TLC

Tight == [Platform EXCEPT !.quoteAge = 1, !.accountAge = 1]
OneOrder == {7}
Ineligible == {{}, {"CURRENT_ELIGIBILITY_REQUIRED"}}
Interchangeable == Permutations(Workers) \cup Permutations(Agents) \cup Permutations(Symbols)
=============================================================================
