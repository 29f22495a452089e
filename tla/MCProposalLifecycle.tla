------------------------- MODULE MCProposalLifecycle -------------------------
(* One proposal in each approval mode against two concurrent callers.       *)
EXTENDS ProposalLifecycle, TLC

CallerSymmetry == Permutations(Callers)
=============================================================================
