------------------------- MODULE MCBrokerHydration -------------------------
EXTENDS BrokerHydration, TLC
Symmetry == Permutations(Workers)
=============================================================================
