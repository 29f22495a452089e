----------------------- MODULE MCBrokerAuthorization -----------------------
EXTENDS BrokerAuthorization, TLC
Symmetry == Permutations(Pairings)
=============================================================================
