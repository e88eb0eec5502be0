----------------------------- MODULE MCPairFlow -----------------------------
\* A model of PairFlow for TLC.
EXTENDS PairFlow, TLC
Perms == Permutations(Conn)
=============================================================================
