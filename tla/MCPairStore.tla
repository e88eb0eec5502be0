---------------------------- MODULE MCPairStore ----------------------------
(* PairStore for TLC.                                                      *)
EXTENDS PairStore, TLC

\* Keys, token values and page loads are interchangeable.
Interchangeable ==
    Permutations(Device) \cup Permutations(Token) \cup Permutations(Page)
=============================================================================
