------------------------------ MODULE MCChannel ------------------------------
\* A model of Channel for TLC.
EXTENDS Channel, TLC

\* The slots of connections are alike, and every property is of safety.
Perms == Permutations(Conn)
=============================================================================
