------------------------------- MODULE MCGate -------------------------------
(* Gate for TLC.                                                           *)
EXTENDS Gate, TLC
=============================================================================
