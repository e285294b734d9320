---------------------------- MODULE MCPowerLoss ----------------------------
(* Instances of PowerLoss for TLC.                                         *)
EXTENDS PowerLoss

CONSTANTS h1, h2, n1, n2

\* One hash recorded in a namespace, one without.
MCNsOf == [h \in Hash |-> IF h = h1 THEN n1 ELSE None]
=============================================================================
