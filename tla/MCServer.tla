------------------------------ MODULE MCServer ------------------------------
(* Instances of Server for TLC.                                            *)
EXTENDS Server

CONSTANTS h1, q1, q2, q3

\* All requests ask the same.
MCHashOf == [r \in Reqs |-> h1]
=============================================================================
