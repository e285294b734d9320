------------------------------ MODULE MCProxy ------------------------------
(* Instances of Proxy for TLC.                                             *)
EXTENDS Proxy

CONSTANTS h1, h2, q1, q2, q3, q4

\* With two hashes, q3 alone asks something else; with one, all ask the same.
MCHashOf == [r \in Reqs |-> IF r = q3 /\ h2 \in Hash THEN h2 ELSE h1]
=============================================================================
