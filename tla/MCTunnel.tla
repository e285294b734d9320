------------------------------ MODULE MCTunnel ------------------------------
(* Instances of Tunnel for TLC: every client of up to MaxRequests requests. *)
EXTENDS Tunnel
=============================================================================
