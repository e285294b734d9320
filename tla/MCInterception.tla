--------------------------- MODULE MCInterception ---------------------------
(* Instances of Interception for TLC: two processes on one CA directory.   *)
EXTENDS Interception
=============================================================================
