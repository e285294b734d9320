---------------------------- MODULE MCDiskStore ----------------------------
(* Instances of DiskStore for TLC.                                         *)
EXTENDS DiskStore

CONSTANTS h1, h2, n1

\* One hash recorded in a namespace, one without.
MCNsOf == [h \in Hash |-> IF h = h1 THEN n1 ELSE None]
=============================================================================
