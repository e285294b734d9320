--------------------------- MODULE MCStoreQueries ---------------------------
(* Instances of StoreQueries for TLC.                                      *)
EXTENDS StoreQueries

CONSTANTS h1, h2, n1

\* Both hashes in the one namespace.
MCNsOf == [h \in Hash |-> n1]
=============================================================================
