--------------------------- MODULE CassetteStore ---------------------------
(***************************************************************************)
(* What the Store interface of pkg/store promises its users: a dictionary  *)
(* from request hashes to recordings that survives a restart.              *)
(*                                                                         *)
(* recorded is the durable content, what the next start of the program     *)
(* will serve.  hidden holds the recordings that exist but cannot be found *)
(* before that start: all of them while the store is down, and, when the   *)
(* disk may fail, those whose index update was lost.                       *)
(***************************************************************************)
CONSTANTS
    Hash,      \* request hashes
    Recs,      \* recordings (the content of a cassette)
    None,      \* no recording
    IOFaults   \* TRUE when an update of the disk or the index may fail

VARIABLES
    recorded,  \* [Hash -> Recs \cup {None}]
    hidden,    \* SUBSET Hash
    online,    \* the store is open
    reply      \* the last answer of LoadByHash, None before the first

cvars == <<recorded, hidden, online, reply>>

Present == {h \in Hash : recorded[h] # None}

\* What LoadByHash answers: an error is None.
Visible(h) == IF online /\ h \notin hidden THEN recorded[h] ELSE None

Init ==
    /\ recorded \in [Hash -> Recs \cup {None}]
    /\ hidden = Present
    /\ online = FALSE
    /\ reply = None

\* A save is atomic, and visible at once when the store is open.
Save(h, r) ==
    /\ recorded' = [recorded EXCEPT ![h] = r]
    /\ hidden' = IF online THEN hidden \ {h} ELSE hidden \cup {h}
    /\ UNCHANGED <<online, reply>>

Delete(h) ==
    /\ recorded' = [recorded EXCEPT ![h] = None]
    /\ hidden' = hidden \ {h}
    /\ UNCHANGED <<online, reply>>

Load(h) ==
    /\ reply' = [hash |-> h, found |-> Visible(h)]
    /\ UNCHANGED <<recorded, hidden, online>>

\* A failed disk or index operation costs visibility, never content.
Hide(h) ==
    /\ IOFaults
    /\ h \in Present
    /\ hidden' = hidden \cup {h}
    /\ UNCHANGED <<recorded, online, reply>>

\* A close or a crash.
Stop ==
    /\ online' = FALSE
    /\ hidden' = Present
    /\ UNCHANGED <<recorded, reply>>

\* A start makes everything on disk visible.
Reopen ==
    /\ ~online
    /\ online' = TRUE
    /\ hidden' = {}
    /\ UNCHANGED <<recorded, reply>>

Next ==
    \/ \E h \in Hash :
        \/ \E r \in Recs : Save(h, r)
        \/ Delete(h)
        \/ Load(h)
        \/ Hide(h)
    \/ Stop
    \/ Reopen

Spec == Init /\ [][Next]_cvars
=============================================================================
