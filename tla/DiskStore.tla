----------------------------- MODULE DiskStore -----------------------------
(***************************************************************************)
(* pkg/store/store.go and index.go: cassette files on disk, a bbolt index  *)
(* from hash to file and from namespace to hashes, and the operations that *)
(* keep the two together under the lock s.mu.                              *)
(*                                                                         *)
(* A Save or a Delete changes the directory and the index in two steps, so *)
(* a crash, a failed step or a restart can come between them.  LoadByHash  *)
(* holds the read lock from the index lookup to the end of the file read,  *)
(* and no writer can move: it is one step.  A temporary file is invisible  *)
(* to every operation (its extension is not one the walk accepts), so only *)
(* the rename that publishes it is kept.                                   *)
(***************************************************************************)
EXTENDS FiniteSets

CONSTANTS
    Procs,       \* goroutines that use the store
    Hash,        \* request hashes
    Recs,        \* what a cassette holds, apart from its hash and namespace
    Namespaces,  \* the non-empty namespaces
    NsOf,        \* the namespace a hash was computed from (it is hashed in)
    Formats,     \* the formats the store may be configured with
    IOFaults,    \* TRUE when an update of the disk or the index may fail
    None

\* The extensions the serializers write.
Ext == {".yaml", ".json"}

ASSUME StoreAssumption ==
    /\ None \notin Procs \cup Hash \cup Recs \cup Namespaces \cup Ext
    /\ NsOf \in [Hash -> Namespaces \cup {None}]
    /\ Formats \subseteq Ext
    /\ Formats # {}
    /\ IOFaults \in BOOLEAN

VARIABLES
    files,   \* [Hash -> [Ext -> Recs \cup {None}]]: <hash><ext> on disk
    paths,   \* bucket "cassettes": the extension of the file a hash maps to
    spaces,  \* bucket "namespaces": the hashes listed for a namespace
    phase,   \* "down", "open", or "closed": db closed, process still alive
    fmt,     \* s.serializer.Extension()
    mu,      \* who holds s.mu for writing
    pc,      \* where each goroutine is inside Save or Delete
    cur,     \* the hash it works on
    new,     \* the recording it saves
    reply    \* the last answer of LoadByHash

disk  == <<files, paths, spaces>>
procs == <<mu, pc, cur, new>>
vars  == <<files, paths, spaces, phase, fmt, mu, pc, cur, new, reply>>

-----------------------------------------------------------------------------
(* The index.                                                              *)

\* Index.Put of the hash where the path belongs (mutant).
PutHash(h, e) ==
    /\ paths' = [paths EXCEPT ![h] = h]
    /\ UNCHANGED spaces

\* Index.Put with the namespaces left alone (mutant).
PutNoNamespace(h, e) ==
    /\ paths' = [paths EXCEPT ![h] = e]
    /\ UNCHANGED spaces

\* Index.Put that keeps an entry it already has (mutant).
PutKeepsEntry(h, e) ==
    /\ paths' = [paths EXCEPT ![h] = IF @ = None THEN e ELSE @]
    /\ spaces' = [n \in Namespaces |->
                    IF n = NsOf[h] THEN spaces[n] \cup {h} ELSE spaces[n]]

\* Index.Put: one bbolt transaction on both buckets.
Put(h, e) ==
    /\ paths' = [paths EXCEPT ![h] = e]
    /\ spaces' = [n \in Namespaces |->
                    IF n = NsOf[h] THEN spaces[n] \cup {h} ELSE spaces[n]]

\* Index.Delete(hash, ""), as DiskStore.Delete calls it: the empty namespace
\* leaves the bucket "namespaces" alone.
Unindex(h) ==
    /\ paths' = [paths EXCEPT ![h] = None]
    /\ UNCHANGED spaces

\* The file RebuildIndex leaves the entry of h on: the walk is in lexical
\* order and the last Put wins, so h.yaml beats h.json.
Walked(h) ==
    IF files[h][".yaml"] # None THEN ".yaml"
    ELSE IF files[h][".json"] # None THEN ".json" ELSE None

\* The entries a walk Puts, c[h] for the last file of h it saw.
Reindex(c) ==
    /\ paths' = [h \in Hash |-> IF c[h] # None THEN c[h] ELSE paths[h]]
    /\ spaces' = [n \in Namespaces |->
                    spaces[n] \cup {h \in Hash : c[h] # None /\ NsOf[h] = n}]

\* RebuildIndex on an idle store: every file is Put; an entry whose file is
\* gone stays.
Rebuild == Reindex([h \in Hash |-> Walked(h)])

\* What the next start will find under h.
Stored(h) == IF Walked(h) = None THEN None ELSE files[h][Walked(h)]

\* What LoadByHash(h) returns now.
Loaded(h) ==
    IF phase = "open" /\ paths[h] # None THEN files[h][paths[h]] ELSE None

-----------------------------------------------------------------------------
Init ==
    /\ \E f \in Formats :
         files \in [Hash -> {[e \in Ext |-> IF e = f THEN r ELSE None] :
                                r \in Recs \cup {None}}]
    /\ paths = [h \in Hash |-> None]
    /\ spaces = [n \in Namespaces |-> {}]
    /\ phase = "down"
    /\ fmt \in Formats
    /\ mu = None
    /\ pc = [p \in Procs |-> "idle"]
    /\ cur = [p \in Procs |-> None]
    /\ new = [p \in Procs |-> None]
    /\ reply = None

\* Entering a writer without waiting for the lock (mutant).
LockFree(p) == mu' = p

\* s.mu.Lock()
Lock(p) == mu = None /\ mu' = p

\* An early return without the Unlock (mutant).
ReturnLocked(p) ==
    /\ pc' = [pc EXCEPT ![p] = "idle"]
    /\ cur' = [cur EXCEPT ![p] = None]
    /\ new' = [new EXCEPT ![p] = None]
    /\ UNCHANGED mu

\* The operation returns: the deferred s.mu.Unlock().
Return(p) ==
    /\ mu' = None
    /\ pc' = [pc EXCEPT ![p] = "idle"]
    /\ cur' = [cur EXCEPT ![p] = None]
    /\ new' = [new EXCEPT ![p] = None]

\* Save, up to the temporary file.  A failed MkdirAll, Marshal or WriteFile
\* returns an error and changes nothing another step can see.
SaveBegin(p, h, r) ==
    /\ phase # "down"
    /\ pc[p] = "idle"
    /\ Lock(p)
    /\ pc' = [pc EXCEPT ![p] = "rename"]
    /\ cur' = [cur EXCEPT ![p] = h]
    /\ new' = [new EXCEPT ![p] = r]
    /\ UNCHANGED <<files, paths, spaces, phase, fmt, reply>>

\* The rename that publishes the file, atomic on the file system.
SaveRename(p) ==
    /\ pc[p] = "rename"
    /\ files' = [files EXCEPT ![cur[p]][fmt] = new[p]]
    /\ pc' = [pc EXCEPT ![p] = "index"]
    /\ UNCHANGED <<paths, spaces, phase, fmt, mu, cur, new, reply>>

SaveRenameFails(p) ==
    /\ IOFaults
    /\ pc[p] = "rename"
    /\ Return(p)
    /\ UNCHANGED <<files, paths, spaces, phase, fmt, reply>>

SaveIndex(p) ==
    /\ pc[p] = "index"
    /\ phase = "open"
    /\ Put(cur[p], fmt)
    /\ Return(p)
    /\ UNCHANGED <<files, phase, fmt, reply>>

\* The transaction fails, always so once the database is closed: the file is
\* on disk and Save returns "failed to index cassette".
SaveIndexFails(p) ==
    /\ IOFaults \/ phase = "closed"
    /\ pc[p] = "index"
    /\ Return(p)
    /\ UNCHANGED <<files, paths, spaces, phase, fmt, reply>>

LoadByHash(h) ==
    /\ phase # "down"
    /\ mu = None
    /\ reply' = [hash |-> h, found |-> Loaded(h)]
    /\ UNCHANGED <<disk, procs, phase, fmt>>

\* Only the index forgets the hash (mutant).
RemoveNothing(h) == UNCHANGED files

\* os.Remove of the file the index names, if it is there.
RemoveFile(h) == files' = [files EXCEPT ![h][paths[h]] = None]

\* Delete, up to os.Remove, whose error is discarded.  Without an entry, or
\* with the database closed, GetPath fails and nothing changes.
DeleteBegin(p, h) ==
    /\ phase = "open"
    /\ pc[p] = "idle"
    /\ paths[h] # None
    /\ Lock(p)
    /\ \/ RemoveFile(h)
       \/ IOFaults /\ UNCHANGED files
    /\ pc' = [pc EXCEPT ![p] = "unindex"]
    /\ cur' = [cur EXCEPT ![p] = h]
    /\ UNCHANGED <<paths, spaces, phase, fmt, new, reply>>

DeleteIndex(p) ==
    /\ pc[p] = "unindex"
    /\ phase = "open"
    /\ Unindex(cur[p])
    /\ Return(p)
    /\ UNCHANGED <<files, phase, fmt, reply>>

DeleteIndexFails(p) ==
    /\ IOFaults
    /\ pc[p] = "unindex"
    /\ Return(p)
    /\ UNCHANGED <<files, paths, spaces, phase, fmt, reply>>

\* Close waits for the writers; goroutines may still call the store after it.
Close ==
    /\ phase = "open"
    /\ mu = None
    /\ phase' = "closed"
    /\ UNCHANGED <<disk, procs, fmt, reply>>

\* NewDiskStore: open the index, then rebuild it from the files.
Open(f) ==
    /\ phase = "down"
    /\ phase' = "open"
    /\ fmt' = f
    /\ Rebuild
    /\ UNCHANGED <<files, procs, reply>>

\* The rebuild stops part way, on an error or a crash: some files were Put.
OpenFails ==
    /\ phase = "down"
    /\ \E c \in [Hash -> Ext \cup {None}] :
         /\ \A h \in Hash : c[h] # None => files[h][c[h]] # None
         /\ Reindex(c)
    /\ UNCHANGED <<files, phase, fmt, procs, reply>>

\* The process ends, anywhere; the files and the committed transactions stay.
Crash ==
    /\ phase # "down"
    /\ phase' = "down"
    /\ mu' = None
    /\ pc' = [p \in Procs |-> "idle"]
    /\ cur' = [p \in Procs |-> None]
    /\ new' = [p \in Procs |-> None]
    /\ UNCHANGED <<disk, fmt, reply>>

\* The index file is removed while the program is down.
LoseIndex ==
    /\ phase = "down"
    /\ paths' = [h \in Hash |-> None]
    /\ spaces' = [n \in Namespaces |-> {}]
    /\ UNCHANGED <<files, phase, fmt, procs, reply>>

ProcStep(p) ==
    \/ \E h \in Hash, r \in Recs : SaveBegin(p, h, r)
    \/ SaveRename(p)
    \/ SaveRenameFails(p)
    \/ SaveIndex(p)
    \/ SaveIndexFails(p)
    \/ \E h \in Hash : DeleteBegin(p, h)
    \/ DeleteIndex(p)
    \/ DeleteIndexFails(p)

Next ==
    \/ \E p \in Procs : ProcStep(p)
    \/ \E h \in Hash : LoadByHash(h)
    \/ Close
    \/ \E f \in Formats : Open(f)
    \/ OpenFails
    \/ Crash
    \/ LoseIndex

Spec == Init /\ [][Next]_vars

-----------------------------------------------------------------------------
(* Properties.                                                             *)

\* The types of the variables.
TypeOK ==
    /\ files \in [Hash -> [Ext -> Recs \cup {None}]]
    /\ paths \in [Hash -> Ext \cup {None}]
    /\ spaces \in [Namespaces -> SUBSET Hash]
    /\ phase \in {"down", "open", "closed"}
    /\ fmt \in Formats
    /\ mu \in Procs \cup {None}
    /\ pc \in [Procs -> {"idle", "rename", "index", "unindex"}]
    /\ cur \in [Procs -> Hash \cup {None}]
    /\ new \in [Procs -> Recs \cup {None}]
    /\ reply \in [hash : Hash, found : Recs \cup {None}] \cup {None}

\* Whoever is inside Save or Delete holds s.mu, with a hash (and a recording)
\* in hand, and a Delete is never left inside a closed database.
LockHeld ==
    \A p \in Procs :
        /\ pc[p] # "idle" <=> mu = p
        /\ pc[p] # "idle" => cur[p] # None /\ phase # "down"
        /\ pc[p] \in {"rename", "index"} => new[p] # None
        /\ pc[p] = "unindex" => phase = "open"

\* Every hash the index can resolve is listed under the namespace it was
\* computed from, and no namespace lists a stranger: LoadByNamespace can miss
\* no cassette that LoadByHash finds, whatever failed or crashed (index.go
\* Put keeps both buckets in one transaction).
NamespaceExact ==
    /\ \A h \in Hash :
        paths[h] # None /\ NsOf[h] # None => h \in spaces[NsOf[h]]
    /\ \A n \in Namespaces : \A h \in spaces[n] : NsOf[h] = n

\* With nobody inside an operation, every answer of LoadByHash is what the
\* same call would return after a restart: NewDiskStore's rebuild neither
\* loses, nor revives, nor alters a cassette (store.go 257: "syncs the
\* index").  Holds when every file is in one format and nothing fails.
RestartTransparent ==
    phase = "open" /\ mu = None => \A h \in Hash : Loaded(h) = Stored(h)

\* Delete "removes a cassette from disk and index" (store.go 177): when it
\* returns nil, neither this process nor the next one finds the hash.
DeleteRemoves ==
    [][\A p \in Procs, h \in Hash :
         DeleteIndex(p) /\ h = cur[p] => Loaded(h)' = None /\ Stored(h)' = None]_vars

\* Within one process a Save that returns nil is what LoadByHash answers from
\* then on, and a Delete that returns nil leaves nothing to answer, also when
\* the file indexed before was in the other format.
SessionExact ==
    [][\A p \in Procs, h \in Hash :
         /\ SaveIndex(p) /\ h = cur[p] => Loaded(h)' = new[p]
         /\ DeleteIndex(p) /\ h = cur[p] => Loaded(h)' = None]_vars

\* h is inside an operation whose file is already on disk.
Committing(h) == \E p \in Procs : cur[p] = h /\ pc[p] \in {"index", "unindex"}

\* The recordings a start of the program would bring back.
Unseen ==
    {h \in Hash :
        /\ Stored(h) # None
        /\ ~(phase = "open" /\ (paths[h] # None \/ Committing(h)))}

Abs == INSTANCE CassetteStore WITH
    recorded <- [h \in Hash |-> Stored(h)],
    hidden   <- Unseen,
    online   <- (phase = "open")

\* Files and index together implement the dictionary of CassetteStore: a Save
\* takes effect with its rename and a Delete with its remove, crashes and
\* failed steps lose visibility at most, and a start restores all of it.
ImplementsStore == Abs!Spec
=============================================================================
