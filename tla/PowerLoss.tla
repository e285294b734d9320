----------------------------- MODULE PowerLoss -----------------------------
(***************************************************************************)
(* DiskStore on a machine that loses power.                                *)
(*                                                                         *)
(* Save (store.go 107-117) renames a temporary file that nothing has       *)
(* synced, while bbolt syncs every transaction: after a power loss the     *)
(* index is as committed, and a file that was not written back is the old  *)
(* one, the new one, empty, or cut off.  A cassette that is cut off or     *)
(* empty is no JSON; as YAML it is one with fields missing, or with none.  *)
(* Its first fields are the version, the hash and the namespace: a stub,   *)
(* cut within the namespace, has what is left of that name, and one cut    *)
(* before the end of its hash is, for that hash, as good as empty.         *)
(***************************************************************************)
EXTENDS DiskStore

CONSTANTS
    Written,           \* the recordings that are saved
    Empty, Cut, Stub,  \* what a power loss can make of one
    Left               \* what a stub's namespace reads as: another, or none

ASSUME TornAssumption ==
    /\ Recs = Written \cup {Empty, Cut, Stub}
    /\ Written \cap {Empty, Cut, Stub} = {} /\ Empty \notin {Cut, Stub} /\ Cut # Stub
    /\ Left \in Namespaces \cup {None}

VARIABLES
    durable,  \* [Hash -> [Ext -> SUBSET (Recs \cup {None})]]: what a power
              \* loss may leave of a file
    failed,   \* history: hashes an update of this process left half done, or
              \* that had files of both formats
    misfiled  \* history: hashes the index has, or had, from a stub

pvars == <<vars, durable, failed, misfiled>>

Torn == {Empty, Cut, Stub}

Twofold(h) == files'[h][".yaml"] # None /\ files'[h][".json"] # None

PInit ==
    /\ Init
    /\ \A h \in Hash, e \in Ext : files[h][e] \in Written \cup {None}
    /\ durable = [h \in Hash |-> [e \in Ext |-> {files[h][e]}]]
    /\ failed = {} /\ misfiled = {}

\* LoadByHash can deserialize the file.
Parses(h, e) == files[h][e] \in Written \/ (e = ".yaml" /\ files[h][e] \in Torn)

\* The rebuild Puts it: it parses and has a hash.
Puts(h, e) == Parses(h, e) /\ files[h][e] # Empty

\* The namespace it Puts it under.  One that is empty is omitted from the file.
Filed(h, e) == IF files[h][e] = Stub /\ NsOf[h] # None THEN Left ELSE NsOf[h]

\* What LoadByHash answers.
Answer(h) ==
    IF phase = "open" /\ paths[h] # None /\ Parses(h, paths[h])
    THEN files[h][paths[h]] ELSE None

-----------------------------------------------------------------------------
\* Save and Delete on files that are not synced.
Publish(p) ==
    /\ SaveRename(p)
    /\ durable' = [durable EXCEPT ![cur[p]][fmt] = @ \cup {new[p]} \cup Torn]
    /\ failed' = IF Twofold(cur[p]) THEN failed \cup {cur[p]} ELSE failed
    /\ UNCHANGED misfiled

Erase(p, h) ==
    /\ DeleteBegin(p, h)
    /\ durable' = [durable EXCEPT ![h][paths[h]] = @ \cup {files'[h][paths[h]]}]
    /\ failed' = IF files' = files THEN failed \cup {h} ELSE failed
    /\ UNCHANGED misfiled

Unindexed(p) ==
    /\ SaveIndexFails(p)
    /\ failed' = failed \cup {cur[p]}
    /\ UNCHANGED <<durable, misfiled>>

Other(p) ==
    /\ \/ \E h \in Hash, r \in Written : SaveBegin(p, h, r)
       \/ SaveRenameFails(p)
       \/ SaveIndex(p)
       \/ DeleteIndex(p)
       \/ DeleteIndexFails(p)
    /\ UNCHANGED <<durable, failed, misfiled>>

Environs ==
    /\ \/ (Close \/ Crash) /\ UNCHANGED misfiled
       \/ LoseIndex /\ misfiled' = {}
    /\ UNCHANGED <<durable, failed>>

\* RebuildIndex, when it Puts the files c[h] of each hash: h.json goes first,
\* and an entry is dropped from no namespace.
Refile(c) ==
    /\ paths' = [h \in Hash |-> IF ".yaml" \in c[h] THEN ".yaml"
                                ELSE IF ".json" \in c[h] THEN ".json" ELSE paths[h]]
    /\ spaces' = [n \in Namespaces |->
                    spaces[n] \cup {h \in Hash : \E e \in c[h] : Filed(h, e) = n}]
    /\ misfiled' = misfiled \cup {h \in Hash : \E e \in c[h] : files[h][e] = Stub}

Readable == [h \in Hash |-> {e \in Ext : Puts(h, e)}]

\* "Check if needed": an index that has entries is trusted (mutant).
TrustIndex ==
    IF \E h \in Hash : paths[h] # None THEN UNCHANGED <<paths, spaces, misfiled>>
    ELSE Refile(Readable)

\* RebuildIndex, on whatever files there are.
RebuildReadable == Refile(Readable)

\* NewDiskStore.
Recover(f) ==
    /\ phase = "down"
    /\ phase' = "open"
    /\ fmt' = f
    /\ RebuildReadable
    /\ UNCHANGED <<files, procs, reply, durable>>
    /\ failed' = {h \in Hash : Twofold(h)}

RecoverFails ==
    /\ phase = "down"
    /\ \E c \in [Hash -> SUBSET Ext] :
         /\ \A h \in Hash : c[h] \subseteq Readable[h]
         /\ Refile(c)
    /\ UNCHANGED <<files, phase, fmt, procs, reply, durable, failed>>

\* The kernel writes a file back.
WriteBack(h, e) ==
    /\ durable[h][e] # {files[h][e]}
    /\ durable' = [durable EXCEPT ![h][e] = {files[h][e]}]
    /\ UNCHANGED <<vars, failed, misfiled>>

\* The process ends with the machine.
LosePower ==
    /\ phase # "down"
    /\ files' \in {g \in [Hash -> [Ext -> Recs \cup {None}]] :
                     \A h \in Hash, e \in Ext : g[h][e] \in durable[h][e]}
    /\ durable' = [h \in Hash |-> [e \in Ext |-> {files'[h][e]}]]
    /\ phase' = "down"
    /\ mu' = None
    /\ pc' = [p \in Procs |-> "idle"]
    /\ cur' = [p \in Procs |-> None]
    /\ new' = [p \in Procs |-> None]
    /\ UNCHANGED <<paths, spaces, fmt, reply, failed, misfiled>>

PNext ==
    \/ \E p \in Procs :
         \/ Publish(p)
         \/ \E h \in Hash : Erase(p, h)
         \/ Unindexed(p)
         \/ Other(p)
    \/ Environs
    \/ \E f \in Formats : Recover(f)
    \/ RecoverFails
    \/ \E h \in Hash, e \in Ext : WriteBack(h, e)
    \/ LosePower

PSpec == PInit /\ [][PNext]_pvars

-----------------------------------------------------------------------------
(* Properties.                                                             *)

\* A recording that has reached the disk is served whenever the store is open
\* and nobody at work on it, through power losses, crashes and rebuilds that
\* stop part way, whatever they tore elsewhere, unless this process failed to
\* update it or met files of both formats (of which see RestartTransparent).
SyncedIsServed ==
    phase = "open" /\ mu = None =>
        \A h \in Hash \ failed, e \in Ext, r \in Written :
            durable[h][e] = {r} /\ (\A o \in Ext \ {e} : durable[h][o] = {None})
                => Answer(h) = r

\* Every hash the index resolves is listed under its namespace and no namespace
\* lists a stranger, through power losses and rebuilds from what they tore; but
\* for the hashes a rebuild met as a stub, which may be missing in their own
\* namespace and stay in the one the stub was read as, also when they are
\* recorded again (RebuildIndex 279-289, Index.Put).
FiledRight ==
    /\ \A h \in Hash \ misfiled :
        paths[h] # None /\ NsOf[h] # None => h \in spaces[NsOf[h]]
    /\ \A n \in Namespaces : \A h \in spaces[n] :
        NsOf[h] = n \/ (h \in misfiled /\ n = Left)
=============================================================================
