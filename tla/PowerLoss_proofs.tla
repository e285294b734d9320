-------------------------- MODULE PowerLoss_proofs --------------------------
(* What is proved about PowerLoss, for any goroutines, hashes, recordings   *)
(* and formats, with failing updates.                                       *)
EXTENDS PowerLoss, DiskStore_proofs

\* A power loss may always leave a file as it is.
OnDisk ==
    /\ durable \in [Hash -> [Ext -> SUBSET (Recs \cup {None})]]
    /\ \A h \in Hash, e \in Ext : files[h][e] \in durable[h][e]

\* A hash that nothing failed for has one file at most.
Single ==
    phase = "open" => \A h \in Hash \ failed : files[h][".yaml"] = None \/ files[h][".json"] = None

\* That file, if it is whole, is indexed or its Save about to index it.
WholeIndexed ==
    phase = "open" => \A h \in Hash \ failed, e \in Ext :
        files[h][e] \in Written =>
            paths[h] = e \/ \E p \in Procs : pc[p] = "index" /\ cur[p] = h

\* A Delete that did not fail has left no file for the transaction to come.
Gone ==
    \A p \in Procs : pc[p] = "unindex" /\ cur[p] \notin failed =>
        \A e \in Ext : files[cur[p]][e] = None

\* The inductive invariant.
PInv == Base /\ Published /\ OnDisk /\ Single /\ WholeIndexed /\ Gone

-----------------------------------------------------------------------------
\* The initial states satisfy the invariant: the store is not open.
LEMMA PInvInit == PInit => PInv
<1> SUFFICES ASSUME PInit PROVE PInv
    OBVIOUS
<1>1. Init
    BY DEF PInit
<1>2. Base
    BY <1>1, BaseInit
<1>3. Published /\ Single /\ WholeIndexed /\ Gone
    BY <1>1 DEF Init, Published, Single, WholeIndexed, Gone
<1>4. OnDisk
    BY <1>2 DEF PInit, OnDisk, Base, TypeOK
<1> QED BY <1>2, <1>3, <1>4 DEF PInv

\* The steps of DiskStore keep its own invariants.
LEMMA StoreStepKeeps == PInv /\ [Next]_vars => Base' /\ Published'
BY TypeStep, LockStep, PublishedStep DEF PInv, Base

\* The rename makes the file one that a power loss may tear; its own hash is
\* being saved.
LEMMA PublishKeeps == ASSUME PInv, NEW p \in Procs, Publish(p) PROVE PInv'
<1> USE StoreAssumption, TornAssumption DEF Torn
<1>1. Base' /\ Published'
    BY StoreStepKeeps DEF Publish, Next, ProcStep
<1>2. cur[p] \in Hash /\ fmt \in Ext /\ new[p] \in Recs
    BY DEF PInv, Base, TypeOK, LockHeld, Publish, SaveRename
<1>3. /\ files' = [files EXCEPT ![cur[p]][fmt] = new[p]]
      /\ durable' = [durable EXCEPT ![cur[p]][fmt] = @ \cup {new[p]} \cup Torn]
      /\ pc' = [pc EXCEPT ![p] = "index"] /\ cur' = cur /\ paths' = paths /\ phase' = phase
      /\ pc \in [Procs -> {"idle", "rename", "index", "unindex"}] /\ pc[p] = "rename"
      /\ files \in [Hash -> [Ext -> Recs \cup {None}]]
    BY DEF PInv, Base, TypeOK, Publish, SaveRename
<1>4. OnDisk'
    <2>1. durable' \in [Hash -> [Ext -> SUBSET (Recs \cup {None})]]
        BY <1>2, <1>3 DEF PInv, OnDisk
    <2>2. ASSUME NEW h \in Hash, NEW e \in Ext PROVE files'[h][e] \in durable'[h][e]
        BY <1>2, <1>3 DEF PInv, OnDisk
    <2> QED BY <2>1, <2>2 DEF OnDisk
<1>5. \A h \in Hash : h # cur[p] => files'[h] = files[h]
    BY <1>2, <1>3
<1>6. failed \subseteq failed' /\ (Twofold(cur[p]) => cur[p] \in failed')
    BY DEF Publish
<1>7. Single'
    BY <1>3, <1>5, <1>6 DEF PInv, Single, Twofold
<1>8. WholeIndexed'
    <2> SUFFICES ASSUME phase = "open", NEW h \in Hash, h \notin failed, NEW e \in Ext,
                        files'[h][e] \in Written
                 PROVE  paths[h] = e \/ \E q \in Procs : pc'[q] = "index" /\ cur[q] = h
        BY <1>3, <1>6 DEF WholeIndexed
    <2>1. CASE h = cur[p]
        BY <1>3, <2>1
    <2>2. CASE h # cur[p]
        <3>1. paths[h] = e \/ \E q \in Procs : pc[q] = "index" /\ cur[q] = h
            BY <1>5, <2>2 DEF PInv, WholeIndexed
        <3> QED BY <1>3, <3>1
    <2> QED BY <2>1, <2>2
<1>9. Gone'
    BY <1>3 DEF PInv, Base, LockHeld, Gone
<1> QED BY <1>1, <1>4, <1>7, <1>8, <1>9 DEF PInv

\* os.Remove of the only file of a hash leaves none, or the hash has failed.
LEMMA EraseKeeps == ASSUME PInv, NEW p \in Procs, NEW h \in Hash, Erase(p, h) PROVE PInv'
<1> USE StoreAssumption, TornAssumption DEF Torn
<1>1. Base' /\ Published'
    BY StoreStepKeeps DEF Erase, Next, ProcStep
<1>2. /\ phase = "open" /\ phase' = phase /\ paths' = paths /\ paths[h] \in Ext
      /\ mu = None /\ failed \subseteq failed' /\ (files' = files => h \in failed')
      /\ \/ files' = files
         \/ files' = [files EXCEPT ![h][paths[h]] = None]
      /\ durable' = [durable EXCEPT ![h][paths[h]] = @ \cup {files'[h][paths[h]]}]
      /\ files \in [Hash -> [Ext -> Recs \cup {None}]]
      /\ \A q \in Procs : pc[q] = "idle"
    BY DEF PInv, Base, TypeOK, LockHeld, Erase, DeleteBegin, RemoveFile, Lock
<1>3. OnDisk'
    <2>1. durable' \in [Hash -> [Ext -> SUBSET (Recs \cup {None})]]
        BY <1>2 DEF PInv, OnDisk
    <2>2. ASSUME NEW g \in Hash, NEW e \in Ext PROVE files'[g][e] \in durable'[g][e]
        BY <1>2 DEF PInv, OnDisk
    <2> QED BY <2>1, <2>2 DEF OnDisk
<1>4. Single'
    <2> SUFFICES ASSUME NEW g \in Hash, g \notin failed
                 PROVE  files'[g][".yaml"] = None \/ files'[g][".json"] = None
        BY <1>2 DEF Single
    <2>1. files[g][".yaml"] = None \/ files[g][".json"] = None
        BY <1>2 DEF PInv, Single
    <2>2. \A e \in Ext : files[g][e] = None => files'[g][e] = None
        <3>1. CASE files' = files
            BY <3>1
        <3>2. CASE files' = [files EXCEPT ![h][paths[h]] = None]
            BY <1>2, <3>2
        <3> QED BY <1>2, <3>1, <3>2
    <2> QED BY <2>1, <2>2 DEF Ext
<1>5. WholeIndexed'
    <2> SUFFICES ASSUME NEW g \in Hash, g \notin failed', NEW e \in Ext,
                        files'[g][e] \in Written
                 PROVE  paths[g] = e
        BY <1>2 DEF WholeIndexed
    <2>1. files'[g][e] = files[g][e]
        BY <1>2
    <2> QED BY <1>2, <2>1 DEF PInv, WholeIndexed
<1>6. Gone'
    <2>1. cur' = [cur EXCEPT ![p] = h] /\ cur'[p] = h /\ \A q \in Procs \ {p} : pc'[q] = "idle"
        BY <1>2 DEF PInv, Base, TypeOK, Erase, DeleteBegin
    <2>2. h \notin failed' => \A e \in Ext : files'[h][e] = None
        BY <1>2 DEF PInv, Single, Ext
    <2> QED BY <2>1, <2>2 DEF Gone
<1> QED BY <1>1, <1>3, <1>4, <1>5, <1>6 DEF PInv

\* A failed transaction fails the hash; nobody else is inside a Save.
LEMMA UnindexedKeeps == ASSUME PInv, NEW p \in Procs, Unindexed(p) PROVE PInv'
<1> USE StoreAssumption, TornAssumption DEF Torn
<1>1. Base' /\ Published'
    BY StoreStepKeeps DEF Unindexed, Next, ProcStep
<1>2. /\ phase' = phase /\ paths' = paths /\ files' = files /\ durable' = durable
      /\ failed' = failed \cup {cur[p]} /\ pc[p] = "index"
    BY DEF Unindexed, SaveIndexFails
<1>3. \A q \in Procs : pc[q] = "index" => q = p
    BY <1>2 DEF PInv, Base, LockHeld
<1>4. OnDisk' /\ Single'
    BY <1>2 DEF PInv, OnDisk, Single
<1>5. WholeIndexed'
    BY <1>2, <1>3 DEF PInv, WholeIndexed
<1>6. Gone'
    BY DEF PInv, Base, TypeOK, LockHeld, Gone, Unindexed, SaveIndexFails, Return
<1> QED BY <1>1, <1>4, <1>5, <1>6 DEF PInv

\* The other steps of Save and Delete touch no file.  The entry that
\* SaveIndex makes is for the one file there is, and DeleteIndex drops an
\* entry only where no file is left.
LEMMA OtherKeeps == ASSUME PInv, NEW p \in Procs, Other(p) PROVE PInv'
<1> USE StoreAssumption, TornAssumption DEF Torn
<1>1. Base' /\ Published'
    BY StoreStepKeeps DEF Other, Next, ProcStep
<1>2. files' = files /\ durable' = durable /\ failed' = failed /\ phase' = phase
    BY DEF Other, SaveBegin, SaveRenameFails, SaveIndex, DeleteIndex, DeleteIndexFails
<1>3. OnDisk' /\ Single'
    BY <1>2 DEF PInv, OnDisk, Single
<1>4. WholeIndexed'
    <2> SUFFICES ASSUME phase = "open", NEW h \in Hash, h \notin failed, NEW e \in Ext,
                        files[h][e] \in Written
                 PROVE  paths'[h] = e \/ \E q \in Procs : pc'[q] = "index" /\ cur'[q] = h
        BY <1>2 DEF WholeIndexed
    <2>1. paths[h] = e \/ \E q \in Procs : pc[q] = "index" /\ cur[q] = h
        BY DEF PInv, WholeIndexed
    <2>2. CASE SaveIndex(p)
        <3>1. /\ cur[p] \in Hash /\ pc[p] = "index" /\ fmt \in Ext
              /\ paths' = [paths EXCEPT ![cur[p]] = fmt] /\ paths \in [Hash -> Ext \cup {None}]
              /\ files[cur[p]][fmt] = new[p] /\ new[p] # None
              /\ \A q \in Procs : pc[q] = "index" => q = p
            BY <2>2 DEF PInv, Base, TypeOK, LockHeld, Published, SaveIndex, Put
        <3>2. CASE h = cur[p]
            <4>1. files[h][e] # None
                OBVIOUS
            <4> QED BY <3>1, <3>2, <4>1 DEF PInv, Single, Ext
        <3>3. CASE h # cur[p]
            BY <2>1, <3>1, <3>3
        <3> QED BY <3>2, <3>3
    <2>3. CASE SaveRenameFails(p) \/ \E g \in Hash, r \in Written : SaveBegin(p, g, r)
        BY <2>1, <2>3 DEF PInv, Base, TypeOK, SaveRenameFails, SaveBegin, Return
    <2>4. CASE DeleteIndexFails(p)
        BY <2>1, <2>4 DEF PInv, Base, TypeOK, DeleteIndexFails, Return
    <2>5. CASE DeleteIndex(p)
        <3>1. /\ cur[p] \in Hash /\ paths' = [paths EXCEPT ![cur[p]] = None]
              /\ pc[p] = "unindex" /\ \A q \in Procs : pc[q] # "index"
            BY <2>5 DEF PInv, Base, TypeOK, LockHeld, DeleteIndex, Unindex
        <3>2. h # cur[p]
            BY <3>1 DEF PInv, Gone
        <3> QED BY <2>1, <3>1, <3>2 DEF PInv, Base, TypeOK
    <2> QED BY <2>2, <2>3, <2>4, <2>5 DEF Other
<1>5. Gone'
    <2>1. ASSUME NEW q \in Procs, pc'[q] = "unindex"
          PROVE  pc[q] = "unindex" /\ cur'[q] = cur[q]
        BY <2>1 DEF PInv, Base, TypeOK, LockHeld, Other, SaveBegin, SaveRenameFails, SaveIndex,
                    DeleteIndex, DeleteIndexFails, Return
    <2> QED BY <1>2, <2>1 DEF PInv, Gone
<1> QED BY <1>1, <1>3, <1>4, <1>5 DEF PInv

-----------------------------------------------------------------------------
\* Close, a crash and the loss of the index leave no open store.
LEMMA EnvironsKeeps == ASSUME PInv, Environs PROVE PInv'
<1>1. Base' /\ Published'
    BY StoreStepKeeps DEF Environs, Next
<1>2. files' = files /\ durable' = durable /\ phase' # "open"
    BY DEF Environs, Close, Crash, LoseIndex, disk
<1>3. OnDisk' /\ Single' /\ WholeIndexed'
    BY <1>2 DEF PInv, OnDisk, Single, WholeIndexed
<1>4. Gone'
    BY <1>1, <1>2 DEF Base, LockHeld, Gone
<1> QED BY <1>1, <1>3, <1>4 DEF PInv

\* A start indexes the one readable file of each hash that has one file.
LEMMA RecoverKeeps == ASSUME PInv, NEW f \in Formats, Recover(f) PROVE PInv'
<1> USE StoreAssumption, TornAssumption DEF Torn
<1>1. /\ phase = "down" /\ phase' = "open" /\ fmt' = f /\ files' = files /\ durable' = durable
      /\ mu' = mu /\ pc' = pc /\ cur' = cur /\ new' = new /\ reply' = reply
      /\ failed' = {h \in Hash : Twofold(h)}
      /\ paths' = [h \in Hash |-> IF ".yaml" \in Readable[h] THEN ".yaml"
                                  ELSE IF ".json" \in Readable[h] THEN ".json" ELSE paths[h]]
      /\ spaces' = [n \in Namespaces |->
                      spaces[n] \cup {h \in Hash : \E e \in Readable[h] : Filed(h, e) = n}]
    BY DEF Recover, RebuildReadable, Refile, procs
<1>2. \A q \in Procs : pc[q] = "idle"
    BY <1>1 DEF PInv, Base, LockHeld
<1>3. paths' \in [Hash -> Ext \cup {None}] /\ spaces' \in [Namespaces -> SUBSET Hash]
    BY <1>1 DEF PInv, Base, TypeOK, Ext
<1>4. TypeOK'
    BY <1>1, <1>3 DEF PInv, Base, TypeOK
<1>5. LockHeld'
    BY <1>1, <1>2 DEF PInv, Base, LockHeld
<1>6. Published' /\ OnDisk' /\ Gone'
    BY <1>1, <1>2 DEF PInv, Published, OnDisk, Gone
<1>7. Single'
    BY <1>1 DEF Single, Twofold
<1>8. WholeIndexed'
    <2> SUFFICES ASSUME NEW h \in Hash, h \notin failed', NEW e \in Ext, files[h][e] \in Written
                 PROVE  paths'[h] = e
        BY <1>1 DEF WholeIndexed
    <2>1. files[h][e] # None /\ \A o \in Ext : o # e => files[h][o] = None
        BY <1>1, <1>7 DEF Single, Ext
    <2>2. Puts(h, e) /\ \A o \in Ext : o # e => ~Puts(h, o)
        BY <2>1 DEF Puts, Parses
    <2>3. Readable[h] = {e}
        BY <2>2 DEF Readable
    <2> QED BY <1>1, <2>3 DEF Ext
<1> QED BY <1>4, <1>5, <1>6, <1>7, <1>8 DEF PInv, Base

\* A start that fails changes the index only, and there is no process.
LEMMA RecoverFailsKeeps == ASSUME PInv, RecoverFails PROVE PInv'
<1> USE StoreAssumption
<1>1. /\ files' = files /\ phase' = phase /\ fmt' = fmt /\ mu' = mu /\ pc' = pc /\ cur' = cur
      /\ new' = new /\ reply' = reply /\ durable' = durable /\ failed' = failed /\ phase = "down"
    BY DEF RecoverFails, procs
<1>2. paths' \in [Hash -> Ext \cup {None}] /\ spaces' \in [Namespaces -> SUBSET Hash]
    BY DEF PInv, Base, TypeOK, RecoverFails, Refile, Ext
<1>3. TypeOK'
    BY <1>1, <1>2 DEF PInv, Base, TypeOK
<1> QED BY <1>1, <1>3 DEF PInv, Base, LockHeld, Published, OnDisk, Single, WholeIndexed, Gone

\* A write-back keeps the file that is there.
LEMMA WriteBackKeeps ==
    ASSUME PInv, NEW h \in Hash, NEW e \in Ext, WriteBack(h, e) PROVE PInv'
<1>1. UNCHANGED <<vars, failed>> /\ durable' = [durable EXCEPT ![h][e] = {files[h][e]}]
    BY DEF WriteBack
<1>2. OnDisk'
    BY <1>1 DEF PInv, Base, TypeOK, OnDisk, vars
<1> QED BY <1>1, <1>2
        DEF PInv, Base, TypeOK, LockHeld, Published, Single, WholeIndexed, Gone, vars

\* A power loss leaves files of the types they had, and no process.
LEMMA LosePowerKeeps == ASSUME PInv, LosePower PROVE PInv'
<1> USE StoreAssumption
<1>1. /\ files' \in [Hash -> [Ext -> Recs \cup {None}]]
      /\ durable' = [h \in Hash |-> [e \in Ext |-> {files'[h][e]}]]
      /\ phase' = "down" /\ mu' = None
      /\ pc' = [p \in Procs |-> "idle"] /\ cur' = [p \in Procs |-> None]
      /\ new' = [p \in Procs |-> None]
      /\ UNCHANGED <<paths, spaces, fmt, reply, failed>>
    BY DEF LosePower
<1>2. TypeOK'
    BY <1>1 DEF PInv, Base, TypeOK
<1>3. LockHeld' /\ Published' /\ Single' /\ WholeIndexed' /\ Gone'
    BY <1>1 DEF LockHeld, Published, Single, WholeIndexed, Gone
<1>4. OnDisk'
    BY <1>1 DEF OnDisk
<1> QED BY <1>2, <1>3, <1>4 DEF PInv, Base

\* Every step keeps the invariant.
LEMMA PInvStep == PInv /\ [PNext]_pvars => PInv'
<1> SUFFICES ASSUME PInv, [PNext]_pvars PROVE PInv'
    OBVIOUS
<1>1. CASE PNext
    BY <1>1, PublishKeeps, EraseKeeps, UnindexedKeeps, OtherKeeps, EnvironsKeeps, RecoverKeeps,
       RecoverFailsKeeps, WriteBackKeeps, LosePowerKeeps DEF PNext
<1>2. CASE UNCHANGED pvars
    BY <1>2 DEF PInv, Base, TypeOK, LockHeld, Published, OnDisk, Single, WholeIndexed, Gone, pvars, vars
<1> QED BY <1>1, <1>2

\* PInv is an invariant.
LEMMA PInvInvariant == PSpec => []PInv
BY PInvInit, PInvStep, PTL DEF PSpec

-----------------------------------------------------------------------------
\* What has reached the disk is served by every open store, for any number of
\* goroutines, power losses, crashes and starts.
THEOREM SyncedIsAlwaysServed == PSpec => []SyncedIsServed
<1>1. PInv => SyncedIsServed
    <2> SUFFICES ASSUME PInv, phase = "open", mu = None, NEW h \in Hash, h \notin failed,
                        NEW e \in Ext, NEW r \in Written, durable[h][e] = {r}
                 PROVE  Answer(h) = r
        BY DEF SyncedIsServed
    <2>1. files[h][e] = r
        BY DEF PInv, OnDisk
    <2>2. \A p \in Procs : pc[p] = "idle"
        BY StoreAssumption DEF PInv, Base, LockHeld
    <2>3. paths[h] = e
        BY <2>1, <2>2 DEF PInv, WholeIndexed
    <2> QED BY <2>1, <2>3, StoreAssumption DEF Answer, Parses, Ext
<1> QED BY <1>1, PInvInvariant, PTL

\* A rebuild lists what it indexes under the namespace it reads.
LEMMA RefileKeeps ==
    ASSUME Base, FiledRight, NEW c, \A h \in Hash : c[h] \subseteq Ext, Refile(c)
    PROVE  FiledRight'
<1> USE StoreAssumption, TornAssumption DEF Base, TypeOK, FiledRight
<1>1. /\ paths' = [h \in Hash |-> IF ".yaml" \in c[h] THEN ".yaml"
                                  ELSE IF ".json" \in c[h] THEN ".json" ELSE paths[h]]
      /\ spaces' = [n \in Namespaces |->
                      spaces[n] \cup {h \in Hash : \E e \in c[h] : Filed(h, e) = n}]
      /\ misfiled' = misfiled \cup {h \in Hash : \E e \in c[h] : files[h][e] = Stub}
    BY DEF Refile
<1>2. ASSUME NEW h \in Hash, h \notin misfiled', paths'[h] # None, NsOf[h] # None
      PROVE  h \in spaces'[NsOf[h]]
    <2>1. NsOf[h] \in Namespaces /\ h \notin misfiled
        BY <1>1, <1>2
    <2>2. CASE c[h] = {}
        <3>1. paths[h] # None
            BY <1>1, <1>2, <2>2
        <3> QED BY <1>1, <1>2, <2>1, <3>1
    <2>3. CASE c[h] # {}
        <3>1. PICK e \in c[h] : files[h][e] # Stub
            BY <1>1, <1>2, <2>3
        <3>2. Filed(h, e) = NsOf[h]
            BY <3>1 DEF Filed
        <3> QED BY <1>1, <2>1, <3>1, <3>2
    <2> QED BY <2>2, <2>3
<1>3. ASSUME NEW n \in Namespaces, NEW h \in spaces'[n]
      PROVE  NsOf[h] = n \/ (h \in misfiled' /\ n = Left)
    <2>1. CASE h \in spaces[n]
        BY <1>1, <2>1
    <2>2. CASE h \in Hash /\ \E e \in c[h] : Filed(h, e) = n
        <3>1. PICK e \in c[h] : Filed(h, e) = n
            BY <2>2
        <3> QED BY <1>1, <2>2, <3>1 DEF Filed
    <2> QED BY <1>1, <2>1, <2>2
<1> QED BY <1>2, <1>3

\* Power losses, too, leave the two buckets of the index consistent, but for
\* the hashes that a rebuild met cut within their namespace.
THEOREM NamespacesSurvivePower == PSpec => []FiledRight
<1>1. PInit => FiledRight
    BY StoreAssumption DEF PInit, Init, FiledRight
<1>2. PInv /\ FiledRight /\ [PNext]_pvars => FiledRight'
    <2> SUFFICES ASSUME PInv, FiledRight, [PNext]_pvars PROVE FiledRight'
        OBVIOUS
    <2>1. ASSUME UNCHANGED <<paths, spaces, misfiled>> PROVE FiledRight'
        BY <2>1 DEF FiledRight
    <2>2. ASSUME NEW p \in Procs, SaveIndex(p), UNCHANGED misfiled PROVE FiledRight'
        <3>1. cur[p] \in Hash /\ Put(cur[p], fmt)
            BY <2>2 DEF PInv, Base, TypeOK, LockHeld, SaveIndex
        <3> QED BY <2>2, <3>1, StoreAssumption DEF PInv, Base, TypeOK, FiledRight, Put
    <2>3. ASSUME NEW p \in Procs, DeleteIndex(p), UNCHANGED misfiled PROVE FiledRight'
        <3>1. spaces' = spaces /\ paths' = [paths EXCEPT ![cur[p]] = None]
            BY <2>3 DEF DeleteIndex, Unindex
        <3>2. \A h \in Hash : paths'[h] # None => paths[h] # None
            BY <3>1 DEF PInv, Base, TypeOK
        <3> QED BY <2>3, <3>1, <3>2 DEF FiledRight
    <2>4. CASE Environs
        <3>1. CASE Close \/ Crash
            BY <2>1, <2>4, <3>1 DEF Environs, Close, Crash, LoseIndex, disk
        <3>2. CASE LoseIndex
            BY <3>2 DEF LoseIndex, FiledRight
        <3> QED BY <2>4, <3>1, <3>2 DEF Environs
    <2>5. CASE RecoverFails \/ \E f \in Formats : Recover(f)
        <3>1. \A h \in Hash : Readable[h] \subseteq Ext
            BY DEF Readable
        <3>2. PICK c : (\A h \in Hash : c[h] \subseteq Ext) /\ Refile(c)
            BY <2>5, <3>1 DEF Recover, RecoverFails, RebuildReadable
        <3> QED BY <3>2, RefileKeeps DEF PInv
    <2>6. CASE LosePower \/ UNCHANGED pvars \/ \E h \in Hash, e \in Ext : WriteBack(h, e)
        BY <2>1, <2>6 DEF LosePower, WriteBack, pvars, vars
    <2>7. ASSUME NEW p \in Procs,
                 Publish(p) \/ Unindexed(p) \/ \E h \in Hash : Erase(p, h)
          PROVE  FiledRight'
        BY <2>1, <2>7 DEF Publish, Unindexed, Erase, SaveRename, SaveIndexFails, DeleteBegin
    <2>8. ASSUME NEW p \in Procs, Other(p) PROVE FiledRight'
        BY <2>1, <2>2, <2>3, <2>8
            DEF Other, SaveBegin, SaveRenameFails, DeleteIndexFails
    <2> QED BY <2>4, <2>5, <2>6, <2>7, <2>8 DEF PNext
<1> QED BY <1>1, <1>2, PInvInvariant, PTL DEF PSpec

\* And what Save and Delete return is still what LoadByHash goes by.
THEOREM SessionsSurvivePower == PSpec => SessionExact
<1>1. PInv => Base /\ Published
    BY DEF PInv
<1> QED BY <1>1, SessionStep, PInvInvariant, PTL DEF PSpec, SessionExact
=============================================================================
