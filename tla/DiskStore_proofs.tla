-------------------------- MODULE DiskStore_proofs --------------------------
(***************************************************************************)
(* Proofs about DiskStore, for every number of goroutines, hashes,         *)
(* recordings and namespaces.                                              *)
(***************************************************************************)
EXTENDS DiskStore, TLAPS

-----------------------------------------------------------------------------
(* The lock and the types.                                                 *)

\* The two invariants that need each other: the hash in hand is a hash
\* because its owner is inside an operation.
Base == TypeOK /\ LockHeld

\* The initial states satisfy Base.
LEMMA BaseInit == Init => Base
<1> SUFFICES ASSUME Init PROVE Base
  OBVIOUS
<1> USE StoreAssumption DEF Init
<1>1. files \in [Hash -> [Ext -> Recs \cup {None}]]
  BY DEF Ext
<1>2. TypeOK
  BY <1>1 DEF TypeOK
<1>3. LockHeld
  BY DEF LockHeld
<1>. QED
  BY <1>2, <1>3 DEF Base

\* Every step keeps the types.
LEMMA TypeStep == Base /\ [Next]_vars => TypeOK'
<1> SUFFICES ASSUME Base, [Next]_vars PROVE TypeOK'
  OBVIOUS
<1> USE StoreAssumption DEF Base, TypeOK, LockHeld
<1>1. ASSUME NEW p \in Procs, NEW h \in Hash, NEW r \in Recs, SaveBegin(p, h, r)
      PROVE  TypeOK'
  BY <1>1 DEF SaveBegin, Lock
<1>2. ASSUME NEW p \in Procs, SaveRename(p) PROVE TypeOK'
  <2>1. cur[p] \in Hash /\ new[p] \in Recs \cup {None} /\ fmt \in Ext
    BY <1>2 DEF SaveRename
  <2>2. files' \in [Hash -> [Ext -> Recs \cup {None}]]
    BY <1>2, <2>1 DEF SaveRename
  <2>3. pc' \in [Procs -> {"idle", "rename", "index", "unindex"}]
    BY <1>2 DEF SaveRename
  <2>. QED
    BY <1>2, <2>2, <2>3 DEF SaveRename
<1>3. ASSUME NEW p \in Procs, SaveRenameFails(p) PROVE TypeOK'
  BY <1>3 DEF SaveRenameFails, Return
<1>4. ASSUME NEW p \in Procs, SaveIndex(p) PROVE TypeOK'
  <2>1. cur[p] \in Hash /\ fmt \in Ext
    BY <1>4 DEF SaveIndex
  <2>2. paths' \in [Hash -> Ext \cup {None}]
    BY <1>4, <2>1 DEF SaveIndex, Put
  <2>3. spaces' \in [Namespaces -> SUBSET Hash]
    BY <1>4, <2>1 DEF SaveIndex, Put
  <2>. QED
    BY <1>4, <2>2, <2>3 DEF SaveIndex, Return
<1>5. ASSUME NEW p \in Procs, SaveIndexFails(p) PROVE TypeOK'
  BY <1>5 DEF SaveIndexFails, Return
<1>6. ASSUME NEW p \in Procs, NEW h \in Hash, DeleteBegin(p, h) PROVE TypeOK'
  <2>1. paths[h] \in Ext
    BY <1>6 DEF DeleteBegin, RemoveFile
  <2>2. files' \in [Hash -> [Ext -> Recs \cup {None}]]
    BY <1>6, <2>1 DEF DeleteBegin, RemoveFile
  <2>. QED
    BY <1>6, <2>2 DEF DeleteBegin, RemoveFile, Lock
<1>7. ASSUME NEW p \in Procs, DeleteIndex(p) PROVE TypeOK'
  BY <1>7 DEF DeleteIndex, Unindex, Return
<1>8. ASSUME NEW p \in Procs, DeleteIndexFails(p) PROVE TypeOK'
  BY <1>8 DEF DeleteIndexFails, Return
<1>9. ASSUME NEW h \in Hash, LoadByHash(h) PROVE TypeOK'
  <2>1. Loaded(h) \in Recs \cup {None}
    BY DEF Loaded
  <2>. QED
    BY <1>9, <2>1 DEF LoadByHash, disk, procs
<1>10. ASSUME Close PROVE TypeOK'
  BY <1>10 DEF Close, disk, procs
<1>11. ASSUME NEW f \in Formats, Open(f) PROVE TypeOK'
  <2>1. \A h \in Hash : Walked(h) \in Ext \cup {None}
    BY DEF Walked, Ext
  <2>. QED
    BY <1>11, <2>1 DEF Open, Rebuild, Reindex, procs
<1>12. ASSUME OpenFails PROVE TypeOK'
  BY <1>12 DEF OpenFails, Reindex, procs
<1>13. ASSUME Crash PROVE TypeOK'
  BY <1>13 DEF Crash, disk
<1>14. ASSUME LoseIndex PROVE TypeOK'
  BY <1>14 DEF LoseIndex, procs
<1>15. ASSUME UNCHANGED vars PROVE TypeOK'
  BY <1>15 DEF vars
<1>. QED
  BY <1>1, <1>2, <1>3, <1>4, <1>5, <1>6, <1>7, <1>8, <1>9, <1>10, <1>11,
     <1>12, <1>13, <1>14, <1>15 DEF Next, ProcStep

\* Every step keeps the lock with the goroutine inside an operation.
LEMMA LockStep == Base /\ [Next]_vars => LockHeld'
<1> SUFFICES ASSUME Base, [Next]_vars PROVE LockHeld'
  OBVIOUS
<1> USE StoreAssumption DEF Base, TypeOK, LockHeld
<1>1. ASSUME NEW p \in Procs, NEW h \in Hash, NEW r \in Recs, SaveBegin(p, h, r)
      PROVE  LockHeld'
  BY <1>1 DEF SaveBegin, Lock
<1>2. ASSUME NEW p \in Procs, SaveRename(p) PROVE LockHeld'
  BY <1>2 DEF SaveRename
<1>3. ASSUME NEW p \in Procs, SaveRenameFails(p) PROVE LockHeld'
  BY <1>3 DEF SaveRenameFails, Return
<1>4. ASSUME NEW p \in Procs, SaveIndex(p) PROVE LockHeld'
  BY <1>4 DEF SaveIndex, Return
<1>5. ASSUME NEW p \in Procs, SaveIndexFails(p) PROVE LockHeld'
  BY <1>5 DEF SaveIndexFails, Return
<1>6. ASSUME NEW p \in Procs, NEW h \in Hash, DeleteBegin(p, h) PROVE LockHeld'
  BY <1>6 DEF DeleteBegin, RemoveFile, Lock
<1>7. ASSUME NEW p \in Procs, DeleteIndex(p) PROVE LockHeld'
  BY <1>7 DEF DeleteIndex, Return
<1>8. ASSUME NEW p \in Procs, DeleteIndexFails(p) PROVE LockHeld'
  BY <1>8 DEF DeleteIndexFails, Return
<1>9. ASSUME NEW h \in Hash, LoadByHash(h) PROVE LockHeld'
  BY <1>9 DEF LoadByHash, procs
<1>10. ASSUME Close PROVE LockHeld'
  BY <1>10 DEF Close, procs
<1>11. ASSUME NEW f \in Formats, Open(f) PROVE LockHeld'
  BY <1>11 DEF Open, procs
<1>12. ASSUME OpenFails PROVE LockHeld'
  BY <1>12 DEF OpenFails, procs
<1>13. ASSUME Crash PROVE LockHeld'
  BY <1>13 DEF Crash
<1>14. ASSUME LoseIndex PROVE LockHeld'
  BY <1>14 DEF LoseIndex, procs
<1>15. ASSUME UNCHANGED vars PROVE LockHeld'
  BY <1>15 DEF vars
<1>. QED
  BY <1>1, <1>2, <1>3, <1>4, <1>5, <1>6, <1>7, <1>8, <1>9, <1>10, <1>11,
     <1>12, <1>13, <1>14, <1>15 DEF Next, ProcStep

\* Base is an invariant.
LEMMA BaseInvariant == Spec => []Base
<1>1. Base /\ [Next]_vars => Base'
  BY TypeStep, LockStep DEF Base
<1>. QED
  BY BaseInit, <1>1, PTL DEF Spec

\* Type correctness of the store.
THEOREM TypeCorrect == Spec => []TypeOK
<1>1. Base => TypeOK
  BY DEF Base
<1>. QED
  BY <1>1, BaseInvariant, PTL

\* Whoever is inside Save or Delete holds s.mu, and nobody else is.
THEOREM LockSafe == Spec => []LockHeld
<1>1. Base => LockHeld
  BY DEF Base
<1>. QED
  BY <1>1, BaseInvariant, PTL

-----------------------------------------------------------------------------
(* The namespace bucket.                                                   *)

\* Every step keeps the two buckets of the index consistent.
LEMMA NamespaceStep == Base /\ NamespaceExact /\ [Next]_vars => NamespaceExact'
<1> SUFFICES ASSUME Base, NamespaceExact, [Next]_vars PROVE NamespaceExact'
  OBVIOUS
<1> USE StoreAssumption DEF Base, TypeOK, NamespaceExact
<1>1. ASSUME NEW p \in Procs, SaveIndex(p) PROVE NamespaceExact'
  <2>1. cur[p] \in Hash
    BY <1>1 DEF SaveIndex, LockHeld
  <2>. QED
    BY <1>1, <2>1 DEF SaveIndex, Put
<1>2. ASSUME NEW p \in Procs, DeleteIndex(p) PROVE NamespaceExact'
  BY <1>2 DEF DeleteIndex, Unindex
<1>3. ASSUME NEW c, Reindex(c) PROVE NamespaceExact'
  BY <1>3 DEF Reindex
<1>4. ASSUME LoseIndex PROVE NamespaceExact'
  BY <1>4 DEF LoseIndex
<1>5. ASSUME UNCHANGED <<paths, spaces>> PROVE NamespaceExact'
  BY <1>5
<1>6. ASSUME NEW f \in Formats, Open(f) PROVE NamespaceExact'
  BY <1>3, <1>6 DEF Open, Rebuild
<1>7. ASSUME OpenFails PROVE NamespaceExact'
  BY <1>3, <1>7 DEF OpenFails
<1>8. CASE \E p \in Procs : ProcStep(p)
  BY <1>1, <1>2, <1>5, <1>8
     DEF ProcStep, SaveBegin, SaveRename, SaveRenameFails, SaveIndexFails,
         DeleteBegin, RemoveFile, DeleteIndexFails
<1>9. CASE \E h \in Hash : LoadByHash(h)
  BY <1>5, <1>9 DEF LoadByHash, disk
<1>10. CASE Close \/ Crash
  BY <1>5, <1>10 DEF Close, Crash, disk
<1>11. CASE UNCHANGED vars
  BY <1>5, <1>11 DEF vars
<1>. QED
  BY <1>4, <1>6, <1>7, <1>8, <1>9, <1>10, <1>11 DEF Next

\* The index lists every hash it resolves under the hash's namespace, in every
\* state, whatever formats are used and whatever fails.
THEOREM NamespacesStayExact == Spec => []NamespaceExact
<1>1. Init => NamespaceExact
  BY StoreAssumption DEF Init, NamespaceExact
<1>. QED
  BY <1>1, NamespaceStep, BaseInvariant, PTL DEF Spec

-----------------------------------------------------------------------------
(* Within one process, in any mix of formats.                              *)

\* A file is the one being saved from its rename to the end of its Save.
Published ==
    \A p \in Procs : pc[p] = "index" => files[cur[p]][fmt] = new[p]

\* Only the owner of the lock touches a file.
LEMMA PublishedStep == Base /\ Published /\ [Next]_vars => Published'
<1> SUFFICES ASSUME Base, Published, [Next]_vars PROVE Published'
  OBVIOUS
<1> USE StoreAssumption DEF Base, TypeOK, LockHeld, Published
<1>1. ASSUME NEW p \in Procs, NEW h \in Hash, NEW r \in Recs, SaveBegin(p, h, r)
      PROVE  Published'
  BY <1>1 DEF SaveBegin, Lock
<1>2. ASSUME NEW p \in Procs, SaveRename(p) PROVE Published'
  <2>1. cur[p] \in Hash /\ fmt \in Ext
    BY <1>2 DEF SaveRename
  <2>2. files'[cur[p]][fmt] = new[p]
    BY <1>2, <2>1 DEF SaveRename
  <2>3. \A q \in Procs : q # p => pc'[q] # "index"
    BY <1>2 DEF SaveRename
  <2>. QED
    BY <1>2, <2>2, <2>3 DEF SaveRename
<1>3. ASSUME NEW p \in Procs, SaveRenameFails(p) \/ SaveIndex(p)
                              \/ SaveIndexFails(p) \/ DeleteIndexFails(p)
                              \/ DeleteIndex(p)
      PROVE  Published'
  BY <1>3 DEF SaveRenameFails, SaveIndex, SaveIndexFails, DeleteIndexFails,
              DeleteIndex, Return
<1>4. ASSUME NEW p \in Procs, NEW h \in Hash, DeleteBegin(p, h) PROVE Published'
  <2>1. \A q \in Procs : pc'[q] # "index"
    BY <1>4 DEF DeleteBegin, RemoveFile, Lock
  <2>. QED
    BY <2>1
<1>5. ASSUME NEW f \in Formats, Open(f) PROVE Published'
  <2>1. \A q \in Procs : pc'[q] # "index"
    BY <1>5 DEF Open, procs
  <2>. QED
    BY <2>1
<1>6. ASSUME NEW h \in Hash, LoadByHash(h) PROVE Published'
  BY <1>6 DEF LoadByHash, disk, procs
<1>7. CASE Close
  BY <1>7 DEF Close, disk, procs
<1>8. CASE OpenFails
  BY <1>8 DEF OpenFails, procs
<1>9. CASE Crash
  BY <1>9 DEF Crash, disk
<1>10. CASE LoseIndex
  BY <1>10 DEF LoseIndex, procs
<1>11. CASE UNCHANGED vars
  BY <1>11 DEF vars
<1>. QED
  BY <1>1, <1>2, <1>3, <1>4, <1>5, <1>6, <1>7, <1>8, <1>9, <1>10, <1>11
     DEF Next, ProcStep

\* Published is an invariant.
LEMMA PublishedInvariant == Spec => []Published
<1>1. Init => Published
  BY DEF Init, Published
<1>. QED
  BY <1>1, PublishedStep, BaseInvariant, PTL DEF Spec

\* A Save or Delete that ends well is what LoadByHash answers at that moment.
LEMMA SessionStep ==
    Base /\ Published =>
        \A p \in Procs, h \in Hash :
            /\ SaveIndex(p) /\ h = cur[p] => Loaded(h)' = new[p]
            /\ DeleteIndex(p) /\ h = cur[p] => Loaded(h)' = None
<1> SUFFICES ASSUME Base, Published, NEW p \in Procs, NEW h \in Hash, h = cur[p]
             PROVE  /\ SaveIndex(p) => Loaded(h)' = new[p]
                    /\ DeleteIndex(p) => Loaded(h)' = None
  OBVIOUS
<1> USE StoreAssumption DEF Base, TypeOK
<1>1. ASSUME SaveIndex(p) PROVE Loaded(h)' = new[p]
  <2>1. paths'[h] = fmt /\ fmt \in Ext /\ phase' = "open" /\ files' = files
    BY <1>1 DEF SaveIndex, Put
  <2>2. files[h][fmt] = new[p]
    BY <1>1 DEF SaveIndex, Published
  <2>. QED
    BY <2>1, <2>2 DEF Loaded
<1>2. ASSUME DeleteIndex(p) PROVE Loaded(h)' = None
  BY <1>2 DEF DeleteIndex, Unindex, Loaded
<1>. QED
  BY <1>1, <1>2

\* What a successful Save stored, and that a successful Delete removed
\* everything, is what LoadByHash answers at that moment, in any mix of
\* formats.
THEOREM SessionsAreExact == Spec => SessionExact
BY SessionStep, BaseInvariant, PublishedInvariant, PTL DEF Spec, SessionExact

-----------------------------------------------------------------------------
(* A store that only ever used one format.                                 *)

\* Every file and every index entry is in the configured format.
OneFormat ==
    /\ \A h \in Hash, e \in Ext : e # fmt => files[h][e] = None
    /\ \A h \in Hash : paths[h] \in {fmt, None}

\* The configuration never changes its format.
SameFormat == \E f \in Ext : Formats = {f}

\* Where one format is used, a file is stored exactly under that format.
LEMMA StoredOneFormat ==
    ASSUME TypeOK, OneFormat, NEW h \in Hash
    PROVE  /\ Stored(h) = files[h][fmt]
           /\ Stored(h) # None => Walked(h) = fmt
           /\ Stored(h) = None => Walked(h) = None
<1>1. fmt \in {".yaml", ".json"}
  BY StoreAssumption DEF TypeOK, Ext
<1>. QED
  BY <1>1, StoreAssumption DEF TypeOK, OneFormat, Stored, Walked, Ext

\* Every step keeps the store in one format.
LEMMA OneFormatStep == SameFormat /\ Base /\ OneFormat /\ [Next]_vars => OneFormat'
<1> SUFFICES ASSUME SameFormat, Base, OneFormat, [Next]_vars PROVE OneFormat'
  OBVIOUS
<1> USE StoreAssumption DEF Base, TypeOK
<1>0. fmt' = fmt /\ fmt \in Ext
  <2>1. fmt' \in Formats
    BY TypeStep
  <2>. QED
    BY <2>1 DEF SameFormat
<1>1. ASSUME NEW p \in Procs, SaveRename(p) PROVE OneFormat'
  <2>1. cur[p] \in Hash
    BY <1>1 DEF SaveRename, LockHeld
  <2>2. \A h \in Hash, e \in Ext : e # fmt => files'[h][e] = files[h][e]
    BY <1>0, <1>1, <2>1 DEF SaveRename
  <2>. QED
    BY <1>0, <1>1, <2>2 DEF SaveRename, OneFormat
<1>2. ASSUME NEW p \in Procs, SaveIndex(p) PROVE OneFormat'
  BY <1>0, <1>2 DEF SaveIndex, Put, OneFormat
<1>3. ASSUME NEW p \in Procs, NEW h \in Hash, DeleteBegin(p, h) PROVE OneFormat'
  <2>1. \A g \in Hash, e \in Ext : files'[g][e] \in {files[g][e], None}
    BY <1>3 DEF DeleteBegin, RemoveFile
  <2>. QED
    BY <1>0, <1>3, <2>1 DEF DeleteBegin, RemoveFile, OneFormat
<1>4. ASSUME NEW p \in Procs, DeleteIndex(p) PROVE OneFormat'
  BY <1>0, <1>4 DEF DeleteIndex, Unindex, OneFormat
<1>5. ASSUME UNCHANGED <<files, paths>> PROVE OneFormat'
  BY <1>0, <1>5 DEF OneFormat
<1>6. ASSUME NEW f \in Formats, Open(f) PROVE OneFormat'
  <2>1. \A h \in Hash : Walked(h) \in {fmt, None}
    BY StoredOneFormat
  <2>2. \A h \in Hash : paths'[h] \in {Walked(h), paths[h]}
    BY <1>6 DEF Open, Rebuild, Reindex
  <2>. QED
    BY <1>0, <1>6, <2>1, <2>2 DEF Open, OneFormat
<1>7. CASE OpenFails
  <2>1. \A h \in Hash : paths'[h] \in {fmt, None}
    BY <1>7 DEF OpenFails, Reindex, OneFormat
  <2>. QED
    BY <1>0, <1>7, <2>1 DEF OpenFails, OneFormat
<1>8. CASE LoseIndex
  BY <1>0, <1>8 DEF LoseIndex, OneFormat
<1>9. CASE \E p \in Procs : ProcStep(p)
  BY <1>1, <1>2, <1>3, <1>4, <1>5, <1>9
     DEF ProcStep, SaveBegin, SaveRenameFails, SaveIndexFails, DeleteIndexFails
<1>10. CASE \E h \in Hash : LoadByHash(h)
  BY <1>5, <1>10 DEF LoadByHash, disk
<1>11. CASE Close \/ Crash
  BY <1>5, <1>11 DEF Close, Crash, disk
<1>12. CASE UNCHANGED vars
  BY <1>5, <1>12 DEF vars
<1>. QED
  BY <1>6, <1>7, <1>8, <1>9, <1>10, <1>11, <1>12 DEF Next

\* The initial files are in that format.
LEMMA OneFormatInit == SameFormat /\ Init => OneFormat
<1> SUFFICES ASSUME SameFormat, Init PROVE OneFormat
  OBVIOUS
<1>1. PICK f \in Formats :
        files \in [Hash -> {[e \in Ext |-> IF e = f THEN r ELSE None] :
                              r \in Recs \cup {None}}]
  BY DEF Init
<1>2. f = fmt
  BY SameFormat, StoreAssumption DEF Init, SameFormat
<1>3. \A h \in Hash, e \in Ext : e # f => files[h][e] = None
  BY <1>1
<1>. QED
  BY <1>2, <1>3 DEF Init, OneFormat

\* In one configured format, the store is always in that format.
LEMMA OneFormatInvariant == ASSUME SameFormat PROVE Spec => []OneFormat
<1>1. Init => OneFormat
  BY OneFormatInit, SameFormat
<1>2. Base /\ OneFormat /\ [Next]_vars => OneFormat'
  BY OneFormatStep, SameFormat
<1>. QED
  BY <1>1, <1>2, BaseInvariant, PTL DEF Spec

-----------------------------------------------------------------------------
(* One format and no failing disk: restarts change nothing.                *)

\* The files of a Delete under way are gone, unless the disk refused.
Removed ==
    ~IOFaults => \A p \in Procs : pc[p] = "unindex" => files[cur[p]][fmt] = None

\* While the store is open every file is indexed, or about to be.
Indexed ==
    ~IOFaults /\ phase = "open" =>
        \A h \in Hash : files[h][fmt] # None =>
            \/ paths[h] = fmt
            \/ \E p \in Procs : pc[p] = "index" /\ cur[p] = h

Synced == OneFormat /\ Removed /\ Indexed

\* Every step keeps the files of Deletes removed.
LEMMA RemovedStep ==
    SameFormat /\ Base /\ OneFormat /\ Removed /\ [Next]_vars => Removed'
<1> SUFFICES ASSUME SameFormat, Base, OneFormat, Removed, [Next]_vars, ~IOFaults
             PROVE  \A p \in Procs : pc'[p] = "unindex" => files'[cur'[p]][fmt'] = None
  BY DEF Removed
<1> USE StoreAssumption DEF Base, TypeOK, LockHeld, Removed
<1>0. fmt' = fmt /\ fmt \in Ext
  <2>1. fmt' \in Formats
    BY TypeStep
  <2>. QED
    BY <2>1 DEF SameFormat
<1>1. CASE \E p \in Procs, h \in Hash : DeleteBegin(p, h)
  <2>1. PICK p \in Procs, h \in Hash : DeleteBegin(p, h)
    BY <1>1
  <2>2. paths[h] = fmt
    BY <2>1 DEF DeleteBegin, RemoveFile, OneFormat
  <2>3. files'[h][fmt] = None
    BY <1>0, <2>1, <2>2 DEF DeleteBegin, RemoveFile
  <2>4. \A q \in Procs : q # p => pc'[q] = "idle"
    BY <2>1 DEF DeleteBegin, RemoveFile, Lock
  <2>5. cur'[p] = h
    BY <2>1 DEF DeleteBegin, RemoveFile
  <2>. QED
    BY <1>0, <2>3, <2>4, <2>5
<1>2. CASE \E p \in Procs : \/ \E h \in Hash, r \in Recs : SaveBegin(p, h, r)
                            \/ SaveRename(p) \/ SaveRenameFails(p)
                            \/ SaveIndex(p) \/ SaveIndexFails(p)
                            \/ DeleteIndex(p) \/ DeleteIndexFails(p)
  <2>1. \A q \in Procs : pc'[q] # "unindex"
    BY <1>2 DEF SaveBegin, SaveRename, SaveRenameFails, SaveIndex,
                SaveIndexFails, DeleteIndex, DeleteIndexFails, Lock, Return
  <2>. QED
    BY <2>1
<1>3. CASE (\E f \in Formats : Open(f)) \/ OpenFails \/ Crash \/ LoseIndex
  <2>1. \A q \in Procs : pc'[q] # "unindex"
    BY <1>3 DEF Open, OpenFails, Crash, LoseIndex, procs
  <2>. QED
    BY <2>1
<1>4. CASE Close \/ (\E h \in Hash : LoadByHash(h)) \/ UNCHANGED vars
  BY <1>0, <1>4 DEF Close, LoadByHash, disk, procs, vars
<1>. QED
  BY <1>1, <1>2, <1>3, <1>4 DEF Next, ProcStep

\* Every step keeps the files of an open store indexed.
LEMMA IndexedStep ==
    SameFormat /\ Base /\ Synced /\ [Next]_vars => Indexed'
<1> SUFFICES ASSUME SameFormat, Base, Synced, [Next]_vars, ~IOFaults,
                    phase' = "open", NEW h \in Hash, files'[h][fmt'] # None
             PROVE  paths'[h] = fmt' \/ \E p \in Procs : pc'[p] = "index" /\ cur'[p] = h
  BY DEF Indexed
<1> USE StoreAssumption DEF Base, TypeOK, LockHeld, Synced, Indexed
<1>0. fmt' = fmt /\ fmt \in Ext
  <2>1. fmt' \in Formats
    BY TypeStep
  <2>. QED
    BY <2>1 DEF SameFormat
<1>1. CASE \E p \in Procs, g \in Hash, r \in Recs : SaveBegin(p, g, r)
  BY <1>0, <1>1 DEF SaveBegin, Lock
<1>2. CASE \E p \in Procs : SaveRename(p)
  <2>1. PICK p \in Procs : SaveRename(p)
    BY <1>2
  <2>2. CASE cur[p] = h
    BY <2>1, <2>2 DEF SaveRename
  <2>3. CASE cur[p] # h
    <3>1. files'[h] = files[h]
      BY <2>1, <2>3 DEF SaveRename
    <3>. QED
      BY <1>0, <2>1, <2>3, <3>1 DEF SaveRename
  <2>. QED
    BY <2>2, <2>3
<1>3. CASE \E p \in Procs : SaveIndex(p)
  <2>1. PICK p \in Procs : SaveIndex(p)
    BY <1>3
  <2>2. files' = files /\ phase = "open"
    BY <2>1 DEF SaveIndex
  <2>3. paths'[h] = IF h = cur[p] THEN fmt ELSE paths[h]
    BY <2>1 DEF SaveIndex, Put
  <2>4. \A q \in Procs : pc[q] = "index" => q = p
    BY <2>1 DEF SaveIndex
  <2>. QED
    BY <1>0, <2>2, <2>3, <2>4
<1>4. CASE \E p \in Procs : SaveRenameFails(p) \/ SaveIndexFails(p) \/ DeleteIndexFails(p)
  BY <1>4 DEF SaveRenameFails, SaveIndexFails, DeleteIndexFails
<1>5. CASE \E p \in Procs, g \in Hash : DeleteBegin(p, g)
  <2>1. PICK p \in Procs, g \in Hash : DeleteBegin(p, g)
    BY <1>5
  <2>2. files'[h][fmt] \in {files[h][fmt], None}
    <3>1. \/ files' = files
          \/ files' = [files EXCEPT ![g] = [files[g] EXCEPT ![paths[g]] = None]]
      BY <2>1 DEF DeleteBegin, RemoveFile
    <3>2. files' = files => files'[h][fmt] = files[h][fmt]
      OBVIOUS
    <3>3. ASSUME files' = [files EXCEPT ![g] = [files[g] EXCEPT ![paths[g]] = None]]
          PROVE  files'[h][fmt] \in {files[h][fmt], None}
      <4>1. CASE g = h
        BY <1>0, <3>3, <4>1
      <4>2. CASE g # h
        BY <3>3, <4>2
      <4>. QED
        BY <4>1, <4>2
    <3>. QED
      BY <3>1, <3>2, <3>3
  <2>3. \A q \in Procs : pc[q] # "index"
    BY <2>1 DEF DeleteBegin, RemoveFile, Lock
  <2>. QED
    BY <1>0, <2>1, <2>2, <2>3 DEF DeleteBegin, RemoveFile
<1>6. CASE \E p \in Procs : DeleteIndex(p)
  <2>1. PICK p \in Procs : DeleteIndex(p)
    BY <1>6
  <2>2. h # cur[p]
    BY <1>0, <2>1 DEF DeleteIndex, Removed
  <2>3. \A q \in Procs : pc[q] # "index"
    BY <2>1 DEF DeleteIndex
  <2>. QED
    BY <1>0, <2>1, <2>2, <2>3 DEF DeleteIndex, Unindex
<1>7. CASE \E f \in Formats : Open(f)
  <2>1. PICK f \in Formats : Open(f)
    BY <1>7
  <2>2. files' = files /\ files[h][fmt] # None
    BY <1>0, <2>1 DEF Open
  <2>3. Walked(h) = fmt
    BY <2>2, StoredOneFormat
  <2>4. paths'[h] = fmt
    BY <1>0, <2>1, <2>3 DEF Open, Rebuild, Reindex, Ext
  <2>. QED
    BY <1>0, <2>4
<1>8. CASE OpenFails \/ Crash \/ LoseIndex \/ Close
  BY <1>8 DEF OpenFails, Crash, LoseIndex, Close
<1>9. CASE (\E g \in Hash : LoadByHash(g)) \/ UNCHANGED vars
  BY <1>0, <1>9 DEF LoadByHash, disk, procs, vars
<1>. QED
  BY <1>1, <1>2, <1>3, <1>4, <1>5, <1>6, <1>7, <1>8, <1>9 DEF Next, ProcStep

\* In one format, Synced is an invariant.
LEMMA SyncedInvariant == ASSUME SameFormat PROVE Spec => []Synced
<1>1. Init => Removed /\ Indexed
  BY DEF Init, Removed, Indexed
<1>2. Base /\ Synced /\ [Next]_vars => Removed' /\ Indexed'
  BY SameFormat, RemovedStep, IndexedStep DEF Synced
<1>3. Synced <=> OneFormat /\ Removed /\ Indexed
  BY DEF Synced
<1>. QED
  BY <1>1, <1>2, <1>3, BaseInvariant, OneFormatInvariant, PTL DEF Spec

\* The index of an open store that nobody updates agrees with the files.
LEMMA SyncedIsTransparent == ASSUME ~IOFaults PROVE Base /\ Synced => RestartTransparent
<1> SUFFICES ASSUME Base, Synced, phase = "open", mu = None, NEW h \in Hash
             PROVE  Loaded(h) = Stored(h)
  BY DEF RestartTransparent
<1>1. Stored(h) = files[h][fmt]
  BY StoredOneFormat DEF Base, Synced
<1>2. \A p \in Procs : pc[p] = "idle"
  BY StoreAssumption DEF Base, TypeOK, LockHeld
<1>3. paths[h] = None => files[h][fmt] = None
  BY <1>2, StoreAssumption DEF Synced, Indexed, Base, TypeOK
<1>. QED
  BY <1>1, <1>3 DEF Loaded, Synced, OneFormat

\* With one format and a disk that never fails, a restart changes no answer:
\* crashes between any two steps and the loss of the index included.
THEOREM RestartsAreTransparent ==
    ASSUME SameFormat, ~IOFaults PROVE Spec => []RestartTransparent
BY SyncedIsTransparent, BaseInvariant, SyncedInvariant, PTL

\* The end of a Delete leaves neither an entry nor a file.
LEMMA DeleteStep ==
    ASSUME ~IOFaults
    PROVE  Base /\ Synced =>
             \A p \in Procs, h \in Hash :
                DeleteIndex(p) /\ h = cur[p] => Loaded(h)' = None /\ Stored(h)' = None
<1> SUFFICES ASSUME Base, Synced, NEW p \in Procs, NEW h \in Hash,
                    DeleteIndex(p), h = cur[p]
             PROVE  Loaded(h)' = None /\ Stored(h)' = None
  OBVIOUS
<1>1. files' = files /\ paths'[h] = None
  BY DEF DeleteIndex, Unindex, Base, TypeOK
<1>2. Stored(h) = None
  BY StoredOneFormat DEF DeleteIndex, Base, Synced, Removed
<1>3. Stored(h)' = Stored(h)
  BY <1>1 DEF Stored, Walked
<1>. QED
  BY <1>1, <1>2, <1>3 DEF Loaded

\* With one format and a disk that never fails, a Delete that returns leaves
\* nothing for this process, and nothing for the next one, to find.
THEOREM DeletesRemove ==
    ASSUME SameFormat, ~IOFaults PROVE Spec => DeleteRemoves
BY DeleteStep, BaseInvariant, SyncedInvariant, PTL DEF Spec, DeleteRemoves

-----------------------------------------------------------------------------
(* Refinement: the files and the index implement the dictionary.           *)

\* Nobody is committing while the lock is free.
LEMMA FreeMeansQuiet ==
    ASSUME Base, mu = None PROVE \A h \in Hash : ~Committing(h)
<1>. QED
  BY StoreAssumption DEF Base, TypeOK, LockHeld, Committing

\* The initial states are initial states of the dictionary.
LEMMA RefinesInit == Init => Abs!Init
<1> SUFFICES ASSUME Init PROVE Abs!Init
  OBVIOUS
<1>1. \A h \in Hash : Stored(h) \in Recs \cup {None}
  BY BaseInit DEF Base, TypeOK, Stored, Walked, Ext
<1>. QED
  BY <1>1 DEF Init, Abs!Init, Abs!Present, Unseen

\* A step that leaves the files, the phase and the answer alone, and hides
\* nothing, stutters.
LEMMA Stutter ==
    ASSUME files' = files, reply' = reply, (phase' = "open") <=> (phase = "open"),
           Unseen' = Unseen
    PROVE  UNCHANGED Abs!cvars
<1>1. \A h \in Hash : Stored(h)' = Stored(h)
  BY DEF Stored, Walked
<1>2. [h \in Hash |-> Stored(h)]' = [h \in Hash |-> Stored(h)]
  BY <1>1
<1>. QED
  BY <1>2 DEF Abs!cvars

\* A step inside an open store whose only effect is that h may lose its entry
\* hides h or stutters.
LEMMA Hiding ==
    ASSUME NEW h \in Hash, files' = files, reply' = reply,
           phase = "open", phase' = "open",
           IOFaults \/ Stored(h) = None,
           Unseen' \in {Unseen, Unseen \cup {h}},
           Stored(h) = None => Unseen' = Unseen
    PROVE  Abs!Hide(h) \/ UNCHANGED Abs!cvars
<1>1. CASE Unseen' = Unseen
  BY <1>1, Stutter
<1>2. CASE Unseen' = Unseen \cup {h} /\ Stored(h) # None
  <2>1. \A g \in Hash : Stored(g)' = Stored(g)
    BY DEF Stored, Walked
  <2>2. [g \in Hash |-> Stored(g)]' = [g \in Hash |-> Stored(g)]
    BY <2>1
  <2>. QED
    BY <1>2, <2>2 DEF Abs!Hide, Abs!Present
<1>. QED
  BY <1>1, <1>2

\* A Save's steps.
LEMMA RefinesSave ==
    ASSUME Base, OneFormat, TypeOK', OneFormat', NEW p \in Procs,
           \/ \E h \in Hash, r \in Recs : SaveBegin(p, h, r)
           \/ SaveRename(p)
           \/ SaveRenameFails(p)
           \/ SaveIndex(p)
           \/ SaveIndexFails(p)
    PROVE  Abs!Next \/ UNCHANGED Abs!cvars
<1> USE StoreAssumption DEF Base, TypeOK, LockHeld
<1>1. ASSUME NEW h \in Hash, NEW r \in Recs, SaveBegin(p, h, r)
      PROVE  UNCHANGED Abs!cvars
  <2>1. \A g \in Hash : ~Committing(g) /\ ~Committing(g)'
    BY <1>1 DEF SaveBegin, Lock, Committing
  <2>2. files' = files /\ paths' = paths /\ phase' = phase /\ reply' = reply
    BY <1>1 DEF SaveBegin
  <2>3. \A g \in Hash : Stored(g)' = Stored(g)
    BY <2>2 DEF Stored, Walked
  <2>4. Unseen' = Unseen
    BY <2>1, <2>2, <2>3 DEF Unseen
  <2>. QED
    BY <2>2, <2>4, Stutter
<1>2. ASSUME NEW h \in Hash, h = cur[p], SaveRename(p)
      PROVE  Abs!Save(h, new[p]) /\ new[p] \in Recs
  <2>1. new[p] \in Recs /\ fmt \in {".yaml", ".json"}
    BY <1>2 DEF SaveRename, Ext
  <2>2. /\ paths' = paths /\ phase' = phase /\ reply' = reply /\ fmt' = fmt
        /\ \A g \in Hash : g # h => files'[g] = files[g]
        /\ files'[h][fmt] = new[p]
    BY <1>2, <2>1 DEF SaveRename, Ext
  <2>3. \A g \in Hash : g # h => Stored(g)' = Stored(g)
    BY <2>2 DEF Stored, Walked
  <2>4. Stored(h)' = new[p]
    <3>1. \A e \in Ext : e # fmt => files'[h][e] = None
      BY <2>2 DEF OneFormat
    <3>. QED
      BY <2>1, <2>2, <3>1 DEF Stored, Walked, Ext
  <2>5. \A g \in Hash : ~Committing(g) /\ (Committing(g)' <=> g = h)
    <3>1. \A q \in Procs : pc[q] = IF q = p THEN "rename" ELSE "idle"
      BY <1>2 DEF SaveRename
    <3>2. \A q \in Procs : pc'[q] = IF q = p THEN "index" ELSE "idle"
      BY <1>2, <3>1 DEF SaveRename
    <3>3. cur' = cur
      BY <1>2 DEF SaveRename
    <3>. QED
      BY <1>2, <3>1, <3>2, <3>3 DEF Committing
  <2>6. Unseen' = IF phase = "open" THEN Unseen \ {h} ELSE Unseen \cup {h}
    BY <2>1, <2>2, <2>3, <2>4, <2>5 DEF Unseen
  <2>7. [g \in Hash |-> Stored(g)]'
          = [[g \in Hash |-> Stored(g)] EXCEPT ![h] = new[p]]
    BY <2>3, <2>4
  <2>. QED
    BY <2>1, <2>2, <2>6, <2>7 DEF Abs!Save
<1>3. ASSUME SaveRenameFails(p) PROVE UNCHANGED Abs!cvars
  <2>1. \A g \in Hash : ~Committing(g) /\ ~Committing(g)'
    BY <1>3 DEF SaveRenameFails, Return, Committing
  <2>2. files' = files /\ paths' = paths /\ phase' = phase /\ reply' = reply
    BY <1>3 DEF SaveRenameFails
  <2>3. \A g \in Hash : Stored(g)' = Stored(g)
    BY <2>2 DEF Stored, Walked
  <2>4. Unseen' = Unseen
    BY <2>1, <2>2, <2>3 DEF Unseen
  <2>. QED
    BY <2>2, <2>4, Stutter
<1>4. ASSUME SaveIndex(p) PROVE UNCHANGED Abs!cvars
  <2>1. cur[p] \in Hash /\ fmt \in Ext /\ phase = "open"
    BY <1>4 DEF SaveIndex
  <2>2. files' = files /\ phase' = phase /\ reply' = reply
    BY <1>4 DEF SaveIndex
  <2>3. \A g \in Hash : paths'[g] = IF g = cur[p] THEN fmt ELSE paths[g]
    BY <1>4 DEF SaveIndex, Put
  <2>4. \A g \in Hash : (Committing(g) <=> g = cur[p]) /\ ~Committing(g)'
    BY <1>4 DEF SaveIndex, Return, Committing
  <2>5. \A g \in Hash : Stored(g)' = Stored(g)
    BY <2>2 DEF Stored, Walked
  <2>6. Unseen' = Unseen
    BY <2>1, <2>2, <2>3, <2>4, <2>5 DEF Unseen
  <2>. QED
    BY <2>2, <2>6, Stutter
<1>5. ASSUME SaveIndexFails(p)
      PROVE  UNCHANGED Abs!cvars \/ Abs!Hide(cur[p])
  <2>1. cur[p] \in Hash
    BY <1>5 DEF SaveIndexFails
  <2>2. files' = files /\ paths' = paths /\ phase' = phase /\ reply' = reply
    BY <1>5 DEF SaveIndexFails
  <2>3. \A g \in Hash : (Committing(g) <=> g = cur[p]) /\ ~Committing(g)'
    BY <1>5 DEF SaveIndexFails, Return, Committing
  <2>4. \A g \in Hash : Stored(g)' = Stored(g)
    BY <2>2 DEF Stored, Walked
  <2>5. /\ Unseen' \in {Unseen, Unseen \cup {cur[p]}}
        /\ Stored(cur[p]) = None => Unseen' = Unseen
        /\ phase # "open" => Unseen' = Unseen
    <3>1. CASE phase = "open" /\ Stored(cur[p]) # None /\ paths[cur[p]] = None
      <4>1. Unseen' = Unseen \cup {cur[p]}
        BY <2>1, <2>2, <2>3, <2>4, <3>1 DEF Unseen
      <4>. QED
        BY <3>1, <4>1
    <3>2. CASE ~(phase = "open" /\ Stored(cur[p]) # None /\ paths[cur[p]] = None)
      <4>1. Unseen' = Unseen
        BY <2>1, <2>2, <2>3, <2>4, <3>2 DEF Unseen
      <4>. QED
        BY <4>1
    <3>. QED
      BY <3>1, <3>2
  <2>6. CASE phase = "open"
    <3>1. IOFaults
      BY <1>5, <2>6 DEF SaveIndexFails
    <3>. QED
      BY <2>1, <2>2, <2>5, <2>6, <3>1, Hiding
  <2>7. CASE phase # "open"
    BY <2>2, <2>5, <2>7, Stutter
  <2>. QED
    BY <2>6, <2>7
<1>. QED
  BY <1>1, <1>2, <1>3, <1>4, <1>5 DEF Abs!Next, SaveRename, SaveIndexFails

\* A Delete's steps.
LEMMA RefinesDelete ==
    ASSUME Base, OneFormat, Removed, TypeOK', OneFormat', NEW p \in Procs,
           \/ \E h \in Hash : DeleteBegin(p, h)
           \/ DeleteIndex(p)
           \/ DeleteIndexFails(p)
    PROVE  Abs!Next \/ UNCHANGED Abs!cvars
<1> USE StoreAssumption DEF Base, TypeOK, LockHeld
<1>1. ASSUME NEW h \in Hash, DeleteBegin(p, h)
      PROVE  Abs!Delete(h) \/ UNCHANGED Abs!cvars
  <2>1. /\ paths' = paths /\ phase' = phase /\ reply' = reply /\ phase = "open"
        /\ fmt' = fmt /\ fmt \in Ext /\ paths[h] = fmt
    BY <1>1 DEF DeleteBegin, RemoveFile, OneFormat
  <2>2. \A g \in Hash : ~Committing(g) /\ (Committing(g)' <=> g = h)
    BY <1>1 DEF DeleteBegin, RemoveFile, Lock, Committing
  <2>3. CASE files' = files
    <3>1. \A g \in Hash : Stored(g)' = Stored(g)
      BY <2>3 DEF Stored, Walked
    <3>2. Unseen' = Unseen
      BY <2>1, <2>2, <3>1 DEF Unseen
    <3>. QED
      BY <2>1, <2>3, <3>2, Stutter
  <2>4. CASE files' = [files EXCEPT ![h][paths[h]] = None]
    <3>1. \A g \in Hash : g # h => Stored(g)' = Stored(g)
      BY <2>4 DEF Stored, Walked
    <3>2. files'[h][fmt] = None
      BY <2>1, <2>4
    <3>3. Stored(h)' = None
      BY <2>1, <3>2 DEF Stored, Walked, OneFormat, Ext
    <3>4. Unseen' = Unseen \ {h}
      BY <2>1, <2>2, <3>1, <3>3 DEF Unseen
    <3>5. [g \in Hash |-> Stored(g)]'
            = [[g \in Hash |-> Stored(g)] EXCEPT ![h] = None]
      BY <3>1, <3>3
    <3>. QED
      BY <2>1, <3>4, <3>5 DEF Abs!Delete
  <2>. QED
    BY <1>1, <2>3, <2>4 DEF DeleteBegin, RemoveFile
<1>2. ASSUME DeleteIndex(p) \/ DeleteIndexFails(p)
      PROVE  UNCHANGED Abs!cvars \/ Abs!Hide(cur[p])
  <2>1. cur[p] \in Hash /\ phase = "open"
    BY <1>2 DEF DeleteIndex, DeleteIndexFails
  <2>2. files' = files /\ phase' = phase /\ reply' = reply
    BY <1>2 DEF DeleteIndex, DeleteIndexFails
  <2>3. \A g \in Hash : g # cur[p] => paths'[g] = paths[g]
    BY <1>2 DEF DeleteIndex, DeleteIndexFails, Unindex
  <2>4. \A g \in Hash : (Committing(g) <=> g = cur[p]) /\ ~Committing(g)'
    BY <1>2 DEF DeleteIndex, DeleteIndexFails, Return, Committing
  <2>5. \A g \in Hash : Stored(g)' = Stored(g)
    BY <2>2 DEF Stored, Walked
  <2>6. /\ Unseen' \in {Unseen, Unseen \cup {cur[p]}}
        /\ Stored(cur[p]) = None => Unseen' = Unseen
    <3>1. CASE Stored(cur[p]) # None /\ paths'[cur[p]] = None
      <4>1. Unseen' = Unseen \cup {cur[p]}
        BY <2>1, <2>2, <2>3, <2>4, <2>5, <3>1 DEF Unseen
      <4>. QED
        BY <3>1, <4>1
    <3>2. CASE ~(Stored(cur[p]) # None /\ paths'[cur[p]] = None)
      <4>1. Unseen' = Unseen
        BY <2>1, <2>2, <2>3, <2>4, <2>5, <3>2 DEF Unseen
      <4>. QED
        BY <4>1
    <3>. QED
      BY <3>1, <3>2
  <2>7. IOFaults \/ Stored(cur[p]) = None
    <3>1. Stored(cur[p]) = files[cur[p]][fmt]
      BY <2>1, StoredOneFormat
    <3>. QED
      BY <1>2, <3>1 DEF DeleteIndex, DeleteIndexFails, Removed
  <2>. QED
    BY <2>1, <2>2, <2>6, <2>7, Hiding
<1>. QED
  BY <1>1, <1>2 DEF Abs!Next, DeleteIndex, DeleteIndexFails

\* LoadByHash answers what the dictionary answers.
LEMMA RefinesLoad ==
    ASSUME Base, OneFormat, NEW h \in Hash, LoadByHash(h)
    PROVE  Abs!Load(h)
<1> USE StoreAssumption DEF Base, TypeOK
<1>1. files' = files /\ paths' = paths /\ phase' = phase /\ pc' = pc /\ cur' = cur
  BY DEF LoadByHash, disk, procs
<1>2. \A g \in Hash : Stored(g)' = Stored(g)
  BY <1>1 DEF Stored, Walked
<1>3. [g \in Hash |-> Stored(g)]' = [g \in Hash |-> Stored(g)]
  BY <1>2
<1>4. Unseen' = Unseen
  BY <1>1, <1>2 DEF Unseen, Committing
<1>5. ~Committing(h)
  BY FreeMeansQuiet DEF LoadByHash
<1>6. Loaded(h) = IF phase = "open" /\ h \notin Unseen THEN Stored(h) ELSE None
  <2>1. Stored(h) = files[h][fmt]
    BY StoredOneFormat
  <2>2. paths[h] \in {fmt, None}
    BY DEF OneFormat
  <2>3. h \in Unseen <=> Stored(h) # None /\ ~(phase = "open" /\ paths[h] # None)
    BY <1>5 DEF Unseen
  <2>. QED
    BY <2>1, <2>2, <2>3 DEF Loaded
<1>. QED
  BY <1>1, <1>3, <1>4, <1>6 DEF Abs!Load, Abs!Visible, LoadByHash

\* Starts, stops and the loss of the index.
LEMMA RefinesLife ==
    ASSUME Base,
           Close \/ (\E f \in Formats : Open(f)) \/ OpenFails \/ Crash \/ LoseIndex
    PROVE  Abs!Next \/ UNCHANGED Abs!cvars
<1> USE StoreAssumption DEF Base, TypeOK
<1>1. files' = files /\ reply' = reply
  BY DEF Close, Open, OpenFails, Crash, LoseIndex, disk, procs
<1>2. \A g \in Hash : Stored(g)' = Stored(g)
  BY <1>1 DEF Stored, Walked
<1>3. [g \in Hash |-> Stored(g)]' = [g \in Hash |-> Stored(g)]
  BY <1>2
<1>4. ASSUME Close \/ Crash PROVE Abs!Stop
  <2>1. phase' # "open"
    BY <1>4 DEF Close, Crash
  <2>2. Unseen' = {h \in Hash : Stored(h) # None}
    BY <1>2, <2>1 DEF Unseen
  <2>. QED
    BY <1>1, <1>3, <2>1, <2>2 DEF Abs!Stop, Abs!Present
<1>5. ASSUME NEW f \in Formats, Open(f) PROVE Abs!Reopen
  <2>1. \A h \in Hash : Stored(h) # None => paths'[h] # None
    BY <1>5 DEF Open, Rebuild, Reindex, Stored
  <2>2. phase' = "open" /\ phase = "down"
    BY <1>5 DEF Open
  <2>3. Unseen' = {}
    BY <1>2, <2>1, <2>2 DEF Unseen
  <2>. QED
    BY <1>1, <1>3, <2>2, <2>3 DEF Abs!Reopen
<1>6. ASSUME OpenFails \/ LoseIndex PROVE UNCHANGED Abs!cvars
  <2>1. phase = "down" /\ phase' = "down"
    BY <1>6 DEF OpenFails, LoseIndex
  <2>2. Unseen' = Unseen
    BY <1>2, <2>1 DEF Unseen
  <2>. QED
    BY <1>1, <2>1, <2>2, Stutter
<1>. QED
  BY <1>4, <1>5, <1>6 DEF Abs!Next

\* Every step is a step of the dictionary or a stutter.
LEMMA RefinesStep ==
    Base /\ Synced /\ TypeOK' /\ OneFormat' /\ [Next]_vars => [Abs!Next]_Abs!cvars
<1> SUFFICES ASSUME Base, Synced, TypeOK', OneFormat', [Next]_vars
             PROVE  Abs!Next \/ UNCHANGED Abs!cvars
  OBVIOUS
<1>1. ASSUME NEW p \in Procs, ProcStep(p)
      PROVE  Abs!Next \/ UNCHANGED Abs!cvars
  BY <1>1, RefinesSave, RefinesDelete DEF ProcStep, Synced
<1>2. ASSUME NEW h \in Hash, LoadByHash(h) PROVE Abs!Next
  BY <1>2, RefinesLoad DEF Synced, Abs!Next
<1>3. CASE UNCHANGED vars
  <2>1. Unseen' = Unseen
    BY <1>3 DEF vars, Unseen, Stored, Walked, Committing
  <2>. QED
    BY <1>3, <2>1, Stutter DEF vars
<1>. QED
  BY <1>1, <1>2, <1>3, RefinesLife DEF Next

\* The disk store implements the dictionary of CassetteStore when one format
\* is configured: with crashes and index losses anywhere, and, where
\* IOFaults, with failing renames, removes and transactions.
THEOREM StoreImplemented ==
    ASSUME SameFormat PROVE Spec => ImplementsStore
<1>1. Base => TypeOK
  BY DEF Base
<1>2. Synced => OneFormat
  BY DEF Synced
<1>. QED
  BY <1>1, <1>2, RefinesInit, RefinesStep, BaseInvariant, SyncedInvariant, PTL
     DEF Spec, ImplementsStore, Abs!Spec
=============================================================================
