------------------------ MODULE StoreQueries_proofs ------------------------
(***************************************************************************)
(* Proofs about StoreQueries, for every number of goroutines, hashes,      *)
(* recordings and namespaces: what DiskStore keeps is kept beside the long *)
(* operations, and each of these delivers what it promises.                *)
(***************************************************************************)
EXTENDS StoreQueries, DiskStore_proofs, FiniteSetTheorems

-----------------------------------------------------------------------------
(* The steps of this module as steps of the store.                         *)

\* The one configured format of QueriesAssumption.
LEMMA OneFormatOnly == SameFormat
<1>1. IsFiniteSet(Ext)
  <2>1. Ext = {".yaml"} \cup {".json"}
    BY DEF Ext
  <2>2. IsFiniteSet({".yaml"}) /\ IsFiniteSet({".json"})
    BY FS_Singleton
  <2>. QED
    BY <2>1, <2>2, FS_Union
<1>2. IsFiniteSet(Formats)
  BY <1>1, FS_Subset, StoreAssumption
<1>3. \E f : Formats = {f}
  BY <1>2, FS_Singleton, QueriesAssumption
<1>. QED
  BY <1>3, StoreAssumption DEF SameFormat

\* A RebuildIndex of an open store is the only thing here that DiskStore does
\* not do: every other step is one of its steps, or none.
LEMMA StoreSteps ==
    [QNext]_allvars => [Next]_vars \/ \E p \in Procs : RebuildPut(p)
<1> SUFFICES ASSUME [QNext]_allvars
             PROVE  [Next]_vars \/ \E p \in Procs : RebuildPut(p)
  OBVIOUS
<1>1. ASSUME NEW p \in Procs, Single(p) PROVE Next
  BY <1>1 DEF Single, ProcStep, Next
<1>2. ASSUME NEW p \in Procs,
             \/ \E n \in Namespaces : QueryBegin(p, n)
             \/ PruneBegin(p)
             \/ RebuildBegin(p)
      PROVE  UNCHANGED vars
  BY <1>2 DEF QueryBegin, PruneBegin, RebuildBegin, Begin
<1>3. ASSUME NEW p \in Procs, QueryEnd(p) \/ PruneEnd(p) \/ RebuildEnd(p)
      PROVE  UNCHANGED vars
  BY <1>3 DEF QueryEnd, PruneEnd, RebuildEnd, Finish
<1>4. ASSUME NEW p \in Procs, NEW h \in Hash, QueryLoad(p, h) PROVE Next
  BY <1>4 DEF QueryLoad, Next
<1>5. ASSUME NEW p \in Procs, NEW h \in Hash, PruneDelete(p, h) PROVE Next
  BY <1>5 DEF PruneDelete, ProcStep, Next
<1>6. ASSUME NEW p \in Procs, NEW h \in Hash, PruneSkip(p, h) \/ RebuildRead(p, h)
      PROVE  UNCHANGED vars
  BY <1>6 DEF PruneSkip, RebuildRead
<1>7. ASSUME NEW p \in Procs, RebuildFails(p) PROVE UNCHANGED vars
  BY <1>7 DEF RebuildFails
<1>8. CASE Environment
  BY <1>8 DEF Environment, Next
<1>9. CASE Restart
  BY <1>9 DEF Restart, Next
<1>10. CASE UNCHANGED allvars
  BY <1>10 DEF allvars
<1>. QED
  BY <1>1, <1>2, <1>3, <1>4, <1>5, <1>6, <1>7, <1>8, <1>9, <1>10 DEF QNext

-----------------------------------------------------------------------------
(* The types.                                                              *)

\* The types of the store and of this module, and the lock.
QBase == Base /\ QTypeOK

\* The initial states satisfy QBase.
LEMMA QBaseInit == QInit => QBase
<1> SUFFICES ASSUME QInit PROVE QBase
  OBVIOUS
<1>1. Base
  BY BaseInit DEF QInit
<1>2. QTypeOK
  BY DEF QInit, QTypeOK, NoneFound
<1>. QED
  BY <1>1, <1>2 DEF QBase

\* What a rebuild of an open store Puts.
LEMMA RebuildPutEffect ==
    ASSUME QBase, NEW p \in Procs, RebuildPut(p)
    PROVE  /\ at[p] \in Hash /\ fmt \in Ext
           /\ paths' = [paths EXCEPT ![at[p]] = fmt]
           /\ spaces' = [n \in Namespaces |->
                 IF n = NsOf[at[p]] THEN spaces[n] \cup {at[p]} ELSE spaces[n]]
           /\ phase = "open"
           /\ UNCHANGED <<files, phase, fmt, mu, pc, cur, new, reply>>
BY StoreAssumption
   DEF QBase, Base, TypeOK, QTypeOK, RebuildPut, RebuildEntry, Put, procs

\* Every step keeps the lock and the types of the store.
LEMMA QKeepsBase == QBase /\ [QNext]_allvars => Base'
<1> SUFFICES ASSUME QBase, [QNext]_allvars PROVE Base'
  OBVIOUS
<1>1. CASE [Next]_vars
  BY <1>1, TypeStep, LockStep DEF QBase, Base
<1>2. CASE \E p \in Procs : RebuildPut(p)
  <2>1. PICK p \in Procs : RebuildPut(p)
    BY <1>2
  <2>2. paths' \in [Hash -> Ext \cup {None}]
    BY <2>1, RebuildPutEffect DEF QBase, Base, TypeOK
  <2>3. spaces' \in [Namespaces -> SUBSET Hash]
    BY <2>1, RebuildPutEffect DEF QBase, Base, TypeOK
  <2>4. TypeOK'
    BY <2>1, <2>2, <2>3, RebuildPutEffect DEF QBase, Base, TypeOK
  <2>5. LockHeld'
    BY <2>1, RebuildPutEffect DEF QBase, Base, LockHeld
  <2>. QED
    BY <2>4, <2>5 DEF Base
<1>. QED
  BY <1>1, <1>2, StoreSteps

\* Every step keeps the types of the operations.
LEMMA QTypeStep == QBase /\ [QNext]_allvars => QTypeOK'
<1> SUFFICES ASSUME QBase, [QNext]_allvars PROVE QTypeOK'
  OBVIOUS
<1> USE StoreAssumption DEF QBase, QTypeOK
<1>0. NoneFound \in [Hash -> Recs \cup {None}]
  BY DEF NoneFound
<1>1. ASSUME Watch PROVE stable' \in [Procs -> SUBSET Hash]
  BY <1>1 DEF Watch
<1>2. ASSUME NEW p \in Procs, Single(p) PROVE QTypeOK'
  BY <1>1, <1>2 DEF Single
<1>3. ASSUME NEW p \in Procs, NEW n \in Namespaces, QueryBegin(p, n)
      PROVE  QTypeOK'
  <2>1. spaces[n] \in SUBSET Hash
    BY DEF Base, TypeOK
  <2>. QED
    BY <1>0, <1>3, <2>1 DEF QueryBegin, Begin
<1>4. ASSUME NEW p \in Procs, PruneBegin(p) \/ RebuildBegin(p) PROVE QTypeOK'
  <2>1. PICK name \in {"prune", "rebuild"}, hs \in SUBSET Hash : Begin(p, name, hs)
    <3>1. Listed \in SUBSET Hash
      BY DEF Listed
    <3>. QED
      BY <1>4, <3>1 DEF PruneBegin, RebuildBegin
  <2>2. UNCHANGED <<asked, found>>
    BY <1>4 DEF PruneBegin, RebuildBegin
  <2>. QED
    BY <2>1, <2>2 DEF Begin
<1>5. ASSUME NEW p \in Procs, QueryEnd(p) \/ PruneEnd(p) \/ RebuildEnd(p)
      PROVE  QTypeOK'
  <2>1. PICK name : Finish(p, name)
    BY <1>5 DEF QueryEnd, PruneEnd, RebuildEnd
  <2>2. found' \in [Procs -> [Hash -> Recs \cup {None}]]
    BY <1>0, <2>1 DEF Finish
  <2>3. stable' \in [Procs -> SUBSET Hash]
    BY <2>1 DEF Finish
  <2>. QED
    BY <2>1, <2>2, <2>3 DEF Finish
<1>6. ASSUME NEW p \in Procs, NEW h \in Hash, QueryLoad(p, h) PROVE QTypeOK'
  <2>1. Loaded(h) \in Recs \cup {None}
    BY DEF Loaded, Base, TypeOK
  <2>2. found' \in [Procs -> [Hash -> Recs \cup {None}]]
    BY <1>6, <2>1 DEF QueryLoad
  <2>3. todo' \in [Procs -> SUBSET Hash]
    BY <1>6 DEF QueryLoad, Visited
  <2>. QED
    BY <1>6, <2>2, <2>3 DEF QueryLoad
<1>7. ASSUME NEW p \in Procs, NEW h \in Hash, PruneDelete(p, h) \/ PruneSkip(p, h)
      PROVE  QTypeOK'
  BY <1>1, <1>7 DEF PruneDelete, PruneSkip, Visited
<1>8. ASSUME NEW p \in Procs, NEW h \in Hash, RebuildRead(p, h) PROVE QTypeOK'
  BY <1>8 DEF RebuildRead, Visited
<1>9. ASSUME NEW p \in Procs, RebuildPut(p) \/ RebuildFails(p) PROVE QTypeOK'
  BY <1>1, <1>9 DEF RebuildPut, RebuildFails
<1>10. CASE Environment
  BY <1>10 DEF Environment, qvars
<1>11. CASE Restart
  BY <1>0, <1>11 DEF Restart
<1>12. CASE UNCHANGED allvars
  BY <1>12 DEF allvars, qvars
<1>. QED
  BY <1>2, <1>3, <1>4, <1>5, <1>6, <1>7, <1>8, <1>9, <1>10, <1>11, <1>12
     DEF QNext

\* QBase is an invariant.
LEMMA QBaseInvariant == QSpec => []QBase
<1>1. QBase /\ [QNext]_allvars => QBase'
  BY QKeepsBase, QTypeStep DEF QBase
<1>. QED
  BY QBaseInit, <1>1, PTL DEF QSpec

\* The long operations keep their variables, and those of the store, in type.
THEOREM QueriesTypeCorrect == QSpec => [](TypeOK /\ QTypeOK)
<1>1. QBase => TypeOK /\ QTypeOK
  BY DEF QBase, Base
<1>. QED
  BY <1>1, QBaseInvariant, PTL

\* Nobody but the owner of s.mu is inside a Save or a Delete, a Prune's
\* Deletes included.
THEOREM QueriesLockSafe == QSpec => []LockHeld
<1>1. QBase => LockHeld
  BY DEF QBase, Base
<1>. QED
  BY <1>1, QBaseInvariant, PTL

-----------------------------------------------------------------------------
(* What DiskStore keeps is kept beside the long operations.                *)

\* Every step keeps the two buckets of the index consistent.
LEMMA QNamespaceStep == QBase /\ NamespaceExact /\ [QNext]_allvars => NamespaceExact'
<1> SUFFICES ASSUME QBase, NamespaceExact, [QNext]_allvars PROVE NamespaceExact'
  OBVIOUS
<1>1. CASE [Next]_vars
  BY <1>1, NamespaceStep DEF QBase
<1>2. ASSUME NEW p \in Procs, RebuildPut(p) PROVE NamespaceExact'
  <2>1. \A h \in Hash : paths'[h] # None => paths[h] # None \/ h = at[p]
    BY <1>2, RebuildPutEffect DEF QBase, Base, TypeOK
  <2>2. \A n \in Namespaces :
          spaces'[n] = IF n = NsOf[at[p]] THEN spaces[n] \cup {at[p]} ELSE spaces[n]
    BY <1>2, RebuildPutEffect
  <2>3. ASSUME NEW h \in Hash, paths'[h] # None, NsOf[h] # None
        PROVE  h \in spaces'[NsOf[h]]
    <3>1. NsOf[h] \in Namespaces
      BY <2>3, StoreAssumption
    <3>2. h = at[p] \/ h \in spaces[NsOf[h]]
      BY <2>1, <2>3 DEF NamespaceExact
    <3>. QED
      BY <2>2, <3>1, <3>2
  <2>4. ASSUME NEW n \in Namespaces, NEW h \in spaces'[n] PROVE NsOf[h] = n
    <3>1. h \in spaces[n] \/ (h = at[p] /\ n = NsOf[at[p]])
      BY <2>2, <2>4
    <3>. QED
      BY <3>1 DEF NamespaceExact
  <2>. QED
    BY <2>3, <2>4 DEF NamespaceExact
<1>. QED
  BY <1>1, <1>2, StoreSteps

\* The index lists every hash it resolves under the hash's namespace, beside
\* an online rebuild too.
LEMMA QNamespaceInvariant == QSpec => []NamespaceExact
<1>1. QInit => NamespaceExact
  BY StoreAssumption DEF QInit, Init, NamespaceExact
<1>. QED
  BY <1>1, QNamespaceStep, QBaseInvariant, PTL DEF QSpec

\* Every step keeps files and index in step.
LEMMA QSyncedStep == QBase /\ Synced /\ [QNext]_allvars => Synced'
<1> SUFFICES ASSUME QBase, Synced, [QNext]_allvars PROVE Synced'
  OBVIOUS
<1>1. CASE [Next]_vars
  <2>1. OneFormat' /\ Removed'
    BY <1>1, OneFormatOnly, OneFormatStep, RemovedStep DEF QBase, Synced
  <2>2. Indexed'
    BY <1>1, OneFormatOnly, IndexedStep DEF QBase
  <2>. QED
    BY <2>1, <2>2 DEF Synced
<1>2. ASSUME NEW p \in Procs, RebuildPut(p) PROVE Synced'
  <2>1. \A h \in Hash : paths'[h] = IF h = at[p] THEN fmt ELSE paths[h]
    BY <1>2, RebuildPutEffect DEF QBase, Base, TypeOK
  <2>2. UNCHANGED <<files, phase, fmt, pc, cur>>
    BY <1>2, RebuildPutEffect
  <2>3. OneFormat'
    BY <2>1, <2>2 DEF Synced, OneFormat
  <2>4. Removed'
    BY <2>2 DEF Synced, Removed
  <2>5. Indexed'
    BY <2>1, <2>2 DEF Synced, Indexed
  <2>. QED
    BY <2>3, <2>4, <2>5 DEF Synced
<1>. QED
  BY <1>1, <1>2, StoreSteps

\* Synced is an invariant: the file a rebuild Puts may be gone by then, but
\* with the entry that is left behind nothing is found that was not there.
LEMMA QSyncedInvariant == QSpec => []Synced
<1>1. QInit => Synced
  <2> SUFFICES ASSUME QInit PROVE Synced
    OBVIOUS
  <2>1. OneFormat
    BY OneFormatOnly, OneFormatInit DEF QInit
  <2>2. Removed /\ Indexed
    BY DEF QInit, Init, Removed, Indexed
  <2>. QED
    BY <2>1, <2>2 DEF Synced
<1>. QED
  BY <1>1, QSyncedStep, QBaseInvariant, PTL DEF QSpec

\* With a disk that never fails, no interleaving of queries, Prunes and online
\* rebuilds with Saves and Deletes makes a restart change an answer.
THEOREM QueriesAreTransparent ==
    ASSUME ~IOFaults PROVE QSpec => []RestartTransparent
<1>1. QBase => Base
  BY DEF QBase
<1>. QED
  BY <1>1, SyncedIsTransparent, QBaseInvariant, QSyncedInvariant, PTL

\* A Delete that returns has removed its cassette for good, although a rebuild
\* that read the file before may index the hash again afterwards.
THEOREM QueriesDelete == ASSUME ~IOFaults PROVE QSpec => DeleteRemoves
<1>1. QBase => Base
  BY DEF QBase
<1>2. QBase /\ Synced /\ [QNext]_allvars =>
        [\A p \in Procs, h \in Hash :
           DeleteIndex(p) /\ h = cur[p] => Loaded(h)' = None /\ Stored(h)' = None]_vars
  BY <1>1, DeleteStep
<1>. QED
  BY <1>2, QBaseInvariant, QSyncedInvariant, PTL DEF QSpec, DeleteRemoves

-----------------------------------------------------------------------------
(* The dictionary, with the long operations beside it.                     *)

\* With a disk that never fails nothing is hidden while the store is open.
NoneHidden == phase = "open" => Unseen = {}

\* Every file of an open store is indexed, or about to be.
LEMMA SyncedHidesNone == ASSUME ~IOFaults PROVE Base /\ Synced => NoneHidden
<1> SUFFICES ASSUME Base, Synced, phase = "open", NEW h \in Hash, h \in Unseen
             PROVE  FALSE
  BY DEF Unseen, NoneHidden
<1>1. Stored(h) = files[h][fmt] /\ Stored(h) # None
  BY StoredOneFormat DEF Base, Synced, Unseen
<1>2. paths[h] = fmt \/ \E p \in Procs : pc[p] = "index" /\ cur[p] = h
  BY <1>1 DEF Synced, Indexed
<1>3. fmt # None
  BY StoreAssumption DEF Base, TypeOK
<1>. QED
  BY <1>2, <1>3 DEF Unseen, Committing

\* An online rebuild changes nothing the dictionary shows: every other step
\* is a step of the dictionary, or none, as it was for DiskStore.
LEMMA QRefinesStep ==
    QBase /\ Synced /\ NoneHidden /\ NoneHidden' /\ TypeOK' /\ OneFormat'
        /\ [QNext]_allvars => [Abs!Next]_Abs!cvars
<1> SUFFICES ASSUME QBase, Synced, NoneHidden, NoneHidden', TypeOK', OneFormat',
                    [QNext]_allvars
             PROVE  [Abs!Next]_Abs!cvars
  OBVIOUS
<1>1. CASE [Next]_vars
  BY <1>1, RefinesStep DEF QBase
<1>2. ASSUME NEW p \in Procs, RebuildPut(p) PROVE UNCHANGED Abs!cvars
  <2>1. /\ phase = "open" /\ phase' = "open"
        /\ files' = files /\ reply' = reply
    BY <1>2, RebuildPutEffect
  <2>2. Unseen' = Unseen
    BY <2>1 DEF NoneHidden
  <2>. QED
    BY <2>1, <2>2, Stutter
<1>. QED
  BY <1>1, <1>2, StoreSteps

\* Queries, Prunes and online rebuilds are invisible in the dictionary: with
\* them, and a disk that never fails, the store still implements it.
THEOREM QueriesImplementStore ==
    ASSUME ~IOFaults PROVE QSpec => ImplementsStore
<1>1. QInit => Abs!Init
  BY RefinesInit DEF QInit
<1>2. QBase => Base /\ TypeOK
  BY DEF QBase, Base
<1>3. Synced => OneFormat
  BY DEF Synced
<1>. QED
  BY <1>1, <1>2, <1>3, SyncedHidesNone, QRefinesStep, QBaseInvariant,
     QSyncedInvariant, PTL DEF QSpec, ImplementsStore, Abs!Spec

-----------------------------------------------------------------------------
(* LoadByNamespace.                                                        *)

\* A query has collected every hash of its namespace it need not visit again,
\* as it is now, unless somebody touched it meanwhile.
QueryInv ==
    \A p \in Procs : task[p] = "query" /\ phase = "open" =>
        \A h \in stable[p] :
            NsOf[h] = asked[p] /\ h \notin todo[p] => found[p][h] = Loaded(h)

\* What a step may do to a query that goes on: it collects nothing and visits
\* nothing, and a hash that stays stable keeps its file and its entry.
QueryUntouched(p) ==
    /\ task'[p] = "query" => task[p] = "query"
    /\ phase' = "open" => phase = "open"
    /\ stable'[p] \subseteq stable[p]
    /\ asked'[p] = asked[p]
    /\ todo'[p] = todo[p]
    /\ found'[p] = found[p]
    /\ \A h \in stable'[p] : files'[h] = files[h] /\ paths'[h] = paths[h]

\* Such a step keeps what the query has.
LEMMA UntouchedKeeps ==
    ASSUME QBase, QueryInv, NEW p \in Procs, QueryUntouched(p),
           task'[p] = "query", phase' = "open", NEW h \in stable'[p],
           NsOf[h] = asked'[p], h \notin todo'[p]
    PROVE  found'[p][h] = Loaded(h)'
<1>1. /\ task[p] = "query" /\ phase = "open" /\ h \in stable[p]
      /\ NsOf[h] = asked[p] /\ h \notin todo[p]
  BY DEF QueryUntouched
<1>2. found[p][h] = Loaded(h)
  BY <1>1 DEF QueryInv
<1>3. Loaded(h)' = Loaded(h)
  BY <1>1 DEF QueryUntouched, Loaded
<1>. QED
  BY <1>2, <1>3 DEF QueryUntouched

\* A query begins with every hash still to visit that the index resolves.
LEMMA QueryBegins ==
    ASSUME QBase, NamespaceExact, NEW p \in Procs, NEW n \in Namespaces,
           QueryBegin(p, n), NEW h \in Hash, NsOf[h] = asked'[p], h \notin todo'[p]
    PROVE  found'[p][h] = Loaded(h)'
<1>1. /\ asked'[p] = n /\ todo'[p] = spaces[n] /\ found'[p] = NoneFound
      /\ files' = files /\ paths' = paths /\ phase' = phase
  BY DEF QBase, QTypeOK, QueryBegin, Begin, vars
<1>2. paths[h] = None
  BY <1>1, StoreAssumption DEF NamespaceExact
<1>3. Loaded(h)' = None
  BY <1>1, <1>2 DEF Loaded
<1>. QED
  BY <1>1, <1>3 DEF NoneFound

\* A query visits h.
LEMMA QueryVisits ==
    ASSUME QBase, QueryInv, NEW p \in Procs, NEW g \in Hash, QueryLoad(p, g),
           phase = "open", NEW h \in stable[p], NsOf[h] = asked[p],
           h \notin todo'[p]
    PROVE  found'[p][h] = Loaded(h)
<1>1. found'[p] = [found[p] EXCEPT ![g] = Loaded(g)] /\ found[p] \in [Hash -> Recs \cup {None}]
  BY DEF QBase, QTypeOK, QueryLoad
<1>2. h \in Hash
  BY DEF QBase, QTypeOK
<1>3. CASE h = g
  BY <1>1, <1>3
<1>4. CASE h # g
  <2>1. h \notin todo[p]
    BY <1>4 DEF QBase, QTypeOK, QueryLoad, Visited
  <2>2. found[p][h] = Loaded(h)
    BY <2>1 DEF QueryInv, QueryLoad
  <2>. QED
    BY <1>1, <1>2, <1>4, <2>2
<1>. QED
  BY <1>3, <1>4

\* Every step keeps what the queries have collected true.
LEMMA QueryStep ==
    QBase /\ NamespaceExact /\ QueryInv /\ [QNext]_allvars => QueryInv'
<1> SUFFICES ASSUME QBase, NamespaceExact, QueryInv, [QNext]_allvars,
                    NEW q \in Procs, task'[q] = "query", phase' = "open",
                    NEW h \in stable'[q], NsOf[h] = asked'[q], h \notin todo'[q],
                    ~QueryUntouched(q)
             PROVE  found'[q][h] = Loaded(h)'
  BY UntouchedKeeps DEF QueryInv
<1> USE DEF QueryUntouched
<1>0. h \in Hash
  BY QTypeStep DEF QTypeOK
<1>1. ASSUME Watch
      PROVE  /\ stable'[q] \subseteq stable[q]
             /\ \A g \in stable'[q] : files'[g] = files[g] /\ paths'[g] = paths[g]
  BY <1>1 DEF Watch
<1>2. ASSUME NEW p \in Procs, Single(p) PROVE FALSE
  <2>1. phase' = phase
    BY <1>2 DEF Single, ProcStep, SaveBegin, SaveRename, SaveRenameFails,
                SaveIndex, SaveIndexFails, DeleteBegin, DeleteIndex,
                DeleteIndexFails
  <2>. QED
    BY <1>1, <1>2, <2>1 DEF Single
<1>3. ASSUME NEW p \in Procs, NEW n \in Namespaces, QueryBegin(p, n)
      PROVE  found'[q][h] = Loaded(h)'
  <2>1. CASE q = p
    BY <1>0, <1>3, <2>1, QueryBegins
  <2>2. CASE q # p
    BY <1>3, <2>2 DEF QBase, QTypeOK, QueryBegin, Begin, vars
  <2>. QED
    BY <2>1, <2>2
<1>4. ASSUME NEW p \in Procs, PruneBegin(p) \/ RebuildBegin(p) PROVE FALSE
  <2>1. PICK name, hs : name \in {"prune", "rebuild"} /\ Begin(p, name, hs)
    BY <1>4 DEF PruneBegin, RebuildBegin
  <2>2. UNCHANGED <<asked, found>>
    BY <1>4 DEF PruneBegin, RebuildBegin
  <2>3. q # p
    BY <2>1 DEF Begin, QBase, QTypeOK
  <2>. QED
    BY <2>1, <2>2, <2>3 DEF Begin, QBase, QTypeOK, vars
<1>5. ASSUME NEW p \in Procs, QueryEnd(p) \/ PruneEnd(p) \/ RebuildEnd(p)
      PROVE  FALSE
  <2>1. PICK name : Finish(p, name)
    BY <1>5 DEF QueryEnd, PruneEnd, RebuildEnd
  <2>2. q # p
    BY <2>1 DEF Finish, QBase, QTypeOK
  <2>. QED
    BY <2>1, <2>2 DEF Finish, QBase, QTypeOK, vars
<1>6. ASSUME NEW p \in Procs, NEW g \in Hash, QueryLoad(p, g)
      PROVE  found'[q][h] = Loaded(h)'
  <2>1. UNCHANGED <<files, paths, phase, task, asked, stable>>
    BY <1>6 DEF QueryLoad, LoadByHash, disk
  <2>2. Loaded(h)' = Loaded(h)
    BY <2>1 DEF Loaded
  <2>3. CASE q = p
    BY <1>6, <2>1, <2>2, <2>3, QueryVisits
  <2>4. CASE q # p
    BY <1>6, <2>1, <2>4 DEF QBase, QTypeOK, QueryLoad, Visited
  <2>. QED
    BY <2>3, <2>4
<1>7. ASSUME NEW p \in Procs, NEW g \in Hash, PruneDelete(p, g) PROVE FALSE
  <2>1. q # p
    BY <1>7 DEF PruneDelete
  <2>. QED
    BY <1>1, <1>7, <2>1 DEF PruneDelete, DeleteBegin, RemoveFile, Visited, QBase, QTypeOK
<1>8. ASSUME NEW p \in Procs, NEW g \in Hash, PruneSkip(p, g) \/ RebuildRead(p, g)
      PROVE  FALSE
  <2>1. q # p
    BY <1>8 DEF PruneSkip, RebuildRead
  <2>. QED
    BY <1>8, <2>1 DEF PruneSkip, RebuildRead, Visited, QBase, QTypeOK, vars
<1>9. ASSUME NEW p \in Procs, RebuildPut(p) PROVE FALSE
  <2>1. q # p
    BY <1>9 DEF RebuildPut
  <2>. QED
    BY <1>1, <1>9, <2>1 DEF RebuildPut
<1>10. ASSUME NEW p \in Procs, RebuildFails(p) PROVE FALSE
  <2>1. q # p
    BY <1>10 DEF RebuildFails
  <2>. QED
    BY <1>10, <2>1 DEF RebuildFails, QBase, QTypeOK, vars
<1>11. CASE Environment
  BY <1>11 DEF Environment, qvars, LoadByHash, Close, disk
<1>12. CASE Restart
  BY <1>12 DEF Restart
<1>13. CASE UNCHANGED allvars
  BY <1>13 DEF allvars, qvars, vars
<1>. QED
  BY <1>2, <1>3, <1>4, <1>5, <1>6, <1>7, <1>8, <1>9, <1>10, <1>11, <1>12,
     <1>13 DEF QNext

\* LoadByNamespace returns every cassette of the namespace that nobody touched
\* while it ran, as it is, whatever was saved, deleted, pruned or rebuilt
\* meanwhile, and whatever the disk refused.
THEOREM QueriesAreComplete == QSpec => QueryComplete
<1>1. QInit => QueryInv
  BY DEF QInit, QueryInv
<1>2. QSpec => []QueryInv
  BY <1>1, QueryStep, QBaseInvariant, QNamespaceInvariant, PTL DEF QSpec
<1>3. QBase /\ QueryInv =>
        \A p \in Procs : QueryEnd(p) /\ phase = "open" =>
            \A h \in stable[p] : NsOf[h] = asked[p] => found[p][h] = Loaded(h)
  BY DEF QueryInv, QueryEnd, Finish
<1>4. QBase /\ QueryInv /\ [QNext]_allvars =>
        [\A p \in Procs : QueryEnd(p) /\ phase = "open" =>
            \A h \in stable[p] : NsOf[h] = asked[p] => found[p][h] = Loaded(h)]_allvars
  BY <1>3
<1>. QED
  BY <1>2, <1>4, QBaseInvariant, PTL DEF QSpec, QueryComplete

-----------------------------------------------------------------------------
(* Prune.                                                                  *)

\* Nobody saves a recording older than the threshold of a Prune under way.
SavesYoung == \A p \in Procs : new[p] \notin Old

\* Only the steps of a Save or a Delete change the recording in hand.
LEMMA SavesYoungStep == QBase /\ SavesYoung /\ [QNext]_allvars => SavesYoung'
<1> SUFFICES ASSUME QBase, SavesYoung, [QNext]_allvars PROVE SavesYoung'
  OBVIOUS
<1>0. None \notin Old
  BY StoreAssumption, QueriesAssumption
<1>1. ASSUME UNCHANGED new PROVE SavesYoung'
  BY <1>1 DEF SavesYoung
<1>2. ASSUME NEW p \in Procs, Single(p) PROVE SavesYoung'
  <2>1. \A q \in Procs : q # p => new'[q] \in {new[q], None}
    BY <1>2 DEF Single, ProcStep, SaveBegin, SaveRename, SaveRenameFails,
                SaveIndex, SaveIndexFails, DeleteBegin, DeleteIndex,
                DeleteIndexFails, Return, QBase, Base, TypeOK
  <2>2. new'[p] \notin Old
    BY <1>2 DEF Single
  <2>. QED
    BY <1>0, <2>1, <2>2 DEF SavesYoung
<1>3. ASSUME NEW p \in Procs, NEW h \in Hash, QueryLoad(p, h) \/ PruneDelete(p, h)
      PROVE  SavesYoung'
  BY <1>1, <1>3 DEF QueryLoad, LoadByHash, procs, PruneDelete, DeleteBegin
<1>4. ASSUME NEW p \in Procs, RebuildPut(p) PROVE SavesYoung'
  BY <1>1, <1>4, RebuildPutEffect
<1>5. ASSUME UNCHANGED vars PROVE SavesYoung'
  BY <1>1, <1>5 DEF vars
<1>6. ASSUME NEW p \in Procs,
             \/ (\E n \in Namespaces : QueryBegin(p, n))
             \/ PruneBegin(p) \/ RebuildBegin(p)
             \/ QueryEnd(p) \/ PruneEnd(p) \/ RebuildEnd(p)
             \/ (\E h \in Hash : PruneSkip(p, h) \/ RebuildRead(p, h))
             \/ RebuildFails(p)
      PROVE  SavesYoung'
  BY <1>5, <1>6 DEF QueryBegin, PruneBegin, RebuildBegin, Begin, QueryEnd,
                    PruneEnd, RebuildEnd, Finish, PruneSkip, RebuildRead,
                    RebuildFails
<1>7. CASE Environment
  BY <1>1, <1>7 DEF Environment, LoadByHash, Close, procs
<1>8. CASE Restart
  <2>1. \A q \in Procs : new'[q] \in {new[q], None}
    BY <1>8 DEF Restart, Open, OpenFails, Crash, LoseIndex, procs
  <2>. QED
    BY <1>0, <2>1 DEF SavesYoung
<1>9. CASE UNCHANGED allvars
  BY <1>5, <1>9 DEF allvars
<1>. QED
  BY <1>2, <1>3, <1>4, <1>6, <1>7, <1>8, <1>9 DEF QNext

\* A Prune has still to visit every old recording.
PruneInv ==
    \A p \in Procs : task[p] = "prune" /\ phase = "open" =>
        \A h \in Hash, e \in Ext : files[h][e] \in Old => h \in todo[p]

\* No step makes an old file.
LEMMA NoOldFile ==
    ASSUME QBase, SavesYoung, [QNext]_allvars,
           NEW h \in Hash, NEW e \in Ext, files'[h][e] \in Old
    PROVE  files[h][e] \in Old
<1>0. None \notin Old
  BY StoreAssumption, QueriesAssumption
<1>1. ASSUME NEW p \in Procs, SaveRename(p) PROVE files[h][e] \in Old
  <2>1. new[p] \notin Old /\ cur[p] \in Hash /\ fmt \in Ext
    BY <1>1, StoreAssumption DEF SavesYoung, SaveRename, QBase, Base, TypeOK, LockHeld
  <2>2. files'[h][e] \in {files[h][e], new[p]}
    BY <1>1, <2>1 DEF SaveRename, QBase, Base, TypeOK
  <2>. QED
    BY <2>1, <2>2
<1>2. ASSUME NEW p \in Procs, NEW g \in Hash, DeleteBegin(p, g)
      PROVE  files[h][e] \in Old
  <2>1. files'[h][e] \in {files[h][e], None}
    BY <1>2 DEF DeleteBegin, RemoveFile, QBase, Base, TypeOK
  <2>. QED
    BY <1>0, <2>1
<1>3. ASSUME UNCHANGED files PROVE files[h][e] \in Old
  BY <1>3
<1>4. CASE [Next]_vars
  BY <1>1, <1>2, <1>3, <1>4
     DEF Next, ProcStep, SaveBegin, SaveRenameFails, SaveIndex, SaveIndexFails,
         DeleteIndex, DeleteIndexFails, LoadByHash, Close, Open, OpenFails,
         Crash, LoseIndex, disk, vars
<1>5. CASE \E p \in Procs : RebuildPut(p)
  BY <1>3, <1>5 DEF RebuildPut
<1>. QED
  BY <1>4, <1>5, StoreSteps

\* What a step may do to a Prune that goes on: its list stays.
PruneUntouched(p) ==
    /\ task'[p] = "prune" => task[p] = "prune"
    /\ phase' = "open" => phase = "open"
    /\ todo'[p] = todo[p]

\* Every step leaves the Prunes with every old recording to visit.
LEMMA PruneStep ==
    ~IOFaults /\ QBase /\ Synced /\ SavesYoung /\ PruneInv /\ [QNext]_allvars
        => PruneInv'
<1> SUFFICES ASSUME ~IOFaults, QBase, Synced, SavesYoung, PruneInv,
                    [QNext]_allvars,
                    NEW q \in Procs, task'[q] = "prune", phase' = "open",
                    NEW h \in Hash, NEW e \in Ext, files'[h][e] \in Old
             PROVE  h \in todo'[q]
  BY DEF PruneInv
<1>0. files[h][e] \in Old /\ files[h][e] # None
  BY NoOldFile, StoreAssumption, QueriesAssumption
<1>1. ASSUME PruneUntouched(q) PROVE h \in todo'[q]
  BY <1>0, <1>1 DEF PruneUntouched, PruneInv
<1>2. ASSUME NEW p \in Procs, Single(p) PROVE PruneUntouched(q)
  <2>1. phase' = phase
    BY <1>2 DEF Single, ProcStep, SaveBegin, SaveRename, SaveRenameFails,
                SaveIndex, SaveIndexFails, DeleteBegin, DeleteIndex,
                DeleteIndexFails
  <2>. QED
    BY <1>2, <2>1 DEF Single, PruneUntouched
<1>3. ASSUME NEW p \in Procs, PruneBegin(p) PROVE h \in todo'[q]
  <2>1. CASE q = p
    <3>1. h \in Listed
      BY <1>0 DEF Listed
    <3>. QED
      BY <1>3, <2>1, <3>1 DEF PruneBegin, Begin, QBase, QTypeOK
  <2>2. CASE q # p
    BY <1>1, <1>3, <2>2
       DEF PruneUntouched, PruneBegin, Begin, QBase, QTypeOK, vars
  <2>. QED
    BY <2>1, <2>2
<1>4. ASSUME NEW p \in Procs,
             (\E n \in Namespaces : QueryBegin(p, n)) \/ RebuildBegin(p)
      PROVE  PruneUntouched(q)
  <2>1. PICK name, hs : name \in {"query", "rebuild"} /\ Begin(p, name, hs)
    BY <1>4 DEF QueryBegin, RebuildBegin
  <2>2. q # p
    BY <2>1 DEF Begin, QBase, QTypeOK
  <2>. QED
    BY <2>1, <2>2 DEF Begin, QBase, QTypeOK, PruneUntouched, vars
<1>5. ASSUME NEW p \in Procs, QueryEnd(p) \/ PruneEnd(p) \/ RebuildEnd(p)
      PROVE  PruneUntouched(q)
  <2>1. PICK name : Finish(p, name)
    BY <1>5 DEF QueryEnd, PruneEnd, RebuildEnd
  <2>2. q # p
    BY <2>1 DEF Finish, QBase, QTypeOK
  <2>. QED
    BY <2>1, <2>2 DEF Finish, QBase, QTypeOK, PruneUntouched, vars
<1>6. ASSUME NEW p \in Procs, NEW g \in Hash, QueryLoad(p, g)
      PROVE  PruneUntouched(q)
  BY <1>6 DEF QueryLoad, LoadByHash, Visited, QBase, QTypeOK, PruneUntouched
<1>7. ASSUME NEW p \in Procs, NEW g \in Hash, PruneDelete(p, g)
      PROVE  h \in todo'[q]
  <2>1. h \in todo[q]
    BY <1>0, <1>7 DEF PruneDelete, DeleteBegin, PruneInv
  <2>2. h # g
    <3>1. paths[g] = fmt /\ fmt \in Ext
      BY <1>7, StoreAssumption
         DEF PruneDelete, DeleteBegin, Synced, OneFormat, QBase, Base, TypeOK
    <3>2. files'[g][fmt] = None
      BY <1>7, <3>1 DEF PruneDelete, DeleteBegin, RemoveFile, QBase, Base, TypeOK
    <3>3. files[h][e] # None => e = fmt
      BY DEF Synced, OneFormat
    <3>. QED
      BY <1>0, <3>2, <3>3, StoreAssumption, QueriesAssumption
  <2>. QED
    BY <1>7, <2>1, <2>2 DEF PruneDelete, Visited, QBase, QTypeOK
<1>8. ASSUME NEW p \in Procs, NEW g \in Hash, PruneSkip(p, g)
      PROVE  h \in todo'[q]
  <2>1. phase = "open" /\ mu = None /\ paths[g] = None
    BY <1>8 DEF PruneSkip, vars
  <2>2. h \in todo[q]
    BY <1>0, <1>8, <2>1 DEF PruneSkip, PruneInv
  <2>3. h # g
    <3>1. \A r \in Procs : pc[r] # "index"
      BY <2>1, StoreAssumption DEF QBase, Base, TypeOK, LockHeld
    <3>2. fmt # None
      BY StoreAssumption DEF QBase, Base, TypeOK
    <3>3. files[g][fmt] = None
      BY <2>1, <3>1, <3>2 DEF Synced, Indexed
    <3>4. files[h][e] # None => e = fmt
      BY DEF Synced, OneFormat
    <3>. QED
      BY <1>0, <3>3, <3>4
  <2>. QED
    BY <1>8, <2>2, <2>3 DEF PruneSkip, Visited, QBase, QTypeOK
<1>9. ASSUME NEW p \in Procs, NEW g \in Hash, RebuildRead(p, g)
      PROVE  PruneUntouched(q)
  BY <1>9 DEF RebuildRead, Visited, QBase, QTypeOK, PruneUntouched, vars
<1>10. ASSUME NEW p \in Procs, RebuildPut(p) PROVE PruneUntouched(q)
  BY <1>10 DEF RebuildPut, PruneUntouched
<1>11. ASSUME NEW p \in Procs, RebuildFails(p) PROVE PruneUntouched(q)
  BY <1>11 DEF RebuildFails, QBase, QTypeOK, PruneUntouched, vars
<1>12. CASE Environment
  BY <1>1, <1>12 DEF Environment, qvars, LoadByHash, Close, PruneUntouched
<1>13. CASE Restart
  BY <1>13 DEF Restart
<1>14. CASE UNCHANGED allvars
  BY <1>1, <1>14 DEF allvars, qvars, vars, PruneUntouched
<1>. QED
  BY <1>1, <1>2, <1>3, <1>4, <1>5, <1>6, <1>7, <1>8, <1>9, <1>10, <1>11,
     <1>12, <1>13, <1>14 DEF QNext

\* With a disk that never fails, a Prune that returns has left no recording
\* older than its threshold, in this process or for the next one: a Save, a
\* Delete or a rebuild in between brings none back.
THEOREM PrunesAreDone == ASSUME ~IOFaults PROVE QSpec => PruneDone
<1>1. QInit => SavesYoung /\ PruneInv
  BY StoreAssumption, QueriesAssumption DEF QInit, Init, SavesYoung, PruneInv
<1>2. QSpec => []SavesYoung
  BY <1>1, SavesYoungStep, QBaseInvariant, PTL DEF QSpec
<1>3. QBase /\ Synced /\ SavesYoung /\ PruneInv /\ [QNext]_allvars => PruneInv'
  BY PruneStep
<1>4. QSpec => []PruneInv
  BY <1>1, <1>2, <1>3, QBaseInvariant, QSyncedInvariant, PTL DEF QSpec
<1>5. QBase /\ PruneInv =>
        \A p \in Procs : PruneEnd(p) /\ phase = "open" =>
            \A h \in Hash : Stored(h) \notin Old
  <2> SUFFICES ASSUME PruneInv, NEW p \in Procs, PruneEnd(p), phase = "open",
                      NEW h \in Hash, Stored(h) \in Old
               PROVE  FALSE
    OBVIOUS
  <2>1. None \notin Old
    BY StoreAssumption, QueriesAssumption
  <2>2. \E e \in Ext : files[h][e] \in Old
    BY <2>1 DEF Stored, Walked, Ext
  <2>. QED
    BY <2>2 DEF PruneInv, PruneEnd, Finish
<1>6. QBase /\ PruneInv /\ [QNext]_allvars =>
        [\A p \in Procs : PruneEnd(p) /\ phase = "open" =>
            \A h \in Hash : Stored(h) \notin Old]_allvars
  BY <1>5
<1>. QED
  BY <1>4, <1>6, QBaseInvariant, PTL DEF QSpec, PruneDone
=============================================================================
