---------------------------- MODULE StoreQueries ----------------------------
(***************************************************************************)
(* The operations of pkg/store that visit many cassettes: LoadByNamespace, *)
(* Prune and a RebuildIndex of an open store.  None of them holds s.mu     *)
(* from its first look to its last step, so Saves, Deletes and one another *)
(* come in between.  A goroutine with a task left is inside one of them.   *)
(***************************************************************************)
EXTENDS DiskStore

CONSTANT Old   \* the recordings made before Prune's threshold

\* One format: a rebuild then meets one file of a hash at most.
ASSUME QueriesAssumption ==
    /\ Old \subseteq Recs
    /\ Cardinality(Formats) = 1

VARIABLES
    task,    \* which operation a goroutine is in
    todo,    \* [Procs -> SUBSET Hash]: what it has still to visit
    asked,   \* the namespace it asked for
    found,   \* what LoadByNamespace has collected
    at,      \* a file RebuildIndex has read and not yet Put
    stable   \* history: hashes nobody touched since the operation began

qvars == <<task, todo, asked, found, at, stable>>
allvars == <<vars, qvars>>

NoneFound == [h \in Hash |-> None]

QInit ==
    /\ Init
    /\ task = [p \in Procs |-> "idle"]
    /\ todo = [p \in Procs |-> {}]
    /\ asked = [p \in Procs |-> None]
    /\ found = [p \in Procs |-> NoneFound]
    /\ at = [p \in Procs |-> None]
    /\ stable = [p \in Procs |-> {}]

\* The history: a hash whose file or entry changes is no longer stable.
Watch == stable' =
    [p \in Procs |->
        {h \in stable[p] : files'[h] = files[h] /\ paths'[h] = paths[h]}]

\* p starts an operation over the hashes hs.
Begin(p, name, hs) ==
    /\ phase = "open"
    /\ pc[p] = "idle"
    /\ task[p] = "idle"
    /\ task' = [task EXCEPT ![p] = name]
    /\ todo' = [todo EXCEPT ![p] = hs]
    /\ stable' = [stable EXCEPT ![p] = Hash]
    /\ UNCHANGED <<vars, at>>

Visited(p, h) == todo' = [todo EXCEPT ![p] = @ \ {h}]

\* The operation returns.
Finish(p, name) ==
    /\ task[p] = name
    /\ pc[p] = "idle"
    /\ todo[p] = {}
    /\ at[p] = None
    /\ task' = [task EXCEPT ![p] = "idle"]
    /\ asked' = [asked EXCEPT ![p] = None]
    /\ found' = [found EXCEPT ![p] = NoneFound]
    /\ stable' = [stable EXCEPT ![p] = {}]
    /\ UNCHANGED <<vars, todo, at>>

-----------------------------------------------------------------------------
(* LoadByNamespace.                                                        *)

\* GetHashesByNamespace reads the bucket under the index's own lock: s.mu may
\* be held, and the hashes may include deleted ones.
QueryBegin(p, n) ==
    /\ Begin(p, "query", spaces[n])
    /\ asked' = [asked EXCEPT ![p] = n]
    /\ found' = [found EXCEPT ![p] = NoneFound]

\* LoadByHash of the next hash; a failed one is skipped.
QueryLoad(p, h) ==
    /\ task[p] = "query"
    /\ h \in todo[p]
    /\ LoadByHash(h)
    /\ found' = [found EXCEPT ![p][h] = Loaded(h)]
    /\ Visited(p, h)
    /\ UNCHANGED <<task, asked, at, stable>>

QueryEnd(p) == Finish(p, "query")

-----------------------------------------------------------------------------
(* Prune.                                                                  *)

\* A List that does not descend into the namespaces' directories (mutant).
ListedTopLevel ==
    {h \in Hash : NsOf[h] = None /\ \E e \in Ext : files[h][e] \in Old}

\* Files instead of the hashes inside them (mutant).
ListedFiles == {d \in Hash \X Ext : files[d[1]][d[2]] \in Old}

\* The files List reads: those of every hash, indexed or not.
Listed == {h \in Hash : \E e \in Ext : files[h][e] \in Old}

\* List, under the read lock, and the choice of what is too old.
PruneBegin(p) ==
    /\ mu = None
    /\ Begin(p, "prune", Listed)
    /\ UNCHANGED <<asked, found>>

\* Delete of the next hash, begun with nothing but the list to go by.
PruneDelete(p, h) ==
    /\ task[p] = "prune"
    /\ h \in todo[p]
    /\ DeleteBegin(p, h)
    /\ Visited(p, h)
    /\ Watch
    /\ UNCHANGED <<task, asked, found, at>>

\* Delete of a hash the index does not resolve: an error, not counted.
PruneSkip(p, h) ==
    /\ task[p] = "prune"
    /\ h \in todo[p]
    /\ pc[p] = "idle"
    /\ mu = None
    /\ phase = "closed" \/ paths[h] = None
    /\ Visited(p, h)
    /\ UNCHANGED <<vars, task, asked, found, at, stable>>

PruneEnd(p) == Finish(p, "prune")

-----------------------------------------------------------------------------
(* RebuildIndex of an open store, without s.mu.                            *)

RebuildBegin(p) ==
    /\ Begin(p, "rebuild", Hash)
    /\ UNCHANGED <<asked, found>>

\* Read the next file of the walk, if it is (still) there.
RebuildRead(p, h) ==
    /\ task[p] = "rebuild"
    /\ at[p] = None
    /\ h \in todo[p]
    /\ at' = [at EXCEPT ![p] = IF Walked(h) = None THEN None ELSE h]
    /\ Visited(p, h)
    /\ UNCHANGED <<vars, task, asked, found, stable>>

\* A rebuild that starts the bucket afresh with every file (mutant).
RebuildAfresh(p) ==
    /\ paths' = [h \in Hash |-> IF h = at[p] THEN fmt ELSE None]
    /\ UNCHANGED spaces

\* The transaction for the file read before.
RebuildEntry(p) == Put(at[p], fmt)

RebuildPut(p) ==
    /\ task[p] = "rebuild"
    /\ at[p] # None
    /\ phase = "open"
    /\ RebuildEntry(p)
    /\ at' = [at EXCEPT ![p] = None]
    /\ UNCHANGED <<files, phase, fmt, procs, reply, task, todo, asked, found>>
    /\ Watch

\* Put fails once the database is closed, and ends the walk.
RebuildFails(p) ==
    /\ task[p] = "rebuild"
    /\ at[p] # None
    /\ phase = "closed"
    /\ todo' = [todo EXCEPT ![p] = {}]
    /\ at' = [at EXCEPT ![p] = None]
    /\ UNCHANGED <<vars, task, asked, found, stable>>

RebuildEnd(p) == Finish(p, "rebuild")

-----------------------------------------------------------------------------
\* The second half of a Delete begun by Prune, or any step of a plain call.
Single(p) ==
    /\ \/ task[p] = "idle" /\ ProcStep(p)
       \/ task[p] = "prune" /\ (DeleteIndex(p) \/ DeleteIndexFails(p))
    /\ \A r \in Old : new'[p] # r
    /\ Watch
    /\ UNCHANGED <<task, todo, asked, found, at>>

\* The steps of the store that no operation of this module takes part in.
Environment ==
    /\ \/ \E h \in Hash : LoadByHash(h)
       \/ Close
    /\ UNCHANGED qvars

\* A start finds no goroutine of the process before.
Restart ==
    /\ \/ \E f \in Formats : Open(f)
       \/ OpenFails
       \/ Crash
       \/ LoseIndex
    /\ task' = [p \in Procs |-> "idle"]
    /\ todo' = [p \in Procs |-> {}]
    /\ asked' = [p \in Procs |-> None]
    /\ found' = [p \in Procs |-> NoneFound]
    /\ at' = [p \in Procs |-> None]
    /\ stable' = [p \in Procs |-> {}]

QNext ==
    \/ \E p \in Procs :
        \/ Single(p)
        \/ \E n \in Namespaces : QueryBegin(p, n)
        \/ \E h \in Hash : QueryLoad(p, h)
        \/ QueryEnd(p)
        \/ PruneBegin(p)
        \/ \E h \in Hash : PruneDelete(p, h) \/ PruneSkip(p, h)
        \/ PruneEnd(p)
        \/ RebuildBegin(p)
        \/ \E h \in Hash : RebuildRead(p, h)
        \/ RebuildPut(p)
        \/ RebuildFails(p)
        \/ RebuildEnd(p)
    \/ Environment
    \/ Restart

QSpec == QInit /\ [][QNext]_allvars

-----------------------------------------------------------------------------
(* Properties.                                                             *)

\* The types of the variables of this module.
QTypeOK ==
    /\ task \in [Procs -> {"idle", "query", "prune", "rebuild"}]
    /\ todo \in [Procs -> SUBSET Hash]
    /\ asked \in [Procs -> Namespaces \cup {None}]
    /\ found \in [Procs -> [Hash -> Recs \cup {None}]]
    /\ at \in [Procs -> Hash \cup {None}]
    /\ stable \in [Procs -> SUBSET Hash]

\* "LoadByNamespace loads all cassettes in a namespace" (store.go 159): when
\* it returns, every cassette of the namespace that nobody touched meanwhile
\* is among the results, with its content.
QueryComplete ==
    [][\A p \in Procs : QueryEnd(p) /\ phase = "open" =>
         \A h \in stable[p] :
            NsOf[h] = asked[p] => found[p][h] = Loaded(h)]_allvars

\* When Prune returns, no cassette is left that is older than its threshold:
\* not in this process, and not for the next one to find.
PruneDone ==
    [][\A p \in Procs : PruneEnd(p) /\ phase = "open" =>
         \A h \in Hash : Stored(h) \notin Old]_allvars
=============================================================================
