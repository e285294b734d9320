--------------------------- MODULE Server_proofs ---------------------------
(* What is proved about Server, for any requests, tunnels and clients.     *)
EXTENDS Server, TLAPS

Stages == {"new", "lookup", "call", "body", "save", "answer", "done", "lost"}

\* The types of what the end of the process is about.
EndTypes ==
    /\ server \in {"down", "serving", "stopping", "closed"}
    /\ online \in BOOLEAN
    /\ stage \in [Reqs -> Stages]

\* A Shutdown that returned nil has left nothing of the listener's in flight.
DrainedIsIdle == ending = "drained" /\ server = "closed" => InFlight = {}

\* The inductive invariant.  EndingOK alone is inductive over the types; what
\* a Shutdown in time loses needs that a drained server stays idle.
SInv == EndTypes /\ EndingOK /\ DrainedIsIdle

-----------------------------------------------------------------------------
\* A step of a handler moves its own request, which is under way, to a stage
\* where it is not lost, and leaves the process as it is.
LEMMA HandleMoves ==
    ASSUME EndTypes, NEW r \in Reqs, Handle(r)
    PROVE  /\ server' = server /\ online' = online
           /\ UnderWay(r)
           /\ \E s \in Stages \ {"new", "lost"} : stage' = [stage EXCEPT ![r] = s]
<1> USE DEF UnderWay, Stages, GoTo, Answered, store
<1>1. CASE Hit(r) \/ Miss(r)
    BY <1>1 DEF Hit, Miss, OnMiss, Store!Load
<1>2. CASE CallFails(r) \/ CallReturns(r) \/ BodyRead(r)
    BY <1>2 DEF CallFails, CallReturns, BodyRead
<1>3. CASE BodyBreaks(r)
    BY <1>3 DEF BodyBreaks, CutPlain
<1>4. CASE SaveOK(r) \/ SaveFails(r)
    BY <1>4 DEF SaveOK, SaveFails, SaveReturns, Keep, Store!Save
<1>5. CASE Answer(r)
    BY <1>5 DEF Answer
<1> QED BY <1>1, <1>2, <1>3, <1>4, <1>5 DEF Handle

\* No step but an arrival puts a request of the listener under way.
LEMMA StaysIdle ==
    ASSUME EndTypes, InFlight = {}, NEW r \in Reqs, NEW s \in Stages,
           stage' = [stage EXCEPT ![r] = s],
           UnderWay(r) \/ r \in Tunnelled \/ s = "done"
    PROVE  InFlight' = {}
<1> SUFFICES ASSUME NEW q \in Reqs \ Tunnelled, UnderWay(q)' PROVE FALSE
    BY DEF InFlight
<1>1. ~UnderWay(q)
    BY DEF InFlight
<1>2. q # r
    BY <1>1 DEF EndTypes, UnderWay
<1> QED BY <1>1, <1>2 DEF EndTypes, UnderWay

LEMMA SInvInit == SInit => SInv
BY DEF SInit, Init, Store!Init, SInv, EndTypes, EndingOK, DrainedIsIdle, Live, Stages

\* Every step keeps the invariant.
LEMMA SInvStep == SInv /\ [SNext]_svars => SInv'
<1> SUFFICES ASSUME EndTypes, EndingOK, DrainedIsIdle, [SNext]_svars PROVE SInv'
    BY DEF SInv
<1> USE DEF Live
<1>1. ASSUME NEW r \in Reqs, NEW s \in Stages, stage' = [stage EXCEPT ![r] = s],
             UnderWay(r) \/ r \in Tunnelled \/ s = "done" \/ server # "closed",
             UNCHANGED <<server, online, ending>>
      PROVE  SInv'
    <2>1. EndTypes' /\ EndingOK'
        BY <1>1 DEF EndTypes, EndingOK
    <2>2. DrainedIsIdle'
        BY <1>1, StaysIdle DEF DrainedIsIdle
    <2> QED BY <2>1, <2>2 DEF SInv
<1>2. ASSUME NEW r \in Reqs, Arrive(r) \/ Refuse(r), UNCHANGED ending PROVE SInv'
    <2>1. r \in Tunnelled \/ server # "closed"
        BY <1>2 DEF Arrive, Refuse, Accepts
    <2>2. \E s \in Stages : stage' = [stage EXCEPT ![r] = s]
        BY <1>2 DEF Arrive, Refuse, Answered, GoTo, Stages
    <2> QED BY <1>1, <1>2, <2>1, <2>2 DEF Arrive, Refuse, store
<1>3. ASSUME NEW r \in Reqs, Serve(r) PROVE SInv'
    BY <1>1, <1>3, HandleMoves DEF Serve
<1>4. ASSUME NEW r \in Reqs, Panics(r) PROVE SInv'
    <2>1. \E s \in Stages : stage' = [stage EXCEPT ![r] = s]
        BY <1>4 DEF Panics, Recovered, BadGateway, Answered, GoTo, Stages
    <2> QED BY <1>1, <1>4, <2>1 DEF Panics, store
<1>5. ASSUME NEW m \in Modes, Launch(m) PROVE SInv'
    BY <1>5 DEF Launch, Start, Store!Reopen, SInv, EndTypes, EndingOK, DrainedIsIdle
<1>6. CASE StopSignal
    BY <1>6 DEF StopSignal, Caught, Signal, store, SInv, EndTypes, EndingOK, DrainedIsIdle
<1>7. CASE Drained
    <2>1. InFlight' = {}
        BY <1>7 DEF Drained, Idle, CloseStore, InFlight, UnderWay
    <2> QED BY <1>7, <2>1 DEF Drained, CloseStore, Store!Stop, SInv, EndTypes, EndingOK, DrainedIsIdle
<1>8. CASE TimesOut \/ ListenerFails
    BY <1>8 DEF TimesOut, ListenerFails, Deadline, CloseStore, Store!Stop, SInv, EndTypes,
        EndingOK, DrainedIsIdle
<1>9. CASE Return \/ Killed
    <2>1. Exit /\ ending' \in {ending, "killed"} /\ (ending' = ending => server = "closed" \/ ending = "killed")
        BY <1>9 DEF Return, Killed
    <2>2. server' = "down" /\ online' \in BOOLEAN /\ stage' \in [Reqs -> Stages]
        BY <2>1 DEF Exit, Store!Stop, store, EndTypes, Stages
    <2> QED BY <2>1, <2>2 DEF SInv, EndTypes, EndingOK, DrainedIsIdle
<1>10. CASE UNCHANGED svars
    BY <1>10 DEF svars, vars, SInv, EndTypes, EndingOK, DrainedIsIdle, InFlight, UnderWay
<1> QED BY <1>2, <1>3, <1>4, <1>5, <1>6, <1>7, <1>8, <1>9, <1>10 DEF SNext

LEMMA SInvInvariant == SSpec => []SInv
BY SInvInit, SInvStep, PTL DEF SSpec

-----------------------------------------------------------------------------
\* The phases of the process and the reasons for its end agree (runServe).
THEOREM EndingsAgree == SSpec => []EndingOK
<1>1. SInv => EndingOK
    BY DEF SInv
<1> QED BY <1>1, SInvInvariant, PTL

\* A request of the listener is lost only to the deadline of Shutdown, a failed
\* listener or a kill, whatever panics (Shutdown, RecoveryMiddleware).
THEOREM ShutdownIsGraceful == SSpec => GracefulLosesNothing
<1>1. SInv /\ [SNext]_svars =>
        [\A r \in Reqs \ Tunnelled : UnderWay(r) /\ stage'[r] = "lost" =>
            ending' \in {"timeout", "listener", "killed"}]_svars
    <2> SUFFICES ASSUME EndTypes, EndingOK, DrainedIsIdle, SNext,
                        NEW r \in Reqs \ Tunnelled, UnderWay(r), stage'[r] = "lost"
                 PROVE  ending' \in {"timeout", "listener", "killed"}
        BY DEF SInv
    <2>1. ASSUME NEW q \in Reqs, NEW s \in Stages, stage' = [stage EXCEPT ![q] = s],
                 q \in Tunnelled \/ s # "lost"
          PROVE  FALSE
        BY <2>1 DEF EndTypes, UnderWay
    <2>2. ASSUME NEW q \in Reqs, Arrive(q) \/ Refuse(q) PROVE FALSE
        BY <2>1, <2>2 DEF Arrive, Refuse, Answered, GoTo, Stages
    <2>3. ASSUME NEW q \in Reqs, Serve(q) PROVE FALSE
        BY <2>1, <2>3, HandleMoves DEF Serve
    <2>4. ASSUME NEW q \in Reqs, Panics(q) PROVE FALSE
        BY <2>1, <2>4 DEF Panics, Recovered, BadGateway, Answered, GoTo, Stages
    <2>5. CASE stage' = stage
        BY <2>5 DEF UnderWay
    <2>6. CASE Return
        BY <2>6 DEF Return, EndingOK, DrainedIsIdle, InFlight
    <2>7. CASE Killed
        BY <2>7 DEF Killed
    <2> QED BY <2>2, <2>3, <2>4, <2>5, <2>6, <2>7
        DEF SNext, Launch, Start, StopSignal, Caught, Signal, Drained, TimesOut, ListenerFails,
            Deadline, CloseStore
<1> QED BY <1>1, SInvInvariant, PTL DEF SSpec, GracefulLosesNothing

\* The store is open while a request of the listener is in flight, unless the
\* deadline or the listener cut it short (the deferred Close of runServe).
THEOREM StoreOutlives == SSpec => StoreOutlivesRequests
<1>1. SInv /\ [SNext]_svars =>
        [\A r \in Reqs \ Tunnelled : SaveFails(r) /\ ~online => ending \in {"timeout", "listener"}]_svars
    <2> SUFFICES ASSUME EndTypes, EndingOK, DrainedIsIdle,
                        NEW r \in Reqs \ Tunnelled, SaveFails(r), ~online
                 PROVE  ending \in {"timeout", "listener"}
        BY DEF SInv
    <2>1. UnderWay(r) /\ Live
        BY DEF SaveFails, UnderWay
    <2> QED BY <2>1 DEF EndTypes, EndingOK, DrainedIsIdle, InFlight
<1> QED BY <1>1, SInvInvariant, PTL DEF SSpec, StoreOutlivesRequests
=============================================================================
