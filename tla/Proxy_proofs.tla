---------------------------- MODULE Proxy_proofs ----------------------------
(***************************************************************************)
(* Proofs about Proxy, for any number of requests, hashes and restarts.    *)
(***************************************************************************)
EXTENDS Proxy, TLAPS

\* A request that fetched something carries its own answer, and only a stream
\* can be incomplete.
Fetched ==
    \A r \in Reqs :
        /\ stage[r] \in {"body", "save", "answer"} => resp[r] \in Cassettes /\ resp[r].by = r
        /\ resp[r] # None /\ ~resp[r].stream => resp[r].whole

\* c is, for good, what a request of hash h fetched.
Final(c, h) ==
    /\ HashOf[c.by] = h
    /\ resp[c.by] = c
    /\ stage[c.by] \in {"answer", "done", "lost"}

\* Final after the step, for a c taken in either state.
FinalNext(c, h) ==
    /\ HashOf[c.by] = h
    /\ resp'[c.by] = c
    /\ stage'[c.by] \in {"answer", "done", "lost"}

\* What is stored, and what a HIT answered, is final.
Genuine ==
    /\ \A h \in Hash : recorded[h] # None => Final(recorded[h], h)
    /\ \A r \in Reqs : out[r].cache = "HIT" =>
          out[r].body \in Cassettes /\ Final(out[r].body, HashOf[r])

\* A saved hash is stored, and visible while the store is open.
SavedFound ==
    \A q \in Reqs : saved[q] =>
        /\ recorded[HashOf[q]] # None
        /\ online => HashOf[q] \notin hidden

\* Nobody is under way in a dead process, nor past a lookup in replay mode.
Stages ==
    /\ ~Live => \A r \in Reqs : stage[r] \in {"new", "done", "lost"}
    /\ mode = "replay" => \A r \in Reqs : stage[r] \in {"new", "lookup", "done", "lost"}

-----------------------------------------------------------------------------
Base == TypeOK /\ Fetched

\* A cassette cut short is a cassette.
LEMMA CutCassette ==
    ASSUME NEW c \in Cassettes
    PROVE  LET d == [c EXCEPT !.whole = FALSE] IN
           d \in Cassettes /\ d.by = c.by /\ d.stream = c.stream
<1>. QED
  BY DEF Cassettes

\* What a client can get.
Outs == [cache : {"none", "refused", "error", "HIT", "MISS", "RECORDED"},
         body : Cassettes \cup {None}]

\* Answering with a well-typed header and body keeps the types of the answers.
LEMMA AnswerTypes ==
    ASSUME TypeOK, NEW r \in Reqs, NEW body \in Cassettes \cup {None},
           NEW cache \in {"none", "refused", "error", "HIT", "MISS", "RECORDED"},
           Answered(r, cache, body)
    PROVE  /\ stage' \in [Reqs -> {"new", "lookup", "call", "body", "save", "answer",
                                   "done", "lost"}]
           /\ out' \in [Reqs -> Outs]
<1>1. [cache |-> cache, body |-> body] \in Outs
  BY DEF Outs
<1>2. out \in [Reqs -> Outs]
  BY DEF TypeOK, Outs
<1>. QED
  BY <1>1, <1>2 DEF TypeOK, Answered, GoTo

\* The types hold initially.
LEMMA BaseInit == Init => Base
<1> SUFFICES ASSUME Init PROVE Base
  OBVIOUS
<1> USE NoneAssumption, ProxyAssumption DEF Init
<1>1. Nothing \in Outs
  BY DEF Nothing, Outs
<1>2. hidden \subseteq Hash /\ online = FALSE /\ reply = None
  BY DEF Store!Init, Store!Present
<1>3. recorded \in [Hash -> Cassettes \cup {None}]
  OBVIOUS
<1>4. TypeOK
  BY <1>1, <1>2, <1>3 DEF TypeOK, Outs
<1>5. Fetched
  BY DEF Fetched
<1>. QED
  BY <1>4, <1>5 DEF Base

\* Every step keeps the types.
LEMMA TypeStep == Base /\ [Next]_vars => TypeOK'
<1> SUFFICES ASSUME TypeOK, Fetched, [Next]_vars PROVE TypeOK'
  BY DEF Base
<1> USE NoneAssumption, ProxyAssumption DEF Outs
<1>0. TypeOK
  OBVIOUS
<1>1. \A h \in Hash : Store!Visible(h) \in Cassettes \cup {None}
  BY DEF Store!Visible, TypeOK
<1>2. ASSUME NEW h \in Hash, Store!Load(h)
      PROVE  /\ reply' \in [hash : Hash, found : Cassettes \cup {None}] \cup {None}
             /\ recorded' = recorded /\ hidden' = hidden /\ online' = online
  BY <1>1, <1>2 DEF Store!Load
<1>3. ASSUME NEW r \in Reqs, Arrive(r) PROVE TypeOK'
  BY <1>3 DEF TypeOK, Arrive, GoTo, store
<1>4. ASSUME NEW r \in Reqs, Refuse(r) PROVE TypeOK'
  BY <1>4, AnswerTypes DEF TypeOK, Refuse, store
<1>5. ASSUME NEW r \in Reqs, Hit(r) PROVE TypeOK'
  <2>1. HashOf[r] \in Hash
    OBVIOUS
  <2>2. seen' \in [Hash -> Cassettes \cup {None}]
    BY <1>1, <1>5, <2>1 DEF TypeOK, Hit
  <2>. QED
    BY <1>1, <1>2, <1>5, <2>1, <2>2, AnswerTypes DEF TypeOK, Hit
<1>6. ASSUME NEW r \in Reqs, Miss(r) PROVE TypeOK'
  <2>1. HashOf[r] \in Hash
    OBVIOUS
  <2>2. /\ stage' \in [Reqs -> {"new", "lookup", "call", "body", "save", "answer",
                                "done", "lost"}]
        /\ out' \in [Reqs -> Outs]
    <3>1. CASE Answered(r, "MISS", None)
      BY <3>1, AnswerTypes
    <3>2. CASE GoTo(r, "call") /\ UNCHANGED out
      BY <3>2 DEF GoTo, TypeOK
    <3>. QED
      BY <1>6, <3>1, <3>2 DEF Miss, OnMiss
  <2>. QED
    BY <1>2, <1>6, <2>1, <2>2 DEF TypeOK, Miss
<1>7. ASSUME NEW r \in Reqs, CallFails(r) PROVE TypeOK'
  BY <1>7, AnswerTypes DEF TypeOK, CallFails, store
<1>8. ASSUME NEW r \in Reqs, CallReturns(r) PROVE TypeOK'
  <2>1. PICK s \in BOOLEAN :
          resp' = [resp EXCEPT ![r] = [by |-> r, stream |-> s, whole |-> TRUE]]
    BY <1>8 DEF CallReturns
  <2>2. [by |-> r, stream |-> s, whole |-> TRUE] \in Cassettes
    BY DEF Cassettes
  <2>. QED
    BY <1>8, <2>1, <2>2 DEF TypeOK, CallReturns, GoTo, store
<1>9. ASSUME NEW r \in Reqs, BodyRead(r) PROVE TypeOK'
  BY <1>9 DEF TypeOK, BodyRead, GoTo, store
<1>10. ASSUME NEW r \in Reqs, BodyBreaks(r) PROVE TypeOK'
  <2>1. CASE /\ resp' = [resp EXCEPT ![r].whole = FALSE]
             /\ GoTo(r, "save") /\ UNCHANGED out
    <3>0. resp[r] \in Cassettes
      BY <1>10 DEF BodyBreaks, Fetched
    <3>1. [resp[r] EXCEPT !.whole = FALSE] \in Cassettes
      BY <3>0, CutCassette
    <3>2. resp' \in [Reqs -> Cassettes \cup {None}]
      BY <2>1, <3>1 DEF TypeOK
    <3>. QED
      BY <1>10, <2>1, <3>2 DEF TypeOK, BodyBreaks, GoTo, store
  <2>2. CASE CutPlain(r)
    BY <1>10, <2>2, AnswerTypes DEF TypeOK, BodyBreaks, CutPlain, store
  <2>. QED
    BY <1>10, <2>1, <2>2 DEF BodyBreaks
<1>11. ASSUME NEW r \in Reqs, stage[r] = "save", SaveOK(r) \/ SaveFails(r)
       PROVE  TypeOK'
  <2>1. HashOf[r] \in Hash /\ resp[r] \in Cassettes
    BY <1>11 DEF Fetched
  <2>2. /\ recorded' \in [Hash -> Cassettes \cup {None}]
        /\ hidden' \subseteq Hash
        /\ online' = online /\ reply' = reply
    BY <1>11, <2>1 DEF TypeOK, SaveOK, SaveFails, Keep, Store!Save, store
  <2>. QED
    BY <1>11, <2>2 DEF TypeOK, SaveOK, SaveFails, SaveReturns, GoTo
<1>12. ASSUME NEW r \in Reqs, Answer(r) PROVE TypeOK'
  <2>1. resp[r] \in Cassettes
    BY <1>12 DEF Answer, Fetched
  <2>. QED
    BY <1>12, <2>1, AnswerTypes DEF TypeOK, Answer, store
<1>13. ASSUME NEW m \in Modes, Start(m) PROVE TypeOK'
  BY <1>13 DEF TypeOK, Start, Store!Reopen
<1>14. CASE Signal \/ CloseStore
  BY <1>14 DEF TypeOK, Signal, CloseStore, Store!Stop, Store!Present, store
<1>15. CASE Exit
  BY <1>15 DEF TypeOK, Exit, Store!Stop, Store!Present, store
<1>16. CASE UNCHANGED vars
  BY <1>16 DEF TypeOK, vars
<1>. QED
  BY <1>3, <1>4, <1>5, <1>6, <1>7, <1>8, <1>9, <1>10, <1>11, <1>12, <1>13,
     <1>14, <1>15, <1>16 DEF Next, Handle, SaveOK, SaveFails

\* Every step keeps what requests carry.
LEMMA FetchedStep == Base /\ [Next]_vars => Fetched'
<1> SUFFICES ASSUME TypeOK, Fetched, [Next]_vars, NEW q \in Reqs
             PROVE  /\ stage'[q] \in {"body", "save", "answer"}
                         => resp'[q] \in Cassettes /\ resp'[q].by = q
                    /\ resp'[q] # None /\ ~resp'[q].stream => resp'[q].whole
  BY DEF Base, Fetched
<1> USE DEF TypeOK, Fetched
<1>1. ASSUME resp'[q] = resp[q],
             stage'[q] \in {"body", "save", "answer"}
               => stage[q] \in {"body", "save", "answer"}
      PROVE  /\ stage'[q] \in {"body", "save", "answer"}
                  => resp'[q] \in Cassettes /\ resp'[q].by = q
             /\ resp'[q] # None /\ ~resp'[q].stream => resp'[q].whole
  BY <1>1
<1>2. ASSUME NEW r \in Reqs, Arrive(r) \/ Refuse(r)
      PROVE  /\ resp'[q] = resp[q]
             /\ stage'[q] \in {"body", "save", "answer"}
                  => stage[q] \in {"body", "save", "answer"}
  BY <1>2 DEF Arrive, Refuse, Answered, GoTo
<1>3. ASSUME NEW r \in Reqs, Hit(r) \/ Miss(r) \/ CallFails(r) \/ BodyRead(r)
                             \/ SaveOK(r) \/ SaveFails(r) \/ Answer(r)
      PROVE  /\ resp'[q] = resp[q]
             /\ stage'[q] \in {"body", "save", "answer"}
                  => stage[q] \in {"body", "save", "answer"}
  BY <1>3 DEF Hit, Miss, OnMiss, CallFails, BodyRead, SaveOK, SaveFails, Answer,
              SaveReturns, Answered, GoTo
<1>4. ASSUME NEW r \in Reqs, CallReturns(r)
      PROVE  /\ stage'[q] \in {"body", "save", "answer"}
                  => resp'[q] \in Cassettes /\ resp'[q].by = q
             /\ resp'[q] # None /\ ~resp'[q].stream => resp'[q].whole
  BY <1>4 DEF CallReturns, GoTo, Cassettes
<1>5. ASSUME NEW r \in Reqs, BodyBreaks(r)
      PROVE  /\ stage'[q] \in {"body", "save", "answer"}
                  => resp'[q] \in Cassettes /\ resp'[q].by = q
             /\ resp'[q] # None /\ ~resp'[q].stream => resp'[q].whole
  <2>1. CASE q = r /\ resp[r].stream
    <3>1. resp[r] \in Cassettes /\ resp[r].by = r
      BY <1>5 DEF BodyBreaks
    <3>2. resp'[r] = [resp[r] EXCEPT !.whole = FALSE]
      BY <1>5, <2>1, NoneAssumption DEF BodyBreaks
    <3>3. resp'[r] \in Cassettes /\ resp'[r].by = r /\ resp'[r].stream
      BY <2>1, <3>1, <3>2, CutCassette
    <3>. QED
      BY <2>1, <3>3
  <2>2. CASE ~(q = r /\ resp[r].stream)
    BY <1>5, <2>2 DEF BodyBreaks, CutPlain, Answered, GoTo
  <2>. QED
    BY <2>1, <2>2
<1>6. CASE Signal \/ CloseStore \/ (\E m \in Modes : Start(m)) \/ UNCHANGED vars
  BY <1>6 DEF Signal, CloseStore, Start, vars
<1>7. CASE Exit
  BY <1>7 DEF Exit
<1>. QED
  BY <1>1, <1>2, <1>3, <1>4, <1>5, <1>6, <1>7 DEF Next, Handle

\* Base is an invariant.
LEMMA BaseInvariant == Spec => []Base
<1>1. Base /\ [Next]_vars => Base'
  BY TypeStep, FetchedStep DEF Base
<1>. QED
  BY BaseInit, <1>1, PTL DEF Spec

\* Type correctness of the proxy.
THEOREM TypeCorrect == Spec => []TypeOK
<1>1. Base => TypeOK
  BY DEF Base
<1>. QED
  BY <1>1, BaseInvariant, PTL

-----------------------------------------------------------------------------
(* Recordings are found again.                                             *)

\* Every step keeps saved hashes stored and visible.
LEMMA SavedStep == Base /\ SavedFound /\ [Next]_vars => SavedFound'
<1> SUFFICES ASSUME TypeOK, Fetched, SavedFound, [Next]_vars, NEW q \in Reqs, saved'[q]
             PROVE  /\ recorded'[HashOf[q]] # None
                    /\ online' => HashOf[q] \notin hidden'
  BY DEF Base, SavedFound
<1> USE NoneAssumption, ProxyAssumption DEF TypeOK, Fetched, SavedFound
<1>1. HashOf[q] \in Hash
  OBVIOUS
<1>2. ASSUME saved'[q] = saved[q], recorded' = recorded,
             (hidden' = hidden /\ online' = online) \/ ~online' \/ hidden' = {}
      PROVE  /\ recorded'[HashOf[q]] # None
             /\ online' => HashOf[q] \notin hidden'
  BY <1>2
<1>3. ASSUME NEW r \in Reqs,
             Arrive(r) \/ Refuse(r) \/ Hit(r) \/ Miss(r) \/ CallFails(r)
             \/ CallReturns(r) \/ BodyRead(r) \/ BodyBreaks(r) \/ Answer(r)
      PROVE  saved'[q] = saved[q] /\ recorded' = recorded /\ hidden' = hidden
             /\ online' = online
  BY <1>3 DEF Arrive, Refuse, Hit, Miss, CallFails, CallReturns, BodyRead,
              BodyBreaks, Answer, Store!Load, store
<1>4. ASSUME NEW r \in Reqs, SaveOK(r)
      PROVE  /\ recorded'[HashOf[q]] # None
             /\ online' => HashOf[q] \notin hidden'
  <2>1. resp[r] # None /\ HashOf[r] \in Hash
    BY <1>4 DEF SaveOK
  <2>2. /\ recorded' = [recorded EXCEPT ![HashOf[r]] = resp[r]]
        /\ hidden' = hidden \ {HashOf[r]}
        /\ online' = online
    BY <1>4 DEF SaveOK, Keep, Store!Save
  <2>3. CASE q = r
    BY <2>1, <2>2, <2>3
  <2>4. CASE q # r
    <3>1. saved'[q] = saved[q]
      BY <1>4, <2>4 DEF SaveOK, SaveReturns
    <3>. QED
      BY <1>1, <2>1, <2>2, <3>1
  <2>. QED
    BY <2>3, <2>4
<1>5. ASSUME NEW r \in Reqs, SaveFails(r)
      PROVE  /\ recorded'[HashOf[q]] # None
             /\ online' => HashOf[q] \notin hidden'
  <2>1. resp[r] # None /\ HashOf[r] \in Hash
    BY <1>5 DEF SaveFails
  <2>2. saved[q] /\ q # r
    BY <1>5 DEF SaveFails, SaveReturns
  <2>3. online' = online /\ \/ recorded' = recorded
                            \/ recorded' = [recorded EXCEPT ![HashOf[r]] = resp[r]]
    BY <1>5 DEF SaveFails, Keep, Store!Save, store
  <2>4. online => hidden' \subseteq hidden \/
                  (hidden' = hidden \cup {HashOf[r]} /\ HashOf[r] # HashOf[q])
    <3>1. online => Store!Visible(HashOf[q]) # None
      BY <1>1, <2>2 DEF Store!Visible
    <3>2. \/ hidden' = hidden
          \/ online => hidden' = hidden \ {HashOf[r]}
          \/ Store!Visible(HashOf[r]) = None /\ hidden' = hidden \cup {HashOf[r]}
      BY <1>5 DEF SaveFails, Keep, Store!Save, store
    <3>. QED
      BY <3>1, <3>2
  <2>5. recorded'[HashOf[q]] # None
    <3>1. recorded[HashOf[q]] # None
      BY <1>1, <2>2
    <3>. QED
      BY <2>1, <2>3, <3>1
  <2>6. online' => HashOf[q] \notin hidden'
    <3>1. online => HashOf[q] \notin hidden
      BY <1>1, <2>2
    <3>. QED
      BY <2>3, <2>4, <3>1
  <2>. QED
    BY <2>5, <2>6
<1>6. CASE \E m \in Modes : Start(m)
  BY <1>2, <1>6 DEF Start, Store!Reopen
<1>7. CASE Signal \/ UNCHANGED vars
  BY <1>2, <1>7 DEF Signal, store, vars
<1>8. CASE CloseStore \/ Exit
  BY <1>2, <1>8 DEF CloseStore, Exit, Store!Stop, store
<1>. QED
  BY <1>2, <1>3, <1>4, <1>5, <1>6, <1>7, <1>8 DEF Next, Handle

\* A hash whose Save returned nil never misses again while the store is open,
\* in this process or a later one.
THEOREM SavedNeverMisses == Spec => NoFalseMiss
<1>1. Init => SavedFound
  BY DEF Init, SavedFound
<1>2. Spec => []SavedFound
  BY <1>1, SavedStep, BaseInvariant, PTL DEF Spec
<1>3. SavedFound =>
        \A r, q \in Reqs :
            Miss(r) /\ online /\ HashOf[q] = HashOf[r] => ~saved[q]
  BY DEF SavedFound, Miss, Store!Visible
<1>. QED
  BY <1>2, <1>3, PTL DEF Spec, NoFalseMiss

-----------------------------------------------------------------------------
(* Replay mode.                                                            *)

\* Every step keeps requests where their mode allows them.
LEMMA StagesStep == Base /\ Stages /\ [Next]_vars => Stages'
<1> SUFFICES ASSUME TypeOK, Stages, [Next]_vars PROVE Stages'
  BY DEF Base
<1> USE ProxyAssumption DEF TypeOK, Stages, Live
<1>1. ASSUME NEW r \in Reqs, Arrive(r) \/ Refuse(r) PROVE Stages'
  BY <1>1 DEF Arrive, Refuse, Accepts, Answered, GoTo
<1>2. ASSUME NEW r \in Reqs, Hit(r) \/ Miss(r) PROVE Stages'
  BY <1>2 DEF Hit, Miss, OnMiss, Answered, GoTo
<1>3. ASSUME NEW r \in Reqs, stage[r] \in {"call", "body", "save", "answer"},
             CallFails(r) \/ CallReturns(r) \/ BodyRead(r) \/ BodyBreaks(r)
             \/ SaveOK(r) \/ SaveFails(r) \/ Answer(r)
      PROVE  Stages'
  BY <1>3 DEF CallFails, CallReturns, BodyRead, BodyBreaks, SaveOK, SaveFails, Answer
<1>4. CASE \E m \in Modes : Start(m)
  BY <1>4 DEF Start
<1>5. CASE Signal \/ CloseStore \/ UNCHANGED vars
  BY <1>5 DEF Signal, CloseStore, vars
<1>6. CASE Exit
  BY <1>6 DEF Exit
<1>7. \A r \in Reqs :
        CallFails(r) \/ CallReturns(r) \/ BodyRead(r) \/ BodyBreaks(r)
        \/ SaveOK(r) \/ SaveFails(r) \/ Answer(r)
          => stage[r] \in {"call", "body", "save", "answer"}
  BY DEF CallFails, CallReturns, BodyRead, BodyBreaks, SaveOK, SaveFails, Answer
<1>. QED
  BY <1>1, <1>2, <1>3, <1>4, <1>5, <1>6, <1>7 DEF Next, Handle

\* A process in replay mode never calls the upstream and never changes a
\* recording.
THEOREM ReplayStaysPure == Spec => ReplayIsPure
<1>1. Init => Stages
  BY DEF Init, Stages
<1>2. Spec => []Stages
  BY <1>1, StagesStep, BaseInvariant, PTL DEF Spec
<1>3. Base /\ Stages /\ [Next]_vars =>
        (mode = "replay" /\ Live =>
           /\ recorded' = recorded
           /\ \A r \in Reqs : stage'[r] = "call" => stage[r] = "call")
  <2> SUFFICES ASSUME TypeOK, Stages, [Next]_vars, mode = "replay", Live
               PROVE  /\ recorded' = recorded
                      /\ \A r \in Reqs : stage'[r] = "call" => stage[r] = "call"
    BY DEF Base
  <2> USE DEF TypeOK, Stages
  <2>1. ASSUME NEW r \in Reqs, Arrive(r) \/ Refuse(r) \/ Hit(r) \/ Miss(r)
        PROVE  /\ recorded' = recorded
               /\ \A q \in Reqs : stage'[q] = "call" => stage[q] = "call"
    BY <2>1 DEF Arrive, Refuse, Hit, Miss, OnMiss, Store!Load, Answered, GoTo, store
  <2>2. \A r \in Reqs :
          ~(CallFails(r) \/ CallReturns(r) \/ BodyRead(r) \/ BodyBreaks(r)
            \/ SaveOK(r) \/ SaveFails(r) \/ Answer(r))
    BY DEF CallFails, CallReturns, BodyRead, BodyBreaks, SaveOK, SaveFails, Answer
  <2>3. CASE Signal \/ CloseStore \/ Exit \/ UNCHANGED vars
    BY <2>3 DEF Signal, CloseStore, Exit, Store!Stop, store, vars
  <2>4. ASSUME NEW m \in Modes, Start(m) PROVE FALSE
    BY <2>4 DEF Start, Live
  <2>. QED
    BY <2>1, <2>2, <2>3, <2>4 DEF Next, Handle
<1>. QED
  BY <1>2, <1>3, BaseInvariant, PTL DEF Spec, ReplayIsPure

-----------------------------------------------------------------------------
(* Replays are what the upstream said.                                     *)

\* Every step keeps what is stored and what was replayed genuine.
LEMMA GenuineStep == Base /\ Genuine /\ [Next]_vars => Genuine'
<1> SUFFICES ASSUME TypeOK, Fetched, Genuine, [Next]_vars PROVE Genuine'
  BY DEF Base
<1> USE NoneAssumption, ProxyAssumption DEF TypeOK
<1>1. \A c \in Cassettes : c.by \in Reqs
  BY DEF Cassettes
<1>2. ASSUME \A q \in Reqs : stage[q] \in {"answer", "done", "lost"} =>
                /\ stage'[q] \in {"answer", "done", "lost"}
                /\ resp'[q] = resp[q]
      PROVE  \A c \in Cassettes, h \in Hash : Final(c, h) => FinalNext(c, h)
  BY <1>1, <1>2 DEF Final, FinalNext
<1>3. \A q \in Reqs : stage[q] \in {"answer", "done", "lost"} =>
          /\ stage'[q] \in {"answer", "done", "lost"}
          /\ resp'[q] = resp[q]
  <2>1. ASSUME NEW r \in Reqs, NEW q \in Reqs,
               stage[q] \in {"answer", "done", "lost"},
               Arrive(r) \/ Refuse(r) \/ Handle(r)
        PROVE  /\ stage'[q] \in {"answer", "done", "lost"}
               /\ resp'[q] = resp[q]
    BY <2>1 DEF Handle, Arrive, Refuse, Hit, Miss, OnMiss, CallFails, CallReturns,
                BodyRead, BodyBreaks, CutPlain, SaveOK, SaveFails, Answer,
                SaveReturns, Answered, GoTo
  <2>2. CASE Signal \/ CloseStore \/ (\E m \in Modes : Start(m)) \/ UNCHANGED vars
    BY <2>2 DEF Signal, CloseStore, Start, vars
  <2>3. CASE Exit
    BY <2>3 DEF Exit
  <2>. QED
    BY <2>1, <2>2, <2>3 DEF Next
<1>4. \A c \in Cassettes, h \in Hash : Final(c, h) => FinalNext(c, h)
  BY <1>2, <1>3
<1>5. \A h \in Hash : recorded'[h] # None => FinalNext(recorded'[h], h)
  <2>1. CASE recorded' = recorded
    BY <1>4, <2>1 DEF Genuine
  <2>2. CASE \E r \in Reqs : /\ SaveOK(r) \/ SaveFails(r)
                             /\ recorded' = [recorded EXCEPT ![HashOf[r]] = resp[r]]
    <3>1. PICK r \in Reqs : /\ SaveOK(r) \/ SaveFails(r)
                            /\ recorded' = [recorded EXCEPT ![HashOf[r]] = resp[r]]
      BY <2>2
    <3>2. resp[r] \in Cassettes /\ resp[r].by = r
      BY <3>1 DEF SaveOK, SaveFails, Fetched
    <3>3. resp' = resp /\ stage'[r] = "answer"
      BY <3>1 DEF SaveOK, SaveFails, SaveReturns, GoTo
    <3>4. FinalNext(resp[r], HashOf[r])
      BY <3>2, <3>3 DEF FinalNext
    <3>5. \A h \in Hash : h # HashOf[r] => recorded'[h] = recorded[h]
      BY <3>1
    <3>6. recorded'[HashOf[r]] = resp[r]
      BY <3>1
    <3>. QED
      BY <1>4, <3>3, <3>4, <3>5, <3>6 DEF Genuine
  <2>3. ASSUME NEW r \in Reqs, SaveOK(r) \/ SaveFails(r)
        PROVE  \/ recorded' = recorded
               \/ recorded' = [recorded EXCEPT ![HashOf[r]] = resp[r]]
    BY <2>3 DEF SaveOK, SaveFails, Keep, Store!Save, store
  <2>4. ASSUME NEW r \in Reqs,
               Arrive(r) \/ Refuse(r) \/ Hit(r) \/ Miss(r) \/ CallFails(r)
               \/ CallReturns(r) \/ BodyRead(r) \/ BodyBreaks(r) \/ Answer(r)
        PROVE  recorded' = recorded
    BY <2>4 DEF Arrive, Refuse, Hit, Miss, CallFails, CallReturns, BodyRead,
                BodyBreaks, Answer, Store!Load, store
  <2>5. CASE Signal \/ CloseStore \/ Exit \/ (\E m \in Modes : Start(m))
             \/ UNCHANGED vars
    BY <2>1, <2>5 DEF Signal, CloseStore, Exit, Start, Store!Stop, Store!Reopen,
                      store, vars
  <2>. QED
    BY <2>1, <2>2, <2>3, <2>4, <2>5 DEF Next, Handle
<1>6. \A r \in Reqs : out'[r].cache = "HIT" =>
          out'[r].body \in Cassettes /\ FinalNext(out'[r].body, HashOf[r])
  <2>1. ASSUME NEW r \in Reqs, NEW q \in Reqs, Hit(r), out'[q].cache = "HIT"
        PROVE  out'[q].body \in Cassettes /\ FinalNext(out'[q].body, HashOf[q])
    <3>1. Store!Visible(HashOf[r]) = recorded[HashOf[r]]
          /\ recorded[HashOf[r]] # None
      BY <2>1 DEF Hit, Store!Visible
    <3>2. out'[r].body = recorded[HashOf[r]]
      BY <2>1, <3>1 DEF Hit, Answered
    <3>3. q # r => out'[q] = out[q]
      BY <2>1 DEF Hit, Answered
    <3>4. CASE q = r
      <4>1. recorded[HashOf[r]] \in Cassettes /\ Final(recorded[HashOf[r]], HashOf[r])
        BY <3>1 DEF Genuine
      <4>. QED
        BY <1>4, <3>2, <3>4, <4>1
    <3>5. CASE q # r
      <4>1. out'[q] = out[q] /\ out[q].body \in Cassettes
            /\ Final(out[q].body, HashOf[q])
        BY <2>1, <3>3, <3>5 DEF Genuine
      <4>. QED
        BY <1>4, <4>1
    <3>. QED
      BY <3>4, <3>5
  <2>2. ASSUME NEW r \in Reqs, NEW q \in Reqs, out'[q].cache = "HIT",
               Arrive(r) \/ Refuse(r) \/ Miss(r) \/ CallFails(r) \/ CallReturns(r)
               \/ BodyRead(r) \/ BodyBreaks(r) \/ SaveOK(r) \/ SaveFails(r) \/ Answer(r)
        PROVE  out'[q] = out[q]
    <3>1. ASSUME NEW cache \in {"refused", "MISS", "error", "RECORDED"}, NEW body,
                 Answered(r, cache, body)
          PROVE  out'[q] = out[q]
      BY <2>2, <3>1 DEF Answered
    <3>2. CASE out' = out
      BY <3>2
    <3>3. \/ out' = out
          \/ \E cache \in {"refused", "MISS", "error", "RECORDED"} :
                \E body : Answered(r, cache, body)
      BY <2>2 DEF Arrive, Refuse, Miss, OnMiss, CallFails, CallReturns, BodyRead,
                  BodyBreaks, CutPlain, SaveOK, SaveFails, Answer
    <3>. QED
      BY <3>1, <3>2, <3>3
  <2>3. CASE Signal \/ CloseStore \/ Exit \/ (\E m \in Modes : Start(m))
             \/ UNCHANGED vars
    <3>1. out' = out
      BY <2>3 DEF Signal, CloseStore, Exit, Start, vars
    <3>. QED
      BY <1>4, <3>1 DEF Genuine
  <2>4. ASSUME NEW q \in Reqs, out'[q] = out[q], out'[q].cache = "HIT"
        PROVE  out'[q].body \in Cassettes /\ FinalNext(out'[q].body, HashOf[q])
    <3>1. out[q].body \in Cassettes /\ Final(out[q].body, HashOf[q])
      BY <2>4 DEF Genuine
    <3>. QED
      BY <1>4, <2>4, <3>1
  <2>. QED
    BY <2>1, <2>2, <2>3, <2>4 DEF Next, Handle
<1>. QED
  BY <1>5, <1>6 DEF Genuine, Final, FinalNext

\* What is stored, and what was replayed, stays genuine.
LEMMA GenuineInvariant == Spec => []Genuine
<1>1. Init => Genuine
  BY DEF Init, Genuine, Nothing
<1>. QED
  BY <1>1, GenuineStep, BaseInvariant, PTL DEF Spec

\* A HIT replays what a request of the same hash fetched from the upstream,
\* whichever process recorded it and however recordings raced.
THEOREM ReplaysAreGenuine == Spec => []HitsAreRecordings
<1>1. Genuine => HitsAreRecordings
  BY DEF Genuine, Final, HitsAreRecordings
<1>. QED
  BY <1>1, GenuineInvariant, PTL

\* A plain response is replayed only if it was received to its end.
THEOREM PlainReplaysAreWhole == Spec => []PlainHitsAreWhole
<1>1. Base /\ Genuine => PlainHitsAreWhole
  <2> SUFFICES ASSUME Fetched, Genuine, NEW r \in Reqs,
                      out[r].cache = "HIT", ~out[r].body.stream
               PROVE  out[r].body.whole
    BY DEF Base, PlainHitsAreWhole
  <2>1. out[r].body \in Cassettes /\ resp[out[r].body.by] = out[r].body
    BY DEF Genuine, Final
  <2>2. out[r].body.by \in Reqs /\ out[r].body # None
    BY <2>1, NoneAssumption DEF Cassettes
  <2>. QED
    BY <2>1, <2>2 DEF Fetched
<1>. QED
  BY <1>1, BaseInvariant, GenuineInvariant, PTL
=============================================================================
