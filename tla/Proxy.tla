------------------------------- MODULE Proxy -------------------------------
(***************************************************************************)
(* pkg/proxy/handler.go above the store of CassetteStore, and the life of  *)
(* the process of cmd/reelm/main.go around it.                             *)
(*                                                                         *)
(* Every element of Reqs is one HTTP request, served by a goroutine of its *)
(* own; HashOf is its request hash.  A request calls the upstream at most  *)
(* once, so the request itself names the answer it fetched: a cassette is  *)
(* the request it was recorded by, whether it is an SSE stream, and        *)
(* whether the whole body was received.  A Store operation is one step:    *)
(* DiskStore implements CassetteStore.                                     *)
(***************************************************************************)
EXTENDS FiniteSets

CONSTANTS
    Reqs,
    Hash,
    HashOf,    \* [Reqs -> Hash]
    Tunnelled, \* the requests that come through a CONNECT tunnel
    Stuck,     \* the requests whose client neither reads its answer nor leaves
    Modes,     \* the modes the process may be started in
    IOFaults,  \* TRUE when an update of the store's disk may fail
    None

ASSUME ProxyAssumption ==
    /\ HashOf \in [Reqs -> Hash]
    /\ Tunnelled \subseteq Reqs /\ Stuck \subseteq Reqs
    /\ Modes \subseteq {"record", "replay", "auto"}
    /\ IOFaults \in BOOLEAN

VARIABLES
    recorded, hidden, online, reply,  \* the store
    server,  \* "down", "serving", "stopping" (signal caught), "closed"
    mode,    \* cfg.Mode of the running process
    stage,   \* where each request is
    resp,    \* what it fetched, as the cassette it will save
    out,     \* X-Reelm-Cache and body (or error status) the client got
    saved,   \* its Save returned nil
    seen     \* the body the last HIT of this process answered, per hash

Cassettes == [by : Reqs, stream : BOOLEAN, whole : BOOLEAN]
ASSUME NoneAssumption == None \notin Cassettes

Store == INSTANCE CassetteStore WITH Recs <- Cassettes

store == <<recorded, hidden, online, reply>>
vars  == <<recorded, hidden, online, reply, server, mode, stage, resp, out, saved, seen>>

Nothing == [cache |-> "none", body |-> None]

Init ==
    /\ Store!Init
    /\ recorded = [h \in Hash |-> None]
    /\ server = "down"
    /\ mode \in Modes
    /\ stage = [r \in Reqs |-> "new"]
    /\ resp = [r \in Reqs |-> None]
    /\ out = [r \in Reqs |-> Nothing]
    /\ saved = [r \in Reqs |-> FALSE]
    /\ seen = [h \in Hash |-> None]

Live == server # "down"

\* r goes on at stage s.
GoTo(r, s) == stage' = [stage EXCEPT ![r] = s]

\* The handler returns, having answered r with this header and body.
Answered(r, cache, body) ==
    /\ GoTo(r, "done")
    /\ out' = [out EXCEPT ![r] = [cache |-> cache, body |-> body]]

-----------------------------------------------------------------------------
(* One request.                                                            *)

\* The listener's connections end with a Shutdown.  A tunnel is hijacked from
\* the server, and its loop goes on as long as the process.
Accepts(r) == server = "serving" \/ (r \in Tunnelled /\ Live)

\* ServeHTTP: a request that hashes, sent to the branch of its mode.
Arrive(r) ==
    /\ Accepts(r)
    /\ stage[r] = "new"
    /\ GoTo(r, IF mode = "record" THEN "call" ELSE "lookup")
    /\ UNCHANGED <<store, server, mode, resp, out, saved, seen>>

\* Unknown provider, unreadable or non-canonical body: 400 or 500.
Refuse(r) ==
    /\ Accepts(r)
    /\ stage[r] = "new"
    /\ Answered(r, "refused", None)
    /\ UNCHANGED <<store, server, mode, resp, saved, seen>>

\* LoadByHash finds a cassette and serveCassette answers with it.
Hit(r) ==
    /\ Live
    /\ stage[r] = "lookup"
    /\ Store!Load(HashOf[r])
    /\ Store!Visible(HashOf[r]) # None
    /\ Answered(r, "HIT", Store!Visible(HashOf[r]))
    /\ seen' = [seen EXCEPT ![HashOf[r]] = Store!Visible(HashOf[r])]
    /\ UNCHANGED <<server, mode, resp, saved>>

\* What a replay miss does when it falls through to the upstream (mutant).
MissGoesUpstream(r) ==
    /\ GoTo(r, "call")
    /\ UNCHANGED out

\* A miss answered with the lookup instead of an error (mutant).
MissAnswersLookup(r) == Answered(r, "MISS", reply')

\* A miss that waits for another request of the hash to record it (mutant).
MissWaits(r) ==
    /\ \A q \in Reqs \ {r} : HashOf[q] = HashOf[r] => stage[q] \notin {"call", "body", "save", "answer"}
    /\ IF mode = "replay" THEN Answered(r, "MISS", None) ELSE GoTo(r, "call") /\ UNCHANGED out

\* A miss: 404 in replay mode, the upstream in auto mode.
OnMiss(r) ==
    \/ /\ mode = "replay"
       /\ Answered(r, "MISS", None)
    \/ /\ mode = "auto"
       /\ GoTo(r, "call")
       /\ UNCHANGED out

Miss(r) ==
    /\ Live
    /\ stage[r] = "lookup"
    /\ Store!Load(HashOf[r])
    /\ Store!Visible(HashOf[r]) = None
    /\ OnMiss(r)
    /\ UNCHANGED <<server, mode, resp, saved, seen>>

\* httpClient.Do fails, or the upstream URL does not resolve: 502.
CallFails(r) ==
    /\ Live
    /\ stage[r] = "call"
    /\ Answered(r, "error", None)
    /\ UNCHANGED <<store, server, mode, resp, saved, seen>>

\* The upstream's status and headers arrive; the Content-Type says whether
\* the body is a stream.  X-Reelm-Cache: RECORDED is set here.
CallReturns(r) ==
    /\ Live
    /\ stage[r] = "call"
    /\ \E s \in BOOLEAN :
         resp' = [resp EXCEPT ![r] = [by |-> r, stream |-> s, whole |-> TRUE]]
    /\ GoTo(r, "body")
    /\ UNCHANGED <<store, server, mode, out, saved, seen>>

\* The whole body is read, by ReadAll or by PipeAndRecord.
BodyRead(r) ==
    /\ Live
    /\ stage[r] = "body"
    /\ GoTo(r, "save")
    /\ UNCHANGED <<store, server, mode, resp, out, saved, seen>>

\* The body of a broken plain response is kept as if complete (mutant).
CutPlainSaved(r) ==
    /\ GoTo(r, "save")
    /\ resp' = [resp EXCEPT ![r].whole = FALSE]
    /\ UNCHANGED out

\* A broken plain response is a 502, after X-Reelm-Cache: RECORDED was set.
CutPlain(r) ==
    /\ Answered(r, "RECORDED", None)
    /\ UNCHANGED resp

\* The body breaks off: the upstream, the client or the timeout.  A stream
\* goes on to be saved as far as it came; the error is only logged.
BodyBreaks(r) ==
    /\ Live
    /\ stage[r] = "body"
    /\ \/ /\ resp[r].stream
          /\ resp' = [resp EXCEPT ![r].whole = FALSE]
          /\ GoTo(r, "save")
          /\ UNCHANGED out
       \/ /\ ~resp[r].stream
          /\ CutPlain(r)
    /\ UNCHANGED <<store, server, mode, saved, seen>>

\* Save's result is logged and, either way, the handler goes on.
SaveReturns(r, ok) ==
    /\ GoTo(r, "answer")
    /\ saved' = [saved EXCEPT ![r] = ok]

\* Save before the index is updated, reported as a success (mutant).
SaveKeepsHidden(r) ==
    /\ recorded' = [recorded EXCEPT ![HashOf[r]] = resp[r]]
    /\ hidden' = IF Store!Visible(HashOf[r]) = None
                 THEN hidden \cup {HashOf[r]} ELSE hidden
    /\ UNCHANGED <<online, reply>>

\* One recorder shared by all requests: any fetched body is saved (mutant).
KeepShared(r) ==
    \E q \in Reqs : resp[q] # None /\ Store!Save(HashOf[r], resp[q])

\* The store keeps the cassette under the request's hash.
Keep(r) == Store!Save(HashOf[r], resp[r])

SaveOK(r) ==
    /\ online
    /\ stage[r] = "save"
    /\ Keep(r)
    /\ SaveReturns(r, TRUE)
    /\ UNCHANGED <<server, mode, resp, out, seen>>

\* Save returns an error: nothing was stored, or the file was and the index
\* was not updated, as always happens after the store was closed.
SaveFails(r) ==
    /\ Live
    /\ IOFaults \/ ~online
    /\ stage[r] = "save"
    /\ \/ IOFaults /\ UNCHANGED store
       \/ Keep(r)
       \/ /\ Store!Visible(HashOf[r]) = None
          /\ recorded' = [recorded EXCEPT ![HashOf[r]] = resp[r]]
          /\ hidden' = hidden \cup {HashOf[r]}
          /\ UNCHANGED <<online, reply>>
    /\ SaveReturns(r, FALSE)
    /\ UNCHANGED <<server, mode, resp, out, seen>>

\* The response is written (a stream's client had it already).
Answer(r) ==
    /\ Live
    /\ stage[r] = "answer"
    /\ Answered(r, "RECORDED", resp[r])
    /\ UNCHANGED <<store, server, mode, resp, saved, seen>>

-----------------------------------------------------------------------------
(* The process.                                                            *)

\* runServe: configuration, NewDiskStore, NewServer, ListenAndServe.
Start(m) ==
    /\ server = "down"
    /\ Store!Reopen
    /\ server' = "serving"
    /\ mode' = m
    /\ seen' = [h \in Hash |-> None]
    /\ UNCHANGED <<stage, resp, out, saved>>

\* SIGINT or SIGTERM: Shutdown stops listening and waits for the requests.
Signal ==
    /\ server = "serving"
    /\ server' = "stopping"
    /\ UNCHANGED <<store, mode, stage, resp, out, saved, seen>>

\* runServe returns, with the requests done, after the 15 seconds, or because
\* the listener failed: the deferred Close runs under whatever is in flight.
CloseStore ==
    /\ server \in {"serving", "stopping"}
    /\ Store!Stop
    /\ server' = "closed"
    /\ UNCHANGED <<mode, stage, resp, out, saved, seen>>

\* main returns, or the process is killed: requests in flight are lost.
Exit ==
    /\ Live
    /\ IF online THEN Store!Stop ELSE UNCHANGED store
    /\ server' = "down"
    /\ stage' = [r \in Reqs |->
                    IF stage[r] \in {"new", "done"} THEN stage[r] ELSE "lost"]
    /\ UNCHANGED <<mode, resp, out, saved, seen>>

\* The steps of r's handler goroutine.
Handle(r) ==
    \/ Hit(r) \/ Miss(r) \/ CallFails(r) \/ CallReturns(r) \/ BodyRead(r)
    \/ BodyBreaks(r) \/ SaveOK(r) \/ SaveFails(r) \/ Answer(r)

Next ==
    \/ \E r \in Reqs : Arrive(r) \/ Refuse(r) \/ Handle(r)
    \/ \E m \in Modes : Start(m)
    \/ Signal
    \/ CloseStore
    \/ Exit

\* A handler is not kept waiting: the http.Client's Timeout (120s by default)
\* covers the call and the reading of the body, Save and LoadByHash hold s.mu
\* for a bounded time, and goroutines are scheduled.  The server sets no
\* WriteTimeout, so a client that does not read can hold its handler for ever.
Fairness == \A r \in Reqs \ Stuck : WF_vars(Handle(r))

Spec == Init /\ [][Next]_vars /\ Fairness

-----------------------------------------------------------------------------
(* Properties.                                                             *)

\* The types of the variables.
TypeOK ==
    /\ recorded \in [Hash -> Cassettes \cup {None}]
    /\ hidden \subseteq Hash
    /\ online \in BOOLEAN
    /\ reply \in [hash : Hash, found : Cassettes \cup {None}] \cup {None}
    /\ server \in {"down", "serving", "stopping", "closed"}
    /\ mode \in Modes
    /\ stage \in [Reqs -> {"new", "lookup", "call", "body", "save", "answer",
                           "done", "lost"}]
    /\ resp \in [Reqs -> Cassettes \cup {None}]
    /\ out \in [Reqs -> [cache : {"none", "refused", "error", "HIT", "MISS", "RECORDED"},
                         body : Cassettes \cup {None}]]
    /\ saved \in [Reqs -> BOOLEAN]
    /\ seen \in [Hash -> Cassettes \cup {None}]

\* Replay mode works "strictly from cached cassettes" (handler.go 151): the
\* process never calls the upstream and never changes a recording, whatever
\* earlier processes left behind.
ReplayIsPure ==
    [][mode = "replay" /\ Live =>
         /\ recorded' = recorded
         /\ \A r \in Reqs : stage'[r] = "call" => stage[r] = "call"]_vars

\* Once any request's Save returned nil, a lookup of that hash never misses
\* again while the store is open: not in this process and not after restarts,
\* whatever other requests for the hash save or fail to save.
NoFalseMiss ==
    [][\A r, q \in Reqs :
         Miss(r) /\ online /\ HashOf[q] = HashOf[r] => ~saved[q]]_vars

\* A plain response is replayed only if it was received to its end.
PlainHitsAreWhole ==
    \A r \in Reqs :
        out[r].cache = "HIT" /\ ~out[r].body.stream => out[r].body.whole

\* A HIT replays what some request of the same hash fetched from the upstream.
HitsAreRecordings ==
    \A r \in Reqs : out[r].cache = "HIT" =>
        LET q == out[r].body.by IN HashOf[q] = HashOf[r] /\ resp[q] = out[r].body

\* Every request that arrives, of a client that reads, is answered or lost
\* with the process, whatever the clients of others do.
AllAnswered ==
    \A r \in Reqs \ Stuck :
        stage[r] \notin {"new", "done", "lost"} ~> stage[r] \in {"done", "lost"}

\* reelm "replays them deterministically" (main.go 36): within one process
\* every HIT of a hash answers the same.  Two concurrent misses in auto mode
\* both record, and the second overwrites what was already replayed.
ReplaysDeterministic ==
    [][\A h \in Hash : seen[h] # None /\ seen'[h] # None => seen'[h] = seen[h]]_vars
=============================================================================
