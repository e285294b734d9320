------------------------------- MODULE Server -------------------------------
(***************************************************************************)
(* How a serving process ends: runServe of cmd/reelm/main.go, Start and    *)
(* Shutdown of pkg/proxy/server.go, and what RecoveryMiddleware does with  *)
(* a panic, around the requests of Proxy.                                  *)
(*                                                                         *)
(* http.Server.Shutdown waits for the requests of its own connections and  *)
(* not for a tunnel, which HandleConnect has hijacked from it.  runServe   *)
(* gives it 15 seconds; the deferred Close of the store runs after it.     *)
(***************************************************************************)
EXTENDS Proxy

VARIABLE
    ending   \* "no", "signal" (caught), how the store came to be closed
             \* ("drained", "timeout", "listener"), or "killed"

svars == <<vars, ending>>

SInit == Init /\ ending = "no"

UnderWay(r) == stage[r] \notin {"new", "done", "lost"}

\* The requests Shutdown waits for.
InFlight == {r \in Reqs \ Tunnelled : UnderWay(r)}

-----------------------------------------------------------------------------
\* A panic ends the connection of any request (mutant).
PanicDrops(r) == GoTo(r, "lost") /\ UNCHANGED out

\* What RecoveryMiddleware's 502 adds to what was written: after the header of
\* a stream went out it is a line at the end of a stream that broke off, and
\* X-Reelm-Cache was set once the upstream had answered.
BadGateway(r) ==
    IF resp[r] = None THEN Answered(r, "error", None)
    ELSE Answered(r, "RECORDED",
                  IF resp[r].stream THEN [resp[r] EXCEPT !.whole = FALSE] ELSE None)

\* A tunnel's requests are not behind RecoveryMiddleware: the panic unwinds
\* HandleConnect, whose deferred Closes end the tunnel, and the 502 goes to a
\* connection that is no longer the server's.
Recovered(r) ==
    IF r \in Tunnelled THEN GoTo(r, "lost") /\ UNCHANGED out ELSE BadGateway(r)

\* The handler panics, at any point.
Panics(r) ==
    /\ Live
    /\ UnderWay(r)
    /\ Recovered(r)
    /\ UNCHANGED <<store, server, mode, resp, saved, seen, ending>>

-----------------------------------------------------------------------------
Launch(m) == Start(m) /\ ending' = "no"

\* A Close before the Shutdown (mutant).
SignalCloses ==
    /\ server = "serving"
    /\ server' = "stopping"
    /\ Store!Stop
    /\ UNCHANGED <<mode, stage, resp, out, saved, seen>>

\* SIGINT or SIGTERM: the listener is closed.
Caught == Signal

StopSignal == Caught /\ ending' = "signal"

\* Shutdown returns as soon as the listener is closed (mutant).
NoWaiting == TRUE

\* No request of the listener is in flight.
Idle == InFlight = {}

\* Shutdown returns nil, and runServe closes the store.
Drained ==
    /\ ending = "signal"
    /\ Idle
    /\ CloseStore
    /\ ending' = "drained"

\* Only an idle server is ever closed (mutant).
PatientDeadline == InFlight = {} /\ CloseStore

\* The 15 seconds are over.
Deadline == InFlight # {} /\ CloseStore

\* Shutdown returns its context's error, under the requests left.
TimesOut ==
    /\ ending = "signal"
    /\ Deadline
    /\ ending' = "timeout"

\* ListenAndServe fails: runServe returns, without a Shutdown.
ListenerFails ==
    /\ server = "serving"
    /\ CloseStore
    /\ ending' = "listener"

\* runServe has returned, and main ends the process.
Return ==
    /\ server = "closed"
    /\ Exit
    /\ UNCHANGED ending

\* A crash, or a signal that cannot be caught.
Killed == Exit /\ ending' = "killed"

\* The handler of r goes on.
Serve(r) == Handle(r) /\ UNCHANGED ending

SNext ==
    \/ \E r \in Reqs :
        \/ (Arrive(r) \/ Refuse(r)) /\ UNCHANGED ending
        \/ Serve(r)
        \/ Panics(r)
    \/ \E m \in Modes : Launch(m)
    \/ StopSignal
    \/ Drained
    \/ TimesOut
    \/ ListenerFails
    \/ Return
    \/ Killed

\* The handlers' fairness is Proxy's.  Shutdown polls its connections until
\* they are idle or its context's deadline has passed, and runServe returns.
SFairness ==
    /\ \A r \in Reqs \ Stuck : WF_svars(Serve(r))
    /\ WF_svars(Drained \/ TimesOut)
    /\ WF_svars(Return)

SSpec == SInit /\ [][SNext]_svars /\ SFairness

-----------------------------------------------------------------------------
(* Properties.                                                             *)

\* The phases of the process and the reasons for its end agree.
EndingOK ==
    /\ ending \in {"no", "signal", "drained", "timeout", "listener", "killed"}
    /\ server = "serving" => ending = "no"
    /\ server = "stopping" <=> ending = "signal"
    /\ server = "closed" => ending \in {"drained", "timeout", "listener"}
    /\ server # "closed" /\ Live => online

\* "Shutdown gracefully shuts down the server" (server.go 65): a request of
\* the listener is lost only to the 15 seconds, a failed listener or a kill;
\* neither a panic nor a shutdown in time loses one.
GracefulLosesNothing ==
    [][\A r \in Reqs \ Tunnelled :
         UnderWay(r) /\ stage'[r] = "lost" =>
            ending' \in {"timeout", "listener", "killed"}]_svars

\* The store is open for as long as a request of the listener is in flight,
\* unless the deadline or the listener cut it short: a recording is not lost
\* to the order of runServe's deferred calls.
StoreOutlivesRequests ==
    [][\A r \in Reqs \ Tunnelled :
         SaveFails(r) /\ ~online => ending \in {"timeout", "listener"}]_svars

\* A caught signal ends the process, though a client may hold its handler for
\* ever and tunnels may go on sending.
Stops == ending = "signal" ~> server = "down"
=============================================================================
