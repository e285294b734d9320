------------------------------- MODULE Tunnel -------------------------------
(***************************************************************************)
(* One CONNECT tunnel of pkg/proxy/tls.go after the handshake: the loop of *)
(* HandleConnect, which reads requests off the TLS connection and lets     *)
(* ServeHTTP answer through a connResponseWriter, against an HTTP/1.1      *)
(* client that sends its next request when the last response has ended.    *)
(*                                                                         *)
(* A response ends by its Content-Length ("counted"), which the writer     *)
(* sends only when the handler copied one from an upstream response or a   *)
(* cassette, or else by the end of the connection ("open").  A health      *)
(* check is answered without a length, and before its body is read.        *)
(*                                                                         *)
(* Assumed: a length that is copied fits the body behind it.  It does when *)
(* the response is the upstream's or its faithful replay; a cassette whose *)
(* body JSON has changed (Gateway) or a power loss has cut (PowerLoss) is  *)
(* replayed with the length of the body that was recorded.                 *)
(***************************************************************************)
EXTENDS Integers, Sequences

CONSTANTS
    MaxRequests,  \* bound on the requests a client sends
    Framings,     \* how the responses the handler copies end
    Local         \* TRUE when the client also sends health checks

ASSUME TunnelAssumption ==
    /\ MaxRequests \in Nat
    /\ Framings \subseteq {"counted", "open"} /\ Framings # {}
    /\ Local \in BOOLEAN

VARIABLES
    up,      \* bytes for the proxy: heads, bodies and the client's close
    down,    \* bytes for the client: responses and the proxy's close
    client,  \* "ready", "waiting" for its response to end, or "gone"
    sent,    \* requests sent
    ended,   \* responses received to their end, by request
    loop     \* "reading" or "closed"

vars == <<up, down, client, sent, ended, loop>>

\* A request head; local when ServeHTTP returns before reading the body.
HeadOf(id, body, local) == [is |-> "head", id |-> id, body |-> body, local |-> local]

\* A request body; line when it holds a line feed.
BodyOf(id, line) == [is |-> "body", id |-> id, line |-> line]
Response(id, framing) == [is |-> "response", id |-> id, framing |-> framing]
EOF == [is |-> "eof"]

\* The tunnel is established.
Init ==
    /\ up = <<>>
    /\ down = <<>>
    /\ client = "ready"
    /\ sent = 0
    /\ ended = <<>>
    /\ loop = "reading"

-----------------------------------------------------------------------------
(* The client.                                                             *)

ClientSend ==
    /\ client = "ready"
    /\ sent < MaxRequests
    /\ \E body, line \in BOOLEAN, local \in {FALSE, Local} :
         up' = up \o <<HeadOf(sent + 1, body, local)>>
                  \o (IF body THEN <<BodyOf(sent + 1, line)>> ELSE <<>>)
    /\ sent' = sent + 1
    /\ client' = "waiting"
    /\ UNCHANGED <<down, ended, loop>>

\* A counted response ends by itself, an open one with the connection.
ClientReceive ==
    /\ client = "waiting"
    /\ down # <<>>
    /\ \/ /\ Head(down).is = "response"
          /\ Head(down).framing = "counted"
          /\ ended' = Append(ended, Head(down).id)
          /\ down' = Tail(down)
          /\ client' = "ready"
       \/ /\ Head(down).is = "response"
          /\ Head(down).framing = "open"
          /\ Len(down) > 1 /\ down[2] = EOF
          /\ ended' = Append(ended, Head(down).id)
          /\ down' = <<EOF>>
          /\ client' = "ready"
       \/ /\ Head(down) = EOF
          /\ client' = "gone"
          /\ UNCHANGED <<down, ended>>
    /\ UNCHANGED <<up, sent, loop>>

\* The client closes, in the middle of a response or between two.
ClientLeaves ==
    /\ client # "gone"
    /\ client' = "gone"
    /\ up' = Append(up, EOF)
    /\ UNCHANGED <<down, sent, ended, loop>>

-----------------------------------------------------------------------------
(* The proxy.                                                              *)

\* What is left to read after a head with a body, when ServeHTTP read it.
AfterBody(rest) == Tail(rest)

\* The response goes out before the one the client waits for (mutant).
AnswerFirst(id, framing) == <<Response(id - 1, framing)>>

\* connResponseWriter: status, headers and body, and nothing that ends it.
Answer(id, framing) == <<Response(id, framing)>>

\* One turn of the loop: ReadRequest, ServeHTTP, flush.
Dispatch ==
    /\ loop = "reading"
    /\ up # <<>>
    /\ LET head == Head(up) IN
         /\ head.is = "head"
         /\ IF head.local
            THEN /\ up' = Tail(up)
                 /\ down' = down \o Answer(head.id, "open")
            ELSE /\ up' = IF head.body THEN AfterBody(Tail(up)) ELSE Tail(up)
                 /\ \E f \in Framings : down' = down \o Answer(head.id, f)
    /\ UNCHANGED <<client, sent, ended, loop>>

\* The deferred Closes.
HangUp == down' = Append(down, EOF)

\* Only the end of the connection ends the loop (mutant).
OnlyAtEOF == Head(up) = EOF

\* ReadRequest fails: the client has closed, or an unread body is taken for a
\* request.  A body without a line feed is not even a request line: the read
\* waits for more.
Unreadable ==
    \/ Head(up) = EOF
    \/ Head(up).is = "body" /\ (Head(up).line \/ Len(up) > 1)

\* The loop breaks off.
ReadFails ==
    /\ loop = "reading"
    /\ up # <<>>
    /\ Unreadable
    /\ loop' = "closed"
    /\ HangUp
    /\ UNCHANGED <<up, client, sent, ended>>

Next ==
    \/ ClientSend
    \/ ClientReceive
    \/ ClientLeaves
    \/ Dispatch
    \/ ReadFails

\* The proxy's goroutine runs, and what was written arrives and is read; that
\* a client gives up is not to be relied on.
Spec ==
    /\ Init /\ [][Next]_vars
    /\ WF_vars(Dispatch \/ ReadFails)
    /\ WF_vars(ClientReceive)

-----------------------------------------------------------------------------
(* Properties.                                                             *)

Heads == [is : {"head"}, id : 1 .. MaxRequests, body : BOOLEAN, local : BOOLEAN]
Bodies == [is : {"body"}, id : 1 .. MaxRequests, line : BOOLEAN]
Responses == [is : {"response"}, id : 1 .. MaxRequests, framing : {"counted", "open"}]

\* The types of the variables.
TypeOK ==
    /\ up \in Seq(Heads \cup Bodies \cup {EOF})
    /\ down \in Seq(Responses \cup {EOF})
    /\ client \in {"ready", "waiting", "gone"}
    /\ sent \in 0 .. MaxRequests
    /\ ended \in Seq(1 .. MaxRequests)
    /\ loop \in {"reading", "closed"}

\* The client takes every response for the answer to the request it is: the
\* responses that ended are those of its requests, in order and none skipped,
\* whatever was left unread on the connection.
AnswersInOrder == ended = [i \in 1 .. Len(ended) |-> i]

\* "connResponseWriter writes standard HTTP/1.1 responses" (tls.go 265): a
\* response ends, or the connection does.  It holds as long as every response
\* is counted; without a length the proxy waits for the next request while the
\* client waits for the end of this response.
ResponsesEnd == client = "waiting" ~> client # "waiting"

\* A loop whose client has closed comes to its end and frees the goroutine.
LoopEnds == client = "gone" ~> loop = "closed"
=============================================================================
