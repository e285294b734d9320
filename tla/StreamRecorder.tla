--------------------------- MODULE StreamRecorder ---------------------------
(***************************************************************************)
(* pkg/streaming: PipeAndRecord passes an SSE stream on line by line and   *)
(* cuts it into events; Replay, as serveCassette calls it, plays the saved *)
(* events back.                                                            *)
(*                                                                         *)
(* A line of the upstream is its position.  blanks says which positions    *)
(* are the empty lines that end an event.  The upstream ends after its     *)
(* last line or with it (a last line without a line feed), properly or     *)
(* with an error; either client may stop reading at any write.             *)
(***************************************************************************)
EXTENDS Integers, Sequences, SequencesExt

CONSTANT MaxLines   \* bound on the length of a stream
ASSUME StreamAssumption == MaxLines \in Nat

VARIABLES
    size,      \* lines the upstream sends before it ends
    blanks,    \* the empty ones
    read,      \* how many PipeAndRecord has read
    written,   \* what the recording client received
    body,      \* fullBody
    event,     \* currentEvent
    chunks,    \* the recorded events
    status,    \* "piping", "ok", "upstream_error", "client_error"
    played,    \* what a replaying client received
    next,      \* the chunk to be replayed next
    replay     \* "off", "playing", "ok", "client_error"

rvars == <<size, blanks, read, written, body, event, chunks, status>>
pvars == <<played, next, replay>>
vars  == <<size, blanks, read, written, body, event, chunks, status,
           played, next, replay>>

Init ==
    /\ size \in 0 .. MaxLines
    /\ blanks \in SUBSET (1 .. size)
    /\ read = 0
    /\ written = <<>>
    /\ body = <<>>
    /\ event = <<>>
    /\ chunks = <<>>
    /\ status = "piping"
    /\ played = <<>>
    /\ next = 1
    /\ replay = "off"

-----------------------------------------------------------------------------
(* PipeAndRecord: one action per turn of its loop.                         *)

\* The end of the stream without the flush of the trailing data (mutant).
EndDropsTail(ev, cs) ==
    /\ event' = ev
    /\ chunks' = cs

\* The trailing data recorded with an end it never had (mutant).
EndAddsLine(ev, cs) ==
    /\ event' = ev
    /\ chunks' = IF ev = <<>> THEN cs ELSE Append(cs, Append(ev, 0))

\* EOF: the trailing data becomes the last chunk.
EndOfFile(ev, cs) ==
    /\ event' = ev
    /\ chunks' = IF ev = <<>> THEN cs ELSE Append(cs, ev)

\* How the read that returned the last bytes, or none, ended: err is nil,
\* io.EOF or another error.  ev and cs are the event and the chunks so far.
Ends(err, ev, cs) ==
    \/ /\ err = "nil"
       /\ event' = ev
       /\ chunks' = cs
       /\ UNCHANGED status
    \/ /\ err = "EOF"
       /\ EndOfFile(ev, cs)
       /\ status' = "ok"
    \/ /\ err = "error"
       /\ event' = ev
       /\ chunks' = cs
       /\ status' = "upstream_error"

\* The empty line is left to begin the next event (mutant).
CutBefore(line, err) ==
    IF line \in blanks
    THEN Ends(err, <<line>>, IF event = <<>> THEN chunks ELSE Append(chunks, event))
    ELSE Ends(err, Append(event, line), chunks)

\* An empty line ends the event it is part of.
CutAfter(line, err) ==
    IF line \in blanks
    THEN Ends(err, <<>>, Append(chunks, Append(event, line)))
    ELSE Ends(err, Append(event, line), chunks)

\* A line is read (perhaps together with the end), written and recorded.
PipeLine(err) ==
    /\ status = "piping"
    /\ read < size
    /\ err # "nil" => read + 1 = size
    /\ read' = read + 1
    /\ written' = Append(written, read + 1)
    /\ body' = Append(body, read + 1)
    /\ CutAfter(read + 1, err)
    /\ UNCHANGED <<size, blanks, pvars>>

\* The client is gone: the line is neither written nor recorded.
WriteFails ==
    /\ status = "piping"
    /\ read < size
    /\ read' = read + 1
    /\ status' = "client_error"
    /\ UNCHANGED <<size, blanks, written, body, event, chunks, pvars>>

\* The end comes by itself.
PipeEnd(err) ==
    /\ status = "piping"
    /\ read = size
    /\ err # "nil"
    /\ Ends(err, event, chunks)
    /\ UNCHANGED <<size, blanks, read, written, body, pvars>>

-----------------------------------------------------------------------------
(* serveCassette of the cassette saved, whatever the status.               *)

\* Replay is used when there are chunks; otherwise the body is written whole.
ReplayBegin ==
    /\ status # "piping"
    /\ replay = "off"
    /\ IF Len(chunks) > 0
       THEN replay' = "playing" /\ UNCHANGED played
       ELSE replay' = "ok" /\ played' = body
    /\ UNCHANGED <<rvars, next>>

\* One turn of Replay's loop; the delay before it is not modelled.
ReplayChunk ==
    /\ replay = "playing"
    /\ next <= Len(chunks)
    /\ played' = played \o chunks[next]
    /\ next' = next + 1
    /\ UNCHANGED <<rvars, replay>>

ReplayFails ==
    /\ replay = "playing"
    /\ next <= Len(chunks)
    /\ replay' = "client_error"
    /\ UNCHANGED <<rvars, played, next>>

\* Missing return: the body is written after the chunks (mutant).
ReplayEndsTwice ==
    /\ replay = "playing"
    /\ next > Len(chunks)
    /\ replay' = "ok"
    /\ played' = played \o body
    /\ UNCHANGED <<rvars, next>>

ReplayEnd ==
    /\ replay = "playing"
    /\ next > Len(chunks)
    /\ replay' = "ok"
    /\ UNCHANGED <<rvars, played, next>>

Errs == {"nil", "EOF", "error"}

Next ==
    \/ \E err \in Errs : PipeLine(err) \/ PipeEnd(err)
    \/ WriteFails
    \/ ReplayBegin \/ ReplayChunk \/ ReplayFails \/ ReplayEnd

Spec == Init /\ [][Next]_vars

-----------------------------------------------------------------------------
(* Properties.                                                             *)

Lines == 1 .. MaxLines

\* The types of the variables.
TypeOK ==
    /\ size \in 0 .. MaxLines
    /\ blanks \in SUBSET Lines
    /\ read \in 0 .. size
    /\ written \in Seq(Lines) /\ body \in Seq(Lines) /\ event \in Seq(Lines)
    /\ chunks \in Seq(Seq(Lines))
    /\ status \in {"piping", "ok", "upstream_error", "client_error"}
    /\ played \in Seq(Lines)
    /\ next \in 1 .. Len(chunks) + 1
    /\ replay \in {"off", "playing", "ok", "client_error"}

\* The recording is what the client received, in order and from the start,
\* and the chunks cut it into pieces without losing or repeating a line: a
\* completed stream is cut completely, and otherwise what is missing is the
\* event that was under way.
CutsTheBody ==
    /\ body = written
    /\ body = [i \in 1 .. Len(body) |-> i]
    /\ \/ status # "ok" /\ body = FlattenSeq(chunks) \o event
       \/ status = "ok" /\ body = FlattenSeq(chunks)

\* A chunk is one SSE event: it ends with its empty line, which is its only
\* one, unless it is the trailing data of a completed stream.
ChunksAreEvents ==
    \A i \in DOMAIN chunks :
        LET last == Len(chunks[i]) IN
        /\ \A j \in 1 .. last - 1 : chunks[i][j] \notin blanks
        /\ chunks[i][last] \notin blanks => status = "ok" /\ i = Len(chunks)

\* A client of a replay never receives what the recording client did not, in
\* another order or twice; and a replay of a completed recording that the
\* client reads to its end is all of it.
ReplayRepeats ==
    /\ IsPrefix(played, written)
    /\ status = "ok" /\ replay = "ok" => played = written

\* The recorder "records chunk timestamps for subsequent deterministic
\* replay" (recorder.go 33): a replay read to its end is what the recording
\* client had received.  When the upstream breaks off inside an event, the
\* part of it the client had received is in the body and in no chunk.
ReplayIsRecording == replay = "ok" => played = written
=============================================================================
