------------------------ MODULE Interception_proofs ------------------------
(***************************************************************************)
(* Proofs about Tunnel, for any number of requests and any framing, and    *)
(* about Interception, for any processes and key pairs.                    *)
(***************************************************************************)
EXTENDS Interception, SequenceTheorems, TLAPS

-----------------------------------------------------------------------------
(* One tunnel.                                                             *)

Upward == Heads \cup Bodies \cup {EOF}
Downward == Responses \cup {EOF}

\* A head that announces a body has something behind it.
Followed == \A i \in 1 .. Len(up) : up[i].is = "head" /\ up[i].body => i < Len(up)

\* How many answers a client that is still there has seen to their end.
Counted ==
    /\ client = "ready" => Len(ended) = sent
    /\ client = "waiting" => Len(ended) = sent - 1

HeadAt(i) == i \in 1 .. Len(up) /\ up[i].is = "head"
ResponseAt(j) == j \in 1 .. Len(down) /\ down[j].is = "response"

\* While its client is there, a tunnel carries one head or one response at
\* most: that of the request the client waits for.
OneAtATime ==
    client # "gone" =>
        /\ \A i : HeadAt(i) => client = "waiting" /\ up[i].id = sent
        /\ \A j : ResponseAt(j) => client = "waiting" /\ down[j].id = sent
        /\ \A i, j : HeadAt(i) /\ HeadAt(j) => i = j
        /\ \A i, j : ResponseAt(i) /\ ResponseAt(j) => i = j
        /\ \A i, j : ~(HeadAt(i) /\ ResponseAt(j))

\* The inductive invariant: AnswersInOrder says what was answered, the others
\* that the answer to come is the next one.
TInv == TypeOK /\ AnswersInOrder /\ Followed /\ Counted /\ OneAtATime

-----------------------------------------------------------------------------
LEMMA TInvInit == Init => TInv
<1> SUFFICES ASSUME Init PROVE TInv
    OBVIOUS
<1> USE TunnelAssumption DEF Init
<1>1. TypeOK
    BY DEF TypeOK
<1>2. AnswersInOrder
    BY DEF AnswersInOrder
<1>3. Followed /\ Counted /\ OneAtATime
    BY DEF Followed, Counted, OneAtATime, HeadAt, ResponseAt
<1> QED BY <1>1, <1>2, <1>3 DEF TInv

\* A client sends a head, and perhaps a body behind it.
LEMMA SendKeeps == TInv /\ ClientSend => TInv'
<1> SUFFICES ASSUME TInv, ClientSend PROVE TInv'
    OBVIOUS
<1> USE TunnelAssumption
<1>1. PICK body \in BOOLEAN, line \in BOOLEAN, local \in {FALSE, Local} :
        up' = up \o <<HeadOf(sent + 1, body, local)>>
                 \o (IF body THEN <<BodyOf(sent + 1, line)>> ELSE <<>>)
    BY DEF ClientSend
<1> DEFINE h == HeadOf(sent + 1, body, local)
           b == BodyOf(sent + 1, line)
           tail == IF body THEN <<b>> ELSE <<>>
<1>2. up \in Seq(Upward) /\ down \in Seq(Downward) /\ sent \in Nat /\ sent + 1 \in 1 .. MaxRequests
    BY DEF TInv, TypeOK, ClientSend, Upward, Downward
<1>3. h \in Upward /\ h.is = "head" /\ h.id = sent + 1 /\ h.body = body
    BY <1>2 DEF HeadOf, Heads, Upward
<1>4. b \in Upward /\ b.is = "body"
    BY <1>2 DEF BodyOf, Bodies, Upward
<1>5. <<h>> \in Seq(Upward) /\ tail \in Seq(Upward)
    BY <1>3, <1>4
<1> HIDE DEF h, b
<1>6. /\ up \o <<h>> \in Seq(Upward) /\ Len(up \o <<h>>) = Len(up) + 1
      /\ \A i \in 1 .. Len(up) + 1 : (up \o <<h>>)[i] = IF i <= Len(up) THEN up[i] ELSE h
    BY <1>2, <1>5, ConcatProperties
<1>7. /\ up' \in Seq(Upward) /\ Len(up') = Len(up) + 1 + Len(tail)
      /\ \A i \in 1 .. Len(up') : up'[i] = IF i <= Len(up) + 1 THEN (up \o <<h>>)[i]
                                           ELSE tail[i - (Len(up) + 1)]
    BY <1>1, <1>5, <1>6, ConcatProperties DEF h, b
<1>8. Len(up) \in Nat /\ Len(tail) = (IF body THEN 1 ELSE 0)
    BY <1>2, LenProperties
<1>9. \A i \in 1 .. Len(up') : up'[i] = IF i <= Len(up) THEN up[i]
                                        ELSE IF i = Len(up) + 1 THEN h ELSE b
    BY <1>6, <1>7, <1>8
<1>10. TypeOK'
    BY <1>2, <1>7 DEF TInv, TypeOK, ClientSend, Upward
<1>11. AnswersInOrder' /\ Counted'
    BY <1>2 DEF TInv, AnswersInOrder, Counted, ClientSend
<1>12. Followed'
    BY <1>3, <1>4, <1>7, <1>8, <1>9 DEF TInv, Followed
<1>13. OneAtATime'
    <2>1. \A i : ~HeadAt(i) /\ ~ResponseAt(i)
        BY DEF TInv, OneAtATime, ClientSend
    <2>2. \A i : HeadAt(i)' => i = Len(up) + 1 /\ up'[i] = h
        BY <1>4, <1>7, <1>8, <1>9, <2>1 DEF HeadAt
    <2>3. \A j : ~ResponseAt(j)'
        BY <2>1 DEF ResponseAt, ClientSend
    <2> QED BY <1>3, <2>2, <2>3 DEF OneAtATime, ClientSend
<1> QED BY <1>10, <1>11, <1>12, <1>13 DEF TInv

\* The client reads a whole response, or the end of the connection.
LEMMA ReceiveKeeps == TInv /\ ClientReceive => TInv'
<1> SUFFICES ASSUME TInv, ClientReceive PROVE TInv'
    OBVIOUS
<1> USE TunnelAssumption
<1>1. /\ down \in Seq(Downward) /\ down # <<>> /\ sent \in 0 .. MaxRequests
      /\ ended \in Seq(1 .. MaxRequests) /\ client = "waiting" /\ UNCHANGED <<up, sent, loop>>
    BY DEF TInv, TypeOK, ClientReceive, Downward
<1>2. /\ Tail(down) \in Seq(Downward) /\ Len(Tail(down)) = Len(down) - 1
      /\ \A i \in 1 .. Len(Tail(down)) : Tail(down)[i] = down[i + 1]
    BY <1>1, HeadTailProperties
<1>3. Len(down) \in Nat \ {0} /\ Head(down) = down[1] /\ Len(ended) \in Nat
    BY <1>1, LenProperties, EmptySeq
<1>4. Followed'
    BY <1>1 DEF TInv, Followed
<1>5. CASE Head(down) = EOF /\ client' = "gone" /\ UNCHANGED <<down, ended>>
    BY <1>1, <1>4, <1>5 DEF TInv, TypeOK, AnswersInOrder, Counted, OneAtATime
<1>6. CASE /\ Head(down).is = "response" /\ ended' = Append(ended, Head(down).id)
           /\ down' \in {Tail(down), <<EOF>>} /\ client' = "ready"
    <2>1. ResponseAt(1)
        BY <1>3, <1>6 DEF ResponseAt
    <2>2. Head(down).id = sent /\ Len(ended) = sent - 1 /\ sent \in 1 .. MaxRequests
        BY <1>1, <1>3, <2>1 DEF TInv, OneAtATime, Counted
    <2>3. /\ ended' \in Seq(1 .. MaxRequests) /\ Len(ended') = sent
          /\ \A i \in 1 .. sent : ended'[i] = IF i <= sent - 1 THEN ended[i] ELSE sent
        BY <1>1, <1>3, <1>6, <2>2, AppendProperties
    <2>4. AnswersInOrder'
        <3>1. \A i \in 1 .. sent : ended'[i] = i
            BY <2>2, <2>3 DEF TInv, AnswersInOrder
        <3>2. ended' = [i \in 1 .. Len(ended') |-> ended'[i]]
            BY <2>3, LenProperties
        <3> QED BY <2>3, <3>1, <3>2 DEF AnswersInOrder
    <2>5. down' \in Seq(Downward)
        <3>1. EOF \in Downward
            BY DEF Downward
        <3>2. <<EOF>> \in Seq(Downward)
            BY <3>1
        <3> QED BY <1>2, <1>6, <3>2
    <2>6. TypeOK'
        BY <1>1, <1>6, <2>3, <2>5 DEF TInv, TypeOK, Downward
    <2>7. Counted'
        BY <1>1, <1>6, <2>3 DEF Counted
    <2>8. \A j : ~ResponseAt(j)'
        <3>1. \A j : ResponseAt(j) => j = 1
            BY <1>1, <2>1 DEF TInv, OneAtATime
        <3>2. CASE down' = Tail(down)
            BY <1>2, <1>3, <3>1, <3>2 DEF ResponseAt
        <3>3. CASE down' = <<EOF>>
            BY <3>3 DEF ResponseAt, EOF
        <3> QED BY <1>6, <3>2, <3>3
    <2>9. \A i : ~HeadAt(i)'
        BY <1>1, <2>1 DEF TInv, OneAtATime, HeadAt
    <2> QED BY <1>4, <2>4, <2>6, <2>7, <2>8, <2>9 DEF TInv, OneAtATime
<1> QED BY <1>5, <1>6 DEF ClientReceive

\* A client that is gone waits for nothing.
LEMMA LeaveKeeps == TInv /\ ClientLeaves => TInv'
<1> SUFFICES ASSUME TInv, ClientLeaves PROVE TInv'
    OBVIOUS
<1>1. up \in Seq(Upward) /\ EOF \in Upward
    BY DEF TInv, TypeOK, Upward
<1>2. /\ up' \in Seq(Upward) /\ Len(up') = Len(up) + 1
      /\ \A i \in 1 .. Len(up) + 1 : up'[i] = IF i <= Len(up) THEN up[i] ELSE EOF
    BY <1>1, AppendProperties, LenProperties DEF ClientLeaves
<1>3. TypeOK'
    BY <1>2 DEF TInv, TypeOK, ClientLeaves, Upward
<1>4. Followed'
    BY <1>1, <1>2, LenProperties DEF TInv, Followed, EOF
<1>5. AnswersInOrder' /\ Counted' /\ OneAtATime'
    BY DEF TInv, AnswersInOrder, Counted, OneAtATime, ClientLeaves
<1> QED BY <1>3, <1>4, <1>5 DEF TInv

\* The loop takes a head, with its body unless the answer is local, and
\* answers it.
LEMMA DispatchKeeps == TInv /\ Dispatch => TInv'
<1> SUFFICES ASSUME TInv, Dispatch PROVE TInv'
    OBVIOUS
<1> USE TunnelAssumption
<1> DEFINE head == Head(up)
<1>1. up \in Seq(Upward) /\ up # <<>> /\ down \in Seq(Downward)
    BY DEF TInv, TypeOK, Upward, Downward, Dispatch
<1>2. /\ Len(up) \in Nat \ {0} /\ head = up[1] /\ head \in Upward /\ Len(down) \in Nat
      /\ Tail(up) \in Seq(Upward) /\ Len(Tail(up)) = Len(up) - 1
      /\ \A i \in 1 .. Len(Tail(up)) : Tail(up)[i] = up[i + 1]
    BY <1>1, HeadTailProperties, LenProperties, EmptySeq
<1>3. HeadAt(1) /\ head \in Heads
    BY <1>2 DEF HeadAt, Dispatch, Upward, Bodies, EOF
<1>4. PICK f \in {"counted", "open"} : down' = down \o Answer(head.id, f)
    BY DEF Dispatch
<1> DEFINE Drops(d) == /\ up' \in Seq(Upward) /\ Len(up') = Len(up) - d
                       /\ \A i \in 1 .. Len(up') : up'[i] = up[i + d]
<1>5. PICK d \in 1 .. 2 : Drops(d)
    <2>1. CASE up' = Tail(up)
        <3>1. Drops(1)
            BY <1>2, <2>1
        <3> QED BY <3>1
    <2>2. CASE up' = Tail(Tail(up)) /\ head.body
        <3>1. Len(up) > 1
            BY <1>2, <1>3, <2>2 DEF TInv, Followed, HeadAt
        <3>2. Tail(up) # <<>>
            <4>1. \A t : Len(t) # 0 => t # <<>>
                OBVIOUS
            <4>2. Len(Tail(up)) # 0
                BY <1>2, <3>1
            <4> QED BY <4>1, <4>2
        <3>3. /\ up' \in Seq(Upward) /\ Len(up') = Len(up) - 2
              /\ \A i \in 1 .. Len(up') : up'[i] = Tail(up)[i + 1]
            BY <1>2, <2>2, <3>2, HeadTailProperties
        <3>4. Drops(2)
            BY <1>2, <3>1, <3>3
        <3> QED BY <3>4
    <2> QED BY <2>1, <2>2 DEF Dispatch, AfterBody
<1> DEFINE r == Response(head.id, f)
<1>6. r \in Downward /\ r.is = "response" /\ r.id = head.id
    BY <1>3 DEF Response, Responses, Downward, Heads
<1>7. /\ down' \in Seq(Downward) /\ Len(down') = Len(down) + 1
      /\ \A j \in 1 .. Len(down) + 1 : down'[j] = IF j <= Len(down) THEN down[j] ELSE r
    <2>1. <<r>> \in Seq(Downward) /\ Len(<<r>>) = 1 /\ <<r>>[1] = r
        BY <1>6
    <2> HIDE DEF r
    <2>2. down' = down \o <<r>>
        BY <1>4 DEF r, Answer
    <2> QED BY <1>1, <1>2, <2>1, <2>2, ConcatProperties
<1> HIDE DEF r, head
<1>8. UNCHANGED <<client, sent, ended, loop>>
    BY DEF Dispatch
<1>9. TypeOK'
    BY <1>5, <1>7, <1>8 DEF TInv, TypeOK, Upward, Downward
<1>10. AnswersInOrder' /\ Counted'
    BY <1>8 DEF TInv, AnswersInOrder, Counted
<1>11. Followed'
    BY <1>2, <1>5 DEF TInv, Followed
<1>12. OneAtATime'
    <2> SUFFICES ASSUME client # "gone" PROVE OneAtATime'
        BY <1>8 DEF OneAtATime
    <2>1. client = "waiting" /\ r.id = sent
        BY <1>2, <1>3, <1>6 DEF TInv, OneAtATime
    <2>2. \A i : ~HeadAt(i)'
        <3> SUFFICES ASSUME NEW i, HeadAt(i)' PROVE FALSE
            OBVIOUS
        <3>1. i \in Nat /\ HeadAt(i + d)
            BY <1>2, <1>5 DEF HeadAt
        <3>2. i \in 1 .. Len(up')
            BY DEF HeadAt
        <3>3. i + d # 1
            BY <1>5, <3>2
        <3> QED BY <1>3, <3>1, <3>3 DEF TInv, OneAtATime
    <2>3. \A j : ResponseAt(j)' => j = Len(down) + 1 /\ down'[j] = r
        <3> SUFFICES ASSUME NEW j, ResponseAt(j)' PROVE j = Len(down) + 1 /\ down'[j] = r
            OBVIOUS
        <3>1. ~ResponseAt(j)
            BY <1>3 DEF TInv, OneAtATime
        <3> QED BY <1>2, <1>7, <3>1 DEF ResponseAt
    <2> QED BY <1>8, <2>1, <2>2, <2>3 DEF OneAtATime
<1> QED BY <1>9, <1>10, <1>11, <1>12 DEF TInv

\* The loop breaks off and closes the connection.
LEMMA HangUpKeeps == TInv /\ ReadFails => TInv'
<1> SUFFICES ASSUME TInv, ReadFails PROVE TInv'
    OBVIOUS
<1>1. down \in Seq(Downward) /\ EOF \in Downward
    BY DEF TInv, TypeOK, Downward
<1>2. /\ down' \in Seq(Downward) /\ Len(down') = Len(down) + 1
      /\ \A j \in 1 .. Len(down) + 1 : down'[j] = IF j <= Len(down) THEN down[j] ELSE EOF
    BY <1>1, AppendProperties, LenProperties DEF ReadFails, HangUp
<1>3. TypeOK'
    BY <1>2 DEF TInv, TypeOK, ReadFails, Downward
<1>4. AnswersInOrder' /\ Followed' /\ Counted'
    BY DEF TInv, AnswersInOrder, Followed, Counted, ReadFails
<1>5. \A i, j : (HeadAt(i)' <=> HeadAt(i)) /\ (ResponseAt(j)' => ResponseAt(j) /\ down'[j] = down[j])
    BY <1>1, <1>2, LenProperties DEF HeadAt, ResponseAt, ReadFails, EOF
<1>6. OneAtATime'
    BY <1>5 DEF TInv, OneAtATime, ReadFails
<1> QED BY <1>3, <1>4, <1>6 DEF TInv

\* Every step keeps the invariant.
LEMMA TInvStep == TInv /\ [Next]_vars => TInv'
<1>1. TInv /\ UNCHANGED vars => TInv'
    BY DEF TInv, TypeOK, AnswersInOrder, Followed, Counted, OneAtATime, HeadAt, ResponseAt, vars
<1> QED BY <1>1, SendKeeps, ReceiveKeeps, LeaveKeeps, DispatchKeeps, HangUpKeeps DEF Next

LEMMA TInvInvariant == Spec => []TInv
BY TInvStep, TInvInit, PTL DEF Spec

-----------------------------------------------------------------------------
\* The variables of a tunnel keep their types.
THEOREM TypeCorrect == Spec => []TypeOK
<1>1. TInv => TypeOK
    BY DEF TInv
<1> QED BY <1>1, TInvInvariant, PTL

\* No client takes a response for that to another of its requests, for any
\* number of requests, whatever body was left unread (HandleConnect).
THEOREM TunnelInOrder == Spec => []AnswersInOrder
<1>1. TInv => AnswersInOrder
    BY DEF TInv
<1> QED BY <1>1, TInvInvariant, PTL
-----------------------------------------------------------------------------
(* The CA directory.                                                       *)

\* The types of what the CA's invariants are about.
CATypes ==
    /\ crt \in Pairs \cup {Torn, None} /\ key \in Pairs \cup {Torn, None}
    /\ step \in [Procs -> {"down", "load crt", "load key", "open crt", "write crt",
                            "open key", "write key", "up"}]
    /\ ca \in [Procs -> [crt : Pairs \cup {None}, key : Pairs \cup {None}]]
    /\ trusted \in Pairs \cup {None}
    /\ renewed \in {"never", "begun", "done"}

\* A whole key lies beside its own certificate, but where an intact pair that
\* was not read is being replaced.
KeyLast == renewed # "begun" /\ key \in Pairs => crt = key

\* Who generates is alone, found no whole key unless it replaces it, and has a
\* pair; from the write of the certificate on, it is the pair's.
Alone ==
    \A p \in Procs : Generating(p) =>
        /\ key \in Pairs => renewed = "begun"
        /\ ca[p].crt \in Pairs /\ ca[p].crt = ca[p].key
        /\ step[p] \in {"open key", "write key"} => crt = ca[p].crt
        /\ \A q \in Procs \ {p} : ~Starting(q)

\* Who loads has the certificate that is on disk.
Loading == \A p \in Procs : step[p] = "load key" => ca[p].crt = crt

\* Who is up with a CA has the one on disk, which was never replaced.
Serving ==
    renewed = "never" => \A p \in Procs : step[p] = "up" /\ ca[p] # NoCA =>
        crt \in Pairs /\ key = crt /\ ca[p].crt = crt /\ ca[p].key = crt

\* What the user installed is on disk, and no handshake has failed, as long as
\* no intact pair was replaced.
Installed ==
    renewed = "never" =>
        /\ trusted # None => crt = trusted /\ key = trusted
        /\ verdict # "failed"

\* The inductive invariant: unless two processes raced, a start that generates
\* is alone and leaves a pair when it is done, and as long as it replaced no
\* intact pair whoever is up serves the one CA there is.
IInv == CATypes /\ (~raced => KeyLast /\ Alone /\ Loading /\ Serving /\ Installed)

-----------------------------------------------------------------------------
LEMMA InitHolds == IInit => IInv
<1> SUFFICES ASSUME IInit PROVE IInv
    OBVIOUS
<1> USE InterceptionAssumption DEF IInit
<1>1. CATypes
    BY DEF CATypes, NoCA
<1>2. KeyLast /\ Alone /\ Loading /\ Serving /\ Installed
    BY DEF KeyLast, Alone, Loading, Serving, Installed, Generating, Starting
<1> QED BY <1>1, <1>2 DEF IInv

\* A process starts: it races with one that generates.
LEMMA LaunchKeeps == ASSUME IInv, NEW p \in Procs, Launch(p) PROVE IInv'
<1> USE InterceptionAssumption
<1>1. CATypes'
    BY DEF IInv, CATypes, Launch, GoOn, NoCA, files, life, peer
<1>2. ASSUME ~raced' PROVE (KeyLast /\ Alone /\ Loading /\ Serving /\ Installed)'
    <2> ~raced /\ KeyLast /\ Alone /\ Loading /\ Serving /\ Installed
        BY <1>2 DEF IInv, Launch, Generate, Replace, life
    <2> CATypes
        BY DEF IInv
    <2>1. KeyLast'
        BY <1>2 DEF KeyLast, Alone, Generating, Starting, Launch, GoOn, files, life, peer, CATypes
    <2>2. ASSUME NEW q \in Procs, Generating(q)' PROVE FALSE
        <3>1. q # p
            BY <2>2 DEF Launch, GoOn, CATypes, Generating
        <3>2. Generating(q)
            BY <2>2, <3>1 DEF Launch, GoOn, CATypes, Generating, Starting
        <3> QED BY <1>2, <3>2 DEF Launch
    <2>6. Alone'
        BY <2>2 DEF Alone
    <2>3. Loading'
        BY <1>2 DEF Loading, Alone, Generating, Starting, Launch, GoOn, files, life, peer, CATypes
    <2>4. Serving'
        BY <1>2 DEF KeyLast, Loading, Serving, Alone, Generating, Starting, NoCA, Launch, GoOn, files, life, peer, CATypes
    <2>5. Installed'
        BY <1>2 DEF KeyLast, Installed, Alone, Serving, Loading, Generating, Starting, Launch, GoOn, files, life, peer, CATypes
    <2> QED BY <2>1, <2>6, <2>3, <2>4, <2>5
<1> QED BY <1>1, <1>2 DEF IInv

\* The certificate is truncated by the only process that is starting.
LEMMA OpenCrtKeeps == ASSUME IInv, NEW p \in Procs, OpenCrt(p) PROVE IInv'
<1> USE InterceptionAssumption
<1>1. CATypes'
    BY DEF IInv, CATypes, OpenCrt, GoOn, NoCA, files, life, peer
<1>2. ASSUME ~raced' PROVE (KeyLast /\ Alone /\ Loading /\ Serving /\ Installed)'
    <2> ~raced /\ KeyLast /\ Alone /\ Loading /\ Serving /\ Installed
        BY <1>2 DEF IInv, OpenCrt, Generate, Replace, life
    <2> CATypes
        BY DEF IInv
    <2>1. KeyLast'
        BY <1>2 DEF KeyLast, Alone, Generating, Starting, OpenCrt, GoOn, files, life, peer, CATypes
    <2>2. Alone'
        BY <1>2 DEF KeyLast, Alone, Generating, Starting, OpenCrt, GoOn, files, life, peer, CATypes
    <2>3. Loading'
        BY <1>2 DEF Loading, Alone, Generating, Starting, OpenCrt, GoOn, files, life, peer, CATypes
    <2>4. Serving'
        BY <1>2 DEF KeyLast, Loading, Serving, Alone, Generating, Starting, NoCA, OpenCrt, GoOn, files, life, peer, CATypes
    <2>5. Installed'
        BY <1>2 DEF KeyLast, Installed, Alone, Serving, Loading, Generating, Starting, OpenCrt, GoOn, files, life, peer, CATypes
    <2> QED BY <2>1, <2>2, <2>3, <2>4, <2>5
<1> QED BY <1>1, <1>2 DEF IInv

\* The certificate is written while no key is whole.
LEMMA WriteCrtKeeps == ASSUME IInv, NEW p \in Procs, WriteCrt(p) PROVE IInv'
<1> USE InterceptionAssumption
<1>1. CATypes'
    BY DEF IInv, CATypes, WriteCrt, GoOn, NoCA, files, life, peer
<1>2. ASSUME ~raced' PROVE (KeyLast /\ Alone /\ Loading /\ Serving /\ Installed)'
    <2> ~raced /\ KeyLast /\ Alone /\ Loading /\ Serving /\ Installed
        BY <1>2 DEF IInv, WriteCrt, Generate, Replace, life
    <2> CATypes
        BY DEF IInv
    <2>1. KeyLast'
        BY <1>2 DEF KeyLast, Alone, Generating, Starting, WriteCrt, GoOn, files, life, peer, CATypes
    <2>2. Alone'
        BY <1>2 DEF KeyLast, Alone, Generating, Starting, WriteCrt, GoOn, files, life, peer, CATypes
    <2>3. Loading'
        BY <1>2 DEF Loading, Alone, Generating, Starting, WriteCrt, GoOn, files, life, peer, CATypes
    <2>4. Serving'
        BY <1>2 DEF KeyLast, Loading, Serving, Alone, Generating, Starting, NoCA, WriteCrt, GoOn, files, life, peer, CATypes
    <2>5. Installed'
        BY <1>2 DEF KeyLast, Installed, Alone, Serving, Loading, Generating, Starting, WriteCrt, GoOn, files, life, peer, CATypes
    <2> QED BY <2>1, <2>2, <2>3, <2>4, <2>5
<1> QED BY <1>1, <1>2 DEF IInv

\* A key that is not whole is truncated.
LEMMA OpenKeyKeeps == ASSUME IInv, NEW p \in Procs, OpenKey(p) PROVE IInv'
<1> USE InterceptionAssumption
<1>1. CATypes'
    BY DEF IInv, CATypes, OpenKey, GoOn, NoCA, files, life, peer
<1>2. ASSUME ~raced' PROVE (KeyLast /\ Alone /\ Loading /\ Serving /\ Installed)'
    <2> ~raced /\ KeyLast /\ Alone /\ Loading /\ Serving /\ Installed
        BY <1>2 DEF IInv, OpenKey, Generate, Replace, life
    <2> CATypes
        BY DEF IInv
    <2>1. KeyLast'
        BY <1>2 DEF KeyLast, Alone, Generating, Starting, OpenKey, GoOn, files, life, peer, CATypes
    <2>2. Alone'
        BY <1>2 DEF KeyLast, Alone, Generating, Starting, OpenKey, GoOn, files, life, peer, CATypes
    <2>3. Loading'
        BY <1>2 DEF Loading, Alone, Generating, Starting, OpenKey, GoOn, files, life, peer, CATypes
    <2>4. Serving'
        BY <1>2 DEF KeyLast, Loading, Serving, Alone, Generating, Starting, NoCA, OpenKey, GoOn, files, life, peer, CATypes
    <2>5. Installed'
        BY <1>2 DEF KeyLast, Installed, Alone, Serving, Loading, Generating, Starting, OpenKey, GoOn, files, life, peer, CATypes
    <2> QED BY <2>1, <2>2, <2>3, <2>4, <2>5
<1> QED BY <1>1, <1>2 DEF IInv

\* The key joins its certificate.
LEMMA WriteKeyKeeps == ASSUME IInv, NEW p \in Procs, WriteKey(p) PROVE IInv'
<1> USE InterceptionAssumption
<1>1. CATypes'
    BY DEF IInv, CATypes, WriteKey, GoOn, NoCA, files, life, peer
<1>2. ASSUME ~raced' PROVE (KeyLast /\ Alone /\ Loading /\ Serving /\ Installed)'
    <2> ~raced /\ KeyLast /\ Alone /\ Loading /\ Serving /\ Installed
        BY <1>2 DEF IInv, WriteKey, Generate, Replace, life
    <2> CATypes
        BY DEF IInv
    <2>1. KeyLast'
        BY <1>2 DEF KeyLast, Alone, Generating, Starting, WriteKey, GoOn, files, life, peer, CATypes
    <2>2. Alone'
        <3>1. step' = [step EXCEPT ![p] = "up"] /\ Generating(p)
            BY DEF WriteKey, GoOn, Generating, Starting
        <3>2. \A q \in Procs : ~Generating(q)'
            BY <3>1 DEF Alone, Generating, Starting, CATypes
        <3> QED BY <3>2 DEF Alone
    <2>3. Loading'
        BY <1>2 DEF Loading, Alone, Generating, Starting, WriteKey, GoOn, files, life, peer, CATypes
    <2>4. Serving'
        BY <1>2 DEF KeyLast, Loading, Serving, Alone, Generating, Starting, NoCA, WriteKey, GoOn, files, life, peer, CATypes
    <2>5. Installed'
        BY <1>2 DEF KeyLast, Installed, Alone, Serving, Loading, Generating, Starting, WriteKey, GoOn, files, life, peer, CATypes
    <2> QED BY <2>1, <2>2, <2>3, <2>4, <2>5
<1> QED BY <1>1, <1>2 DEF IInv

\* A failed write leaves the files as they are.
LEMMA FailsKeeps == ASSUME IInv, NEW p \in Procs, Fails(p) PROVE IInv'
<1> USE InterceptionAssumption
<1>1. CATypes'
    BY DEF IInv, CATypes, Fails, GoOn, NoCA, files, life, peer
<1>2. ASSUME ~raced' PROVE (KeyLast /\ Alone /\ Loading /\ Serving /\ Installed)'
    <2> ~raced /\ KeyLast /\ Alone /\ Loading /\ Serving /\ Installed
        BY <1>2 DEF IInv, Fails, Generate, Replace, life
    <2> CATypes
        BY DEF IInv
    <2>1. KeyLast'
        BY <1>2 DEF KeyLast, Alone, Generating, Starting, Fails, GoOn, files, life, peer, CATypes
    <2>2. Alone'
        BY <1>2 DEF KeyLast, Alone, Generating, Starting, Fails, GoOn, files, life, peer, CATypes
    <2>3. Loading'
        BY <1>2 DEF Loading, Alone, Generating, Starting, Fails, GoOn, files, life, peer, CATypes
    <2>4. Serving'
        BY <1>2 DEF KeyLast, Loading, Serving, Alone, Generating, Starting, NoCA, Fails, GoOn, files, life, peer, CATypes
    <2>5. Installed'
        BY <1>2 DEF KeyLast, Installed, Alone, Serving, Loading, Generating, Starting, Fails, GoOn, files, life, peer, CATypes
    <2> QED BY <2>1, <2>2, <2>3, <2>4, <2>5
<1> QED BY <1>1, <1>2 DEF IInv

\* A kill leaves the files as they are.
LEMMA KillKeeps == ASSUME IInv, NEW p \in Procs, Kill(p) PROVE IInv'
<1> USE InterceptionAssumption
<1>1. CATypes'
    BY DEF IInv, CATypes, Kill, GoOn, NoCA, files, life, peer
<1>2. ASSUME ~raced' PROVE (KeyLast /\ Alone /\ Loading /\ Serving /\ Installed)'
    <2> ~raced /\ KeyLast /\ Alone /\ Loading /\ Serving /\ Installed
        BY <1>2 DEF IInv, Kill, Generate, Replace, life
    <2> CATypes
        BY DEF IInv
    <2>1. KeyLast'
        BY <1>2 DEF KeyLast, Alone, Generating, Starting, Kill, GoOn, files, life, peer, CATypes
    <2>2. Alone'
        <3>1. /\ step' = [step EXCEPT ![p] = "down"] /\ ca' = [ca EXCEPT ![p] = NoCA]
              /\ UNCHANGED <<files, renewed>>
            BY DEF Kill, GoOn
        <3>2. ~Starting(p)'
            BY <3>1 DEF CATypes, Starting
        <3>3. \A q \in Procs \ {p} : step'[q] = step[q] /\ ca'[q] = ca[q]
            BY <3>1 DEF CATypes
        <3> QED BY <3>1, <3>2, <3>3 DEF Alone, Generating, Starting, files
    <2>3. Loading'
        BY <1>2 DEF Loading, Alone, Generating, Starting, Kill, GoOn, files, life, peer, CATypes
    <2>4. Serving'
        BY <1>2 DEF KeyLast, Loading, Serving, Alone, Generating, Starting, NoCA, Kill, GoOn, files, life, peer, CATypes
    <2>5. Installed'
        BY <1>2 DEF KeyLast, Installed, Alone, Serving, Loading, Generating, Starting, Kill, GoOn, files, life, peer, CATypes
    <2> QED BY <2>1, <2>2, <2>3, <2>4, <2>5
<1> QED BY <1>1, <1>2 DEF IInv

\* A handshake with a process that is up succeeds.
LEMMA ConnectKeeps == ASSUME IInv, NEW p \in Procs, Connect(p) PROVE IInv'
<1> USE InterceptionAssumption
<1>1. CATypes'
    BY DEF IInv, CATypes, Connect, GoOn, NoCA, files, life, peer
<1>2. ASSUME ~raced' PROVE (KeyLast /\ Alone /\ Loading /\ Serving /\ Installed)'
    <2> ~raced /\ KeyLast /\ Alone /\ Loading /\ Serving /\ Installed
        BY <1>2 DEF IInv, Connect, Generate, Replace, life
    <2> CATypes
        BY DEF IInv
    <2>1. KeyLast'
        BY <1>2 DEF KeyLast, Alone, Generating, Starting, Connect, GoOn, files, life, peer, CATypes
    <2>2. Alone'
        BY <1>2 DEF KeyLast, Alone, Generating, Starting, Connect, GoOn, files, life, peer, CATypes
    <2>3. Loading'
        BY <1>2 DEF Loading, Alone, Generating, Starting, Connect, GoOn, files, life, peer, CATypes
    <2>4. Serving'
        BY <1>2 DEF KeyLast, Loading, Serving, Alone, Generating, Starting, NoCA, Connect, GoOn, files, life, peer, CATypes
    <2>5. Installed'
        BY <1>2 DEF KeyLast, Installed, Alone, Serving, Loading, Generating, Starting, Connect, GoOn, files, life, peer, CATypes
    <2> QED BY <2>1, <2>2, <2>3, <2>4, <2>5
<1> QED BY <1>1, <1>2 DEF IInv

\* generateCA begins when no key is whole, or replaces it.
LEMMA GenerateKeeps ==
    ASSUME IInv, NEW p \in Procs, step[p] \in {"load crt", "load key"}, Generate(p),
           UNCHANGED <<files, peer>>
    PROVE  IInv'
<1> USE InterceptionAssumption
<1>1. PICK k \in Pairs : ca' = [ca EXCEPT ![p] = [crt |-> k, key |-> k]]
    BY DEF Generate, Fresh
<1>2. step' = [step EXCEPT ![p] = "open crt"]
    BY DEF Generate, GoOn
<1>3. UNCHANGED <<crt, key, trusted, via, verdict>>
    BY DEF files, peer
<1>3a. /\ renewed' = IF crt \in Pairs /\ key \in Pairs THEN "begun" ELSE renewed
       /\ renewed' = "never" => renewed = "never" /\ ~(crt \in Pairs /\ key \in Pairs)
    BY DEF Generate
<1>4. CATypes'
    BY <1>1, <1>2, <1>3, <1>3a DEF IInv, CATypes
<1>5. ASSUME ~raced' PROVE (KeyLast /\ Alone /\ Loading /\ Serving /\ Installed)'
    <2>1. CATypes /\ ~raced /\ KeyLast /\ Alone /\ Loading /\ Serving /\ Installed
        BY <1>5 DEF IInv, Generate
    <2>2. \A q \in Procs \ {p} : ~Starting(q) /\ step'[q] = step[q] /\ ca'[q] = ca[q]
        BY <1>1, <1>2, <1>5, <2>1 DEF Generate, CATypes
    <2>3. step'[p] = "open crt" /\ ca'[p] = [crt |-> k, key |-> k]
        BY <1>1, <1>2, <2>1 DEF CATypes
    <2>4. KeyLast' /\ Installed'
        BY <1>3, <1>3a, <2>1 DEF KeyLast, Installed
    <2>5. Alone'
        <3>1. \A q \in Procs \ {p} : ~Starting(q)'
            BY <2>2 DEF Starting
        <3>2. key' \in Pairs => renewed' = "begun"
            BY <1>3, <1>3a, <2>1 DEF KeyLast
        <3>3. ca'[p].crt = k /\ ca'[p].key = k
            <4> DEFINE r == [crt |-> k, key |-> k]
            <4>1. r.crt = k /\ r.key = k
                OBVIOUS
            <4>2. ca'[p] = r
                BY <2>3
            <4> HIDE DEF r
            <4> QED BY <4>1, <4>2
        <3> QED BY <2>3, <3>1, <3>2, <3>3 DEF Alone, Generating
    <2>6. Loading' /\ Serving'
        BY <1>3, <1>3a, <2>1, <2>2, <2>3 DEF Loading, Serving
    <2> QED BY <2>4, <2>5, <2>6
<1> QED BY <1>4, <1>5 DEF IInv

\* A certificate is taken, or the pair is replaced.
LEMMA LoadCrtKeeps == ASSUME IInv, NEW p \in Procs, LoadCrt(p) PROVE IInv'
<1> USE InterceptionAssumption
<1>1. step[p] = "load crt" /\ UNCHANGED <<files, peer>>
    BY DEF LoadCrt
<1>2. CASE crt \in Pairs /\ ~Generate(p)
    <2>1. ca' = [ca EXCEPT ![p].crt = crt] /\ step' = [step EXCEPT ![p] = "load key"] /\ UNCHANGED <<raced, renewed>>
        BY <1>2 DEF LoadCrt, GoOn
    <2>2. UNCHANGED <<crt, key, trusted, via, verdict, renewed>>
        BY <1>1, <2>1 DEF files, peer
    <2>3. CATypes'
        BY <1>2, <2>1, <2>2 DEF IInv, CATypes
    <2>4. ASSUME ~raced' PROVE (KeyLast /\ Alone /\ Loading /\ Serving /\ Installed)'
        <3>1. CATypes /\ ~raced /\ KeyLast /\ Alone /\ Loading /\ Serving /\ Installed
            BY <2>1, <2>4 DEF IInv
        <3>2. \A q \in Procs \ {p} : step'[q] = step[q] /\ ca'[q] = ca[q]
            BY <2>1, <3>1 DEF CATypes
        <3>3. step'[p] = "load key" /\ ca'[p] = [ca[p] EXCEPT !.crt = crt]
            BY <2>1, <3>1 DEF CATypes
        <3>4. ca[p] \in [crt : Pairs \cup {None}, key : Pairs \cup {None}]
            BY <3>1 DEF CATypes
        <3>5. ca'[p].crt = crt
            BY <3>3, <3>4
        <3>6. KeyLast' /\ Installed'
            BY <2>2, <3>1 DEF KeyLast, Installed
        <3>7. Alone'
            BY <1>1, <2>2, <3>1, <3>2, <3>3 DEF Alone, Generating, Starting
        <3>8. Loading'
            BY <2>2, <3>1, <3>2, <3>3, <3>5 DEF Loading
        <3>9. Serving'
            BY <1>1, <1>2, <2>2, <3>1, <3>2, <3>3, <3>5 DEF Serving, Loading, KeyLast
        <3> QED BY <3>6, <3>7, <3>8, <3>9
    <2> QED BY <2>3, <2>4 DEF IInv
<1>3. CASE Generate(p)
    BY <1>1, <1>3, GenerateKeeps
<1> QED BY <1>2, <1>3 DEF LoadCrt

\* A whole key is that of the certificate that was taken, unless the pair was
\* replaced.
LEMMA LoadKeyKeeps == ASSUME IInv, NEW p \in Procs, LoadKey(p) PROVE IInv'
<1> USE InterceptionAssumption
<1>1. step[p] = "load key" /\ UNCHANGED <<files, peer>>
    BY DEF LoadKey
<1>2. CASE key \in Pairs /\ ~Generate(p)
    <2>1. ca' = [ca EXCEPT ![p].key = key] /\ step' = [step EXCEPT ![p] = "up"] /\ UNCHANGED <<raced, renewed>>
        BY <1>2 DEF LoadKey, Replace, GoOn
    <2>2. UNCHANGED <<crt, key, trusted, via, verdict, renewed>>
        BY <1>1, <2>1 DEF files, peer
    <2>3. CATypes'
        BY <1>2, <2>1, <2>2 DEF IInv, CATypes
    <2>4. ASSUME ~raced' PROVE (KeyLast /\ Alone /\ Loading /\ Serving /\ Installed)'
        <3>1. CATypes /\ ~raced /\ KeyLast /\ Alone /\ Loading /\ Serving /\ Installed
            BY <2>1, <2>4 DEF IInv
        <3>2. \A q \in Procs \ {p} : step'[q] = step[q] /\ ca'[q] = ca[q]
            BY <2>1, <3>1 DEF CATypes
        <3>3. step'[p] = "up" /\ ca'[p] = [ca[p] EXCEPT !.key = key]
            BY <2>1, <3>1 DEF CATypes
        <3>4. ca[p] \in [crt : Pairs \cup {None}, key : Pairs \cup {None}]
            BY <3>1 DEF CATypes
        <3>5. ca'[p].key = key /\ ca'[p].crt = ca[p].crt
            BY <3>3, <3>4
        <3>6. KeyLast' /\ Installed'
            BY <2>2, <3>1 DEF KeyLast, Installed
        <3>7. Alone'
            BY <1>1, <2>2, <3>1, <3>2, <3>3 DEF Alone, Generating, Starting
        <3>8. Loading'
            BY <2>2, <3>1, <3>2, <3>3, <3>5 DEF Loading
        <3>9. Serving'
            BY <1>1, <1>2, <2>2, <3>1, <3>2, <3>3, <3>5 DEF Serving, Loading, KeyLast
        <3> QED BY <3>6, <3>7, <3>8, <3>9
    <2> QED BY <2>3, <2>4 DEF IInv
<1>3. CASE Generate(p)
    BY <1>1, <1>3, GenerateKeeps
<1> QED BY <1>2, <1>3 DEF LoadKey, Replace

\* What is installed is on disk.
LEMMA InstallKeeps == ASSUME IInv, Install PROVE IInv'
<1> USE InterceptionAssumption
<1>1. CATypes'
    BY DEF IInv, CATypes, Install, files, life, peer
<1>2. ASSUME ~raced' PROVE (KeyLast /\ Alone /\ Loading /\ Serving /\ Installed)'
    <2> ~raced /\ KeyLast /\ Alone /\ Loading /\ Serving /\ Installed
        BY <1>2 DEF IInv, Install, Generate, Replace, life
    <2> CATypes
        BY DEF IInv
    <2>1. KeyLast'
        BY <1>2 DEF KeyLast, Alone, Generating, Starting, Install, GoOn, files, life, peer, CATypes
    <2>2. Alone'
        BY <1>2 DEF KeyLast, Alone, Generating, Starting, Install, GoOn, files, life, peer, CATypes
    <2>3. Loading'
        BY <1>2 DEF Loading, Alone, Generating, Starting, Install, GoOn, files, life, peer, CATypes
    <2>4. Serving'
        BY <1>2 DEF KeyLast, Loading, Serving, Alone, Generating, Starting, NoCA, Install, GoOn, files, life, peer, CATypes
    <2>5. Installed'
        BY <1>2 DEF KeyLast, Installed, Alone, Serving, Loading, Generating, Starting, Install, GoOn, files, life, peer, CATypes
    <2> QED BY <2>1, <2>2, <2>3, <2>4, <2>5
<1> QED BY <1>1, <1>2 DEF IInv

\* Every step keeps the invariant.
LEMMA StepKeeps == IInv /\ [INext]_ivars => IInv'
<1> SUFFICES ASSUME IInv, [INext]_ivars PROVE IInv'
    OBVIOUS
<1>1. ASSUME UNCHANGED <<files, life, peer>> PROVE IInv'
    BY <1>1 DEF IInv, CATypes, KeyLast, Alone, Loading, Serving, Installed, Generating,
        Starting, files, life, peer
<1>2. CASE InTunnel
    BY <1>1, <1>2 DEF InTunnel
<1>3. CASE UNCHANGED ivars
    BY <1>1, <1>3 DEF ivars
<1>4. CASE Install
    BY <1>4, InstallKeeps
<1>5. CASE \E p \in Procs : \/ Launch(p) \/ LoadCrt(p) \/ LoadKey(p) \/ OpenCrt(p) \/ WriteCrt(p)
                           \/ OpenKey(p) \/ WriteKey(p) \/ Fails(p) \/ Kill(p) \/ Connect(p)
    BY <1>5, LaunchKeeps, LoadCrtKeeps, LoadKeyKeeps, OpenCrtKeeps, WriteCrtKeeps, OpenKeyKeeps,
        WriteKeyKeeps, FailsKeeps, KillKeeps, ConnectKeeps
<1> QED BY <1>2, <1>3, <1>4, <1>5 DEF INext

\* A certificate lies beside another pair's key only where two processes raced
\* or the replacement of an intact pair that could not be read is, or was
\* stopped, between its two writes: for any number of processes, kills, failed
\* reads and failed writes (NewCAManager, generateCA).
THEOREM PairsMatch == ISpec => []PairMatches
<1>1. IInv => PairMatches
    BY DEF IInv, KeyLast, PairMatches
<1> QED BY <1>1, InitHolds, StepKeeps, PTL DEF ISpec

\* A client that trusts the certificate a running proxy offered gets through
\* every handshake until two processes race or a start replaces an intact pair
\* that it could not read (NewCAManager, GetHostCertificate).
THEOREM TrustsLast == ISpec => []TrustLasts
<1>1. IInv => TrustLasts
    BY DEF IInv, CATypes, Installed, TrustLasts
<1> QED BY <1>1, InitHolds, StepKeeps, PTL DEF ISpec
-----------------------------------------------------------------------------
\* A tunnel that opens, or that its process takes with it, carries nothing.
LEMMA EmptyTunnel ==
    ASSUME up' = <<>>, down' = <<>>, sent' = 0, ended' = <<>>,
           client' \in {"ready", "gone"}, loop' \in {"reading", "closed"}
    PROVE  TInv'
<1> USE TunnelAssumption
<1>1. TypeOK'
    BY DEF TypeOK
<1>2. AnswersInOrder'
    BY DEF AnswersInOrder
<1>3. Followed' /\ Counted' /\ OneAtATime'
    BY DEF Followed, Counted, OneAtATime, HeadAt, ResponseAt
<1> QED BY <1>1, <1>2, <1>3 DEF TInv

\* The tunnel's invariant holds over connections to several processes.
LEMMA TInvOverConnections == ISpec => []TInv
<1>1. IInit => TInv
    <2> SUFFICES ASSUME IInit PROVE TInv
        OBVIOUS
    <2> USE TunnelAssumption DEF IInit
    <2>1. TypeOK
        BY DEF TypeOK
    <2>2. AnswersInOrder
        BY DEF AnswersInOrder
    <2>3. Followed /\ Counted /\ OneAtATime
        BY DEF Followed, Counted, OneAtATime, HeadAt, ResponseAt
    <2> QED BY <2>1, <2>2, <2>3 DEF TInv
<1>2. TInv /\ [INext]_ivars => TInv'
    <2> SUFFICES ASSUME TInv, [INext]_ivars PROVE TInv'
        OBVIOUS
    <2>1. CASE [Next]_vars
        BY <2>1, TInvStep
    <2>2. ASSUME NEW p \in Procs, Kill(p) PROVE TInv'
        BY <2>1, <2>2, EmptyTunnel DEF Kill
    <2>3. ASSUME NEW p \in Procs, Connect(p) PROVE TInv'
        BY <2>3, EmptyTunnel DEF Connect
    <2> QED BY <2>1, <2>2, <2>3 DEF INext, ivars, Launch, LoadCrt, LoadKey, OpenCrt, WriteCrt, OpenKey,
            WriteKey, Fails, Install, InTunnel
<1> QED BY <1>1, <1>2, PTL DEF ISpec

\* Also over connections to several processes, handshakes and kills, every
\* response is taken for the answer to its own request (HandleConnect).
THEOREM InOrderOverConnections == ISpec => []AnswersInOrder
<1>1. TInv => AnswersInOrder
    BY DEF TInv
<1> QED BY <1>1, TInvOverConnections, PTL

\* Whom the client is connected to: a process that is up and offers the
\* certificate that is installed; nothing moves in a tunnel without it.
Connected ==
    /\ via \in Procs \cup {None}
    /\ verdict \in {"none", "bad gateway", "failed", "established"}
    /\ raced \in BOOLEAN
    /\ via # None => step[via] = "up" /\ ca[via].crt = trusted /\ trusted # None
    /\ client # "gone" \/ loop = "reading" => via # None

\* Every step leaves the connection with a process that can serve it.
LEMMA ConnectedStep == CATypes /\ Connected /\ [INext]_ivars => Connected'
<1> SUFFICES ASSUME CATypes, Connected, [INext]_ivars PROVE Connected'
    OBVIOUS
<1> USE InterceptionAssumption DEF CATypes, Connected
\* A process that is not up is not the client's.
<1>1. ASSUME NEW p \in Procs, step[p] # "up",
             UNCHANGED <<vars, peer>>, raced' \in BOOLEAN,
             \A q \in Procs \ {p} : step'[q] = step[q] /\ ca'[q] = ca[q]
      PROVE  Connected'
    BY <1>1 DEF vars, peer
<1>2. ASSUME NEW p \in Procs, NEW s, NEW c, step[p] # "up",
             UNCHANGED <<vars, peer>>, raced' \in BOOLEAN,
             step' = [step EXCEPT ![p] = s], ca' = ca \/ ca' = [ca EXCEPT ![p] = c]
      PROVE  Connected'
    <2>1. \A q \in Procs \ {p} : step'[q] = step[q] /\ ca'[q] = ca[q]
        BY <1>2
    <2> QED BY <1>1, <1>2, <2>1
<1>3. ASSUME NEW p \in Procs, Launch(p) \/ OpenCrt(p) \/ WriteCrt(p) \/ OpenKey(p)
                              \/ WriteKey(p) \/ Fails(p)
      PROVE  Connected'
    <2>1. /\ step[p] # "up" /\ UNCHANGED <<vars, peer>> /\ raced' \in BOOLEAN
          /\ \E s : step' = [step EXCEPT ![p] = s]
          /\ ca' = ca \/ ca' = [ca EXCEPT ![p] = NoCA]
        BY <1>3 DEF Launch, OpenCrt, WriteCrt, OpenKey, WriteKey, Fails, GoOn
    <2> QED BY <1>2, <2>1
<1>4. ASSUME NEW p \in Procs, LoadCrt(p) \/ LoadKey(p) PROVE Connected'
    <2>1. step[p] # "up" /\ UNCHANGED <<vars, peer>>
        BY <1>4 DEF LoadCrt, LoadKey
    <2>2. CASE Generate(p)
        <3>1. raced' \in BOOLEAN /\ step' = [step EXCEPT ![p] = "open crt"]
              /\ \E c : ca' = [ca EXCEPT ![p] = c]
            BY <2>2 DEF Generate, GoOn
        <3> QED BY <1>2, <2>1, <3>1
    <2>3. CASE ~Generate(p)
        <3>1. raced' = raced /\ \E s : step' = [step EXCEPT ![p] = s]
            BY <1>4, <2>3 DEF LoadCrt, LoadKey, Replace, GoOn
        <3>2. \E c : ca' = [ca EXCEPT ![p] = c]
            BY <1>4, <2>3 DEF LoadCrt, LoadKey, Replace
        <3> QED BY <1>2, <2>1, <3>1, <3>2
    <2> QED BY <2>2, <2>3
<1>5. ASSUME NEW p \in Procs, Kill(p) PROVE Connected'
    <2>1. /\ \A q \in Procs \ {p} : step'[q] = step[q] /\ ca'[q] = ca[q]
          /\ UNCHANGED <<raced, trusted, verdict>>
        BY <1>5 DEF Kill, GoOn
    <2>2. CASE via = p
        BY <1>5, <2>1, <2>2 DEF Kill
    <2>3. CASE via # p
        BY <1>5, <2>1, <2>3 DEF Kill, vars
    <2> QED BY <2>2, <2>3
<1>6. ASSUME NEW p \in Procs, Connect(p) PROVE Connected'
    BY <1>6 DEF Connect, files, life
<1>7. CASE Install
    BY <1>7 DEF Install, vars, files, life
<1>8. CASE InTunnel
    <2>1. UNCHANGED <<step, ca, raced, trusted, via, verdict>>
        BY <1>8 DEF InTunnel, life, peer
    <2>2. client' # "gone" \/ loop' = "reading" => client # "gone" \/ loop = "reading"
        BY <1>8 DEF InTunnel, Next, ClientSend, ClientReceive, ClientLeaves, Dispatch, ReadFails
    <2> QED BY <2>1, <2>2
<1>9. CASE UNCHANGED ivars
    BY <1>9 DEF ivars, vars, life, peer
<1> QED BY <1>3, <1>4, <1>5, <1>6, <1>7, <1>8, <1>9 DEF INext

\* The types, and that a client that talks is connected to a process that is
\* up with the CA the client trusts, whoever is killed or started beside it.
THEOREM ConnectionsAreServed == ISpec => []ITypeOK
<1>1. IInit => Connected
    BY DEF IInit, Connected
<1>2. IInv => CATypes
    BY DEF IInv
<1>3. TInv /\ CATypes /\ Connected => ITypeOK
    BY DEF TInv, CATypes, Connected, ITypeOK
<1> QED BY <1>1, <1>2, <1>3, ConnectedStep, InitHolds, StepKeeps, TInvOverConnections, PTL DEF ISpec
=============================================================================
