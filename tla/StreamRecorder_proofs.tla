------------------------ MODULE StreamRecorder_proofs ------------------------
(***************************************************************************)
(* Proofs about StreamRecorder, for streams of every length.               *)
(*                                                                         *)
(* FlattenSeq is recursive: what it returns is proved by least             *)
(* counterexamples, from the theorem that < is well-founded on Nat.        *)
(***************************************************************************)
EXTENDS StreamRecorder, SequenceTheorems, WellFoundedInduction, TLAPS

-----------------------------------------------------------------------------
(* FlattenSeq.                                                             *)

\* Every set of naturals that is not empty has a least element.
LEMMA LeastNatural ==
    ASSUME NEW T, T \subseteq Nat, T # {} PROVE \E n \in T : \A m \in T : n <= m
<1>1. PICK n \in T : \A m \in T : <<m, n>> \notin OpToRel(<, Nat)
    BY WFMin, NatLessThanWellFounded
<1>2. \A m \in T : ~ (m < n)
    BY <1>1 DEF OpToRel
<1> QED BY <1>2

\* f holds the concatenations of the first n sequences of cs.
Joins(f, cs, n) == f = [i \in 1 .. n |-> IF i = 1 THEN cs[i] ELSE f[i - 1] \o cs[i]]

\* Such a function exists: the recursion of FlattenSeq is well defined.
LEMMA JoinsExist == ASSUME NEW cs, NEW n \in Nat PROVE \E f : Joins(f, cs, n)
<1> DEFINE T == {m \in Nat : ~ \E f : Joins(f, cs, m)}
<1> SUFFICES ASSUME T # {} PROVE FALSE
    OBVIOUS
<1>1. PICK m \in T : \A k \in T : m <= k
    <2> HIDE DEF T
    <2>1. T \subseteq Nat
        BY DEF T
    <2> QED BY <2>1, LeastNatural
<1>2. CASE m = 0
    <2>1. Joins([i \in 1 .. 0 |-> cs[i]], cs, 0)
        BY DEF Joins
    <2> QED BY <1>2, <2>1
<1>3. CASE m # 0
    <2>1. m - 1 \in Nat /\ m - 1 \notin T
        BY <1>1, <1>3
    <2>2. PICK g : Joins(g, cs, m - 1)
        BY <2>1
    <2> DEFINE f == [i \in 1 .. m |-> IF i = m THEN (IF m = 1 THEN cs[m] ELSE g[m - 1] \o cs[m])
                                      ELSE g[i]]
    <2>3. ASSUME NEW i \in 1 .. m PROVE f[i] = IF i = 1 THEN cs[i] ELSE f[i - 1] \o cs[i]
        <3>1. CASE i = m
            BY <1>3, <3>1
        <3>2. CASE i # m
            <4>1. i \in 1 .. m - 1 /\ (i # 1 => f[i - 1] = g[i - 1])
                BY <3>2
            <4>2. g[i] = IF i = 1 THEN cs[i] ELSE g[i - 1] \o cs[i]
                BY <2>2, <4>1 DEF Joins
            <4> QED BY <3>2, <4>1, <4>2
        <3> QED BY <3>1, <3>2
    <2>4. Joins(f, cs, m)
        BY <2>3 DEF Joins
    <2> QED BY <2>4
<1> QED BY <1>2, <1>3

\* It depends on the sequences up to n alone.
LEMMA JoinsAgree ==
    ASSUME NEW cs, NEW ds, NEW n \in Nat, NEW m \in Nat, n <= m, NEW f, NEW g,
           Joins(f, cs, n), Joins(g, ds, m), \A i \in 1 .. n : cs[i] = ds[i]
    PROVE  \A i \in 1 .. n : f[i] = g[i]
<1> DEFINE T == {i \in 1 .. n : f[i] # g[i]}
<1> SUFFICES ASSUME T # {} PROVE FALSE
    OBVIOUS
<1>1. PICK i \in T : \A j \in T : i <= j
    <2>1. T \subseteq Nat
        OBVIOUS
    <2> HIDE DEF T
    <2> QED BY <2>1, LeastNatural
<1>2. i \in 1 .. n /\ f[i] # g[i] /\ (i # 1 => f[i - 1] = g[i - 1])
    BY <1>1
<1> HIDE DEF T
<1>0. i \in 1 .. m /\ cs[i] = ds[i]
    BY <1>2
<1>3. /\ f[i] = IF i = 1 THEN cs[i] ELSE f[i - 1] \o cs[i]
      /\ g[i] = IF i = 1 THEN ds[i] ELSE g[i - 1] \o ds[i]
    BY <1>0, <1>2 DEF Joins
<1> QED BY <1>0, <1>2, <1>3

\* Its values are sequences of what the sequences of cs hold.
LEMMA JoinsType ==
    ASSUME NEW S, NEW cs \in Seq(Seq(S)), NEW f, Joins(f, cs, Len(cs))
    PROVE  \A i \in 1 .. Len(cs) : f[i] \in Seq(S)
<1> DEFINE T == {i \in 1 .. Len(cs) : f[i] \notin Seq(S)}
<1> SUFFICES ASSUME T # {} PROVE FALSE
    OBVIOUS
<1>1. PICK i \in T : \A j \in T : i <= j
    <2>1. T \subseteq Nat
        OBVIOUS
    <2> HIDE DEF T
    <2> QED BY <2>1, LeastNatural
<1>2. i \in 1 .. Len(cs) /\ f[i] \notin Seq(S) /\ (i # 1 => f[i - 1] \in Seq(S))
    BY <1>1
<1> HIDE DEF T
<1>3. f[i] = IF i = 1 THEN cs[i] ELSE f[i - 1] \o cs[i]
    BY <1>2 DEF Joins
<1>4. cs[i] \in Seq(S)
    BY <1>2
<1>5. i # 1 => f[i - 1] \o cs[i] \in Seq(S)
    BY <1>2, <1>4
<1> QED BY <1>2, <1>3, <1>4, <1>5

\* The last of its values is FlattenSeq.
LEMMA FlattenIsJoins ==
    ASSUME NEW S, NEW cs \in Seq(Seq(S)), cs # <<>>
    PROVE  \E f : Joins(f, cs, Len(cs)) /\ FlattenSeq(cs) = f[Len(cs)]
<1>1. \E f : Joins(f, cs, Len(cs))
    BY JoinsExist
<1> DEFINE f == CHOOSE f : Joins(f, cs, Len(cs))
<1>2. Joins(f, cs, Len(cs))
    BY <1>1
<1>3. Len(cs) # 0
    OBVIOUS
<1>4. FlattenSeq(cs) = f[Len(cs)]
    BY <1>3 DEF FlattenSeq, Joins
<1> QED BY <1>2, <1>4

\* One more chunk adds its lines at the end.
LEMMA FlattenAppend ==
    ASSUME NEW S, NEW cs, NEW s, cs \in Seq(Seq(S)), s \in Seq(S)
    PROVE  FlattenSeq(Append(cs, s)) = FlattenSeq(cs) \o s
<1> DEFINE ds == Append(cs, s)
<1>1. /\ ds \in Seq(Seq(S)) /\ ds # <<>> /\ Len(ds) = Len(cs) + 1 /\ ds[Len(ds)] = s
      /\ \A i \in 1 .. Len(cs) : ds[i] = cs[i]
    BY AppendProperties
<1> HIDE DEF ds
<1>2. PICK g : Joins(g, ds, Len(ds)) /\ FlattenSeq(ds) = g[Len(ds)]
    BY <1>1, FlattenIsJoins
<1>3. FlattenSeq(ds) = IF Len(ds) = 1 THEN s ELSE g[Len(cs)] \o s
    <2>1. Len(cs) \in Nat /\ Len(ds) \in 1 .. Len(ds) /\ Len(ds) - 1 = Len(cs)
        BY <1>1
    <2>2. g[Len(ds)] = IF Len(ds) = 1 THEN ds[Len(ds)] ELSE g[Len(ds) - 1] \o ds[Len(ds)]
        BY <1>2, <2>1 DEF Joins
    <2> QED BY <1>1, <1>2, <2>1, <2>2
<1>4. CASE cs = <<>>
    <2>1. FlattenSeq(cs) = <<>>
        BY <1>4 DEF FlattenSeq
    <2> QED BY <1>1, <1>3, <1>4, <2>1 DEF ds
<1>5. CASE cs # <<>>
    <2>1. PICK f : Joins(f, cs, Len(cs)) /\ FlattenSeq(cs) = f[Len(cs)]
        BY <1>5, FlattenIsJoins
    <2>2. Len(cs) \in Nat \ {0}
        BY <1>5
    <2>3. f[Len(cs)] = g[Len(cs)]
        <3>1. \A i \in 1 .. Len(cs) : f[i] = g[i]
            <4>1. PICK n, m, d : n = Len(cs) /\ m = Len(ds) /\ d = ds
                OBVIOUS
            <4>2. n \in Nat /\ m \in Nat /\ n <= m /\ \A i \in 1 .. n : cs[i] = d[i]
                BY <1>1, <2>2, <4>1
            <4>3. Joins(f, cs, n) /\ Joins(g, d, m)
                BY <1>2, <2>1, <4>1
            <4>4. \A i \in 1 .. n : f[i] = g[i]
                BY ONLY <4>2, <4>3, JoinsAgree
            <4> QED BY <4>1, <4>4
        <3> QED BY <2>2, <3>1
    <2> QED BY <1>1, <1>3, <2>1, <2>2, <2>3 DEF ds
<1> QED BY <1>4, <1>5

\* The lines of chunks are lines.
LEMMA FlattenType ==
    ASSUME NEW S, NEW cs \in Seq(Seq(S)) PROVE FlattenSeq(cs) \in Seq(S)
<1>1. CASE cs = <<>>
    BY <1>1 DEF FlattenSeq
<1>2. CASE cs # <<>>
    BY <1>2, FlattenIsJoins, JoinsType
<1> QED BY <1>1, <1>2

\* Being a prefix survives what is added to the longer sequence.
LEMMA PrefixConcat ==
    ASSUME NEW S, NEW s \in Seq(S), NEW t \in Seq(S), NEW u \in Seq(S), IsPrefix(s, t)
    PROVE  IsPrefix(s, t \o u)
<1>1. Len(s) <= Len(t) /\ SubSeq(s, 1, Len(s)) = SubSeq(t, 1, Len(s))
    BY DEF IsPrefix
<1>2. t \o u \in Seq(S) /\ Len(t \o u) = Len(t) + Len(u)
    OBVIOUS
<1>3. SubSeq(t \o u, 1, Len(s)) = SubSeq(t, 1, Len(s))
    BY <1>1, <1>2
<1> QED BY <1>1, <1>2, <1>3 DEF IsPrefix

\* The first chunks are a prefix of all of them.
LEMMA FlattenPrefix ==
    ASSUME NEW S, NEW cs, NEW k, cs \in Seq(Seq(S)), k \in 0 .. Len(cs)
    PROVE  IsPrefix(FlattenSeq(SubSeq(cs, 1, k)), FlattenSeq(cs))
<1> DEFINE T == {j \in k .. Len(cs) :
                    ~ IsPrefix(FlattenSeq(SubSeq(cs, 1, k)), FlattenSeq(SubSeq(cs, 1, j)))}
<1>1. T = {}
    <2> SUFFICES ASSUME T # {} PROVE FALSE
        OBVIOUS
    <2>1. PICK j \in T : \A i \in T : j <= i
        <3>1. T \subseteq Nat
            OBVIOUS
        <3> HIDE DEF T
        <3> QED BY <3>1, LeastNatural
    <2>2. /\ j \in k .. Len(cs)
          /\ ~ IsPrefix(FlattenSeq(SubSeq(cs, 1, k)), FlattenSeq(SubSeq(cs, 1, j)))
          /\ j - 1 >= k => IsPrefix(FlattenSeq(SubSeq(cs, 1, k)), FlattenSeq(SubSeq(cs, 1, j - 1)))
        BY <2>1
    <2> HIDE DEF T
    <2>3. \A i \in k .. Len(cs) : SubSeq(cs, 1, i) \in Seq(Seq(S))
        OBVIOUS
    <2>4. \A i \in k .. Len(cs) : FlattenSeq(SubSeq(cs, 1, i)) \in Seq(S)
        BY <2>3, FlattenType
    <2>5. CASE j = k
        BY <2>2, <2>4, <2>5 DEF IsPrefix
    <2>6. CASE j > k
        <3>1. j - 1 \in k .. Len(cs) /\ j \in 1 .. Len(cs) /\ cs[j] \in Seq(S)
            BY <2>2, <2>6
        <3>2. SubSeq(cs, 1, j) = Append(SubSeq(cs, 1, j - 1), cs[j])
            BY <3>1
        <3>3. FlattenSeq(SubSeq(cs, 1, j)) = FlattenSeq(SubSeq(cs, 1, j - 1)) \o cs[j]
            BY <2>3, <3>1, <3>2, FlattenAppend
        <3>4. /\ FlattenSeq(SubSeq(cs, 1, k)) \in Seq(S)
              /\ FlattenSeq(SubSeq(cs, 1, j - 1)) \in Seq(S)
            BY <2>4, <3>1
        <3>5. IsPrefix(FlattenSeq(SubSeq(cs, 1, k)), FlattenSeq(SubSeq(cs, 1, j - 1)))
            BY <2>2, <3>1
        <3>6. IsPrefix(FlattenSeq(SubSeq(cs, 1, k)), FlattenSeq(SubSeq(cs, 1, j - 1)) \o cs[j])
            BY <3>1, <3>4, <3>5, PrefixConcat
        <3> QED BY <2>2, <3>3, <3>6
    <2> QED BY <2>2, <2>5, <2>6
<1>2. Len(cs) \in k .. Len(cs) /\ SubSeq(cs, 1, Len(cs)) = cs
    OBVIOUS
<1>3. IsPrefix(FlattenSeq(SubSeq(cs, 1, k)), FlattenSeq(SubSeq(cs, 1, Len(cs))))
    BY <1>1, <1>2
<1> QED BY <1>2, <1>3

-----------------------------------------------------------------------------
(* Recording.                                                              *)

\* No line of ev ends an event.
IsOpen(ev) == \A j \in 1 .. Len(ev) : ev[j] \notin blanks

\* c is one event, with its empty line.
IsEvent(c) ==
    /\ c # <<>> /\ c[Len(c)] \in blanks
    /\ \A j \in 1 .. Len(c) - 1 : c[j] \notin blanks

\* cs and ev cut the lines b: whole events, and the beginning of one.
Cutting(b, ev, cs) ==
    /\ ev \in Seq(Lines) /\ cs \in Seq(Seq(Lines))
    /\ b = FlattenSeq(cs) \o ev
    /\ IsOpen(ev)
    /\ \A i \in 1 .. Len(cs) : IsEvent(cs[i])

\* The chunks and the event under way cut the body; a completed stream has its
\* trailing data as one more chunk.
Cut ==
    /\ event \in Seq(Lines) /\ chunks \in Seq(Seq(Lines))
    /\ status \in {"piping", "ok", "upstream_error", "client_error"}
    /\ status # "ok" => Cutting(body, event, chunks)
    /\ status = "ok" =>
        /\ body = FlattenSeq(chunks)
        /\ \A i \in 1 .. Len(chunks) :
              IsEvent(chunks[i]) \/ (i = Len(chunks) /\ chunks[i] # <<>> /\ IsOpen(chunks[i]))

\* What was received is the first lines of the upstream, and is the body.
Copied ==
    /\ size \in 0 .. MaxLines /\ blanks \in SUBSET Lines /\ read \in 0 .. size
    /\ body \in Seq(Lines) /\ written = body
    /\ \A i \in 1 .. Len(body) : body[i] = i
    /\ Len(body) <= read
    /\ status = "piping" => Len(body) = read

\* A replay begins when the recording has ended, and plays the chunks in turn.
Replayed ==
    /\ replay \in {"off", "playing", "ok", "client_error"}
    /\ next \in 1 .. Len(chunks) + 1
    /\ status = "piping" => replay = "off"
    /\ replay = "off" => next = 1 /\ played = <<>>
    /\ replay = "playing" => Len(chunks) > 0
    /\ replay \in {"playing", "client_error"} =>
        played = FlattenSeq(SubSeq(chunks, 1, next - 1))
    /\ replay = "ok" =>
        \/ Len(chunks) = 0 /\ played = body
        \/ Len(chunks) > 0 /\ played = FlattenSeq(chunks)

\* The inductive invariant.
SInv == Copied /\ Cut /\ Replayed

\* The initial states satisfy the invariant.
LEMMA SInvInit == Init => SInv
<1> SUFFICES ASSUME Init PROVE SInv
    OBVIOUS
<1>1. Copied
    BY StreamAssumption DEF Init, Copied, Lines
<1>2. Cutting(<<>>, <<>>, <<>>)
    BY DEF Cutting, IsOpen, FlattenSeq
<1>3. Cut
    BY <1>2 DEF Init, Cut
<1>4. Replayed
    BY DEF Init, Replayed
<1> QED BY <1>1, <1>3, <1>4 DEF SInv

\* The end of the stream, or none, after ev and cs cut the new body.
LEMMA EndsKeeps ==
    ASSUME NEW err, NEW ev, NEW cs, status = "piping", blanks' = blanks,
           Cutting(body', ev, cs), Ends(err, ev, cs)
    PROVE  Cut'
<1>1. IsOpen(ev) /\ \A i \in 1 .. Len(cs) : IsEvent(cs[i])
    BY DEF Cutting
<1>2. event' = ev /\ ev \in Seq(Lines) /\ cs \in Seq(Seq(Lines)) /\ body' = FlattenSeq(cs) \o ev
    BY DEF Ends, EndOfFile, Cutting
<1>3. \A c : IsEvent(c)' <=> IsEvent(c)
    BY DEF IsEvent
<1>4. \A c : IsOpen(c)' <=> IsOpen(c)
    BY DEF IsOpen
<1>5. CASE status' # "ok"
    <2>1. chunks' = cs /\ status' \in {"piping", "upstream_error"}
        BY <1>5 DEF Ends
    <2>2. Cutting(body, event, chunks)'
        BY <1>2, <2>1 DEF Cutting, IsEvent, IsOpen
    <2> QED BY <1>2, <1>5, <2>1, <2>2 DEF Cut
<1>6. CASE status' = "ok"
    <2>1. chunks' = IF ev = <<>> THEN cs ELSE Append(cs, ev)
        BY <1>6 DEF Ends, EndOfFile
    <2>2. chunks' \in Seq(Seq(Lines))
        BY <1>2, <2>1
    <2>3. body' = FlattenSeq(chunks')
        <3>1. CASE ev = <<>>
            <4>1. FlattenSeq(cs) \in Seq(Lines)
                BY <1>2, FlattenType
            <4> QED BY <1>2, <2>1, <3>1, <4>1
        <3>2. CASE ev # <<>>
            BY <1>2, <2>1, <3>2, FlattenAppend
        <3> QED BY <3>1, <3>2
    <2>4. ASSUME NEW i \in 1 .. Len(chunks')
          PROVE  \/ IsEvent(chunks'[i])
                 \/ i = Len(chunks') /\ chunks'[i] # <<>> /\ IsOpen(chunks'[i])
        <3>1. CASE i \in 1 .. Len(cs)
            BY <1>1, <1>2, <2>1, <3>1
        <3>2. CASE i \notin 1 .. Len(cs)
            <4>1. ev # <<>> /\ i = Len(cs) + 1 /\ Len(chunks') = Len(cs) + 1 /\ chunks'[i] = ev
                BY <1>2, <2>1, <3>2
            <4> QED BY <1>1, <4>1
        <3> QED BY <3>1, <3>2
    <2> QED BY <1>2, <1>3, <1>4, <1>6, <2>2, <2>3, <2>4 DEF Cut
<1> QED BY <1>5, <1>6

\* A line read belongs to the event under way, and ends it if it is empty.
LEMMA LineKeeps ==
    ASSUME NEW err, SInv, PipeLine(err) PROVE SInv'
<1> DEFINE line == read + 1
<1>1. /\ line \in Lines /\ line \in 1 .. size /\ Len(body) = read /\ status = "piping"
      /\ body' = Append(body, line) /\ written' = body' /\ read' = line
      /\ UNCHANGED <<size, blanks, played, next, replay>>
    BY StreamAssumption DEF SInv, Copied, PipeLine, pvars, Lines
<1>2. /\ Cutting(body, event, chunks) /\ event \in Seq(Lines) /\ chunks \in Seq(Seq(Lines))
      /\ body \in Seq(Lines) /\ IsOpen(event)
      /\ \A i \in 1 .. Len(chunks) : IsEvent(chunks[i])
    BY <1>1 DEF SInv, Cut, Copied, Cutting
<1> HIDE DEF line
<1>3. Copied'
    <2>1. body' \in Seq(Lines) /\ Len(body') = Len(body) + 1
          /\ \A i \in 1 .. Len(body') : body'[i] = i
        BY <1>1, <1>2 DEF SInv, Copied, line
    <2> QED BY <1>1, <2>1 DEF SInv, Copied, line
<1>4. FlattenSeq(chunks) \in Seq(Lines) /\ body = FlattenSeq(chunks) \o event
    BY <1>2, FlattenType DEF Cutting
<1>5. Append(event, line) \in Seq(Lines)
      /\ body' = FlattenSeq(chunks) \o Append(event, line)
    <2>1. Append(FlattenSeq(chunks) \o event, line) = FlattenSeq(chunks) \o Append(event, line)
        <3>1. PICK f, ev, x : f = FlattenSeq(chunks) /\ ev = event /\ x = line
            OBVIOUS
        <3>2. f \in Seq(Lines) /\ ev \in Seq(Lines) /\ x \in Lines
            BY <1>1, <1>2, <1>4, <3>1
        <3>3. Append(f \o ev, x) = f \o Append(ev, x)
            <4>1. /\ <<x>> \in Seq(Lines)
                  /\ Append(ev, x) = ev \o <<x>>
                  /\ Append(f \o ev, x) = (f \o ev) \o <<x>>
                BY <3>2
            <4> QED BY <3>2, <4>1, ConcatAssociative
        <3> QED BY <3>1, <3>3
    <2> QED BY <1>1, <1>2, <1>4, <2>1
<1>6. ASSUME line \in blanks PROVE Cut'
    <2> DEFINE c  == Append(event, line)
               cs == Append(chunks, c)
    <2>1. IsEvent(c)
        BY <1>1, <1>2, <1>6 DEF IsEvent, IsOpen
    <2>2. cs \in Seq(Seq(Lines)) /\ \A i \in 1 .. Len(cs) : IsEvent(cs[i])
        <3> HIDE DEF c
        <3>1. c \in Seq(Lines)
            BY <1>5 DEF c
        <3>2. cs \in Seq(Seq(Lines)) /\ Len(cs) = Len(chunks) + 1 /\ cs[Len(cs)] = c
              /\ \A i \in 1 .. Len(chunks) : cs[i] = chunks[i]
            BY <1>2, <3>1, AppendProperties
        <3>3. ASSUME NEW i \in 1 .. Len(cs) PROVE IsEvent(cs[i])
            <4>1. i \in 1 .. Len(chunks) \/ i = Len(cs)
                BY <1>2, <3>2
            <4> QED BY <1>2, <2>1, <3>2, <4>1
        <3> QED BY <3>2, <3>3
    <2>3. body' = FlattenSeq(cs)
        BY <1>2, <1>5, FlattenAppend
    <2>4. Cutting(body', <<>>, cs)
        <3> HIDE DEF cs
        <3>1. FlattenSeq(cs) \in Seq(Lines)
            BY <2>2, FlattenType
        <3> QED BY <2>2, <2>3, <3>1 DEF Cutting, IsOpen
    <2>5. Ends(err, <<>>, cs)
        BY <1>6 DEF PipeLine, CutAfter, line
    <2> HIDE DEF cs
    <2> QED BY <1>1, <2>4, <2>5, EndsKeeps
<1>7. ASSUME line \notin blanks PROVE Cut'
    <2>1. IsOpen(Append(event, line))
        BY <1>1, <1>2, <1>7 DEF IsOpen
    <2>2. Cutting(body', Append(event, line), chunks)
        BY <1>2, <1>5, <2>1 DEF Cutting
    <2>3. Ends(err, Append(event, line), chunks)
        BY <1>7 DEF PipeLine, CutAfter, line
    <2> QED BY <1>1, <2>2, <2>3, EndsKeeps
<1>8. Cut'
    BY <1>6, <1>7
<1>9. Replayed'
    BY <1>1, <1>8 DEF SInv, Replayed, Cut
<1> QED BY <1>3, <1>8, <1>9 DEF SInv

\* The end of the stream that comes by itself.
LEMMA EndKeeps ==
    ASSUME NEW err, SInv, PipeEnd(err) PROVE SInv'
<1>1. /\ status = "piping" /\ Ends(err, event, chunks)
      /\ UNCHANGED <<size, blanks, read, written, body, played, next, replay>>
      /\ err # "nil" /\ Cutting(body, event, chunks)
    BY DEF SInv, Cut, PipeEnd, pvars
<1>2. Cutting(body', event, chunks)
    BY <1>1 DEF Cutting
<1>3. Cut'
    BY <1>1, <1>2, EndsKeeps
<1>4. status' # "piping"
    BY <1>1 DEF Ends
<1>5. Copied'
    BY <1>1, <1>4 DEF SInv, Copied
<1>6. Replayed'
    BY <1>1, <1>3, <1>4 DEF SInv, Replayed, Cut
<1> QED BY <1>3, <1>5, <1>6 DEF SInv

\* A client that is gone leaves the recording as it was.
LEMMA WriteFailsKeeps ==
    ASSUME SInv, WriteFails PROVE SInv'
<1>1. /\ status = "piping" /\ status' = "client_error" /\ read < size /\ read' = read + 1
      /\ UNCHANGED <<size, blanks, written, body, event, chunks, played, next, replay>>
    BY DEF WriteFails, pvars
<1>2. Copied'
    BY <1>1 DEF SInv, Copied
<1>3. Cutting(body, event, chunks)'
    BY <1>1 DEF SInv, Cut, Cutting, IsOpen, IsEvent
<1>4. Cut'
    BY <1>1, <1>3 DEF SInv, Cut
<1>5. Replayed'
    BY <1>1 DEF SInv, Replayed
<1> QED BY <1>2, <1>4, <1>5 DEF SInv

\* A step that leaves the recording alone keeps what is said of it.
LEMMA RecordingKept ==
    ASSUME Copied, Cut, UNCHANGED rvars PROVE Copied' /\ Cut'
<1>1. UNCHANGED <<size, blanks, read, written, body, event, chunks, status>>
    BY DEF rvars
<1>2. Copied'
    BY <1>1 DEF Copied
<1>3. Cut'
    BY <1>1 DEF Cut, Cutting, IsOpen, IsEvent
<1> QED BY <1>2, <1>3

-----------------------------------------------------------------------------
(* Replay.                                                                 *)

\* Every step of serveCassette keeps the invariant.
LEMMA ReplayKeeps ==
    ASSUME SInv, ReplayBegin \/ ReplayChunk \/ ReplayFails \/ ReplayEnd PROVE SInv'
<1>1. UNCHANGED rvars /\ UNCHANGED <<body, chunks, status>>
    BY DEF ReplayBegin, ReplayChunk, ReplayFails, ReplayEnd, rvars
<1>2. Copied' /\ Cut'
    BY <1>1, RecordingKept DEF SInv
<1>3. chunks \in Seq(Seq(Lines)) /\ Len(chunks) \in Nat
    BY DEF SInv, Cut
<1>4. CASE ReplayBegin
    <2>1. SubSeq(chunks, 1, 0) = <<>>
        BY <1>3
    <2>2. FlattenSeq(SubSeq(chunks, 1, 0)) = <<>>
        BY <2>1 DEF FlattenSeq
    <2>3. Replayed'
        BY <1>1, <1>3, <1>4, <2>2 DEF SInv, Replayed, ReplayBegin
    <2> QED BY <1>2, <2>3 DEF SInv
<1>5. CASE ReplayChunk
    <2>1. /\ replay = "playing" /\ replay' = replay /\ next' = next + 1
          /\ next \in 1 .. Len(chunks) /\ status # "piping"
          /\ played' = FlattenSeq(SubSeq(chunks, 1, next - 1)) \o chunks[next]
        <3>1. /\ replay = "playing" /\ replay' = replay /\ next' = next + 1
              /\ next <= Len(chunks) /\ played' = played \o chunks[next]
            BY <1>5 DEF ReplayChunk
        <3>2. next \in 1 .. Len(chunks) + 1 /\ status # "piping"
              /\ played = FlattenSeq(SubSeq(chunks, 1, next - 1))
            BY <3>1 DEF SInv, Replayed
        <3> QED BY <1>3, <3>1, <3>2
    <2>2. SubSeq(chunks, 1, next - 1) \in Seq(Seq(Lines)) /\ chunks[next] \in Seq(Lines)
          /\ SubSeq(chunks, 1, next) = Append(SubSeq(chunks, 1, next - 1), chunks[next])
        BY <1>3, <2>1
    <2>3. played' = FlattenSeq(SubSeq(chunks, 1, next))
        BY <2>1, <2>2, FlattenAppend
    <2>4. next' - 1 = next /\ next' \in 1 .. Len(chunks) + 1
        BY <1>3, <2>1
    <2>5. Replayed'
        BY <1>1, <1>3, <2>1, <2>3, <2>4 DEF SInv, Replayed
    <2> QED BY <1>2, <2>5 DEF SInv
<1>6. CASE ReplayFails
    <2>1. Replayed'
        BY <1>1, <1>6 DEF SInv, Replayed, ReplayFails
    <2> QED BY <1>2, <2>1 DEF SInv
<1>7. CASE ReplayEnd
    <2>1. next - 1 = Len(chunks) /\ Len(chunks) > 0 /\ status # "piping"
          /\ replay' = "ok" /\ UNCHANGED <<played, next>>
          /\ played = FlattenSeq(SubSeq(chunks, 1, next - 1))
        BY <1>3, <1>7 DEF SInv, Replayed, ReplayEnd
    <2>2. SubSeq(chunks, 1, Len(chunks)) = chunks
        BY <1>3
    <2>3. Replayed'
        BY <1>1, <1>3, <2>1, <2>2 DEF SInv, Replayed
    <2> QED BY <1>2, <2>3 DEF SInv
<1> QED BY <1>4, <1>5, <1>6, <1>7

\* Every step keeps the invariant.
LEMMA SInvStep == SInv /\ [Next]_vars => SInv'
<1> SUFFICES ASSUME SInv, [Next]_vars PROVE SInv'
    OBVIOUS
<1>1. CASE Next
    BY <1>1, LineKeeps, EndKeeps, WriteFailsKeeps, ReplayKeeps DEF Next
<1>2. CASE UNCHANGED vars
    <2>1. UNCHANGED rvars /\ UNCHANGED <<played, next, replay, body, chunks, status>>
        BY <1>2 DEF vars, rvars
    <2>2. Copied' /\ Cut'
        BY <2>1, RecordingKept DEF SInv
    <2>3. Replayed'
        BY <2>1 DEF SInv, Replayed
    <2> QED BY <2>2, <2>3 DEF SInv
<1> QED BY <1>1, <1>2

\* SInv is an invariant.
LEMMA SInvInvariant == Spec => []SInv
BY SInvInit, SInvStep, PTL DEF Spec

-----------------------------------------------------------------------------
(* The properties.                                                         *)

\* What a replay has played of a recording, in each of its states.
LEMMA PlayedIsPrefix == SInv => played \in Seq(Lines) /\ IsPrefix(played, body)
<1> SUFFICES ASSUME SInv PROVE played \in Seq(Lines) /\ IsPrefix(played, body)
    OBVIOUS
<1>1. /\ chunks \in Seq(Seq(Lines)) /\ Len(chunks) \in Nat
      /\ event \in Seq(Lines) /\ body \in Seq(Lines)
    BY DEF SInv, Cut, Copied
<1>2. FlattenSeq(chunks) \in Seq(Lines)
    BY <1>1, FlattenType
<1>3. \A s \in Seq(Lines) : IsPrefix(s, s)
    BY DEF IsPrefix
<1>4. IsPrefix(FlattenSeq(chunks), body)
    <2>1. CASE status = "ok"
        BY <1>2, <1>3, <2>1 DEF SInv, Cut
    <2>2. CASE status # "ok"
        BY <1>1, <1>2, <1>3, <2>2, PrefixConcat DEF SInv, Cut, Cutting
    <2> QED BY <2>1, <2>2
<1>5. \A k \in 0 .. Len(chunks) :
        /\ FlattenSeq(SubSeq(chunks, 1, k)) \in Seq(Lines)
        /\ IsPrefix(FlattenSeq(SubSeq(chunks, 1, k)), body)
    <2> SUFFICES ASSUME NEW k \in 0 .. Len(chunks)
                 PROVE  /\ FlattenSeq(SubSeq(chunks, 1, k)) \in Seq(Lines)
                        /\ IsPrefix(FlattenSeq(SubSeq(chunks, 1, k)), body)
        OBVIOUS
    <2>1. SubSeq(chunks, 1, k) \in Seq(Seq(Lines))
        BY <1>1
    <2>2. FlattenSeq(SubSeq(chunks, 1, k)) \in Seq(Lines)
        BY <2>1, FlattenType
    <2>3. IsPrefix(FlattenSeq(SubSeq(chunks, 1, k)), FlattenSeq(chunks))
        BY <1>1, FlattenPrefix
    <2>4. CASE status = "ok"
        BY <2>2, <2>3, <2>4 DEF SInv, Cut
    <2>5. CASE status # "ok"
        BY <1>1, <1>2, <2>2, <2>3, <2>5, PrefixConcat DEF SInv, Cut, Cutting
    <2> QED BY <2>2, <2>4, <2>5
<1>6. next - 1 \in 0 .. Len(chunks)
    BY <1>1 DEF SInv, Replayed
<1>7. CASE replay = "off"
    <2>1. <<>> \in Seq(Lines) /\ Len(<<>>) = 0 /\ SubSeq(<<>>, 1, 0) = SubSeq(body, 1, 0)
        BY <1>1
    <2> QED BY <1>1, <1>7, <2>1 DEF SInv, Replayed, IsPrefix
<1>8. CASE replay \in {"playing", "client_error"}
    BY <1>5, <1>6, <1>8 DEF SInv, Replayed
<1>9. CASE replay = "ok"
    BY <1>1, <1>2, <1>3, <1>4, <1>9 DEF SInv, Replayed
<1> QED BY <1>7, <1>8, <1>9 DEF SInv, Replayed

\* Type correctness, for streams of every length.
THEOREM StreamTypes == Spec => []TypeOK
<1>1. SInv => TypeOK
    BY PlayedIsPrefix DEF SInv, Copied, Cut, Replayed, TypeOK
<1> QED BY <1>1, SInvInvariant, PTL

\* The body is what the client received, and the chunks cut it.
THEOREM BodyIsCut == Spec => []CutsTheBody
<1>1. SInv => CutsTheBody
    <2> SUFFICES ASSUME SInv PROVE CutsTheBody
        OBVIOUS
    <2>1. body = [i \in 1 .. Len(body) |-> i]
        BY DEF SInv, Copied
    <2> QED BY <2>1 DEF SInv, Copied, Cut, Cutting, CutsTheBody
<1> QED BY <1>1, SInvInvariant, PTL

\* Every chunk is one event, or the trailing data of a completed stream.
THEOREM ChunksAreWholeEvents == Spec => []ChunksAreEvents
<1>1. SInv => ChunksAreEvents
    <2> SUFFICES ASSUME SInv, NEW i \in 1 .. Len(chunks)
                 PROVE  /\ \A j \in 1 .. Len(chunks[i]) - 1 : chunks[i][j] \notin blanks
                        /\ chunks[i][Len(chunks[i])] \notin blanks =>
                             status = "ok" /\ i = Len(chunks)
        BY DEF ChunksAreEvents, SInv, Cut
    <2>1. chunks[i] \in Seq(Lines)
        BY DEF SInv, Cut
    <2>2. IsEvent(chunks[i]) \/ (status = "ok" /\ i = Len(chunks) /\ IsOpen(chunks[i]))
        BY DEF SInv, Cut, Cutting
    <2> QED BY <2>1, <2>2 DEF IsEvent, IsOpen
<1> QED BY <1>1, SInvInvariant, PTL

\* A replay gives a prefix of the recording, and all of a completed one.
THEOREM ReplaysRepeat == Spec => []ReplayRepeats
<1>1. SInv => ReplayRepeats
    BY PlayedIsPrefix DEF SInv, Copied, Cut, Replayed, ReplayRepeats, FlattenSeq
<1> QED BY <1>1, SInvInvariant, PTL
=============================================================================
