--------------------------- MODULE Gateway_proofs ---------------------------
(***************************************************************************)
(* Proofs about Gateway, for any asks, requests, replies, configurations   *)
(* and any number of cassettes.                                            *)
(***************************************************************************)
EXTENDS Gateway, SequenceTheorems, WellFoundedInduction, TLAPS

-----------------------------------------------------------------------------
(* Detection.                                                              *)

\* A pair of segments is in a path when one follows the other.
LEMMA HasPair ==
    ASSUME NEW S, NEW s \in Seq(S), NEW path, path.segs = s, NEW a, NEW b
    PROVE  Has(path, <<a, b>>) <=> \E i \in 1 .. Len(s) - 1 : s[i] = a /\ s[i + 1] = b
<1>1. ASSUME NEW i \in 0 .. Len(s) - 2
      PROVE  SubSeq(s, i + 1, i + 2) = <<s[i + 1], s[i + 2]>>
  <2> DEFINE sub == SubSeq(s, i + 1, i + 2)
             pair == <<s[i + 1], s[i + 2]>>
  <2>1. sub \in Seq(S) /\ Len(sub) = 2 /\ \A k \in 1 .. 2 : sub[k] = s[i + k]
    BY <1>1, SubSeqProperties
  <2>2. s[i + 1] \in S /\ s[i + 2] \in S
    BY <1>1
  <2>3. pair \in Seq(S) /\ Len(pair) = 2 /\ pair[1] = s[i + 1] /\ pair[2] = s[i + 2]
    BY <2>2
  <2> HIDE DEF sub, pair
  <2>4. sub[1] = s[i + 1] /\ sub[2] = s[i + 2]
    BY <2>1
  <2>5. sub = pair
    BY <2>1, <2>3, <2>4, SeqEqual
  <2>. QED
    BY <2>5 DEF sub, pair
<1>2. Has(path, <<a, b>>) <=> \E i \in 0 .. Len(s) - 2 : SubSeq(s, i + 1, i + 2) = <<a, b>>
  <2>1. Has(path, <<a, b>>) <=> \E i \in 0 .. Len(s) - Len(<<a, b>>) :
                SubSeq(s, i + 1, i + Len(<<a, b>>)) = <<a, b>>
    BY Zenon DEF Has
  <2>2. Len(<<a, b>>) = 2
    OBVIOUS
  <2>. QED
    BY <2>1, <2>2
<1>3. (\E i \in 0 .. Len(s) - 2 : SubSeq(s, i + 1, i + 2) = <<a, b>>)
        <=> \E i \in 0 .. Len(s) - 2 : s[i + 1] = a /\ s[i + 2] = b
  <2>1. \A x, y : <<x, y>> = <<a, b>> <=> x = a /\ y = b
    OBVIOUS
  <2>2. \A i \in 0 .. Len(s) - 2 : SubSeq(s, i + 1, i + 2) = <<a, b>>
            <=> s[i + 1] = a /\ s[i + 2] = b
    BY <1>1, <2>1, Zenon
  <2>. QED
    BY <2>2, Zenon
<1>4. (\E i \in 0 .. Len(s) - 2 : s[i + 1] = a /\ s[i + 2] = b)
        <=> \E i \in 1 .. Len(s) - 1 : s[i] = a /\ s[i + 1] = b
  <2>1. Len(s) \in Nat
    OBVIOUS
  <2>2. ASSUME NEW i \in 0 .. Len(s) - 2, s[i + 1] = a, s[i + 2] = b
        PROVE  \E j \in 1 .. Len(s) - 1 : s[j] = a /\ s[j + 1] = b
    <3>1. i + 1 \in 1 .. Len(s) - 1 /\ (i + 1) + 1 = i + 2
      BY <2>1
    <3>. QED
      BY <2>2, <3>1
  <2>3. ASSUME NEW j \in 1 .. Len(s) - 1, s[j] = a, s[j + 1] = b
        PROVE  \E i \in 0 .. Len(s) - 2 : s[i + 1] = a /\ s[i + 2] = b
    <3>1. j - 1 \in 0 .. Len(s) - 2 /\ (j - 1) + 1 = j /\ (j - 1) + 2 = j + 1
      BY <2>1
    <3>. QED
      BY <2>3, <3>1
  <2>. QED
    BY <2>2, <2>3
<1>. QED
  BY <1>2, <1>3, <1>4

\* Every set of naturals that is not empty has a least element.
LEMMA LeastNatural ==
    ASSUME NEW T, T \subseteq Nat, T # {} PROVE \E n \in T : \A m \in T : n <= m
<1>1. PICK n \in T : \A m \in T : <<m, n>> \notin OpToRel(<, Nat)
    BY WFMin, NatLessThanWellFounded
<1>2. \A m \in T : ~ (m < n)
    BY <1>1 DEF OpToRel
<1> QED BY <1>2

\* What Min chooses.
LEMMA MinIs ==
    ASSUME NEW T, T \subseteq Int, NEW n \in T, \A m \in T : n <= m
    PROVE  Min(T) = n
<1>1. \E x \in T : \A y \in T : x <= y
  OBVIOUS
<1>2. Min(T) \in T /\ \A y \in T : Min(T) <= y
  BY <1>1 DEF Min
<1>3. PICK m \in Int : m = Min(T)
  BY <1>2
<1>4. n \in Int /\ n <= m /\ m <= n
  BY <1>2, <1>3
<1>. QED
  BY <1>3, <1>4

\* The first of the three signs that is there decides.
LEMMA FirstSign ==
    ASSUME NEW r, Lower(r.override) \notin Registered
    PROVE  /\ Signs(r).azure => DetectProvider(r) = "azure"
           /\ ~Signs(r).azure /\ Signs(r).anthropic => DetectProvider(r) = "anthropic"
           /\ ~Signs(r).azure /\ ~Signs(r).anthropic /\ Signs(r).gemini
                => DetectProvider(r) = "gemini"
           /\ ~Signs(r).azure /\ ~Signs(r).anthropic /\ ~Signs(r).gemini
                => DetectProvider(r) = "openai"
<1> DEFINE order == <<"azure", "anthropic", "gemini">>
           I == {i \in 1 .. Len(order) : Signs(r)[order[i]]}
<1>1. /\ order[1] = "azure" /\ order[2] = "anthropic" /\ order[3] = "gemini"
      /\ Len(order) = 3
  OBVIOUS
<1>2. I \subseteq 1 .. 3
  BY <1>1
<1>3. DetectProvider(r) = IF (IF I # {} THEN Min(I) ELSE 0) # 0
                          THEN order[IF I # {} THEN Min(I) ELSE 0] ELSE "openai"
  BY DEF DetectProvider, SelectInSeq
<1>4. ASSUME NEW n \in I, \A m \in I : n <= m PROVE DetectProvider(r) = order[n]
  <2>1. I # {} /\ Min(I) = n /\ n # 0
    BY <1>2, <1>4, MinIs
  <2> HIDE DEF I, order
  <2>. QED
    BY <1>3, <2>1
<1>5. ASSUME I = {} PROVE DetectProvider(r) = "openai"
  BY <1>3, <1>5
<1>6. ASSUME Signs(r).azure PROVE DetectProvider(r) = "azure"
  <2>1. 1 \in I /\ \A m \in I : 1 <= m
    BY <1>1, <1>2, <1>6
  <2> HIDE DEF I, order
  <2>. QED
    BY <1>1, <1>4, <2>1
<1>7. ASSUME ~Signs(r).azure, Signs(r).anthropic
      PROVE  DetectProvider(r) = "anthropic"
  <2>1. 2 \in I /\ 1 \notin I
    BY <1>1, <1>7
  <2>2. \A m \in I : 2 <= m
    BY <1>2, <2>1
  <2> HIDE DEF I, order
  <2>. QED
    BY <1>1, <1>4, <2>1, <2>2
<1>8. ASSUME ~Signs(r).azure, ~Signs(r).anthropic, Signs(r).gemini
      PROVE  DetectProvider(r) = "gemini"
  <2>1. 3 \in I /\ 1 \notin I /\ 2 \notin I
    BY <1>1, <1>8
  <2>2. \A m \in I : 3 <= m
    BY <1>2, <2>1
  <2> HIDE DEF I, order
  <2>. QED
    BY <1>1, <1>4, <2>1, <2>2
<1>9. ASSUME ~Signs(r).azure, ~Signs(r).anthropic, ~Signs(r).gemini
      PROVE  DetectProvider(r) = "openai"
  <2>1. 1 \notin I /\ 2 \notin I /\ 3 \notin I
    BY <1>1, <1>9
  <2>2. I = {}
    BY <1>2, <2>1
  <2>. QED
    BY <1>5, <2>2
<1>. QED
  BY <1>6, <1>7, <1>8, <1>9

\* What the fields of a path are.
LEMMA PathFields ==
    ASSUME NEW p, NEW s, NEW v, p = [segs |-> s, verb |-> v] PROVE p.segs = s /\ p.verb = v
OBVIOUS

\* Which pairs are in the path of each provider's requests.
LEMMA OpenAIPath ==
    ASSUME NEW path, path.segs = <<"v1", "chat", "completions">>, NEW a, NEW b, Has(path, <<a, b>>)
    PROVE  a \in {"v1", "chat"} /\ b \in {"chat", "completions"}
<1> DEFINE s == <<"v1", "chat", "completions">>
           S == {"v1", "chat", "completions"}
<1>1. s \in Seq(S) /\ Len(s) = 3 /\ s[1] = "v1" /\ s[2] = "chat" /\ s[3] = "completions"
  OBVIOUS
<1>2. path.segs = s
  OBVIOUS
<1> HIDE DEF s, S
<1>3. PICK i \in 1 .. Len(s) - 1 : s[i] = a /\ s[i + 1] = b
  BY <1>1, <1>2, HasPair
<1>4. i \in {1, 2}
  BY <1>1
<1>. QED
  BY <1>1, <1>3, <1>4

LEMMA AnthropicPath ==
    ASSUME NEW path, path.segs = <<"v1", "messages">>, NEW a, NEW b, Has(path, <<a, b>>)
    PROVE  a = "v1" /\ b = "messages"
<1> DEFINE s == <<"v1", "messages">>
           S == {"v1", "messages"}
<1>1. s \in Seq(S) /\ Len(s) = 2 /\ s[1] = "v1" /\ s[2] = "messages"
  OBVIOUS
<1>2. path.segs = s
  OBVIOUS
<1> HIDE DEF s, S
<1>3. PICK i \in 1 .. Len(s) - 1 : s[i] = a /\ s[i + 1] = b
  BY <1>1, <1>2, HasPair
<1>4. i = 1
  BY <1>1
<1>. QED
  BY <1>1, <1>3, <1>4

LEMMA GeminiPath ==
    ASSUME NEW path, NEW m, path.segs = <<"v1beta", "models", m>>, NEW a, NEW b,
           Has(path, <<a, b>>)
    PROVE  a \in {"v1beta", "models"}
<1> DEFINE s == <<"v1beta", "models", m>>
           S == {"v1beta", "models", m}
<1>1. s \in Seq(S) /\ Len(s) = 3 /\ s[1] = "v1beta" /\ s[2] = "models"
  OBVIOUS
<1>2. path.segs = s
  OBVIOUS
<1> HIDE DEF s, S
<1>3. PICK i \in 1 .. Len(s) - 1 : s[i] = a /\ s[i + 1] = b
  BY <1>1, <1>2, HasPair
<1>4. i \in {1, 2}
  BY <1>1
<1>. QED
  BY <1>1, <1>3, <1>4

LEMMA AzurePath ==
    ASSUME NEW path, NEW m,
           path.segs = <<"openai", "deployments", m, "chat", "completions">>
    PROVE  Has(path, <<"openai", "deployments">>)
<1> DEFINE s == <<"openai", "deployments", m, "chat", "completions">>
           S == {"openai", "deployments", m, "chat", "completions"}
<1>1. s \in Seq(S) /\ Len(s) = 5 /\ s[1] = "openai" /\ s[2] = "deployments"
  OBVIOUS
<1>2. path.segs = s
  OBVIOUS
<1> HIDE DEF s, S
<1>3. 1 \in 1 .. Len(s) - 1 /\ s[1] = "openai" /\ s[1 + 1] = "deployments"
  BY <1>1
<1>. QED
  BY <1>1, <1>2, <1>3, HasPair

\* The parts of a request that detection looks at.
LEMMA WireParts ==
    ASSUME NEW ask, NEW style
    PROVE  LET r == Wire(ask, style) IN
             /\ r.path = Path(ask)
             /\ r.host = IF style = "direct" THEN ask.provider ELSE "local"
             /\ r.override = IF style = "named" THEN Capital(ask.provider) ELSE ""
             /\ r.keys = IF ask.provider = "anthropic"
                         THEN {"x-api-key", "anthropic-version"} ELSE {}
BY DEF Wire

\* Whatever spelling the client chose, through the proxy's address or the
\* provider's own, with the header or without: a request is taken for the
\* provider whose client sent it (DetectProvider).
THEOREM ProvidersAreDetected ==
    ASSUME NEW ask, ask.provider \in Registered, NEW style \in Styles
    PROVE  DetectProvider(Wire(ask, style)) = ask.provider
<1>1. PICK r : /\ r = Wire(ask, style)
               /\ r.path = Path(ask)
               /\ r.host = IF style = "direct" THEN ask.provider ELSE "local"
               /\ r.override = IF style = "named" THEN Capital(ask.provider) ELSE ""
               /\ r.keys = IF ask.provider = "anthropic"
                           THEN {"x-api-key", "anthropic-version"} ELSE {}
  BY WireParts
<1>2. CASE style = "named"
  <2>1. Lower(Capital(ask.provider)) = ask.provider
    BY ClientsAssumption DEF Capital, Lower
  <2>. QED
    BY <1>1, <1>2, <2>1 DEF DetectProvider
<1>3. CASE style # "named"
  <2>1. Lower(r.override) \notin Registered
    BY <1>1, <1>3, RequestsAssumption DEF Lower, Registered
  <2>2. /\ Signs(r).azure = (Has(r.path, <<"openai", "deployments">>) \/ r.host = "azure")
        /\ Signs(r).anthropic =
             \/ Has(r.path, <<"v1", "messages">>) \/ Has(r.path, <<"v1", "complete">>)
             \/ r.host = "anthropic"
             \/ r.keys \cap {"anthropic-version", "x-api-key"} # {}
        /\ Signs(r).gemini =
             \/ r.path.verb \in {"generateContent", "streamGenerateContent"}
             \/ Has(r.path, <<"v1beta", "models">>) \/ r.host = "gemini"
    BY DEF Signs
  <2>3. CASE ask.provider = "openai"
    <3>1. r.path = [segs |-> <<"v1", "chat", "completions">>, verb |-> ""]
      BY <1>1, <2>3, Zenon DEF Path
    <3>2. r.path.segs = <<"v1", "chat", "completions">> /\ r.path.verb = ""
      BY <3>1, PathFields
    <3>3. /\ ~Has(r.path, <<"openai", "deployments">>)
          /\ ~Has(r.path, <<"v1", "messages">>)
          /\ ~Has(r.path, <<"v1", "complete">>)
          /\ ~Has(r.path, <<"v1beta", "models">>)
      <4>1. \A a, b : Has(r.path, <<a, b>>)
                        => a \in {"v1", "chat"} /\ b \in {"chat", "completions"}
        BY <3>2, OpenAIPath, Zenon
      <4>. QED
        BY <4>1
    <3>4. r.keys = {} /\ r.host \in {"openai", "local"}
      BY <1>1, <2>3
    <3>5. ~Signs(r).azure /\ ~Signs(r).anthropic /\ ~Signs(r).gemini
      BY <2>2, <3>2, <3>3, <3>4
    <3>. QED
      BY <1>1, <2>1, <2>3, <3>5, FirstSign
  <2>4. CASE ask.provider = "anthropic"
    <3>1. r.path = [segs |-> <<"v1", "messages">>, verb |-> ""]
      BY <1>1, <2>4, Zenon DEF Path
    <3>2. r.path.segs = <<"v1", "messages">>
      BY <3>1, PathFields
    <3>3. ~Has(r.path, <<"openai", "deployments">>)
      BY <3>2, AnthropicPath
    <3>4. r.keys = {"x-api-key", "anthropic-version"} /\ r.host \in {"anthropic", "local"}
      BY <1>1, <2>4
    <3>5. ~Signs(r).azure /\ Signs(r).anthropic
      BY <2>2, <3>3, <3>4
    <3>. QED
      BY <1>1, <2>1, <2>4, <3>5, FirstSign
  <2>5. CASE ask.provider = "gemini"
    <3>1. r.path = [segs |-> <<"v1beta", "models", ask.model>>, verb |-> "generateContent"]
      BY <1>1, <2>5, Zenon DEF Path
    <3>2. r.path.segs = <<"v1beta", "models", ask.model>> /\ r.path.verb = "generateContent"
      BY <3>1, PathFields
    <3>3. /\ ~Has(r.path, <<"openai", "deployments">>)
          /\ ~Has(r.path, <<"v1", "messages">>)
          /\ ~Has(r.path, <<"v1", "complete">>)
      BY <3>2, GeminiPath
    <3>4. r.keys = {} /\ r.host \in {"gemini", "local"}
      BY <1>1, <2>5
    <3>5. ~Signs(r).azure /\ ~Signs(r).anthropic /\ Signs(r).gemini
      BY <2>2, <3>2, <3>3, <3>4
    <3>. QED
      BY <1>1, <2>1, <2>5, <3>5, FirstSign
  <2>6. CASE ask.provider = "azure"
    <3> DEFINE s == <<"openai", "deployments", ask.model, "chat", "completions">>
    <3>1. r.path = [segs |-> s, verb |-> ""]
      BY <1>1, <2>6, Zenon DEF Path
    <3>2. r.path.segs = s
      <4> HIDE DEF s
      <4>. QED
        BY <3>1, PathFields
    <3>3. Signs(r).azure
      BY <2>2, <3>2, AzurePath
    <3>. QED
      BY <1>1, <2>1, <2>6, <3>3, FirstSign
  <2>. QED
    BY <1>1, <2>3, <2>4, <2>5, <2>6 DEF Registered
<1>. QED
  BY <1>2, <1>3

-----------------------------------------------------------------------------
(* The configuration.                                                      *)

\* No word is lowered to the empty one but the empty one.
LEMMA LowerEmpty == ASSUME NEW w, Lower(w) = "" PROVE w = ""
BY RequestsAssumption DEF Lower

Listed(s) == \E S : s \in Seq(S)

LEMMA ThreeListed == ASSUME NEW a, NEW b, NEW d PROVE Listed(<<a, b, d>>)
<1> DEFINE S == {a, b, d}
<1>1. a \in S /\ b \in S /\ d \in S
  OBVIOUS
<1> HIDE DEF S
<1>2. <<a, b, d>> \in Seq(S)
  BY <1>1
<1>. QED
  BY <1>2 DEF Listed

\* What Start can make of a file, an environment and flags.
LEMMA StartsValid ==
    ASSUME NEW file, Listed(file.providers), NEW env, NEW flags, flags.format # "",
           Checked(Layered(file, env), flags)
    PROVE  LET c == Flagged(Validated(Layered(file, env)), flags) IN
             /\ c # Down
             /\ Lower(c.mode) \in {"record", "replay", "auto"}
             /\ Lower(c.format) \in {"yaml", "json"}
             /\ Listed(c.providers)
<1> DEFINE loaded == Layered(file, env)
           v == Validated(loaded)
           c == Flagged(v, flags)
<1>1. /\ v.format # "" /\ v.providers = loaded.providers
  BY DEF Validated, Layered
<1>2. Listed(loaded.providers)
  <2>1. CASE file.providers # <<>>
    BY <2>1 DEF Layered
  <2>2. CASE file.providers = <<>>
    <3>1. PICK a, b, d : loaded.providers = <<a, b, d>>
      BY <2>2 DEF Layered, DefaultConfig
    <3>2. Listed(<<a, b, d>>)
      BY ThreeListed
    <3>. QED
      BY <3>1, <3>2
  <2>. QED
    BY <2>1, <2>2
<1> HIDE DEF loaded, v
<1>3. Valid(c)
  BY DEF Checked, loaded, v
<1>4. c.up = TRUE /\ c.format # "" /\ c.providers = v.providers
  BY <1>1 DEF Flagged, Or
<1>5. c # Down
  <2>1. Down.up = FALSE
    BY DEF Down
  <2> HIDE DEF c
  <2>. QED
    BY <1>4, <2>1
<1> HIDE DEF c
<1>6. Lower(c.mode) \in {"record", "replay", "auto"} /\ Lower(c.format) \in {"yaml", "json"}
  BY <1>3, <1>4, LowerEmpty DEF Valid
<1>. QED
  BY <1>1, <1>2, <1>4, <1>5, <1>6 DEF c, v, loaded

\* The list of providers is the one the process started with.
ListOK == config # Down => Listed(config.providers)

UpInv == UpCanServe /\ ListOK

LEMMA UpInvariant == Spec => []UpInv
<1>1. Init => UpInv
  BY DEF Init, UpInv, UpCanServe, ListOK
<1>2. UpInv /\ [Next]_vars => UpInv'
  <2> SUFFICES ASSUME UpInv, [Next]_vars PROVE UpInv'
    OBVIOUS
  <2>1. CASE Start
    <3>1. PICK file \in Files, named \in BOOLEAN, env \in Settings, flags \in Settings :
            LET loaded == Layered(IF file.readable THEN file ELSE Blank, env) IN
              /\ Checked(loaded, flags)
              /\ config' = Flagged(Validated(loaded), flags)
      BY <2>1 DEF Start
    <3> DEFINE read == IF file.readable THEN file ELSE Blank
    <3>2. Listed(read.providers)
      <4>1. Listed(<<>>)
        <5>1. <<>> \in Seq({})
          OBVIOUS
        <5>. QED
          BY <5>1 DEF Listed
      <4>2. Listed(file.providers)
        BY GatewayAssumption DEF Listed
      <4>. QED
        BY <4>1, <4>2 DEF Blank
    <3>3. flags.format # ""
      BY GatewayAssumption
    <3> HIDE DEF read
    <3>4. Checked(Layered(read, env), flags)
          /\ config' = Flagged(Validated(Layered(read, env)), flags)
      BY <3>1 DEF read
    <3>. QED
      BY <3>2, <3>3, <3>4, StartsValid DEF UpInv, UpCanServe, ListOK
  <2>2. CASE Stop
    BY <2>2 DEF Stop, UpInv, UpCanServe, ListOK
  <2>3. ASSUME UNCHANGED config PROVE UpInv'
    BY <2>3 DEF UpInv, UpCanServe, ListOK
  <2>. QED
    BY <2>1, <2>2, <2>3 DEF Next, vars, Refuse, Hit, Miss, Unresolved, Record, Done
<1>. QED
  BY <1>1, <1>2, PTL DEF Spec

\* A process that came up can serve, whichever file, environment and flags it
\* was given (Load, Validate, runServe).
THEOREM ProcessesCanServe == Spec => []UpCanServe
<1>1. UpInv => UpCanServe
  BY DEF UpInv
<1>. QED
  BY <1>1, UpInvariant, PTL

-----------------------------------------------------------------------------
(* The bytes.                                                              *)

\* A cassette holds what the serializer of its format kept of a reply, and
\* remembers what that reply's own client saw.
Kept(t) ==
    \E reply \in Replies :
        /\ t.seen = Passed(reply)
        /\ t.kept = [status |-> reply.status,
                     body |-> IF reply.body = "bytes" /\ t.format = "json" THEN "replaced"
                              ELSE reply.body,
                     headers |-> [h \in DOMAIN reply.headers |-> Head(reply.headers[h])]]

KeptInv ==
    /\ \A t \in tapes : Kept(t)
    /\ last.verdict = "HIT" => Kept(last.from) /\ last.reply = Served(last.from.kept)

\* What a client sees of a reply.
LEMMA PassedIs ==
    ASSUME NEW reply \in Replies
    PROVE  /\ Passed(reply).status = reply.status /\ Passed(reply).body = reply.body
           /\ DOMAIN Passed(reply).headers = (DOMAIN reply.headers \ HopByHop) \cup {"X_Reelm_Cache"}
           /\ \A h \in DOMAIN reply.headers \ HopByHop :
                h # "X_Reelm_Cache" => Passed(reply).headers[h] = reply.headers[h]
<1> DEFINE own == [X_Reelm_Cache |-> <<"RECORDED">>]
           through == DOMAIN reply.headers \ HopByHop
           H == [h \in through \cup DOMAIN own |->
                    (IF h \in DOMAIN own THEN own[h] ELSE <<>>)
                    \o (IF h \in through THEN reply.headers[h] ELSE <<>>)]
<1>1. DOMAIN reply = {"status", "body", "headers"}
  BY GatewayAssumption
<1>2. Passed(reply) = [reply EXCEPT !.headers = H]
  BY DEF Passed
<1>3. DOMAIN own = {"X_Reelm_Cache"}
  OBVIOUS
<1>4. DOMAIN H = through \cup {"X_Reelm_Cache"}
  BY <1>3
<1>5. ASSUME NEW h \in through, h # "X_Reelm_Cache" PROVE H[h] = reply.headers[h]
  <2>1. H[h] = <<>> \o reply.headers[h]
    BY <1>3, <1>5
  <2>2. reply.headers[h] \in Seq(STRING)
    BY GatewayAssumption
  <2> HIDE DEF H
  <2>. QED
    BY <2>1, <2>2, ConcatEmptySeq
<1> HIDE DEF H
<1>6. /\ Passed(reply).status = reply.status /\ Passed(reply).body = reply.body
      /\ Passed(reply).headers = H
  BY <1>1, <1>2
<1>. QED
  BY <1>4, <1>5, <1>6

\* A cassette that keeps a reply serves what its client saw.
LEMMA ServesSeen ==
    ASSUME NEW t, Kept(t), NEW got, got = Served(t.kept)
    PROVE  /\ got.status = t.seen.status
           /\ got.body = t.seen.body \/ (t.seen.body = "bytes" /\ t.format = "json")
           /\ DOMAIN got.headers = DOMAIN t.seen.headers
           /\ \A h \in DOMAIN t.seen.headers \ {"X_Reelm_Cache"} :
                got.headers[h] = <<Head(t.seen.headers[h])>>
<1>1. PICK reply \in Replies :
        /\ t.seen = Passed(reply)
        /\ t.kept = [status |-> reply.status,
                     body |-> IF reply.body = "bytes" /\ t.format = "json" THEN "replaced"
                              ELSE reply.body,
                     headers |-> [h \in DOMAIN reply.headers |-> Head(reply.headers[h])]]
  BY DEF Kept
<1> DEFINE through == DOMAIN reply.headers \ HopByHop
<1>2. /\ t.kept.status = reply.status
      /\ t.kept.body = IF reply.body = "bytes" /\ t.format = "json" THEN "replaced"
                       ELSE reply.body
      /\ DOMAIN t.kept.headers = DOMAIN reply.headers
      /\ \A h \in DOMAIN reply.headers : t.kept.headers[h] = Head(reply.headers[h])
  BY <1>1
<1>3. /\ got.status = t.kept.status /\ got.body = t.kept.body
      /\ DOMAIN got.headers = through \cup {"X_Reelm_Cache"}
      /\ \A h \in through : got.headers[h] = <<t.kept.headers[h]>>
  BY <1>2 DEF Served
<1>4. /\ t.seen.status = reply.status /\ t.seen.body = reply.body
      /\ DOMAIN t.seen.headers = through \cup {"X_Reelm_Cache"}
      /\ \A h \in through : h # "X_Reelm_Cache" => t.seen.headers[h] = reply.headers[h]
  BY <1>1, PassedIs
<1>5. got.body = t.seen.body \/ (t.seen.body = "bytes" /\ t.format = "json")
  BY <1>2, <1>3, <1>4
<1>6. \A h \in DOMAIN t.seen.headers \ {"X_Reelm_Cache"} :
        got.headers[h] = <<Head(t.seen.headers[h])>>
  BY <1>2, <1>3, <1>4
<1>. QED
  BY <1>2, <1>3, <1>4, <1>5, <1>6

LEMMA KeptInvariant == Spec => []KeptInv
<1>1. Init => KeptInv
  BY DEF Init, KeptInv, Idle
<1>2. KeptInv /\ [Next]_vars => KeptInv'
  <2> SUFFICES ASSUME KeptInv, [Next]_vars PROVE KeptInv'
    OBVIOUS
  <2>1. ASSUME NEW x \in Inputs, Hit(x) PROVE KeptInv'
    <3>1. PICK t \in tapes : last' = [verdict |-> "HIT", x |-> x, from |-> t,
                                      reply |-> Served(t.kept)]
      BY <2>1 DEF Hit, Found
    <3>2. tapes' = tapes
      BY <2>1 DEF Hit
    <3>3. Kept(t)
      BY DEF KeptInv
    <3>4. last'.from = t /\ last'.reply = Served(t.kept)
      BY <3>1
    <3>. QED
      BY <3>2, <3>3, <3>4 DEF KeptInv
  <2>2. ASSUME NEW x \in Inputs, Record(x) PROVE KeptInv'
    <3> DEFINE to == Upstream(ProviderOf[x], x.style = "query")
               tape(reply) == [of |-> x, seen |-> Passed(reply), format |-> Lower(config.format),
                               kept |-> Recorded(reply, config.format)]
    <3>1. PICK reply \in Replies :
            /\ tapes' = (tapes \ Found(x)) \cup {tape(reply)}
            /\ last' = [verdict |-> "RECORDED", x |-> x, to |-> to]
      BY <2>2, Zenon DEF Record
    <3>2. /\ tape(reply).seen = Passed(reply) /\ tape(reply).format = Lower(config.format)
          /\ tape(reply).kept = Recorded(reply, config.format)
      OBVIOUS
    <3>3. Kept(tape(reply))
      <4> DEFINE t == tape(reply)
      <4> HIDE DEF t
      <4>. QED
        BY <3>2 DEF t, Kept, Recorded, Serialized, KeepFirst
    <3>4. last'.verdict # "HIT"
      BY <3>1
    <3>. QED
      BY <3>1, <3>3, <3>4 DEF KeptInv
  <2>3. ASSUME NEW x \in Inputs, Refuse(x) \/ Miss(x) \/ Unresolved(x) PROVE KeptInv'
    BY <2>3 DEF Refuse, Miss, Unresolved, KeptInv
  <2>4. CASE Start \/ Stop \/ UNCHANGED vars
    BY <2>4 DEF Start, Stop, vars, KeptInv
  <2>5. CASE Done
    BY <2>5 DEF Done, Idle, KeptInv
  <2>. QED
    BY <2>1, <2>2, <2>3, <2>4, <2>5 DEF Next
<1>. QED
  BY <1>1, <1>2, PTL DEF Spec

\* Every replay of every recording, in either format and whatever the
\* upstream's headers are, repeats what the recording's own client was
\* answered (copyHeaders, Save, serveCassette).
THEOREM ReplaysRepeatReplies == Spec => []HitRepeats
<1>1. KeptInv => HitRepeats
  BY ServesSeen DEF KeptInv, HitRepeats
<1>. QED
  BY <1>1, KeptInvariant, PTL
-----------------------------------------------------------------------------
(* The upstream.                                                           *)

\* The entries of a provider.
Own(p) == {i \in DOMAIN config.providers : Lower(config.providers[i].name) = p}

\* resolveUpstreamURL takes the first of them.
LEMMA UpstreamIs ==
    ASSUME Listed(config.providers), NEW p, NEW q
    PROVE  /\ Own(p) # {} => Upstream(p, q) = [base |-> config.providers[Min(Own(p))].base,
                                              query |-> q]
           /\ Own(p) = {} /\ p \in DOMAIN Bases
                => Upstream(p, q) = [base |-> Bases[p], query |-> FALSE]
           /\ Own(p) = {} /\ p \notin DOMAIN Bases => Upstream(p, q) = Nowhere
<1> DEFINE I == {i \in 1 .. Len(config.providers) : Lower(config.providers[i].name) = p}
<1>1. PICK S : config.providers \in Seq(S)
  BY DEF Listed
<1>2. I = Own(p)
  BY <1>1 DEF Own
<1>3. I \subseteq Nat /\ 0 \notin I
  BY <1>1
<1>4. Upstream(p, q) =
        IF (IF I # {} THEN Min(I) ELSE 0) # 0
        THEN [base |-> config.providers[IF I # {} THEN Min(I) ELSE 0].base, query |-> q]
        ELSE IF p \in DOMAIN Bases THEN [base |-> Bases[p], query |-> FALSE] ELSE Nowhere
  BY DEF Upstream, SelectInSeq
<1> HIDE DEF I
<1>5. I # {} => Min(I) # 0
  <2> SUFFICES ASSUME I # {} PROVE Min(I) # 0
    OBVIOUS
  <2>1. PICK n \in I : \A m \in I : n <= m
    BY <1>3, LeastNatural
  <2>2. I \subseteq Int
    BY <1>3
  <2>3. Min(I) = n
    BY <2>1, <2>2, MinIs
  <2>. QED
    BY <1>3, <2>1, <2>3
<1>. QED
  BY <1>2, <1>4, <1>5

\* An exchange is one of the process that runs.
Busy == last # Idle => config # Down

ReachInv == UpInv /\ Busy /\ AskReachesItsProvider

LEMMA ReachInvariant == Spec => []ReachInv
<1>1. Init => Busy /\ AskReachesItsProvider
  BY DEF Init, Busy, AskReachesItsProvider, Idle
<1>2. UpInv /\ Busy /\ AskReachesItsProvider /\ [Next]_vars => (Busy /\ AskReachesItsProvider)'
  <2> SUFFICES ASSUME UpInv, Busy, AskReachesItsProvider, [Next]_vars
               PROVE  Busy' /\ AskReachesItsProvider'
    OBVIOUS
  <2>1. ASSUME NEW x \in Inputs, Record(x) PROVE Busy' /\ AskReachesItsProvider'
    <3> DEFINE ask == Asks[x.ask]
               own == Own(ask.provider)
               to == Upstream(ProviderOf[x], x.style = "query")
    <3>1. to # Nowhere /\ config' = config /\ config # Down
      BY <2>1 DEF Record, GoesOut, Serving
    <3>2. last' = [verdict |-> "RECORDED", x |-> x, to |-> to]
      BY <2>1, Zenon DEF Record
    <3>3. last'.verdict = "RECORDED" /\ last'.x = x /\ last'.to = to
      BY <3>2
    <3>4. ProviderOf[x] = ask.provider
      <4>1. x.ask \in DOMAIN Asks /\ x.style \in Styles
        BY GatewayAssumption
      <4>2. ask.provider \in Registered
        BY <4>1, GatewayAssumption
      <4>. QED
        BY <4>1, <4>2, ProvidersAreDetected DEF ProviderOf
    <3>5. Listed(config.providers)
      BY <3>1 DEF UpInv, ListOK
    <3>6. /\ own # {} => to = [base |-> config.providers[Min(own)].base,
                               query |-> x.style = "query"]
          /\ own = {} /\ ask.provider \in DOMAIN Bases
               => to = [base |-> Bases[ask.provider], query |-> FALSE]
          /\ own = {} /\ ask.provider \notin DOMAIN Bases => to = Nowhere
      <4>1. to = Upstream(ask.provider, x.style = "query")
        BY <3>4
      <4> HIDE DEF ask, to
      <4>2. \A p, q :
              /\ Own(p) # {} => Upstream(p, q) = [base |-> config.providers[Min(Own(p))].base,
                                                 query |-> q]
              /\ Own(p) = {} /\ p \in DOMAIN Bases
                   => Upstream(p, q) = [base |-> Bases[p], query |-> FALSE]
              /\ Own(p) = {} /\ p \notin DOMAIN Bases => Upstream(p, q) = Nowhere
        BY <3>5, UpstreamIs
      <4>. QED
        BY <4>1, <4>2, Zenon
    <3>7. IF own = {}
          THEN ask.provider \in DOMAIN Bases /\ to.base = Bases[ask.provider]
          ELSE to = [base |-> config.providers[Min(own)].base, query |-> x.style = "query"]
      <4> HIDE DEF ask, own, to
      <4>. QED
        BY <3>1, <3>6
    <3>8. Busy'
      BY <3>1 DEF Busy
    <3>9. AskReachesItsProvider'
      BY <3>1, <3>3, <3>7, Zenon DEF AskReachesItsProvider, Own
    <3>. QED
      BY <3>8, <3>9
  <2>2. ASSUME NEW x \in Inputs, Refuse(x) \/ Hit(x) \/ Miss(x) \/ Unresolved(x)
        PROVE  Busy' /\ AskReachesItsProvider'
    <3>1. config # Down /\ config' = config
      BY <2>2 DEF Refuse, Hit, Miss, Unresolved, GoesOut, Serving
    <3>2. last'.verdict # "RECORDED"
      BY <2>2 DEF Refuse, Hit, Miss, Unresolved
    <3>. QED
      BY <3>1, <3>2 DEF Busy, AskReachesItsProvider
  <2>3. CASE Start \/ Stop
    <3>1. last = Idle /\ last' = last
      BY <2>3 DEF Start, Stop, Busy
    <3>2. last'.verdict # "RECORDED"
      BY <3>1 DEF Idle
    <3>. QED
      BY <3>1, <3>2 DEF Busy, AskReachesItsProvider
  <2>4. CASE Done
    <3>1. last' = Idle /\ last'.verdict # "RECORDED"
      BY <2>4 DEF Done, Idle
    <3>. QED
      BY <3>1 DEF Busy, AskReachesItsProvider
  <2>5. CASE UNCHANGED vars
    BY <2>5 DEF vars, Busy, AskReachesItsProvider
  <2>. QED
    BY <2>1, <2>2, <2>3, <2>4, <2>5 DEF Next
<1>. QED
  BY <1>1, <1>2, UpInvariant, PTL DEF Spec, ReachInv

\* For every list of configured providers and every client: what goes out goes
\* to the upstream of the provider that was asked (DetectProvider,
\* resolveUpstreamURL).
THEOREM AsksReachTheirProvider == Spec => []AskReachesItsProvider
<1>1. ReachInv => AskReachesItsProvider
  BY DEF ReachInv
<1>. QED
  BY <1>1, ReachInvariant, PTL
=============================================================================
