------------------------------ MODULE Gateway ------------------------------
(***************************************************************************)
(* What the answers of a reelm process mean: from the configuration        *)
(* (pkg/config, the flags of cmd/reelm/main.go) over the hash of a request *)
(* (Hashing) to the upstream it goes to and the bytes that come back       *)
(* (pkg/proxy/handler.go, the serializers of pkg/store).                   *)
(*                                                                         *)
(* One request is served at a time and the store keeps what it is given:   *)
(* concurrency and failures are those of Proxy and DiskStore.              *)
(***************************************************************************)
EXTENDS Clients

CONSTANTS
    Asks,      \* what clients may ask, by name
    Inputs,    \* the requests they send: [ask, style], the name of an ask and a style
    HashOf,    \* the hash of each of them,
    RejectedOf,  \* and whether Canonicalize fails: Hash and Rejected of Hashing
    Replies,   \* what an upstream may answer: [status, headers, body]
    Files,     \* the configuration files there may be
    Settings,  \* the modes and formats an environment or a flag may give
    Unset

\* Every reply has a value under each of its headers, and an environment
\* variable or flag that is set is not empty: viper and runServe take an empty
\* one for none.
ASSUME GatewayAssumption ==
    /\ \A i \in DOMAIN Asks : Asks[i].provider \in Registered
    /\ Inputs \subseteq [ask : DOMAIN Asks, style : Styles]
    /\ DOMAIN HashOf = Inputs /\ RejectedOf \in [Inputs -> BOOLEAN]
    /\ \A reply \in Replies :
        /\ DOMAIN reply = {"status", "body", "headers"}
        /\ \A h \in DOMAIN reply.headers :
            reply.headers[h] \in Seq(STRING) /\ reply.headers[h] # <<>>
    /\ \A s \in Settings : s.format # ""
    /\ \A file \in Files : file.providers \in Seq([name : STRING, base : STRING])

VARIABLES
    config,  \* of the running process, or Down
    tapes,   \* the cassettes
    last     \* the exchange under way, or Idle

vars == <<config, tapes, last>>

Down == [up |-> FALSE]
Idle == [verdict |-> "none"]

Init == config = Down /\ tapes = {} /\ last = Idle

-----------------------------------------------------------------------------
(* Configuration.                                                          *)

Bases == [openai |-> "api.openai.com", anthropic |-> "api.anthropic.com",
          gemini |-> "generativelanguage.googleapis.com"]

DefaultConfig ==
    [mode |-> "auto", format |-> "yaml",
     providers |-> <<[name |-> "openai", base |-> Bases.openai],
                     [name |-> "anthropic", base |-> Bases.anthropic],
                     [name |-> "gemini", base |-> Bases.gemini]>>]

Or(value, default) == IF value = Unset THEN default ELSE value

\* viper: the environment over the file over the defaults.  An empty list of
\* providers is one that is not given.
Layered(file, env) ==
    [mode   |-> Or(env.mode, Or(file.mode, DefaultConfig.mode)),
     format |-> Or(env.format, Or(file.format, DefaultConfig.format)),
     providers |-> IF file.providers = <<>> THEN DefaultConfig.providers ELSE file.providers]

\* A relative base is no URL.
Valid(c) ==
    /\ Lower(c.mode) \in {"record", "replay", "auto"}
    /\ Lower(c.format) \in {"yaml", "json", ""}
    /\ \A i \in DOMAIN c.providers : c.providers[i].name # "" /\ c.providers[i].base # "relative"

\* An empty format is yaml.
Validated(c) == [c EXCEPT !.format = IF @ = "" THEN "yaml" ELSE @]

\* The flags over the configuration: what the process runs with.
Flagged(c, flags) ==
    [up |-> TRUE, mode |-> Or(flags.mode, c.mode), format |-> Or(flags.format, c.format),
     providers |-> c.providers]

\* The flags are not looked at again (mutant).
CheckedOnce(loaded, flags) == Valid(loaded)

\* Load validates what it found, runServe what the flags made of it.
Checked(loaded, flags) == Valid(loaded) /\ Valid(Flagged(Validated(loaded), flags))

Blank == [mode |-> Unset, format |-> Unset, providers |-> <<>>]

\* runServe: a named file has to be readable; ./default.yaml need not be.
Start ==
    /\ config = Down
    /\ \E file \in Files, named \in BOOLEAN, env, flags \in Settings :
         /\ named => file.readable
         /\ LET loaded == Layered(IF file.readable THEN file ELSE Blank, env) IN
              /\ Checked(loaded, flags)
              /\ config' = Flagged(Validated(loaded), flags)
    /\ UNCHANGED <<tapes, last>>

Stop ==
    /\ config # Down /\ last = Idle
    /\ config' = Down
    /\ UNCHANGED <<tapes, last>>

-----------------------------------------------------------------------------
(* The bytes.                                                              *)

HopByHop == {"Connection"}

\* A tape keeps the last value of a header (mutant).
KeepLast(values) == Last(values)

KeepFirst(values) == Head(values)

\* JSON has no bytes, only text: what is not UTF-8 is replaced.  YAML encodes it.
Serialized(body, format) ==
    IF body = "bytes" /\ Lower(format) = "json" THEN "replaced" ELSE body

Recorded(reply, format) ==
    [status |-> reply.status, body |-> Serialized(reply.body, format),
     headers |-> [h \in DOMAIN reply.headers |-> KeepFirst(reply.headers[h])]]

\* copyHeaders adds the upstream's headers to the proxy's own.
Passed(reply) ==
    LET own == [X_Reelm_Cache |-> <<"RECORDED">>]
        through == DOMAIN reply.headers \ HopByHop
    IN  [reply EXCEPT !.headers =
            [h \in through \cup DOMAIN own |->
                (IF h \in DOMAIN own THEN own[h] ELSE <<>>)
                \o (IF h \in through THEN reply.headers[h] ELSE <<>>)]]

\* serveCassette sets the headers of the tape over the proxy's own.
Served(tape) ==
    LET through == DOMAIN tape.headers \ HopByHop
    IN  [status |-> tape.status, body |-> tape.body,
         headers |-> [h \in through \cup {"X_Reelm_Cache"} |->
            IF h \in through THEN <<tape.headers[h]>> ELSE <<"HIT">>]]

-----------------------------------------------------------------------------
(* Requests.                                                               *)

ProviderOf == [x \in Inputs |-> DetectProvider(Wire(Asks[x.ask], x.style))]

Found(x) == {t \in tapes : HashOf[t.of] = HashOf[x]}

Nowhere == [base |-> "", query |-> FALSE]

\* resolveUpstreamURL.  The URL of a provider that is not configured is the
\* default one, without the query.
Upstream(provider, query) ==
    LET at == SelectInSeq(config.providers, LAMBDA p : Lower(p.name) = provider)
    IN  IF at # 0 THEN [base |-> config.providers[at].base, query |-> query]
        ELSE IF provider \in DOMAIN Bases THEN [base |-> Bases[provider], query |-> FALSE]
        ELSE Nowhere

Serving == config # Down /\ last = Idle

Refuse(x) ==
    /\ Serving /\ RejectedOf[x]
    /\ last' = [verdict |-> "rejected", x |-> x]
    /\ UNCHANGED <<config, tapes>>

Hit(x) ==
    /\ Serving /\ ~RejectedOf[x]
    /\ Lower(config.mode) \in {"replay", "auto"}
    /\ \E t \in Found(x) :
         last' = [verdict |-> "HIT", x |-> x, from |-> t, reply |-> Served(t.kept)]
    /\ UNCHANGED <<config, tapes>>

Miss(x) ==
    /\ Serving /\ ~RejectedOf[x]
    /\ Lower(config.mode) = "replay" /\ Found(x) = {}
    /\ last' = [verdict |-> "MISS", x |-> x]
    /\ UNCHANGED <<config, tapes>>

GoesOut(x) ==
    /\ Serving /\ ~RejectedOf[x]
    /\ Lower(config.mode) = "record" \/ (Lower(config.mode) = "auto" /\ Found(x) = {})

Unresolved(x) ==
    /\ GoesOut(x)
    /\ Upstream(ProviderOf[x], x.style = "query") = Nowhere
    /\ last' = [verdict |-> "unresolved", x |-> x]
    /\ UNCHANGED <<config, tapes>>

Record(x) ==
    /\ GoesOut(x)
    /\ LET to == Upstream(ProviderOf[x], x.style = "query") IN
         /\ to # Nowhere
         /\ \E reply \in Replies :
              LET tape == [of |-> x, seen |-> Passed(reply), format |-> Lower(config.format),
                           kept |-> Recorded(reply, config.format)] IN
                /\ tapes' = (tapes \ Found(x)) \cup {tape}
                /\ last' = [verdict |-> "RECORDED", x |-> x, to |-> to]
    /\ UNCHANGED config

Done ==
    /\ last # Idle
    /\ last' = Idle
    /\ UNCHANGED <<config, tapes>>

Next ==
    \/ Start
    \/ Stop
    \/ \E x \in Inputs :
         Refuse(x) \/ Hit(x) \/ Miss(x) \/ Unresolved(x) \/ Record(x)
    \/ Done

Spec == Init /\ [][Next]_vars

-----------------------------------------------------------------------------
(* Properties.                                                             *)

\* A recording answers the ask it was made for and no other: a HIT comes from
\* a request that says the same, however it was spelt (ServeHTTP 140).
HitAnswersTheAsk == last.verdict = "HIT" => last.from.of.ask = last.x.ask

\* An array of text parts is hashed as it is, and not as the text it stands for,
\* in every message of OpenAI and Azure (openai.go 68-76) and in Anthropic's
\* system field (AnthropicSystem).
KeepsParts(ask) ==
    \/ ask.provider \in {"openai", "azure"}
    \/ ask.provider = "anthropic" /\ SystemTurns(ask) # <<>>

\* Two requests of which one only gives such a text in parts.
Apart(x, y) == KeepsParts(Asks[x.ask]) /\ (x.style = "parts") # (y.style = "parts")

\* An ask that was recorded is never missed in replay, or recorded again in
\* auto, because it is spelt otherwise: other line ends, roles in capitals, the
\* tools in another order, a field that does not count, another route; and one
\* text in parts, but for the arrays that are kept as they are.
RespellingsHit ==
    [][last'.verdict = "MISS" \/ (last'.verdict = "RECORDED" /\ Lower(config.mode) = "auto")
         => \A t \in tapes : t.of.ask = last'.x.ask => Apart(t.of, last'.x)]_last

\* A replay repeats what the recording's own client was answered: status,
\* body, and the first value of every header.  Two things are lost: the label
\* X-Reelm-Cache is the proxy's, and JSON cassettes change a body that is not
\* text (serveCassette, Save).
HitRepeats ==
    last.verdict = "HIT" =>
        LET seen == last.from.seen IN
          /\ last.reply.status = seen.status
          /\ last.reply.body = seen.body \/ (seen.body = "bytes" /\ last.from.format = "json")
          /\ DOMAIN last.reply.headers = DOMAIN seen.headers
          /\ \A h \in DOMAIN seen.headers \ {"X_Reelm_Cache"} :
               last.reply.headers[h] = <<Head(seen.headers[h])>>

\* What a client asks of one provider, with its credentials, goes to that
\* provider's upstream, with the query when it is configured, whatever route
\* the request takes into the proxy (DetectProvider, resolveUpstreamURL).
AskReachesItsProvider ==
    last.verdict = "RECORDED" =>
        LET ask == Asks[last.x.ask]
            own == {i \in DOMAIN config.providers : Lower(config.providers[i].name) = ask.provider}
        IN  IF own = {}
            THEN ask.provider \in DOMAIN Bases /\ last.to.base = Bases[ask.provider]
            ELSE last.to = [base |-> config.providers[Min(own)].base, query |-> last.x.style = "query"]

\* A process that came up can serve: whichever layer its mode and format come
\* from, ServeHTTP knows the mode (its default branch, 145, is never reached)
\* and GetSerializer the format.
UpCanServe ==
    config # Down =>
        /\ Lower(config.mode) \in {"record", "replay", "auto"}
        /\ Lower(config.format) \in {"yaml", "json"}
=============================================================================
