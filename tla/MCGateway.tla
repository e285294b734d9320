----------------------------- MODULE MCGateway -----------------------------
(* Instances of Gateway for TLC: a base ask for every provider, and asks   *)
(* that differ from it in one respect.                                     *)
EXTENDS Gateway, Hashing

CONSTANT MaxTapes  \* bound on the cassettes of the states that are explored

Room == Cardinality(tapes) <= MaxTapes

MCLowerCase == [USER |-> "user", ASSISTANT |-> "assistant", SYSTEM |-> "system", TOOL |-> "tool",
                OpenAI |-> "openai", Anthropic |-> "anthropic", Gemini |-> "gemini",
                Azure |-> "azure", REPLAY |-> "replay", JSON |-> "json"]
MCByteOrder == <<"book", "find">>

Turn(role, says, calls) == [role |-> role, says |-> says, calls |-> calls]

Base(p) ==
    [provider |-> p, namespace |-> "", model |-> "m1", limit |-> 5, beside |-> "",
     tools |-> {"book", "find"},
     turns |-> <<Turn("system", <<"hello">>, ""), Turn("user", <<"hi", "there">>, ""),
                 Turn("assistant", <<"hi">>, "find"),
                 Turn("tool", <<"found">>, "")>>]

Varied(p) ==
    LET b == Base(p) IN
    {b, [b EXCEPT !.namespace = "n1"], [b EXCEPT !.model = "m2"], [b EXCEPT !.limit = 6],
     [b EXCEPT !.tools = {"find"}], [b EXCEPT !.turns = Tail(@)],
     [b EXCEPT !.turns[3].calls = "book"], [b EXCEPT !.turns[3].calls = ""],
     [b EXCEPT !.turns[2].says = <<"hi", "hello">>], [b EXCEPT !.turns[4].says = <<"none">>],
     [b EXCEPT !.turns = <<Turn("user", <<"hi">>, ""), Turn("user", <<"there">>, "")>>],
     [b EXCEPT !.turns = <<Turn("user", <<"hi", "there">>, "")>>], [b EXCEPT !.turns[3].role = "user"]}

Providers == {"openai", "anthropic", "gemini", "azure"}

Listed(S) == FoldSet(LAMBDA x, s : Append(s, x), <<>>, S)

\* TLC keeps the value of these two, and of Hashes and Rejections below, which
\* it does not do for the definition a constant is replaced by.
Variants == Listed(UNION {Varied(p) : p \in Providers})
Besides == Listed(UNION {{Base(p), [Base(p) EXCEPT !.beside = "low"]} : p \in Providers})
MCAsks == Variants
BesideAsks == Besides

\* Every base ask in every style, what differs from it, and that in parts when
\* it has no text of the system.
Bare == {i \in DOMAIN Asks : Asks[i] = Base(Asks[i].provider)}
MCInputs ==
    {[ask |-> i, style |-> "plain"] : i \in DOMAIN Asks}
        \cup {[ask |-> i, style |-> s] : i \in Bare, s \in Styles}
        \cup {[ask |-> i, style |-> "parts"] :
                i \in {j \in DOMAIN Asks : SystemTurns(Asks[j]) = <<>>}}

\* What comes of each request.
Hashes == [x \in Inputs |-> Hash(Wire(Asks[x.ask], x.style))]
Rejections == [x \in Inputs |-> Rejected(Wire(Asks[x.ask], x.style))]
MCHashOf == Hashes
MCRejectedOf == Rejections

Headers == [Content_Type |-> <<"text">>]
MCReplies ==
    {[status |-> "ok", body |-> "text", headers |-> Headers @@ [Set_Cookie |-> <<"a", "b">>]],
     [status |-> "limited", body |-> "bytes",
      headers |-> Headers @@ [Connection |-> <<"close">>] @@ [X_Reelm_Cache |-> <<"MISS">>]]}

File(readable, mode, format, providers) ==
    [readable |-> readable, mode |-> mode, format |-> format, providers |-> providers]
MCFiles ==
    {File(FALSE, Unset, Unset, <<>>), File(TRUE, Unset, "", <<>>),
     File(TRUE, "record", "toml", <<>>),
     File(TRUE, "replay", "JSON", <<[name |-> "OpenAI", base |-> "mock"], [name |-> "azure", base |-> "mock"]>>),
     File(TRUE, "auto", "yaml", <<[name |-> "gemini", base |-> "relative"]>>)}
MCSettings == {[mode |-> m, format |-> Unset] : m \in {Unset, "record", "fast"}}
    \cup {[mode |-> "REPLAY", format |-> "json"], [mode |-> Unset, format |-> "xml"]}
=============================================================================
