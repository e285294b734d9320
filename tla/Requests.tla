------------------------------ MODULE Requests ------------------------------
(***************************************************************************)
(* The requests a reelm proxy is sent and the provider each is taken for:  *)
(* DetectProvider of pkg/hasher/providers.                                 *)
(*                                                                         *)
(* A text is a sequence of tokens: words, line ends, spaces, and texts     *)
(* that spell a JSON value, one token each.  A JSON value is a tagged      *)
(* tuple; key order and layout are gone once it is parsed.  A request is   *)
(*   [path, method, host, override, keys, namespace, body]                 *)
(* where a path is its segments and the verb after a colon in the last     *)
(* one, host names the provider whose host it is, override is              *)
(* X-Reelm-Provider and keys the authentication headers that are present.  *)
(***************************************************************************)
EXTENDS Integers, SequencesExt

CONSTANTS
    LowerCase,  \* the word strings.ToLower makes of a word with capitals
    ByteOrder   \* the names of tools, in the order of Go's <

\* A word stays a word.
ASSUME RequestsAssumption ==
    "" \notin DOMAIN LowerCase /\ \A w \in DOMAIN LowerCase : LowerCase[w] # ""

Lower(word) == IF word \in DOMAIN LowerCase THEN LowerCase[word] ELSE word

-----------------------------------------------------------------------------
(* Texts and JSON values.                                                  *)

CR == <<"CR">>
LF == <<"LF">>
SP == <<"SP">>
Word(w) == <<"word", w>>
Json(v) == <<"json", v>>

Null == <<"null">>
Str(t) == <<"str", t>>
Num(n) == <<"num", n>>
Arr(s) == <<"arr", s>>
Obj(f) == <<"obj", f>>

Marshal(v) == <<Json(v)>>

Function == <<Word("function")>>

-----------------------------------------------------------------------------
(* Registry.                                                               *)

Registered == {"openai", "anthropic", "gemini", "azure"}

Has(path, part) ==
    \E i \in 0 .. Len(path.segs) - Len(part) : SubSeq(path.segs, i + 1, i + Len(part)) = part

\* What gives a provider away.
Signs(r) ==
    [azure     |-> Has(r.path, <<"openai", "deployments">>) \/ r.host = "azure",
     anthropic |-> \/ Has(r.path, <<"v1", "messages">>) \/ Has(r.path, <<"v1", "complete">>)
                   \/ r.host = "anthropic"
                   \/ r.keys \cap {"anthropic-version", "x-api-key"} # {},
     gemini    |-> \/ r.path.verb \in {"generateContent", "streamGenerateContent"}
                   \/ Has(r.path, <<"v1beta", "models">>) \/ r.host = "gemini"]

\* The host is asked before the path (mutant).
HostFirst(r) ==
    IF r.host \in Registered THEN r.host
    ELSE IF Signs(r).gemini THEN "gemini" ELSE "openai"

\* The header, if it names a provider, then the first sign; OpenAI otherwise,
\* with or without the signs of it.
DetectProvider(r) ==
    LET order == <<"azure", "anthropic", "gemini">>
        first == SelectInSeq(order, LAMBDA p : Signs(r)[p])
    IN  IF Lower(r.override) \in Registered THEN Lower(r.override)
        ELSE IF first # 0 THEN order[first] ELSE "openai"
=============================================================================
