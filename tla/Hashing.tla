------------------------------ MODULE Hashing ------------------------------
(***************************************************************************)
(* Which requests share a hash: the four canonicalizers of                 *)
(* pkg/hasher/providers over the helpers of pkg/hasher.                    *)
(***************************************************************************)
EXTENDS Requests

CONSTANT Exact  \* 2^53: float64 holds every integer up to it

ASSUME HashingAssumption == Exact \in Nat /\ Exact % 4 = 0

-----------------------------------------------------------------------------
(* Texts.                                                                  *)

ToLower(t) == [i \in DOMAIN t |-> IF t[i][1] = "word" THEN Word(Lower(t[i][2])) ELSE t[i]]

TrimSpace(t) ==
    LET ink == {i \in DOMAIN t : t[i] \notin {CR, LF, SP}}
    IN  IF ink = {} THEN <<>> ELSE SubSeq(t, Min(ink), Max(ink))

\* CR LF is one line end, a lone CR is another.
NormalizeText(t) ==
    LET drop == {i \in 1 .. Len(t) - 1 : t[i] = CR /\ t[i + 1] = LF}
        kept == SelectSeq([i \in DOMAIN t |-> i], LAMBDA i : i \notin drop)
    IN  TrimSpace(ReplaceAll([i \in DOMAIN kept |-> t[kept[i]]], CR, LF))

\* strings.Join(ts, "\n")
Join(ts) ==
    IF ts = <<>> THEN <<>>
    ELSE FoldLeft(LAMBDA all, t : all \o <<LF>> \o t, Head(ts), Tail(ts))

-----------------------------------------------------------------------------
(* JSON.                                                                   *)

Field(v, name) ==
    IF v[1] = "obj" /\ name \in DOMAIN v[2] THEN v[2][name] ELSE Null
TextOf(v)  == IF v[1] = "str" THEN v[2] ELSE <<>>
ItemsOf(v) == IF v[1] = "arr" THEN v[2] ELSE <<>>

\* Beyond Exact only even integers are float64: ties go to the multiple of 4.
Float64(n) ==
    IF n <= Exact \/ n % 2 = 0 THEN n ELSE IF n % 4 = 1 THEN n - 1 ELSE n + 1

\* json.Unmarshal into an interface{}: every number becomes a float64.
RECURSIVE Decoded(_)
Decoded(v) ==
    IF v[1] = "num" THEN Num(Float64(v[2]))
    ELSE IF v[1] = "arr" THEN Arr([i \in DOMAIN v[2] |-> Decoded(v[2][i])])
    ELSE IF v[1] = "obj" THEN Obj([f \in DOMAIN v[2] |-> Decoded(v[2][f])])
    ELSE v

\* A text that is not JSON stays as it is.
CanonicalizeJSON(t) ==
    LET raw == TrimSpace(t)
    IN  IF Len(raw) = 1 /\ raw[1][1] = "json" THEN Marshal(Decoded(raw[1][2])) ELSE t

\* json.Unmarshal into a struct: an object whose own fields have the kinds the
\* schema names, or null.  It looks into the messages, too, and fails where a
\* field of one has another kind; no request of Clients has such a field, and
\* here it would be hashed as one that is not there.
Fits(body, schema) ==
    \/ body = Null
    \/ /\ body[1] = "obj"
       /\ \A f \in DOMAIN body[2] \cap DOMAIN schema :
            body[2][f] = Null \/ body[2][f][1] = schema[f]

Present(v, names) == {f \in names : Field(v, f) # Null}

\* Parameters: ints are decoded as such, everything else as a float64.
Parameters(v, ints, others) ==
    [f \in Present(v, ints \cup others) |->
        IF f \in ints THEN Field(v, f) ELSE Decoded(Field(v, f))]

-----------------------------------------------------------------------------
(* CanonicRequest.                                                         *)

Message(role, content, calls) ==
    [role |-> role, content |-> content, name |-> <<>>, toolCallID |-> <<>>, toolCalls |-> calls]
ToolCall(id, type, name, args) == [id |-> id, type |-> type, name |-> name, arguments |-> args]
Tool(type, function) == [type |-> type, function |-> function]

\* In the order the caller gave (mutant).
AsGiven(tools) == tools

\* A stable sort by name; a tool without a name comes first.
CanonicalizeTools(tools) ==
    LET name(i) == TextOf(Field(tools[i].function, "name"))
        rank(i) == SelectInSeq(ByteOrder, LAMBDA w : name(i) = <<Word(w)>>)
        before(i, j) == rank(i) < rank(j) \/ (rank(i) = rank(j) /\ i < j)
        order == SortSeq([i \in DOMAIN tools |-> i], before)
    IN  [i \in DOMAIN order |-> tools[order[i]]]

Canonic(r, provider, model, messages, parameters, tools) ==
    [namespace |-> r.namespace, provider |-> provider, endpoint |-> r.path,
     method |-> r.method, model |-> model, messages |-> messages,
     parameters |-> parameters, tools |-> CanonicalizeTools(tools)]

-----------------------------------------------------------------------------
(* OpenAI and Azure.                                                       *)

OpenAISchema ==
    [model |-> "str", messages |-> "arr", temperature |-> "num", top_p |-> "num",
     max_tokens |-> "num", max_completion_tokens |-> "num",
     presence_penalty |-> "num", frequency_penalty |-> "num", tools |-> "arr"]

\* A string is normalized; an array of parts, or anything else, is not.
OpenAIContent(v) ==
    IF v[1] = "str" THEN NormalizeText(v[2])
    ELSE IF v = Null THEN <<>> ELSE Marshal(Decoded(v))

OpenAICall(c) ==
    LET f == Field(c, "function")
    IN  ToolCall(TextOf(Field(c, "id")), TextOf(Field(c, "type")),
                 TextOf(Field(f, "name")), CanonicalizeJSON(TextOf(Field(f, "arguments"))))

OpenAIMessage(m) ==
    LET calls == ItemsOf(Field(m, "tool_calls"))
    IN  [Message(ToLower(TrimSpace(TextOf(Field(m, "role")))), OpenAIContent(Field(m, "content")),
                 [i \in DOMAIN calls |-> OpenAICall(calls[i])])
            EXCEPT !.name = TextOf(Field(m, "name")),
                   !.toolCallID = TextOf(Field(m, "tool_call_id"))]

\* A tool without a function, a built-in one, keeps its type only.
OpenAITool(t) == Tool(TextOf(Field(t, "type")), Decoded(Field(t, "function")))

OpenAI(r) ==
    LET messages == ItemsOf(Field(r.body, "messages"))
        tools == ItemsOf(Field(r.body, "tools"))
    IN  Canonic(r, "openai", TextOf(Field(r.body, "model")),
            [i \in DOMAIN messages |-> OpenAIMessage(messages[i])],
            Parameters(r.body, {"max_tokens", "max_completion_tokens"},
                {"temperature", "top_p", "presence_penalty", "frequency_penalty",
                 "response_format", "tool_choice", "stop"}),
            [i \in DOMAIN tools |-> OpenAITool(tools[i])])

Azure(r) ==
    LET s == r.path.segs
        at == SelectInSeq(s, LAMBDA p : p = "deployments")
    IN  [OpenAI(r) EXCEPT !.provider = "azure",
            !.model = IF at \in 1 .. Len(s) - 1 THEN <<Word(s[at + 1])>> ELSE @]

-----------------------------------------------------------------------------
(* Anthropic.                                                              *)

AnthropicSchema ==
    [model |-> "str", messages |-> "arr", max_tokens |-> "num", temperature |-> "num",
     top_p |-> "num", top_k |-> "num", stop_sequences |-> "arr", tools |-> "arr"]

\* The texts one part of a message gives: none, or one.
AnthropicTexts(p) ==
    LET type == TextOf(Field(p, "type"))
        text == Field(p, "text")
    IN  IF p[1] # "obj" \/ type = <<Word("tool_use")>> THEN <<>>
        ELSE IF type # <<Word("text")>> THEN <<Marshal(Decoded(p))>>
        ELSE IF text[1] = "str" THEN <<NormalizeText(text[2])>> ELSE <<>>

\* The calls of a message are passed over (mutant).
NoCalls(p) == <<>>

AnthropicCalls(p) ==
    IF TextOf(Field(p, "type")) # <<Word("tool_use")>> THEN <<>>
    ELSE <<ToolCall(TextOf(Field(p, "id")), Function, TextOf(Field(p, "name")),
                    Marshal(Decoded(Field(p, "input"))))>>

\* Texts and calls are kept apart: their order among one another is lost.
AnthropicMessage(m) ==
    LET content == Field(m, "content")
        parts == ItemsOf(content)
    IN  Message(ToLower(TrimSpace(TextOf(Field(m, "role")))),
            IF content[1] = "str" THEN NormalizeText(content[2])
            ELSE Join(FlattenSeq([i \in DOMAIN parts |-> AnthropicTexts(parts[i])])),
            FlattenSeq([i \in DOMAIN parts |-> AnthropicCalls(parts[i])]))

AnthropicSystem(v) ==
    LET text == IF v[1] = "str" THEN NormalizeText(v[2])
                ELSE IF v[1] = "arr" THEN Marshal(Decoded(v)) ELSE <<>>
    IN  IF text = <<>> THEN <<>> ELSE <<Message(<<Word("system")>>, text, <<>>)>>

AnthropicTool(t) ==
    Tool(Function, Obj([name |-> Str(TextOf(Field(t, "name"))),
                        description |-> Str(TextOf(Field(t, "description"))),
                        parameters |-> Decoded(Field(t, "input_schema"))]))

Anthropic(r) ==
    LET messages == ItemsOf(Field(r.body, "messages"))
        tools == ItemsOf(Field(r.body, "tools"))
        stop == IF ItemsOf(Field(r.body, "stop_sequences")) = <<>> THEN {} ELSE {"stop_sequences"}
    IN  Canonic(r, "anthropic", TextOf(Field(r.body, "model")),
            AnthropicSystem(Field(r.body, "system"))
                \o [i \in DOMAIN messages |-> AnthropicMessage(messages[i])],
            Parameters(r.body, {"max_tokens", "top_k"}, {"temperature", "top_p", "tool_choice"} \cup stop),
            [i \in DOMAIN tools |-> AnthropicTool(tools[i])])

-----------------------------------------------------------------------------
(* Gemini.                                                                 *)

GeminiSchema ==
    [contents |-> "arr", systemInstruction |-> "obj", generationConfig |-> "obj", tools |-> "arr"]

GeminiTexts(p) ==
    LET text == TextOf(Field(p, "text"))
        data(name) == IF Field(p, name) = Null THEN <<>> ELSE <<Marshal(Decoded(Field(p, name)))>>
    IN  (IF text = <<>> THEN <<>> ELSE <<NormalizeText(text)>>)
            \o data("functionResponse") \o data("inlineData")

\* The id of a call is not kept.
GeminiCalls(p) ==
    LET call == Field(p, "functionCall")
    IN  IF call = Null THEN <<>>
        ELSE <<ToolCall(<<>>, Function, TextOf(Field(call, "name")),
                        Marshal(Decoded(Field(call, "args"))))>>

GeminiRole(t) ==
    IF t = <<>> THEN <<Word("user")>> ELSE IF t = <<Word("model")>> THEN <<Word("assistant")>> ELSE t

GeminiMessage(c) ==
    LET parts == ItemsOf(Field(c, "parts"))
    IN  Message(GeminiRole(TextOf(Field(c, "role"))),
            Join(FlattenSeq([i \in DOMAIN parts |-> GeminiTexts(parts[i])])),
            FlattenSeq([i \in DOMAIN parts |-> GeminiCalls(parts[i])]))

\* Only the texts of the system instruction count.
GeminiSystem(v) ==
    LET parts == SelectSeq(ItemsOf(Field(v, "parts")), LAMBDA p : TextOf(Field(p, "text")) # <<>>)
        texts == [i \in DOMAIN parts |-> NormalizeText(TextOf(Field(parts[i], "text")))]
    IN  IF texts = <<>> THEN <<>> ELSE <<Message(<<Word("system")>>, Join(texts), <<>>)>>

\* Of the tools only the declared functions are kept.
GeminiTools(t) ==
    LET decls == SelectSeq(ItemsOf(Field(t, "functionDeclarations")), LAMBDA d : d[1] = "obj")
    IN  [i \in DOMAIN decls |->
            Tool(Function, Obj([name |-> Str(TextOf(Field(decls[i], "name"))),
                                description |-> Decoded(Field(decls[i], "description")),
                                parameters |-> Decoded(Field(decls[i], "parameters"))]))]

\* The model stands between "models/" and the colon of the path.
GeminiModel(path) ==
    LET at == SelectInSeq(path.segs, LAMBDA p : p = "models")
    IN  IF at \in 1 .. Len(path.segs) - 1
        THEN [i \in 1 .. Len(path.segs) - at |-> Word(path.segs[at + i])]
        ELSE <<Word("gemini-pro")>>

Gemini(r) ==
    LET contents == ItemsOf(Field(r.body, "contents"))
        tools == ItemsOf(Field(r.body, "tools"))
        generation == Field(r.body, "generationConfig")
        safety == Present(r.body, {"safetySettings"})
        keys == IF generation[1] = "obj" THEN DOMAIN generation[2] ELSE {}
    IN  Canonic(r, "gemini", GeminiModel(r.path),
            GeminiSystem(Field(r.body, "systemInstruction"))
                \o [i \in DOMAIN contents |-> GeminiMessage(contents[i])],
            [f \in keys \cup safety |-> Decoded(Field(IF f \in safety THEN r.body ELSE generation, f))],
            FlattenSeq([i \in DOMAIN tools |-> GeminiTools(tools[i])]))

-----------------------------------------------------------------------------
\* Canonicalize fails: no body, or none that fits.
Rejected(r) ==
    LET p == DetectProvider(r)
    IN  \/ r.body[1] \in {"empty", "malformed"}
        \/ ~Fits(r.body, IF p = "gemini" THEN GeminiSchema
                         ELSE IF p = "anthropic" THEN AnthropicSchema ELSE OpenAISchema)

\* SHA-256 is taken to be injective: the hash is what it is computed of.
Hash(r) ==
    LET p == DetectProvider(r)
    IN  IF p = "gemini" THEN Gemini(r)
        ELSE IF p = "anthropic" THEN Anthropic(r)
        ELSE IF p = "azure" THEN Azure(r) ELSE OpenAI(r)
=============================================================================
