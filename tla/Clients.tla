------------------------------ MODULE Clients ------------------------------
(***************************************************************************)
(* The clients of a reelm proxy: what an ask says, and the requests the    *)
(* SDKs of the four providers spell it with.  An ask is a record           *)
(*   [provider, namespace, model, turns, tools, limit, beside]             *)
(* with the turns of the conversation, each a role, the lines it says and  *)
(* the tool it calls, the set of tools offered, a limit on the tokens and  *)
(* the value of one more field, which no schema of pkg/hasher reads.       *)
(***************************************************************************)
EXTENDS Requests

\* The name of a provider can be written in capitals.
ASSUME ClientsAssumption ==
    \A p \in Registered : \E w \in DOMAIN LowerCase : LowerCase[w] = p

\* How a request may deviate from the plain spelling of its ask: other line
\* ends, one part per line, roles in capitals, tools in another order, fields
\* of CleanParameters' list, the provider's own host (through a tunnel), the
\* provider's name in the header, a query; or no body that can be parsed.
Styles == {"plain", "crlf", "cr", "parts", "upper", "shuffled", "extras",
           "direct", "named", "query", "garbled", "bodiless"}

Text(lines, style) ==
    LET end == IF style = "crlf" THEN <<CR, LF>> ELSE IF style = "cr" THEN <<CR>> ELSE <<LF>>
        text == FoldLeft(LAMBDA t, w : t \o end \o <<Word(w)>>, <<Word(Head(lines))>>, Tail(lines))
    IN  IF style \in {"crlf", "cr"} THEN <<SP>> \o text \o end ELSE text

Capital(word) == CHOOSE w \in DOMAIN LowerCase : LowerCase[w] = word

Role(role, style) ==
    Str(IF style = "upper" THEN <<SP, Word(Capital(role))>> ELSE <<Word(role)>>)

Named(w) == Str(<<Word(w)>>)
Args(turn) == Obj([n |-> Num(Len(turn.says))])

\* One text, or a text for every line.
Texts(turn, style) ==
    IF style = "parts" THEN [i \in DOMAIN turn.says |-> Text(<<turn.says[i]>>, style)]
    ELSE <<Text(turn.says, style)>>

\* A text as a string, or as an array of typed parts.
Part(text) == Obj([type |-> Named("text"), text |-> Str(text)])
Parts(turn, style) ==
    LET texts == Texts(turn, style) IN [i \in DOMAIN texts |-> Part(texts[i])]
Content(turn, style) ==
    IF style = "parts" THEN Arr(Parts(turn, style)) ELSE Str(Text(turn.says, style))

InOrder(tools, style) ==
    LET s == SelectSeq(ByteOrder, LAMBDA t : t \in tools)
    IN  IF style = "shuffled" THEN Reverse(s) ELSE s

Beside(ask, name) == IF ask.beside = "" THEN <<>> ELSE name :> Named(ask.beside)

-----------------------------------------------------------------------------
OpenAITurn(turn, style) ==
    LET said == [role |-> Role(turn.role, style), content |-> Content(turn, style)]
        args == IF style = "crlf" THEN <<SP, Json(Args(turn))>> ELSE Marshal(Args(turn))
        call == Obj([id |-> Named("c1"), type |-> Str(Function),
                     function |-> Obj([name |-> Named(turn.calls), arguments |-> Str(args)])])
    IN  Obj(said @@ (IF turn.calls = "" THEN <<>> ELSE [tool_calls |-> Arr(<<call>>)])
                 @@ (IF turn.role = "tool" THEN [tool_call_id |-> Named("c1")] ELSE <<>>))

OpenAIBody(ask, style) ==
    LET tools == InOrder(ask.tools, style)
    IN  Obj([model |-> Named(ask.model), max_tokens |-> Num(ask.limit),
             messages |-> Arr([i \in DOMAIN ask.turns |-> OpenAITurn(ask.turns[i], style)]),
             tools |-> Arr([i \in DOMAIN tools |->
                 Obj([type |-> Str(Function), function |-> Obj([name |-> Named(tools[i])])])])]
            @@ (IF style = "extras" THEN [user |-> Named("u1"), seed |-> Num(1)] ELSE <<>>)
            @@ Beside(ask, "reasoning_effort"))

AnthropicTurn(turn, style) ==
    LET call == Obj([type |-> Named("tool_use"), id |-> Named("c1"),
                     name |-> Named(turn.calls), input |-> Args(turn)])
        result == Obj([type |-> Named("tool_result"), tool_use_id |-> Named("c1"),
                       content |-> Str(Text(turn.says, "plain"))])
    IN  Obj([role |-> Role(IF turn.role = "tool" THEN "user" ELSE turn.role, style),
             content |-> IF turn.calls # "" THEN Arr(Append(Parts(turn, style), call))
                         ELSE IF turn.role = "tool" THEN Arr(<<result>>)
                         ELSE Content(turn, style)])

\* A first turn of the system has a field of its own.
SystemTurns(ask) == SelectSeq(ask.turns, LAMBDA t : t.role = "system")
OtherTurns(ask)  == SelectSeq(ask.turns, LAMBDA t : t.role # "system")

AnthropicBody(ask, style) ==
    LET tools == InOrder(ask.tools, style)
        turns == OtherTurns(ask)
    IN  Obj([model |-> Named(ask.model), max_tokens |-> Num(ask.limit),
             messages |-> Arr([i \in DOMAIN turns |-> AnthropicTurn(turns[i], style)]),
             tools |-> Arr([i \in DOMAIN tools |->
                 Obj([name |-> Named(tools[i]), input_schema |-> Obj(<<>>)])])]
            @@ (IF SystemTurns(ask) = <<>> THEN <<>>
                ELSE [system |-> Content(SystemTurns(ask)[1], style)])
            @@ (IF style = "extras" THEN [stream |-> Num(1)] ELSE <<>>)
            @@ Beside(ask, "thinking"))

\* Gemini's roles have one spelling.
GeminiTurn(turn, style) ==
    LET texts == Texts(turn, style)
        parts == [i \in DOMAIN texts |-> Obj([text |-> Str(texts[i])])]
        call == Obj([functionCall |-> Obj([name |-> Named(turn.calls), args |-> Args(turn)])])
        result == Obj([functionResponse |-> Obj([response |-> Str(Text(turn.says, "plain"))])])
    IN  Obj([role |-> Named(IF turn.role = "assistant" THEN "model"
                            ELSE IF turn.role = "tool" THEN "user" ELSE turn.role),
             parts |-> Arr(IF turn.role = "tool" THEN <<result>>
                           ELSE IF turn.calls = "" THEN parts ELSE Append(parts, call))])

GeminiBody(ask, style) ==
    LET tools == InOrder(ask.tools, style)
        turns == OtherTurns(ask)
    IN  Obj([contents |-> Arr([i \in DOMAIN turns |-> GeminiTurn(turns[i], style)]),
             generationConfig |-> Obj([maxOutputTokens |-> Num(ask.limit)]),
             tools |-> Arr(<<Obj([functionDeclarations |-> Arr([i \in DOMAIN tools |->
                 Obj([name |-> Named(tools[i])])])])>>)]
            @@ (IF SystemTurns(ask) = <<>> THEN <<>>
                ELSE [systemInstruction |-> GeminiTurn(SystemTurns(ask)[1], style)])
            @@ Beside(ask, "cachedContent"))

Path(ask) ==
    IF ask.provider = "openai" THEN [segs |-> <<"v1", "chat", "completions">>, verb |-> ""]
    ELSE IF ask.provider = "anthropic" THEN [segs |-> <<"v1", "messages">>, verb |-> ""]
    ELSE IF ask.provider = "gemini"
    THEN [segs |-> <<"v1beta", "models", ask.model>>, verb |-> "generateContent"]
    ELSE [segs |-> <<"openai", "deployments", ask.model, "chat", "completions">>, verb |-> ""]

\* The request a client sends for an ask.
Wire(ask, style) ==
    [path |-> Path(ask), method |-> "POST", namespace |-> ask.namespace,
     host |-> IF style = "direct" THEN ask.provider ELSE "local",
     override |-> IF style = "named" THEN Capital(ask.provider) ELSE "",
     keys |-> IF ask.provider = "anthropic" THEN {"x-api-key", "anthropic-version"} ELSE {},
     body |-> IF style = "garbled" THEN <<"malformed">>
              ELSE IF style = "bodiless" THEN <<"empty">>
              ELSE IF ask.provider = "gemini" THEN GeminiBody(ask, style)
              ELSE IF ask.provider = "anthropic" THEN AnthropicBody(ask, style)
              ELSE OpenAIBody(ask, style)]
=============================================================================
