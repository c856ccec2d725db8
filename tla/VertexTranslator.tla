-------------------------- MODULE VertexTranslator --------------------------
(***************************************************************************)
(* The translator between the chat API and Gemini's GenerateContent        *)
(* (translator/vertex/vertex.go).  The API knows no ids of calls, so the   *)
(* translator invents them for the client and finds the function's name    *)
(* again when the client returns a result.                                 *)
(***************************************************************************)
EXTENDS ChatMessages

CONSTANT CallIds    \* call_0, call_1, ...: the ids given to the calls of an answer

GeminiPart == [type : {"text", "image", "call", "response"}, text : Seq(Words),
               name : Names \cup {"", "unknown"}, args : Objects \cup {"{}", None}]
TextParts == {p \in GeminiPart : p.type = "text"}
CallParts == {p \in GeminiPart : p.type = "call"}
Content == [role : {"user", "model"}, parts : Seq(GeminiPart)]

TextPart(text) == [type |-> "text", text |-> text, name |-> "", args |-> None]

(* extractContentParts: pictures with data, no links.                      *)
ExtractContentParts(msg) ==
    LET kept == Keep(msg.parts, ShownParts)
    IN  IF msg.string THEN <<TextPart(ContentString(msg))>>
        ELSE IF kept = <<>> THEN <<TextPart(<<>>)>>
        ELSE [i \in DOMAIN kept |-> [TextPart(kept[i].text) EXCEPT !.type = kept[i].type]]

CallPart(call) == [type |-> "call", text |-> <<>>, name |-> call.name, args |-> ParseArguments(call.args)]
FunctionResponse(name, text) == [type |-> "response", text |-> text, name |-> name, args |-> None]

(* buildAssistantParts: the parts of an assistant's message.               *)
BuildAssistantParts(msg) ==
    LET text == ContentString(msg)
        parts == (IF text = <<>> THEN <<>> ELSE <<TextPart(text)>>)
                 \o [i \in DOMAIN msg.calls |-> CallPart(msg.calls[i])]
    IN  IF parts = <<>> THEN <<TextPart(<<>>)>> ELSE parts

(* The last of the calls with an id.                                       *)
Called(calls, id) == id # "" /\ \E i \in DOMAIN calls : calls[i].id = id
LastCall(calls, id) ==
    CHOOSE i \in DOMAIN calls :
        calls[i].id = id /\ \A j \in DOMAIN calls : calls[j].id = id => j <= i

(* Mutant: the first message that calls with an id gives the name.         *)
RememberFirst(names, calls) ==
    [id \in DOMAIN names |->
        IF Called(calls, id) /\ names[id] = "" THEN calls[LastCall(calls, id)].name ELSE names[id]]

(* toolCallNames after the calls of a message: a later call with an id     *)
(* replaces the earlier one.                                               *)
Remember(names, calls) ==
    [id \in DOMAIN names |->
        IF Called(calls, id) THEN calls[LastCall(calls, id)].name ELSE names[id]]

ToolCallName(names, id) == IF names[id] = "" THEN "unknown" ELSE names[id]

(* separateSystemMessages, message by message; names is toolCallNames.     *)
AddContent(acc, role, parts) ==
    [acc EXCEPT !.turns = Append(@, [role |-> role, parts |-> parts])]

TakeContent(acc, msg) ==
    CASE ~acc.ok -> acc
      [] acc.ok /\ IsSystem(msg) -> [acc EXCEPT !.system = Append(@, ContentString(msg))]
      [] acc.ok /\ msg.role = "user" -> AddContent(acc, "user", ExtractContentParts(msg))
      [] acc.ok /\ msg.role = "assistant" ->
            [AddContent(acc, "model", BuildAssistantParts(msg)) EXCEPT !.names = Remember(@, msg.calls)]
      [] acc.ok /\ msg.role = "tool" ->
            AddContent(acc, "user", <<FunctionResponse(ToolCallName(acc.names, msg.id), ContentString(msg))>>)
      [] acc.ok /\ msg.role = "function" /\ msg.name # "" ->
            AddContent(acc, "user", <<FunctionResponse(msg.name, ContentString(msg))>>)
      [] OTHER -> [acc EXCEPT !.ok = FALSE]

SeparateContents(messages) ==
    LET acc[k \in 0..Len(messages)] ==
            IF k = 0 THEN [ok |-> TRUE, system |-> <<>>, turns |-> <<>>,
                           names |-> [id \in Ids \cup {""} |-> ""]]
            ELSE TakeContent(acc[k - 1], messages[k])
    IN  acc[Len(messages)]

(* translateTools: functions only.  translateToolChoice: the mode.         *)
TranslateTools(tools) == Keep(tools, FunctionTools)
FunctionCallingMode(choice) ==
    CASE choice = "auto" -> "AUTO" [] choice = "none" -> "NONE"
      [] choice \in {"required", "function"} -> "ANY" [] OTHER -> "absent"

(* TranslateRequest; None stands for its errors.                           *)
VertexRequest(messages, params) ==
    LET separated == SeparateContents(messages)
    IN  IF ~separated.ok \/ separated.turns = <<>> THEN None
        ELSE [system |-> separated.system, turns |-> separated.turns,
              tools |-> TranslateTools(params.tools), choice |-> FunctionCallingMode(params.choice),
              maxTokens |-> ResolveMaxTokens(params, 0), model |-> FALSE, version |-> "none"]

-----------------------------------------------------------------------------
(* An answer's first candidate, its parts, as extractCandidateContent and  *)
(* translateCandidates make it a message.                                  *)
VertexAnswer(parts) ==
    LET called == Keep(parts, CallParts)
    IN  [role |-> "assistant", string |-> TRUE, id |-> "", name |-> "",
         parts |-> <<[type |-> "text", text |-> Joined(Keep(parts, TextParts))]>>,
         calls |-> [i \in DOMAIN called |->
                      [id |-> CallIds[i], name |-> called[i].name, args |-> ToJSONString(called[i].args)]]]
=============================================================================
