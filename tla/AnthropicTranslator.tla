------------------------- MODULE AnthropicTranslator -------------------------
(***************************************************************************)
(* The translator between the chat API and Anthropic's Messages API        *)
(* (translator/anthropic/anthropic.go), and its Vertex AI variant          *)
(* (translator/vertex/vertex_anthropic.go).                                *)
(***************************************************************************)
EXTENDS ChatMessages

DefaultMaxTokens == 4096

(* A content block; a message's content is a string (one text block and    *)
(* list = FALSE) or a list of blocks.                                      *)
Block == [type : {"text", "image", "tool_use", "tool_result"}, text : Seq(Words),
          id : Ids \cup {""}, name : Names \cup {""}, args : Objects \cup {"{}", None}]
TextBlocks == {b \in Block : b.type = "text"}
ToolUses == {b \in Block : b.type = "tool_use"}
Turn == [role : {"user", "assistant"}, list : BOOLEAN, blocks : Seq(Block)]

TextBlock(text) == [type |-> "text", text |-> text, id |-> "", name |-> "", args |-> None]
ImageBlock == [TextBlock(<<>>) EXCEPT !.type = "image"]
ToolUse(call) == [type |-> "tool_use", text |-> <<>>, id |-> call.id, name |-> call.name,
                  args |-> ParseArguments(call.args)]
ToolResult(msg) == [type |-> "tool_result", text |-> ContentString(msg), id |-> msg.id,
                    name |-> "", args |-> None]
StringTurn(role, text) == [role |-> role, list |-> FALSE, blocks |-> <<TextBlock(text)>>]

(* buildUserContent: blocks only if there is a picture; links are dropped. *)
BuildUserContent(msg) ==
    LET AsBlock(part) == IF part.type = "text" THEN TextBlock(part.text) ELSE ImageBlock
        kept == Keep(msg.parts, ShownParts)
    IN  IF msg.string \/ \A i \in DOMAIN msg.parts : msg.parts[i].type = "text"
        THEN StringTurn("user", ContentString(msg))
        ELSE [role |-> "user", list |-> TRUE, blocks |-> [i \in DOMAIN kept |-> AsBlock(kept[i])]]

(* Mutant: a message with calls loses its text.                            *)
BuildAssistantMessageCalls(msg) ==
    IF msg.calls = <<>> THEN StringTurn("assistant", ContentString(msg))
    ELSE [role |-> "assistant", list |-> TRUE,
          blocks |-> [i \in DOMAIN msg.calls |-> ToolUse(msg.calls[i])]]

(* buildAssistantMessage                                                   *)
BuildAssistantMessage(msg) ==
    LET text == ContentString(msg)
    IN  IF msg.calls = <<>> THEN StringTurn("assistant", text)
        ELSE [role |-> "assistant", list |-> TRUE,
              blocks |-> (IF text = <<>> THEN <<>> ELSE <<TextBlock(text)>>)
                         \o [i \in DOMAIN msg.calls |-> ToolUse(msg.calls[i])]]

(* Mutant: every result gets a message of its own.                         *)
AppendToolResultAlone(turns, result) ==
    Append(turns, [role |-> "user", list |-> TRUE, blocks |-> <<result>>])

(* appendToolResult: into the last message if that is the user's and a     *)
(* list, else in a message of its own.                                     *)
AppendToolResult(turns, result) ==
    IF turns # <<>> /\ Last(turns).role = "user" /\ Last(turns).list
    THEN [turns EXCEPT ![Len(turns)].blocks = Append(@, result)]
    ELSE Append(turns, [role |-> "user", list |-> TRUE, blocks |-> <<result>>])

(* separateSystemMessages, message by message.                             *)
TakeMessage(acc, msg) ==
    CASE ~acc.ok -> acc
      [] acc.ok /\ IsSystem(msg) -> [acc EXCEPT !.system = Append(@, ContentString(msg))]
      [] acc.ok /\ msg.role = "user" -> [acc EXCEPT !.turns = Append(@, BuildUserContent(msg))]
      [] acc.ok /\ msg.role = "assistant" ->
            [acc EXCEPT !.turns = Append(@, BuildAssistantMessage(msg))]
      [] acc.ok /\ msg.role = "tool" /\ msg.id # "" ->
            [acc EXCEPT !.turns = AppendToolResult(@, ToolResult(msg))]
      [] OTHER -> [acc EXCEPT !.ok = FALSE]

SeparateSystemMessages(messages) ==
    LET acc[k \in 0..Len(messages)] ==
            IF k = 0 THEN [ok |-> TRUE, system |-> <<>>, turns |-> <<>>]
            ELSE TakeMessage(acc[k - 1], messages[k])
    IN  acc[Len(messages)]

(* Mutant: a tool without parameters gets no schema.                       *)
TranslateToolDefinitionsRaw(tools) ==
    LET kept == Keep(tools, FunctionTools)
    IN  [i \in DOMAIN kept |-> [name |-> kept[i].name,
                                schema |-> IF kept[i].schema THEN "given" ELSE "none"]]

(* translateToolDefinitions: input_schema is required.                     *)
TranslateToolDefinitions(tools) ==
    LET kept == Keep(tools, FunctionTools)
    IN  [i \in DOMAIN kept |-> [name |-> kept[i].name,
                                schema |-> IF kept[i].schema THEN "given" ELSE "empty"]]

(* translateToolChoice: "none" is left out.                                *)
TranslateToolChoice(choice) ==
    CASE choice = "auto" -> "auto" [] choice = "required" -> "any"
      [] choice = "function" -> "tool" [] OTHER -> "absent"

(* TranslateRequest; None stands for its BadRequest errors.                *)
AnthropicRequest(messages, params) ==
    LET separated == SeparateSystemMessages(messages)
        tools == TranslateToolDefinitions(params.tools)
    IN  IF ~separated.ok \/ separated.turns = <<>> THEN None
        ELSE [system |-> separated.system, turns |-> separated.turns, tools |-> tools,
              choice |-> IF tools = <<>> THEN "absent" ELSE TranslateToolChoice(params.choice),
              maxTokens |-> ResolveMaxTokens(params, DefaultMaxTokens),
              model |-> TRUE, version |-> "header"]

(* VertexAnthropicTranslator: the model is in the path and the version in  *)
(* the body, taken from the configuration.                                 *)
VertexAnthropicRequest(messages, params, versioned) ==
    LET request == AnthropicRequest(messages, params)
    IN  IF request = None \/ ~versioned THEN None
        ELSE [request EXCEPT !.model = FALSE, !.version = "body"]

-----------------------------------------------------------------------------
(* An answer: an error, or content blocks and a stop reason.               *)
StopReasons == {"end_turn", "max_tokens", "tool_use", "refusal"}

MapStopReason(reason) ==
    CASE reason = "max_tokens" -> "length" [] reason = "tool_use" -> "tool_calls" [] OTHER -> "stop"

(* extractAnthropicToolCalls                                               *)
ExtractAnthropicToolCalls(blocks) ==
    LET used == Keep(blocks, ToolUses)
    IN  [i \in DOMAIN used |-> [id |-> used[i].id, name |-> used[i].name,
                                args |-> ToJSONString(used[i].args)]]

(* extractAnthropicContent: the text blocks, joined.                       *)
ExtractAnthropicContent(blocks) == Joined(Keep(blocks, TextBlocks))

(* TranslateResponse of a message: calls only when it stopped for them.    *)
AnthropicAnswer(answer) ==
    LET calls == IF MapStopReason(answer.stop) = "tool_calls"
                 THEN ExtractAnthropicToolCalls(answer.blocks) ELSE <<>>
    IN  [role |-> "assistant", string |-> TRUE, calls |-> calls, id |-> "", name |-> "",
         parts |-> <<[type |-> "text", text |-> ExtractAnthropicContent(answer.blocks)]>>]
=============================================================================
