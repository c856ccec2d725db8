---------------------------- MODULE Conversation ----------------------------
(***************************************************************************)
(* A chat client and a provider that speaks another API, with the          *)
(* translators between them: Anthropic, Claude on Vertex AI, or Gemini.    *)
(*                                                                         *)
(* The translators keep no state, the client sends the whole history with  *)
(* every request.  What a translator makes of an answer therefore comes    *)
(* back to it, and to the provider, in every later request, followed by    *)
(* the results of the tools the client was asked to call, in any order and *)
(* with instructions in between.                                           *)
(***************************************************************************)
EXTENDS AnthropicTranslator, VertexTranslator

CONSTANTS
    UserContents,       \* contents of user messages: records with string and parts
    ParamSets,          \* the tools, tool_choice and limits of a request
    AnthropicAnswers,   \* answers of Claude: blocks and stop reason
    VertexAnswers,      \* answers of Gemini: parts
    MaxMessages,        \* bound on the client's own messages
    MaxAnswers          \* bound on answers

Dialects == {"anthropic", "vertex-anthropic", "gemini"}

(* What answers consist of: text, and calls of named functions.            *)
AnswerBlocks == TextBlocks \cup {b \in ToolUses : b.name \in Names}
AnswerParts == TextParts \cup {p \in CallParts : p.name \in Names}

ASSUME ConversationAssumption ==
    /\ ParamSets \subseteq Params /\ MaxMessages \in Nat /\ MaxAnswers \in Nat
    /\ UserContents \subseteq [string : BOOLEAN, parts : Seq(Part)]
    /\ "" \notin Names /\ "broken" \notin Objects /\ None \notin Objects \cup {"{}"}
    /\ AnthropicAnswers \subseteq [blocks : Seq(AnswerBlocks), stop : StopReasons]
    /\ VertexAnswers \subseteq Seq(AnswerParts)
    /\ CallIds \in Seq(Ids) /\ "" \notin Ids
    /\ \A i, j \in DOMAIN CallIds : CallIds[i] = CallIds[j] => i = j
    /\ \A a \in VertexAnswers : Len(a) <= Len(CallIds)

VARIABLES
    dialect, params, versioned,     \* the provider, the request's parameters and configuration
    history,                        \* the messages the client holds
    pending,                        \* calls whose results are outstanding
    turns,                          \* ghost: the answers the provider has given
    sent,                           \* the translated request (None: refused)
    stage                           \* "compose", "sent" or "refused"

vars == <<dialect, params, versioned, history, pending, turns, sent, stage>>
setup == <<dialect, params, versioned>>

Own(msg) == msg.role # "assistant"
Composing == stage = "compose" /\ Cardinality({k \in DOMAIN history : Own(history[k])}) < MaxMessages

Says(role, content, id, name) ==
    history' = Append(history, [role |-> role, string |-> content.string, parts |-> content.parts,
                                calls |-> <<>>, id |-> id, name |-> name])

(* The client: a user message when no result is outstanding, instructions  *)
(* at any time, results in any order.                                      *)
Speak ==
    /\ Composing /\ pending = {}
    /\ \E content \in UserContents : Says("user", content, "", "")
    /\ UNCHANGED <<setup, pending, turns, sent, stage>>

Instruct ==
    /\ Composing /\ \A k \in DOMAIN history : ~IsSystem(history[k])
    /\ \E content \in UserContents, role \in {"system", "developer"} : Says(role, content, "", "")
    /\ UNCHANGED <<setup, pending, turns, sent, stage>>

ReturnResult(c) ==
    /\ Composing /\ c \in pending /\ pending' = pending \ {c}
    /\ \E content \in {u \in UserContents : u.string} :
          \/ Says("tool", content, c.id, c.name)
          \/ Says("function", content, "", c.name)
    /\ UNCHANGED <<setup, turns, sent, stage>>

(* The request is translated: a provider's request or an error.            *)
Translate ==
    CASE dialect = "anthropic" -> AnthropicRequest(history, params)
      [] dialect = "vertex-anthropic" -> VertexAnthropicRequest(history, params, versioned)
      [] dialect = "gemini" -> VertexRequest(history, params)

Send ==
    /\ stage = "compose" /\ pending = {} /\ history # <<>> /\ Own(Last(history))
    /\ sent' = Translate
    /\ stage' = IF sent' = None THEN "refused" ELSE "sent"
    /\ UNCHANGED <<setup, history, pending, turns>>

(* The provider answers and the client takes the translated answer over,   *)
(* with the calls it has to make.  Claude's ids are new ones.              *)
UsedIds == UNION {{history[k].calls[c].id : c \in DOMAIN history[k].calls} : k \in DOMAIN history}

Receive(msg, answer) ==
    /\ stage = "sent" /\ stage' = "compose" /\ Len(turns) < MaxAnswers
    /\ history' = Append(history, msg)
    /\ pending' = {[at |-> i, id |-> msg.calls[i].id, name |-> msg.calls[i].name] : i \in DOMAIN msg.calls}
    /\ turns' = Append(turns, answer)
    /\ UNCHANGED <<setup, sent>>

ClaudeAnswers(a) ==
    /\ dialect # "gemini"
    /\ \A i \in DOMAIN a.blocks : a.blocks[i].type = "tool_use" => a.blocks[i].id \notin UsedIds
    /\ Receive(AnthropicAnswer(a), a)

GeminiAnswers(a) == dialect = "gemini" /\ Receive(VertexAnswer(a), a)

(* An error answer is translated too; the history stays as it is.          *)
ErrorAnswer ==
    /\ stage = "sent" /\ stage' = "compose"
    /\ UNCHANGED <<setup, history, pending, turns, sent>>

Init ==
    /\ dialect \in Dialects /\ params \in ParamSets
    /\ versioned \in (IF dialect = "vertex-anthropic" THEN BOOLEAN ELSE {FALSE})
    /\ history = <<>> /\ pending = {} /\ turns = <<>> /\ sent = None /\ stage = "compose"

Next ==
    \/ Speak \/ Instruct \/ Send \/ ErrorAnswer
    \/ \E c \in pending : ReturnResult(c)
    \/ \E a \in AnthropicAnswers : ClaudeAnswers(a)
    \/ \E a \in VertexAnswers : GeminiAnswers(a)

Spec == Init /\ [][Next]_vars

-----------------------------------------------------------------------------
(* Properties of the requests that reach the provider.                     *)

(* The history stays a list of chat messages whose calls are JSON text,    *)
(* and translated requests have the provider's types.                      *)
TypeOK ==
    /\ dialect \in Dialects /\ params \in ParamSets /\ versioned \in BOOLEAN
    /\ history \in Seq(Message) /\ stage \in {"compose", "sent", "refused"}
    /\ pending \subseteq [at : Nat, id : Ids \cup {""}, name : Names]
    /\ sent # None => sent.turns \in Seq(IF dialect = "gemini" THEN Content ELSE Turn)

Sent == stage = "sent"

ToolResults == {b \in Block : b.type = "tool_result"}
IdsOf(blocks) == {blocks[i].id : i \in DOMAIN blocks}
UsesAt(requested, i) == IF i \in DOMAIN requested THEN Keep(requested[i].blocks, ToolUses) ELSE <<>>
ResultsAt(requested, i) == IF i \in DOMAIN requested THEN Keep(requested[i].blocks, ToolResults) ELSE <<>>

(* In every request to Claude, a message with tool_use blocks is directly  *)
(* followed by one user message with exactly one result for each of them,  *)
(* and no other message has results.  Results come in any order, with      *)
(* instructions in between, over several turns (appendToolResult).         *)
ToolResultsPaired ==
    Sent /\ dialect # "gemini" =>
        \A i \in 0..Len(sent.turns) :
            LET uses == UsesAt(sent.turns, i)
                results == ResultsAt(sent.turns, i + 1)
            IN  /\ IdsOf(uses) = IdsOf(results) /\ Len(uses) = Len(results)
                /\ results # <<>> => sent.turns[i + 1].role = "user"

(* What a turn says: its text and its calls.                               *)
Gist(blocks, ids) ==
    LET calls == Keep(blocks, ToolUses \cup CallParts)
    IN  [text |-> Joined(Keep(blocks, TextBlocks \cup TextParts)),
         calls |-> [i \in DOMAIN calls |-> <<IF ids THEN calls[i].id ELSE "", calls[i].name,
                                             IF calls[i].args = None THEN "{}" ELSE calls[i].args>>]]
AnswerTurns == {t \in Turn : t.role = "assistant"} \cup {c \in Content : c.role = "model"}
Complete(blocks, stop) == IF stop = "tool_use" THEN blocks ELSE Keep(blocks, TextBlocks)

(* The provider finds its own answers in every later request: the same     *)
(* text, the same calls in the same order with the same arguments, after   *)
(* both translations.  Calls of an answer cut off at the token limit are   *)
(* left out (TranslateResponse, buildAssistantMessage/-Parts).             *)
TurnsPreserved ==
    Sent =>
        LET own == Keep(sent.turns, AnswerTurns)
        IN  /\ Len(own) = Len(turns)
            /\ \A i \in DOMAIN own :
                  IF dialect = "gemini" THEN Gist(own[i].parts, FALSE) = Gist(turns[i], FALSE)
                  ELSE Gist(own[i].blocks, TRUE) = Gist(Complete(turns[i].blocks, turns[i].stop), TRUE)

(* Every functionResponse names the function whose call it answers,        *)
(* although the ids the translator invents start again with each answer    *)
(* (toolCallNames in separateSystemMessages).                              *)
ResponsesNamed ==
    Sent /\ dialect = "gemini" =>
        LET spoken == Keep(history, {m \in Message : ~IsSystem(m)})
        IN  \A i \in DOMAIN spoken : spoken[i].role \in {"tool", "function"} =>
                sent.turns[i].parts[1].name = spoken[i].name

(* What Claude's APIs require of a request: a positive limit (the one the  *)
(* client gave, if any), a schema for every tool, a choice only with       *)
(* tools, and on Vertex AI the version in the body and no model.           *)
RequestAcceptable ==
    Sent /\ dialect # "gemini" =>
        /\ sent.maxTokens > 0
        /\ \A l \in {params.completionLimit, params.limit} : l # None =>
              (l > 0 => sent.maxTokens \in {params.completionLimit, params.limit})
        /\ \A i \in DOMAIN sent.tools : sent.tools[i].schema \in {"given", "empty"}
        /\ sent.choice # "absent" => sent.tools # <<>>
        /\ sent.model <=> dialect = "anthropic"
        /\ sent.version = IF dialect = "anthropic" THEN "header" ELSE "body"
=============================================================================
