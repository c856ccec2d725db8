------------------------------ MODULE Pipeline ------------------------------
(***************************************************************************)
(* One request on its way through the plugin chain and back:               *)
(* maas-headers-guard (left out in some deployments), the resolver, the    *)
(* profile picker, stream-usage-enforcer, external-metering, the NeMo      *)
(* request guard and api-translation; then the provider's answer, either   *)
(* in chunks that only metering sees, or as a body that metering,          *)
(* api-translation and the NeMo response guard process.                    *)
(*                                                                         *)
(* `client' is what the client sent, `out' what the plugins made of it.    *)
(* Which provider is selected and with which credential is modelled in     *)
(* OriginLoop and Credentials.                                             *)
(***************************************************************************)
EXTENDS Guardrails, StreamUsage, WeightedChoice

CONSTANTS
    Users,          \* values of x-maas-username
    Clients,        \* the requests clients send
    RefLists,       \* the references the store may map a model to
    Answers,        \* the answers providers give
    Bad             \* texts the guardrail service blocks

Formats == {"openai-chat", "openai-embeddings", "messages", "openai-responses", "vertex-messages"}
Paths == {"chat/completions", "embeddings", "messages", "responses", "other"}

(* model: the body names one; stream, usage: its stream field and its      *)
(* stream_options.include_usage; encoding: an accept-encoding header.      *)
Client == [path : Paths, model : BOOLEAN, stream : BOOLEAN, usage : BOOLEAN,
           encoding : BOOLEAN, user : Users \cup {""}, body : Body]
Outgoing == [user : Users \cup {""}, usage : BOOLEAN, encoding : BOOLEAN, format : Formats \cup {""}]

(* An answer in some API's format: an error or not, compressed or not, as  *)
(* text for the chunk processor and as a body for the buffering plugins.   *)
Answer == [format : Formats \cup {""}, success : BOOLEAN, compressed : BOOLEAN,
           layout : Layouts, lines : Seq(Line), body : Body]

Ref == [weight : 0..100, format : Formats]
Report == [type : {"usage", "error"}, user : Users \cup {""}, usage : Usages \cup {None}]
Codes == {"", "BadRequest", "Internal", "Forbidden", "ServiceUnavailable", "ResourceExhausted"}
Stages == {"guard", "resolve", "pick", "enforce", "balance", "inspect", "translate", "provider",
           "chunks", "account", "return", "review", "done", "broken"}

ASSUME PipelineAssumption ==
    /\ Users \subseteq STRING \ {""} /\ Bad \subseteq Texts \ {""}
    /\ None \notin Usages \cup Users /\ None \notin Answer
    /\ RefLists \subseteq Seq(Ref) \ {<<>>}
    /\ Clients \subseteq Client /\ Answers \subseteq Answer

(* Providers' answers: only a stream has many lines; usage is in JSON.     *)
ASSUME AnswerAssumption == \A a \in Answers :
    /\ a.layout # "sse" => Len(a.lines) = 1
    /\ \A k \in DOMAIN a.lines : a.lines[k].usage # None => a.lines[k].json

VARIABLES
    failOpen,       \* the metering plugin's parameter
    client, out,
    stage,          \* the plugin whose turn it is
    captured,       \* CycleState: maas-headers (None: no guard in the chain)
    refs,           \* the references found in the store (<<>>: not found)
    input, output,  \* CycleState: the client's and the provider's API format
    username,       \* CycleState: the customer that is metered
    profile,
    answer,         \* the answer (None before)
    pos,            \* fragments received
    buffer,         \* CycleState: metering-chunk-buffer
    lastUsage,      \* CycleState: usage found in a chunk
    reports,        \* calls of the metering service's event endpoint
    code,           \* error of the plugin that ended the request
    shown           \* what the client has got: format and body

requestVars == <<failOpen, client>>
stateVars == <<captured, refs, input, output, username>>
chunkVars == <<pos, buffer, lastUsage>>
vars == <<failOpen, client, out, stage, captured, refs, input, output, username, profile, answer,
          pos, buffer, lastUsage, reports, code, shown>>

-----------------------------------------------------------------------------
(* Requests.                                                               *)

Refuse(c) == stage' = "done" /\ code' = c

(* maas-headers-guard: captures the identity headers and strips them.      *)
Guard ==
    /\ stage = "guard" /\ stage' = "resolve"
    /\ captured' = out.user /\ out' = [out EXCEPT !.user = ""]
    /\ UNCHANGED <<requestVars, refs, input, output, username, profile, answer, chunkVars, reports, code, shown>>

(* detectInputAPIFormat                                                    *)
DetectInputAPIFormat(path) ==
    CASE path = "chat/completions" -> "openai-chat"
      [] path = "embeddings" -> "openai-embeddings"
      [] path = "messages" -> "messages"
      [] path = "responses" -> "openai-responses"
      [] OTHER -> ""

(* The resolver: a body without a model is no inference request; a model   *)
(* it does not know is internal; an external one needs a known path and a  *)
(* reference that is not disabled.  The check for loops and what differs   *)
(* on a hub concern the headers and are in OriginLoop.                     *)
NotInference ==
    /\ stage = "resolve" /\ ~client.model /\ stage' = "pick"
    /\ UNCHANGED <<requestVars, out, stateVars, profile, answer, chunkVars, reports, code, shown>>

SelectRef == \E draw \in 0..(TotalWeight(refs') - 1), k \in DOMAIN refs' :
                /\ Selects(refs', draw, k) /\ output' = refs'[k].format
                /\ stage' = "pick" /\ UNCHANGED code

ResolveModel ==
    /\ stage = "resolve" /\ client.model
    /\ input' = DetectInputAPIFormat(client.path)
    /\ out' = [out EXCEPT !.format = input']
    /\ refs' \in RefLists \cup {<<>>}
    /\ \/ refs' = <<>> /\ stage' = "pick" /\ UNCHANGED <<output, code>>
       \/ /\ refs' # <<>> /\ (input' = "" \/ TotalWeight(refs') = 0)
          /\ Refuse("BadRequest") /\ UNCHANGED output
       \/ refs' # <<>> /\ input' # "" /\ SelectRef
    /\ UNCHANGED <<requestVars, captured, username, profile, answer, chunkVars, reports, shown>>

(* Mutant: only chat on both sides is translated.                          *)
PicksPassthroughAny == input # "" /\ (output = "" \/ input # "openai-chat" \/ output # "openai-chat")

(* passthrough-profile-picker: isPassthrough                               *)
PicksPassthrough ==
    /\ input # ""
    /\ output = "" \/ (input = output /\ input # "openai-chat")

Pick ==
    /\ stage = "pick" /\ stage' = "enforce"
    /\ profile' = IF PicksPassthrough THEN "passthrough" ELSE "translation"
    /\ UNCHANGED <<requestVars, out, stateVars, answer, chunkVars, reports, code, shown>>

(* stream-usage-enforcer                                                   *)
Enforce ==
    /\ stage = "enforce" /\ stage' = "balance"
    /\ out' = [out EXCEPT !.usage = out.usage \/ (client.stream /\ input \in {"", "openai-chat"})]
    /\ UNCHANGED <<requestVars, stateVars, profile, answer, chunkVars, reports, code, shown>>

(* external-metering, the request side: whose request it is, then whether  *)
(* the budget allows it.                                                   *)
Customer == IF captured \in Users THEN captured ELSE out.user

Unmetered ==
    /\ stage = "balance" /\ Customer = "" /\ stage' = "inspect"
    /\ UNCHANGED <<requestVars, out, stateVars, profile, answer, chunkVars, reports, code, shown>>

BalanceChecked ==
    /\ stage = "balance" /\ Customer # "" /\ username' = Customer
    /\ \/ stage' = "inspect" /\ out' = [out EXCEPT !.encoding = FALSE] /\ UNCHANGED code
       \/ Refuse("ResourceExhausted") /\ UNCHANGED out
    /\ UNCHANGED <<requestVars, captured, refs, input, output, profile, answer, chunkVars, reports, shown>>

(* No answer of the metering service: fail open, without removing the      *)
(* accept-encoding header, or closed.                                      *)
BalanceCheckFails ==
    /\ stage = "balance" /\ Customer # "" /\ username' = Customer
    /\ \/ failOpen /\ stage' = "inspect" /\ UNCHANGED code
       \/ ~failOpen /\ Refuse("ServiceUnavailable")
    /\ UNCHANGED <<requestVars, out, captured, refs, input, output, profile, answer, chunkVars, reports, shown>>

(* The guardrail service: it never allows a text that it blocks.           *)
Verdicts(texts) ==
    IF texts \cap Bad # {}
    THEN Replies \ {"success", "modified"} ELSE Replies

(* Mutant: the service's status is passed on.                              *)
RefusalOfRaw(reply) == reply

(* callNemoGuard: the error code of a reply that does not allow.           *)
RefusalOf(reply) ==
    CASE reply = "blocked" -> "Forbidden" [] reply = "unknown" -> "Internal" [] OTHER -> "ServiceUnavailable"

(* NemoRequestGuardPlugin.ProcessRequest                                   *)
InspectRequest ==
    /\ stage = "inspect"
    /\ LET found == ExtractMessages(client.body)
       IN  \/ ~found.ok /\ Refuse("BadRequest")
           \/ found.ok /\ found.texts = {} /\ stage' = "translate" /\ UNCHANGED code
           \/ /\ found.ok /\ found.texts # {}
              /\ \E reply \in Verdicts(found.texts) :
                    IF Allows(reply) THEN stage' = "translate" /\ UNCHANGED code
                    ELSE Refuse(RefusalOf(reply))
    /\ UNCHANGED <<requestVars, out, stateVars, profile, answer, chunkVars, reports, shown>>

(* NewAPITranslationPlugin: the registered translators.                    *)
Translators == {<<"openai-chat", "openai-chat">>, <<"openai-chat", "messages">>,
                <<"openai-chat", "vertex-messages">>, <<"messages", "vertex-messages">>}

(* api-translation: isPassthrough                                          *)
IsPassthrough == input # "" /\ input = output /\ input # "openai-chat"
Translates == input # "" /\ output # "" /\ ~IsPassthrough
Translatable == Translates => <<input, output>> \in Translators

(* What the translators need: for chat some messages, for Anthropic ones   *)
(* it can divide into a system prompt and others, of which there is one; a *)
(* tool's result without the id of its call counts as having no role.      *)
Messages == client.body["messages"]
HasMessages == Messages.kind = "expected" /\ Messages.items # {}
AnthropicMessages ==
    /\ Messages.kind = "expected"
    /\ \A item \in Messages.items : item.shape # "junk" /\ item.role # ""
    /\ \E item \in Messages.items : item.role # "system"
Complete == Translates /\ input = "openai-chat" =>
                IF output = "openai-chat" THEN HasMessages ELSE AnthropicMessages

(* APITranslationPlugin.ProcessRequest.  The translators for Vertex need a *)
(* version in the configuration, which may be missing.                     *)
TranslateRequest ==
    /\ stage = "translate"
    /\ \/ /\ Translatable /\ Complete
          /\ stage' = "provider" /\ UNCHANGED code
          /\ out' = IF output = "" THEN out ELSE [out EXCEPT !.format = output]
       \/ ~Translatable /\ Refuse("Internal") /\ UNCHANGED out
       \/ Translatable /\ ~Complete /\ Refuse("BadRequest") /\ UNCHANGED out
       \/ /\ Translates /\ Translatable /\ Complete /\ output = "vertex-messages"
          /\ Refuse("Internal") /\ UNCHANGED out
    /\ UNCHANGED <<requestVars, stateVars, profile, answer, chunkVars, reports, shown>>

-----------------------------------------------------------------------------
(* Answers.                                                                *)

Shown(a) == [format |-> a.format, body |-> a.body]

(* Vertex answers in the format of the Messages API.                       *)
Wire(format) == IF format = "vertex-messages" THEN "messages" ELSE format

(* The provider.  It compresses only if asked to.  A chat stream carries   *)
(* usage only if asked to, every other successful answer to an inference   *)
(* request does.  Bodies that are no JSON document are not handed to the   *)
(* buffering plugins, so for them only documents are considered.           *)
Provider ==
    /\ stage = "provider"
    /\ answer' \in {a \in Answers :
          /\ a.format = Wire(out.format)
          /\ a.compressed => out.encoding /\ profile = "passthrough"
          /\ a.layout = "sse" => client.stream /\ profile = "passthrough"
          /\ a.success => (\E k \in DOMAIN a.lines : a.lines[k].usage # None)
                             <=> (out.format # "" /\
                                  (out.format = "openai-chat" /\ a.layout = "sse" => out.usage))}
    /\ stage' = IF profile = "passthrough" THEN "chunks" ELSE "account"
    /\ shown' = IF profile = "passthrough" THEN Shown(answer') ELSE None
    /\ UNCHANGED <<requestVars, out, stateVars, profile, chunkVars, reports, code>>

Text == LET text == TextOf(answer.layout, answer.lines)
        IN  IF answer.compressed THEN [j \in DOMAIN text |-> [text[j] EXCEPT !.of.json = FALSE]]
            ELSE text

ReportOf(type, usage) == [type |-> type, user |-> username, usage |-> usage]

(* Mutant: the buffer starts again with every chunk.                       *)
TakeChunkForgets(chunk) ==
    LET usage == ExtractUsageFromChunk(chunk)
    IN  IF chunk = <<>> THEN UNCHANGED <<buffer, lastUsage>>
        ELSE IF usage # None THEN lastUsage' = usage /\ UNCHANGED buffer
        ELSE buffer' = chunk /\ UNCHANGED lastUsage

(* ProcessResponseChunk: what is kept of a chunk.                          *)
TakeChunk(chunk) ==
    LET usage == ExtractUsageFromChunk(chunk)
    IN  IF chunk = <<>> THEN UNCHANGED <<buffer, lastUsage>>
        ELSE IF usage # None THEN lastUsage' = usage /\ UNCHANGED buffer
        ELSE buffer' = buffer \o chunk /\ UNCHANGED lastUsage

(* ProcessResponseChunk, at the final chunk: reportUsageEvent or           *)
(* reportErrorEvent.  A report that fails is logged and not repeated.      *)
FinalReport(last, text) ==
    LET usage == IF last # None THEN last
                 ELSE IF text # <<>> THEN ExtractUsageFromBody(text) ELSE None
    IN  IF usage # None THEN <<ReportOf("usage", usage)>>
        ELSE IF text # <<>> /\ ExtractErrorFromResponse(text) THEN <<ReportOf("error", None)>>
        ELSE <<>>

Chunk(n, isFinal) ==
    /\ stage = "chunks" /\ pos + n <= Len(Text)
    /\ isFinal => pos + n = Len(Text)
    /\ pos' = pos + n
    /\ IF username = "" THEN UNCHANGED <<buffer, lastUsage, reports>>
       ELSE /\ TakeChunk(SubSeq(Text, pos + 1, pos + n))
            /\ reports' = IF isFinal THEN reports \o FinalReport(lastUsage', buffer') ELSE reports
    /\ stage' = IF isFinal THEN "done" ELSE "chunks"
    /\ UNCHANGED <<requestVars, out, stateVars, profile, answer, code, shown>>

(* The stream breaks off; there is no final chunk.                         *)
Break ==
    /\ stage = "chunks" /\ stage' = "broken"
    /\ UNCHANGED <<requestVars, out, stateVars, profile, answer, chunkVars, reports, code, shown>>

(* ExternalMeteringPlugin.ProcessResponse: usage of the whole body, in the *)
(* provider's format.                                                      *)
AccountBody ==
    /\ stage = "account" /\ stage' = "return"
    /\ reports' = IF username # "" /\ answer.lines[1].usage # None
                  THEN Append(reports, ReportOf("usage", answer.lines[1].usage)) ELSE reports
    /\ UNCHANGED <<requestVars, out, stateVars, profile, answer, chunkVars, code, shown>>

(* TranslateResponse: of an Anthropic message a choice is made with the    *)
(* texts and the tool calls of its content, of an error an error; the      *)
(* other translators leave answers as they are.                            *)
Choices(section) ==
    [kind |-> "expected",
     items |-> {item \in section.items : /\ section.kind = "expected" /\ item.shape = "text"
                                         /\ item.type \in {"message", "function_call"}}]
TranslateBody(a) ==
    IF input = "openai-chat" /\ Wire(output) = "messages"
    THEN [a EXCEPT !.format = "openai-chat",
                   !.body = [f \in Fields |-> IF f = "choices" /\ a.success
                                              THEN Choices(a.body["content"]) ELSE Absent]]
    ELSE a

(* APITranslationPlugin.ProcessResponse; a missing translator was found by *)
(* ProcessRequest.                                                         *)
TranslateResponse ==
    /\ stage = "return" /\ stage' = "review"
    /\ answer' = IF Translates THEN TranslateBody(answer) ELSE answer
    /\ UNCHANGED <<requestVars, out, stateVars, profile, chunkVars, reports, code, shown>>

(* NemoResponseGuardPlugin.ProcessResponse                                 *)
ReviewResponse ==
    /\ stage = "review"
    /\ LET found == ExtractAssistantMessages(answer.body, input)
           Deliver == /\ stage' = "done" /\ UNCHANGED code
                      /\ shown' = Shown(answer)
       IN  \/ ~found.ok /\ Refuse("Internal") /\ UNCHANGED shown
           \/ found.ok /\ found.texts = {} /\ Deliver
           \/ /\ found.ok /\ found.texts # {}
              /\ \E reply \in Verdicts(found.texts) :
                    IF Allows(reply) THEN Deliver ELSE Refuse(RefusalOf(reply)) /\ UNCHANGED shown
    /\ UNCHANGED <<requestVars, out, stateVars, profile, answer, chunkVars, reports>>

-----------------------------------------------------------------------------
Init ==
    /\ failOpen \in BOOLEAN /\ client \in Clients
    /\ out = [user |-> client.user, usage |-> client.usage, encoding |-> client.encoding, format |-> ""]
    /\ stage \in {"guard", "resolve"}
    /\ captured = None /\ refs = <<>> /\ input = "" /\ output = "" /\ username = ""
    /\ profile = "" /\ answer = None /\ code = "" /\ shown = None
    /\ pos = 0 /\ buffer = <<>> /\ lastUsage = None /\ reports = <<>>

Chunks == \E n \in 0..Len(Text), isFinal \in BOOLEAN : Chunk(n, isFinal)

Next ==
    \/ Guard \/ NotInference \/ ResolveModel \/ Pick \/ Enforce
    \/ Unmetered \/ BalanceChecked \/ BalanceCheckFails \/ InspectRequest \/ TranslateRequest
    \/ Provider \/ (stage = "chunks" /\ Chunks) \/ Break
    \/ AccountBody \/ TranslateResponse \/ ReviewResponse

Spec == Init /\ [][Next]_vars

-----------------------------------------------------------------------------
(* Properties.                                                             *)

(* Every variable has its type; in particular plugins end requests with    *)
(* known codes and keep formats the resolver wrote.                        *)
TypeOK ==
    /\ failOpen \in BOOLEAN /\ client \in Clients /\ out \in Outgoing /\ stage \in Stages
    /\ captured \in Users \cup {"", None}
    /\ refs \in Seq(Ref) /\ input \in Formats \cup {""} /\ output \in Formats \cup {""}
    /\ username \in Users \cup {""} /\ profile \in {"", "translation", "passthrough"}
    /\ answer = None \/ answer \in Answer
    /\ pos \in Nat /\ buffer \in Seq(Fragment) /\ lastUsage \in Usages \cup {None}
    /\ reports \in Seq(Report) /\ code \in Codes
    /\ shown = None \/ shown \in [format : Formats \cup {""}, body : Body]

(* The answer of a metered request is complete, and nothing hid its text:  *)
(* only a failed balance check lets the accept-encoding header pass.       *)
Metered == stage = "done" /\ answer # None /\ username # "" /\ ~(failOpen /\ client.encoding)

UsagesOf(a) == {a.lines[k].usage : k \in DOMAIN a.lines} \ {None}

(* However an answer is cut into chunks, in whichever layout and profile,  *)
(* a completed successful answer to a metered inference request is         *)
(* reported exactly once, for the customer, with usage the provider gave.  *)
(* It takes the enforcer, the header removal, the chunk buffer and the     *)
(* final chunk (external-metering ProcessResponseChunk, ProcessResponse).  *)
AnswerMeteredOnce ==
    Metered /\ answer.success /\ out.format # "" =>
        \E u \in UsagesOf(answer) :
            reports = <<[type |-> "usage", user |-> client.user, usage |-> u]>>

(* The first JSON of an answer is an error.                                *)
ErrorFirst(a) == \E k \in DOMAIN a.lines :
    a.lines[k].json /\ a.lines[k].error /\ \A j \in 1..(k - 1) : ~a.lines[j].json

ErrorReport == [type |-> "error", user |-> client.user, usage |-> None]

(* A failing answer that passes as chunks is reported at most once: if the *)
(* provider gave usage before the failure, that usage; otherwise nothing   *)
(* or an error, and an error for certain if the error is the first JSON of *)
(* the answer (ProcessResponseChunk, extractErrorFromResponse).            *)
FailureReportedOnce ==
    Metered /\ ~answer.success /\ profile = "passthrough" =>
        IF UsagesOf(answer) # {}
        THEN \E u \in UsagesOf(answer) :
                reports = <<[type |-> "usage", user |-> client.user, usage |-> u]>>
        ELSE /\ reports \in {<<>>, <<ErrorReport>>}
             /\ ErrorFirst(answer) => reports = <<ErrorReport>>

(* Fields the request guard does not look at: those it does not know, and  *)
(* those that come after one that is there.                                *)
Skipped(body, f) ==
    \/ f \notin {"messages", "jsonrpc", "input", "instructions"}
    \/ f # "messages" /\ Has(body, "messages")
    \/ f \in {"input", "instructions"} /\ Has(body, "jsonrpc")
    \/ f = "instructions" /\ ~Has(body, "input")

(* Texts it does not look at: arguments and instructions of the wrong      *)
(* type, items of unknown types or without a type, blocks of unknown kinds *)
(* and, in the arguments or the result of a tool call, what is no string.  *)
Unread(body, f, item) ==
    \/ Skipped(body, f)
    \/ f \in {"jsonrpc", "instructions"} /\ (body[f].kind # "expected" \/ item.shape # "text")
    \/ f = "input" /\ (item.type = "other" \/ item.shape # "text")

(* Where the response guard does not look: fields it does not know, above  *)
(* all the `content' of the Messages API, or that come after one that is   *)
(* there, tool calls, messages of other roles and blocks of unknown kinds. *)
Unheard(body, f, item) ==
    \/ f \notin IF input = "openai-responses" THEN {"output"} ELSE {"choices", "jsonrpc", "output"}
    \/ f \in {"jsonrpc", "output"} /\ Has(body, "choices") /\ input # "openai-responses"
    \/ f = "output" /\ Has(body, "jsonrpc") /\ input # "openai-responses"
    \/ item.type # "message"
    \/ f = "output" /\ (item.role \notin {"", "assistant"} \/ item.shape = "hidden")
    \/ f = "jsonrpc" /\ (body[f].kind # "expected" \/ item.shape = "junk")

(* Text the service blocks gets to a provider only where the request guard *)
(* does not look, and in a buffered answer to a client only where the      *)
(* response guard does not look - whatever JSON types the items have,      *)
(* whatever the service answers and whichever plugins run in between       *)
(* (extractMessages, extractAssistantMessages, callNemoGuard).             *)
BlockedStaysOut ==
    /\ answer # None => \A f \in Fields : \A item \in client.body[f].items :
          /\ item.text \in Bad => Unread(client.body, f, item)
          /\ f = "input" /\ item.type = "function_call" /\ item.name \in Bad => Skipped(client.body, f)
    /\ shown # None /\ profile = "translation" =>
          \A f \in Fields : \A item \in shown.body[f].items :
             item.text \in Bad => Unheard(shown.body, f, item)

(* Each reference gets the share of the draws that its weight asks for: a  *)
(* disabled one none, also at the ends of the list and of the range        *)
(* (selectByWeight).                                                       *)
DrawsMatchWeights ==
    \A k \in DOMAIN refs : Cardinality(DrawsFor(refs, k)) = refs[k].weight

(* The client gets an answer in the format of the API it called: the       *)
(* picker sends no answer past the translator that the translator has to   *)
(* translate (picker.go and api-translation decide this separately).       *)
AnsweredInClientFormat ==
    shown # None => shown.format = IF client.model THEN DetectInputAPIFormat(client.path) ELSE ""
=============================================================================
