---------------------------- MODULE Guardrails ----------------------------
(***************************************************************************)
(* What the NeMo guards (pkg/plugins/nemo) submit to the guardrail service *)
(* and how they read its verdict.                                          *)
(*                                                                         *)
(* A body has sections, one for each field the plugins look at: absent, of *)
(* the type the guards expect, or of another type.  Under jsonrpc are the  *)
(* arguments or the result of a tool.  A section has items: messages, tool *)
(* calls, arguments, choices, blocks; a plain string is one item.  An item *)
(* has a type, a role, a name and a text, and the shape of what carries    *)
(* the text:                                                               *)
(*   "text"   a string, or blocks of text;                                 *)
(*   "hidden" blocks of other kinds, or whose text is no string;           *)
(*   "odd"    another JSON type;                                           *)
(*   "junk"   the item is not the object it should be.                     *)
(* A message with blocks of two kinds is two items.  Items and texts are   *)
(* sets: the verdict depends neither on order nor on repetitions.          *)
(***************************************************************************)
EXTENDS Naturals, Sequences

CONSTANTS Texts     \* contents of messages, "" is the empty one

Fields == {"messages", "jsonrpc", "input", "instructions", "system", "choices", "output", "content"}
Item == [type : {"message", "function_call", "function_call_output", "other"},
         role : {"", "system", "user", "assistant", "tool"},
         name : Texts, text : Texts, shape : {"text", "hidden", "odd", "junk"}]
Absent == [kind |-> "absent", items |-> {}]
Section == [kind : {"expected", "other"}, items : SUBSET Item] \cup {Absent}
Body == [Fields -> Section]

Has(body, field) == body[field].kind # "absent"

(* Extractions: the texts to submit, or an error.                          *)
Failure == [ok |-> FALSE, texts |-> {}]
Texted(texts) == [ok |-> TRUE, texts |-> texts]

(* A field asserted to be a string, `s, _ := v.(string)', is "" if it is   *)
(* of another type; so are content blocks the guards do not know.          *)
StringOf(item) == IF item.shape = "text" THEN item.text ELSE ""

(* extractOpenAIMessages forwards every message as it is.                  *)
OpenAIMessages(section) ==
    IF section.kind # "expected" THEN Failure
    ELSE Texted(UNION {{item.text, item.name} : item \in section.items})

(* extractMCPArguments: the string arguments, if there are arguments.      *)
MCPArguments(section) ==
    Texted({item.text : item \in {x \in section.items : section.kind = "expected" /\ x.shape = "text"}})

(* Mutant: the results of tools are not read.                              *)
InputTextsCalls(item) ==
    CASE item.type = "message" -> {StringOf(item)}
      [] item.type = "function_call" -> {item.name, StringOf(item)}
      [] OTHER -> {}

(* extractOpenResponsesInputItems: what becomes messages of an item; items *)
(* of other types are skipped, also those without a type.                  *)
InputTexts(item) ==
    CASE item.type \in {"message", "function_call_output"} -> {StringOf(item)}
      [] item.type = "function_call" -> {item.name, StringOf(item)}
      [] OTHER -> {}

(* extractOpenResponsesInputItems: only an item that is no object and a    *)
(* message whose content is neither a string nor a list are errors.        *)
OpenResponsesInputItems(items) ==
    IF \E item \in items : item.shape = "junk" \/ (item.type = "message" /\ item.shape = "odd")
    THEN Failure
    ELSE Texted((UNION {InputTexts(item) : item \in items}) \ {""})

(* extractOpenResponsesInput: instructions that are a string, then the     *)
(* input, a string or a list of items.                                     *)
OpenResponsesInput(body) ==
    LET instructions == {StringOf(item) : item \in {x \in body["instructions"].items :
                                                       body["instructions"].kind = "expected"}}
        found == OpenResponsesInputItems(body["input"].items)
    IN  IF body["input"].kind # "expected" \/ ~found.ok THEN Failure
        ELSE Texted(found.texts \cup (instructions \ {""}))

(* extractMessages: the first field that is there decides; the format of   *)
(* the API, its other parameter, is not looked at.                         *)
ExtractMessages(body) ==
    IF Has(body, "messages") THEN OpenAIMessages(body["messages"])
    ELSE IF Has(body, "jsonrpc") THEN MCPArguments(body["jsonrpc"])
    ELSE IF Has(body, "input") THEN OpenResponsesInput(body)
    ELSE Texted({})

(* extractOpenAIAssistantMessagesFromChoices; a message without content    *)
(* (tool calls only) is skipped, content of another type an error.         *)
OpenAIChoices(section) ==
    IF \/ section.kind # "expected"
       \/ \E item \in section.items : item.shape = "junk" \/ (item.type = "message" /\ item.shape # "text")
    THEN Failure
    ELSE Texted({item.text : item \in {x \in section.items : x.type = "message"}} \ {""})

(* extractOpenResponsesOutput: what is no message of the assistant is      *)
(* skipped before its content is looked at.                                *)
Spoken(item) == item.type = "message" /\ item.role \in {"", "assistant"}
OpenResponsesOutput(section) ==
    IF section.kind = "absent" THEN Texted({})
    ELSE IF \/ section.kind = "other"
            \/ \E item \in section.items : item.shape = "junk" \/ (Spoken(item) /\ item.shape = "odd")
    THEN Failure
    ELSE Texted({StringOf(item) : item \in {x \in section.items : Spoken(x)}} \ {""})

(* extractMCPTextContent: entries that are no text are skipped, a text     *)
(* that is no string is an error.                                          *)
MCPTextContent(section) ==
    LET entries == {item \in section.items : /\ section.kind = "expected"
                                             /\ item.shape # "junk" /\ item.type = "message"}
    IN  IF \E item \in entries : item.shape # "text" THEN Failure
        ELSE Texted({item.text : item \in entries} \ {""})

(* extractAssistantMessages                                                *)
ExtractAssistantMessages(body, inputFormat) ==
    IF inputFormat = "openai-responses" THEN OpenResponsesOutput(body["output"])
    ELSE IF Has(body, "choices") THEN OpenAIChoices(body["choices"])
    ELSE IF Has(body, "jsonrpc") THEN MCPTextContent(body["jsonrpc"])
    ELSE OpenResponsesOutput(body["output"])

(* The answers of the service, with its failures and the statuses the code *)
(* does not know.                                                          *)
Replies == {"success", "modified", "blocked", "error", "unreachable", "garbled", "unknown"}

(* callNemoGuard: everything but the two allowing statuses is an error.    *)
Allows(reply) == reply \in {"success", "modified"}
=============================================================================
