---------------------------- MODULE ChatMessages ----------------------------
(***************************************************************************)
(* Requests and messages of the OpenAI chat API, as far as the translators *)
(* in pkg/plugins/api-translation/translator tell them apart.              *)
(*                                                                         *)
(* Text is a sequence of words, so joining texts is concatenation and ""   *)
(* is the empty sequence.  A picture is an image_url part: "image" with a  *)
(* base64 data URL, "link" with any other URL.                             *)
(***************************************************************************)
EXTENDS Integers, Sequences, SequencesExt

CONSTANTS
    Words,          \* words of texts
    Ids,            \* ids of tool calls
    Names,          \* names of functions
    Objects,        \* JSON objects given to functions as arguments
    Limits,         \* values of max_tokens and max_completion_tokens
    None

Roles == {"system", "developer", "user", "assistant", "tool", "function"}
Part == [type : {"text", "image", "link"}, text : Seq(Words)]

(* The arguments of a call are JSON text.                                  *)
Call == [id : Ids \cup {""}, name : Names, args : Objects \cup {"{}", "broken"}]

(* string: the content is a string, not an array of parts.  id: the        *)
(* tool_call_id; name: the function (the code reads it for role            *)
(* "function", for role "tool" only the properties do).                    *)
Message == [role : Roles, string : BOOLEAN, parts : Seq(Part), calls : Seq(Call),
            id : Ids \cup {""}, name : Names \cup {""}]

(* The members of W in s, in their order: the loops that skip the others.  *)
Keep(s, W) ==
    LET kept[i \in 0..Len(s)] ==
            IF i = 0 THEN <<>>
            ELSE IF s[i] \in W THEN Append(kept[i - 1], s[i]) ELSE kept[i - 1]
    IN  kept[Len(s)]

(* Links are dropped, and pictures without data.                           *)
ShownParts == {p \in Part : p.type # "link"}

(* A tool: function is FALSE for one of another type, which has no         *)
(* function object; schema tells whether parameters are given.             *)
Tool == [name : Names, function : BOOLEAN, schema : BOOLEAN]
ToolChoices == {"absent", "auto", "none", "required", "function"}
Params == [tools : Seq(Tool), choice : ToolChoices, limit : Limits \cup {None},
           completionLimit : Limits \cup {None}]

FunctionTools == {t \in Tool : t.function}

(* The texts of parts or blocks, joined.                                   *)
Joined(parts) == FlattenSeq([i \in DOMAIN parts |-> parts[i].text])

(* extractContentString                                                    *)
ContentString(msg) == Joined(msg.parts)

IsSystem(msg) == msg.role \in {"system", "developer"}

(* json.Unmarshal of arguments, with {} for what does not parse.           *)
ParseArguments(args) == IF args = "broken" THEN "{}" ELSE args

(* Mutant: null is kept.                                                   *)
ToJSONStringRaw(object) == object

(* toJSONString: the arguments of a call as JSON text.                     *)
ToJSONString(object) == IF object = None THEN "{}" ELSE object

(* resolveMaxTokens: the first positive limit.                             *)
ResolveMaxTokens(params, default) ==
    LET Given(v) == v # None /\ v > 0
    IN  IF Given(params.completionLimit) THEN params.completionLimit
        ELSE IF Given(params.limit) THEN params.limit
        ELSE default
=============================================================================
