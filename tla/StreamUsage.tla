---------------------------- MODULE StreamUsage ----------------------------
(***************************************************************************)
(* How external-metering finds usage and errors in an answer that arrives  *)
(* in chunks (pkg/plugins/external-metering).                              *)
(*                                                                         *)
(* An answer is a sequence of lines in one of three layouts: server-sent   *)
(* events, one JSON line, or one JSON document printed over many lines.    *)
(* Chunk boundaries may fall anywhere; what matters is where they fall in  *)
(* a line, so a line consists of fragments: two parts of the "data: "      *)
(* prefix, the head of the JSON, starting with a brace, and its tail with  *)
(* the line end.  Text is a sequence of fragments, buffered or not.        *)
(***************************************************************************)
EXTENDS Naturals, Sequences

CONSTANTS Usages, None

(* json: the payload is JSON ("[DONE]" is not); usage: at one of the four  *)
(* places the code looks at; error: an error object or string.             *)
Line == [json : BOOLEAN, usage : Usages \cup {None}, error : BOOLEAN]
Layouts == {"sse", "json", "pretty"}
Fragment == [line : Nat, part : {"da", "ta", "head", "tail"}, of : Line, layout : Layouts]

Parts(layout) == IF layout = "sse" THEN <<"da", "ta", "head", "tail">> ELSE <<"head", "tail">>

(* The text of an answer.                                                  *)
TextOf(layout, lines) ==
    LET k == Len(Parts(layout))
    IN  [j \in 1..(k * Len(lines)) |->
            [line |-> 1 + ((j - 1) \div k), part |-> Parts(layout)[1 + ((j - 1) % k)],
             of |-> lines[1 + ((j - 1) \div k)], layout |-> layout]]

(* strings.Split at line ends: the line that ends at j begins here.        *)
LineStart(text, j) ==
    CHOOSE i \in 1..j :
        /\ i = 1 \/ text[i - 1].part = "tail"
        /\ \A h \in i..(j - 1) : text[h].part # "tail"

(* A head and the tail of the same payload, which is JSON.                 *)
Whole(text, j) ==
    /\ j > 1 /\ text[j].part = "tail" /\ text[j].of.json
    /\ text[j - 1] = [text[j] EXCEPT !.part = "head"]

(* splitSSELines and json.Unmarshal: the line ending at j is a payload,    *)
(* after a whole prefix or from the brace on.                              *)
Parsed(text, j) ==
    /\ Whole(text, j) /\ text[j].layout # "pretty"
    /\ \/ LineStart(text, j) = j - 1
       \/ LineStart(text, j) = j - 3 /\ text[j - 2].part = "ta" /\ text[j - 3].part = "da"

FirstOf(S) == CHOOSE i \in S : \A j \in S : i <= j

(* extractUsageFromChunk: the first line that parses and has usage.        *)
ExtractUsageFromChunk(text) ==
    LET found == {j \in DOMAIN text : Parsed(text, j) /\ text[j].of.usage # None}
    IN  IF found = {} THEN None ELSE text[FirstOf(found)].of.usage

(* The text as a whole is one JSON document.                               *)
Document(text) == Len(text) = 2 /\ Whole(text, 2)

(* extractUsageFromBody                                                    *)
ExtractUsageFromBody(text) ==
    IF Document(text) /\ text[2].of.usage # None THEN text[2].of.usage
    ELSE ExtractUsageFromChunk(text)

(* Mutant: errors are looked for in documents only.                        *)
ExtractErrorFromDocument(text) == Document(text) /\ text[2].of.error

(* extractErrorFromResponse: the document, else the first line that parses *)
ExtractErrorFromResponse(text) ==
    LET parsed == {j \in DOMAIN text : Parsed(text, j)}
    IN  IF Document(text) THEN text[2].of.error
        ELSE parsed # {} /\ text[FirstOf(parsed)].of.error
=============================================================================
