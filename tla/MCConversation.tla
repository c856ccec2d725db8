--------------------------- MODULE MCConversation ---------------------------
(* A client with text, a picture and a link; two functions whose calls     *)
(* come alone, together, after text, and cut off by the token limit.       *)
EXTENDS Conversation

MCCallIds == <<"call_0", "call_1", "call_2">>
MCLimits == {-1, 0, 10, 20}

P(type, text) == [type |-> type, text |-> text]
MCUserContents == {
    [string |-> TRUE, parts |-> <<P("text", <<"hi">>)>>],
    [string |-> FALSE, parts |-> <<P("text", <<"hi">>), P("image", <<>>), P("link", <<>>)>>]}

T(name, function, schema) == [name |-> name, function |-> function, schema |-> schema]
MCParamSets == {
    [tools |-> <<T("f", TRUE, TRUE), T("g", TRUE, FALSE)>>, choice |-> "auto",
     limit |-> 10, completionLimit |-> 0],
    [tools |-> <<T("g", FALSE, TRUE)>>, choice |-> "function", limit |-> None, completionLimit |-> -1],
    [tools |-> <<>>, choice |-> "none", limit |-> 10, completionLimit |-> 20]}

Use(id, name, args) == [type |-> "tool_use", text |-> <<>>, id |-> id, name |-> name, args |-> args]
MCAnthropicAnswers == {
    [blocks |-> <<TextBlock(<<"ok">>), TextBlock(<<"then">>)>>, stop |-> "end_turn"],
    [blocks |-> <<TextBlock(<<"ok">>), Use("a", "f", "x"), Use("b", "f", None)>>, stop |-> "tool_use"],
    [blocks |-> <<Use("c", "g", "x")>>, stop |-> "tool_use"],
    [blocks |-> <<TextBlock(<<"ok">>), Use("c", "g", "x")>>, stop |-> "max_tokens"]}

Fn(name, args) == [type |-> "call", text |-> <<>>, name |-> name, args |-> args]
MCVertexAnswers == {
    <<TextPart(<<"ok">>), TextPart(<<"then">>)>>,
    <<TextPart(<<"ok">>), Fn("f", "x"), Fn("g", None)>>,
    <<Fn("g", "x"), Fn("f", "x")>>}
=============================================================================
