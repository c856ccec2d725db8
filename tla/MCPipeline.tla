----------------------------- MODULE MCPipeline -----------------------------
(* Requests and answers for Pipeline: every path, each shape of body the   *)
(* guards tell apart, and answers in each layout.                          *)
EXTENDS Pipeline

It(type, text) == [type |-> type, role |-> "assistant", name |-> "", text |-> text, shape |-> "text"]
As(shape, type) == [It(type, "bad") EXCEPT !.shape = shape]
From(role, text) == [It("message", text) EXCEPT !.role = role]
Named(name, shape) == [As(shape, "function_call") EXCEPT !.name = name, !.text = "fine"]
Fine == {It("message", "fine")}

S(items) == [kind |-> "expected", items |-> items]
Wrong(items) == [kind |-> "other", items |-> items]
Empty == [f \in Fields |-> Absent]
B(field, items) == [Empty EXCEPT ![field] = S(items)]

C(path, model, stream, usage, encoding, user, body) ==
    [path |-> path, model |-> model, stream |-> stream, usage |-> usage,
     encoding |-> encoding, user |-> user, body |-> body]

ChatBody == B("messages", {From("user", "fine")})
InputBody == [B("input", {It("message", "fine"), It("function_call_output", "")})
                 EXCEPT !["instructions"] = S(Fine)]
OddBodies == {
    B("messages", {From("user", "fine"), From("assistant", "bad")}),
    B("messages", {}),
    B("messages", {From("system", "fine")}),
    B("messages", {From("user", "fine"), From("", "fine")}),
    B("messages", {From("user", "fine"), As("hidden", "message")}),
    B("messages", {[As("junk", "message") EXCEPT !.text = "fine"]}),
    [ChatBody EXCEPT !["messages"] = Wrong(Fine)],
    [ChatBody EXCEPT !["jsonrpc"] = S({It("message", "bad")})],
    B("jsonrpc", {It("message", "fine"), It("message", "bad")}),
    B("jsonrpc", {It("message", "fine"), As("odd", "message")}),
    [Empty EXCEPT !["jsonrpc"] = Wrong({It("message", "bad")})],
    B("content", {It("message", "bad")})}
OddInputs == {
    [B("input", {}) EXCEPT !["instructions"] = S({It("message", "bad")})],
    [B("input", Fine) EXCEPT !["instructions"] = Wrong({It("message", "bad")})],
    B("input", {It("function_call", "fine"), It("function_call_output", "bad")}),
    B("input", {Named("bad", "odd")}),
    B("input", {As("odd", "function_call"), As("odd", "function_call_output")}),
    B("input", {It("other", "bad"), As("hidden", "message")}),
    B("input", {It("message", "fine"), As("odd", "message")}),
    B("input", {It("message", "fine"), As("junk", "other")}),
    [Empty EXCEPT !["input"] = Wrong({It("message", "bad")})],
    [B("input", {It("message", "bad")}) EXCEPT !["messages"] = S(Fine)],
    B("instructions", {It("message", "bad")})}

MCClients ==
    {C("chat/completions", TRUE, s, u, e, user, ChatBody) :
        s \in BOOLEAN, u \in BOOLEAN, e \in BOOLEAN, user \in {"", "alice"}}
    \cup {C(p, TRUE, TRUE, FALSE, e, user, ChatBody) :
        p \in {"messages", "embeddings", "other"}, e \in BOOLEAN, user \in {"", "alice"}}
    \cup {C("responses", TRUE, TRUE, FALSE, e, "alice", InputBody) : e \in BOOLEAN}
    \cup {C("other", FALSE, FALSE, FALSE, FALSE, "alice", ChatBody),
          C("messages", TRUE, FALSE, FALSE, FALSE, "alice",
            [ChatBody EXCEPT !["system"] = S({It("message", "bad")})])}
    \cup {C("chat/completions", TRUE, FALSE, FALSE, FALSE, "alice", b) : b \in OddBodies}
    \cup {C("responses", TRUE, FALSE, FALSE, FALSE, "alice", b) : b \in OddInputs}

R(weight, format) == [weight |-> weight, format |-> format]
MCRefLists == {<<R(2, "openai-chat"), R(0, "openai-embeddings"), R(3, "messages")>>,
               <<R(0, "openai-chat"), R(1, "vertex-messages"), R(1, "openai-responses"), R(0, "messages")>>,
               <<R(100, "openai-embeddings")>>, <<R(0, "messages"), R(0, "openai-chat")>>}

L(usage) == [json |-> TRUE, usage |-> usage, error |-> FALSE]
Plain == L(None)
DoneLine == [json |-> FALSE, usage |-> None, error |-> FALSE]
ErrLine == [json |-> TRUE, usage |-> None, error |-> TRUE]

BodyOf(format, items) == B(CASE format = "openai-chat" -> "choices" [] format = "messages" -> "content"
                             [] OTHER -> "output", items)

A(format, success, layout, lines, body) ==
    [format |-> format, success |-> success, compressed |-> FALSE,
     layout |-> layout, lines |-> lines, body |-> body]

Streams ==
    {A("openai-chat", TRUE, "sse", <<Plain, L("u1"), DoneLine>>, BodyOf("openai-chat", Fine)),
     A("openai-chat", TRUE, "sse", <<Plain, DoneLine>>, BodyOf("openai-chat", Fine)),
     A("messages", TRUE, "sse", <<L("u1"), Plain, L("u2")>>, BodyOf("messages", Fine)),
     A("openai-responses", TRUE, "sse", <<Plain, Plain, L("u1")>>, BodyOf("openai-responses", Fine))}
Said == {Fine, Fine \cup {It("message", "bad")}, {It("message", "")}, {As("odd", "message")},
         {As("hidden", "message")}, Fine \cup {As("junk", "message")},
         {From("user", "bad"), [From("user", "bad") EXCEPT !.shape = "odd"], It("function_call", "bad")}}
Documents ==
    {A(f, TRUE, l, <<L("u1")>>, BodyOf(f, b)) : l \in {"json", "pretty"}, b \in Said,
        f \in {"openai-chat", "messages", "openai-embeddings", "openai-responses"}}
    \cup {A("openai-chat", TRUE, "json", <<L("u1")>>, B("jsonrpc", b)) : b \in Said}
    \cup {A("openai-chat", TRUE, "json", <<L("u1")>>, [Empty EXCEPT ![f] = Wrong({It("message", "bad")})]) :
        f \in {"choices", "jsonrpc", "output"}}
    \cup {A("openai-chat", TRUE, "json", <<L("u1")>>,
            [BodyOf("openai-chat", Fine) EXCEPT !["output"] = S({It("message", "bad")})]),
          A("", TRUE, "json", <<Plain>>, BodyOf("", Fine))}
Errors ==
    {A(f, FALSE, l, <<ErrLine>>, Empty) : l \in Layouts,
        f \in {"openai-chat", "messages", "openai-embeddings", "openai-responses"}}
    \cup {A(f, FALSE, "sse", lines, Empty) : f \in {"messages", "openai-responses"},
        lines \in {<<DoneLine, ErrLine>>, <<Plain, ErrLine>>, <<L("u1"), ErrLine>>}}

MCAnswers ==
    LET plain == Streams \cup Documents \cup Errors
    IN  plain \cup {[a EXCEPT !.compressed = TRUE] : a \in plain}
=============================================================================
