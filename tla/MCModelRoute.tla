---------------------------- MODULE MCModelRoute ----------------------------
(* A model with references to the providers p and q of its namespace and   *)
(* to a provider of another one.                                           *)
EXTENDS ModelRoute

State(e, port, phase) == [endpoint |-> e, port |-> port, keys |-> {}, phase |-> phase]
Changing == {State("e1", "", "Ready"), State("e2", "8080", "Failed")}
WithJunk == {State("e1", "", "Ready"), State("e2", "junk", "Ready")}

To(name, foreign, needs) == [name |-> name, foreign |-> foreign, needs |-> needs, keys |-> {}]
S(refs, attached) == [refs |-> refs, attached |-> attached, name |-> "gpt"]
Both == S(<<To("p", FALSE, {}), To("q", FALSE, {})>>, FALSE)
Mixed == S(<<To("p", TRUE, {}), To("q", FALSE, {})>>, FALSE)
Foreign == S(<<To("p", TRUE, {})>>, FALSE)
Attached == S(<<To("p", FALSE, {})>>, TRUE)
NeedsKey == S(<<To("p", FALSE, {"project"})>>, FALSE)

AllShapes == {Both, Mixed, Foreign, Attached, NeedsKey}
LiveShapes == {Both, Foreign}
BothOnly == {Both}
=============================================================================
