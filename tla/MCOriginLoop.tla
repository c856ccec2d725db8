---------------------------- MODULE MCOriginLoop ----------------------------
(* Instances of OriginLoop: three clusters a, b, c and a third-party API.  *)
(* The names differ in case and in blanks around them.                     *)
EXTENDS OriginLoop

Three == {"a", "b", "c"}
MCTexts == {"", " ", "a", "A", " a", "b", "C", "c", "other"}
MCTrim == [t \in MCTexts |-> CASE t = " " -> "" [] t = " a" -> "a" [] OTHER -> t]
MCFold == [t \in MCTexts |-> CASE t = "A" -> "a" [] t = "C" -> "c" [] OTHER -> t]

MaaS(to) == [provider |-> "remote-maas", to |-> to, weight |-> 1]
OpenAI(to, w) == [provider |-> "openai", to |-> to, weight |-> w]

(* a is named " a" (trimmed), b is unnamed, c is named "C".                *)
SomeNames == [c \in Three |-> CASE c = "a" -> " a" [] c = "b" -> "" [] OTHER -> "C"]

(* Every cluster may point at every other one, and at a third-party API;   *)
(* some references between clusters are not typed remote-maas.             *)
AnyRefs == [c \in Three |-> {MaaS(d) : d \in Three \ {c}}
                            \cup {OpenAI(d, 1) : d \in {"b"} \ {c}}
                            \cup {OpenAI(ThirdParty, 1), OpenAI("c", 0)}]
=============================================================================
