------------------------- MODULE MCProviderControl -------------------------
(* Instances of ProviderControl: a provider whose spec is edited between a *)
(* secure form and others.                                                 *)
EXTENDS ProviderControl

S(e, auth, tls) == [endpoint |-> e, auth |-> auth, port |-> "", tls |-> tls]
ThreeSpecs == {S("e1", "apikey", ""), S("e2", "oauth2", "false"), S("e1", "apikey", "junk")}
=============================================================================
