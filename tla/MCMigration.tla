---------------------------- MODULE MCMigration ----------------------------
EXTENDS Migration

S(provider, endpoint, port, tls) ==
    [provider |-> provider, endpoint |-> endpoint, target |-> "t1", conn |-> [port |-> port, tls |-> tls]]

(* Two that differ in everything, one that is insecure, incomplete or      *)
(* invalid each.                                                           *)
MCLegacySpecs == {S("anthropic", "e1", "", ""), S("azure", "e2", "8443", "true"),
                  S("openai", "e1", "", "false"), S("openai", "", "", ""), S("vertex-openai", "e1", "junk", "")}
=============================================================================
