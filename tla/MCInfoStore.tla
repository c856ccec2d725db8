---------------------------- MODULE MCInfoStore ----------------------------
(* Instances of InfoStore: two tenants t1 and t2, each with a provider "p" *)
(* (t1 has a second one, "q", in the two-reference instance) and models    *)
(* that may claim the same client-facing name "gpt".                       *)
EXTENDS InfoStore

K(ns, name) == [ns |-> ns, name |-> name]
NoConfig == [k \in {} |-> "v1"]
OneConfig(k, v) == [x \in {k} |-> v]

MCNamespaces == {"t1", "t2"}
MCNames == {"p", "q", "m1", "m2"}
MCClientNames == MCNames \cup {"gpt"}
MCConfigKeys == {"authHeaderName", "model", "project"}
MCValues == {"v1", "v2", "x-api-key", "api-key"}

Provider(type, v, config) ==
    [provider |-> type, endpoint |-> v, authType |-> "simple", secret |-> v, config |-> config]
RefTo(ns, name, path, auth) ==
    [ns |-> ns, name |-> name, target |-> "v1", path |-> path, config |-> NoConfig,
     auth |-> auth, weight |-> 1]
Model(name, gw, refs) == [modelName |-> name, gatewayRefs |-> gw, refs |-> refs]
Local(name) == RefTo("", name, {}, None)

(* Two tenants whose models may collide on "gpt".                          *)
TwoTenantProviders == {K("t1", "p"), K("t2", "p")}
TwoTenantModels == {K("t1", "m1"), K("t2", "m2")}
OneProviderSpec == {Provider("openai", "v1", NoConfig)}
RichProviderSpec == {Provider("anthropic", "v2", OneConfig("project", "v2"))}
TwoProviderSpecs == OneProviderSpec \cup RichProviderSpec
CollidingSpecs == {Model("gpt", FALSE, <<Local("p")>>),
                   Model("gpt", TRUE, <<Local("p")>>)}
AnySpecs == {Model("gpt", FALSE, <<Local("p"), RefTo("t2", "p", {}, None)>>),
             Model("", FALSE, <<RefTo("", "p", {"project", "model"}, [type |-> "sigv4", secret |-> "v2"])>>)}

(* One tenant, one model with two providers.                               *)
OneTenantProviders == {K("t1", "p"), K("t1", "q")}
OneTenantModels == {K("t1", "m1")}
TwoRefSpecs == {Model("gpt", FALSE, <<Local("p"), Local("q")>>)}
=============================================================================
