--------------------------- MODULE MCCredentials ---------------------------
(* Two Secrets: one holds an API key, AWS keys and a service account and   *)
(* is rotated as a whole, the other may be malformed.                      *)
EXTENDS Credentials

MCTexts == {"", "x", "v1", "v2", "bad"}
MCFields == {APIKeyField, AccountField, AccessKeyField, SecretKeyField}

CONSTANTS k1, k2, r1, r2

Filled(v) == [f \in MCFields |-> v]
Good(v) == [managed |-> TRUE, deleting |-> FALSE, data |-> Filled(v)]
Blank == [Good("v1") EXCEPT !.data[APIKeyField] = ""]
MCObjects == [k \in Keys |->
    IF k = k1 THEN {Good("v1"), Good("v2"), [Good("v2") EXCEPT !.managed = FALSE]}
    ELSE {Blank, [Good("v2") EXCEPT !.data = [f \in {AccountField} |-> "bad"]]}]

Input(auth, ref, config, endpoint) ==
    [auth |-> auth, ref |-> ref, config |-> config, endpoint |-> endpoint]
MCRequests == [r \in Requests |->
    {Input("oauth2", k1, <<>>, "custom"), Input("none", None, None, "")} \cup
    IF r = r1
    THEN {Input("apikey", k1, [f \in {HeaderName} |-> "x"], "custom"),
          Input("sigv4", k1, [f \in {"service"} |-> "x"], "standard")}
    ELSE {Input("oauth2", k2, <<>>, "custom"), Input("apikey", None, <<>>, "")}]
=============================================================================
