---------------------------- MODULE Credentials ----------------------------
(***************************************************************************)
(* The apikey-injection plugin (pkg/plugins/apikey-injection): the store   *)
(* of labelled Secrets and its reconciler, and the requests whose provider *)
(* credential is looked up in the store and turned into headers, for       *)
(* OAuth2 through a token cache whose lock is held during the token fetch. *)
(*                                                                         *)
(* `log' holds every version of a Secret the API server has had.  The      *)
(* informer cache is a position in it, seen through the label selector.    *)
(* The reconciler reads that same cache.  Time is counted backwards: a     *)
(* token carries the time it has left.                                     *)
(***************************************************************************)
EXTENDS Naturals, Sequences

CONSTANTS
    Keys,           \* namespaced names of Secrets
    Texts,          \* contents of Secret fields and config values, with ""
    Fields,         \* names of Secret fields
    SecretObjects,  \* the Secrets users write, for each name
    Requests,       \* requests, each slot reused
    RequestData,    \* what the CycleState may hold for each request
    BadAccounts,    \* texts that are no service account JSON
    Lifetimes,      \* lifetimes of the tokens the token endpoint issues
    Margin,         \* the safety margin of isTokenValid, 5 minutes
    MaxTransit,     \* longest time from injection to the provider's check
    MaxWrites,      \* bound on the writes of users
    MaxRestarts,    \* bound on restarts
    None

APIKeyField == "api-key"
AccountField == "gcp-service-account-json"
AccessKeyField == "aws-access-key-id"
SecretKeyField == "aws-secret-access-key"
HeaderName == "authHeaderName"
ValuePrefix == "authValuePrefix"

Data == UNION {[S -> Texts] : S \in SUBSET Fields}
Configs == UNION {[S -> Texts] : S \in SUBSET {HeaderName, ValuePrefix, "region", "service"}}
SecretObject == [managed : BOOLEAN, deleting : BOOLEAN, data : Data]
WorkerType == [key : Keys, at : Nat, obj : SecretObject \cup {None}]

(* The CycleState keys of the resolver: auth type ("" if unset), Secret    *)
(* reference (None if a part of it is missing), model config (None if      *)
(* unset) and the kind of endpoint.                                        *)
Inputs == [auth : {"", "none", "apikey", "sigv4", "oauth2", "simple"}, ref : Keys \cup {None},
           config : Configs \cup {None}, endpoint : {"", "standard", "custom"}]

ASSUME FieldsAssumption ==
    {APIKeyField, AccountField, AccessKeyField, SecretKeyField} \subseteq Fields
ASSUME ObjectsAssumption == \A k \in Keys : SecretObjects[k] \subseteq SecretObject
ASSUME InputsAssumption == \A r \in Requests : RequestData[r] \subseteq Inputs
ASSUME NoneAssumption ==
    /\ None \notin SecretObject \cup Data \cup Configs \cup Inputs
    /\ None \notin Requests \cup Keys \cup WorkerType
ASSUME TimesAssumption ==
    /\ Margin \in Nat /\ MaxTransit \in Nat /\ MaxWrites \in Nat /\ MaxRestarts \in Nat
    /\ Lifetimes \subseteq Nat
(* Tokens are issued for longer than a request is under way, and the       *)
(* margin covers that time as well.                                        *)
ASSUME LifetimeAssumption == MaxTransit <= Margin /\ \A l \in Lifetimes : l > MaxTransit

VARIABLES
    log,            \* versions of each Secret on the API server
    cached,         \* the informer cache's position in log
    queue,          \* work queue of the Secret reconciler
    worker,         \* its worker: None, or key, version and object it has read
    store,          \* secretStore.data
    at,             \* ghost: the version the store last took
    tokens,         \* GCPOAuth2Generator.cache
    lock,           \* its mutex: None or the request that holds it
    req,            \* the requests under way
    writes,         \* writes of users left
    restarts        \* restarts left

secretVars == <<log, cached, queue, worker, store, at>>
vars == <<log, cached, queue, worker, store, at, tokens, lock, req, writes, restarts>>

-----------------------------------------------------------------------------
(* The Secret store.                                                       *)

Version(k, i) == IF i = 0 THEN None ELSE log[k][i]

(* newFilteredSecretCache: the informer holds labelled Secrets only.       *)
Selected(o) == IF o # None /\ o.managed THEN o ELSE None

(* The conditions of addOrUpdate.                                          *)
WellFormed(data) == DOMAIN data # {} /\ \A f \in DOMAIN data : data[f] # ""

(* The part of Reconcile's test that leads to addOrUpdate.                 *)
Serveable(o) == o # None /\ o.managed /\ ~o.deleting

(* What the store serves for a version of a Secret.                        *)
Usable(o) == IF Serveable(o) /\ WellFormed(o.data) THEN o.data ELSE None

(* A user creates, edits, relabels or deletes a Secret.                    *)
Write(k, o) ==
    /\ writes > 0
    /\ writes' = writes - 1
    /\ o # Version(k, Len(log[k]))
    /\ log' = [log EXCEPT ![k] = Append(@, o)]
    /\ UNCHANGED <<cached, queue, worker, store, at, tokens, lock, req, restarts>>

(* Mutant: deletions are filtered out of the events.                       *)
DeliverPresent(k) ==
    /\ \E i \in (cached[k] + 1)..Len(log[k]) :
          /\ cached' = [cached EXCEPT ![k] = i]
          /\ queue' = IF Selected(Version(k, i)) \notin {None, Selected(Version(k, cached[k]))}
                      THEN queue \cup {k} ELSE queue
    /\ UNCHANGED <<log, worker, store, at, tokens, lock, req, writes, restarts>>

(* The informer takes the next versions, one or (a relist) several, and    *)
(* the event handler enqueues the key if the cached object changed.        *)
Deliver(k) ==
    /\ \E i \in (cached[k] + 1)..Len(log[k]) :
          /\ cached' = [cached EXCEPT ![k] = i]
          /\ queue' = IF Selected(Version(k, i)) # Selected(Version(k, cached[k]))
                      THEN queue \cup {k} ELSE queue
    /\ UNCHANGED <<log, worker, store, at, tokens, lock, req, writes, restarts>>

(* Mutant: the reconciler reads through a second cache.                    *)
GetSecretElsewhere(k) ==
    /\ worker = None
    /\ k \in queue
    /\ queue' = queue \ {k}
    /\ \E i \in 0..Len(log[k]) :
          worker' = [key |-> k, at |-> i, obj |-> Selected(Version(k, i))]
    /\ UNCHANGED <<log, cached, store, at, tokens, lock, req, writes, restarts>>

(* The worker takes a key and reads the Secret from the cache.             *)
GetSecret(k) ==
    /\ worker = None
    /\ k \in queue
    /\ queue' = queue \ {k}
    /\ worker' = [key |-> k, at |-> cached[k], obj |-> Selected(Version(k, cached[k]))]
    /\ UNCHANGED <<log, cached, store, at, tokens, lock, req, writes, restarts>>

(* Mutant: a malformed Secret leaves the entry that is there.              *)
StoreSecretKeeps ==
    /\ worker # None
    /\ IF Serveable(worker.obj) /\ ~WellFormed(worker.obj.data)
       THEN queue' = queue \cup {worker.key} /\ UNCHANGED store
       ELSE queue' = queue /\ store' = [store EXCEPT ![worker.key] = Usable(worker.obj)]
    /\ at' = [at EXCEPT ![worker.key] = worker.at]
    /\ worker' = None
    /\ UNCHANGED <<log, cached, tokens, lock, req, writes, restarts>>

(* The rest of Reconcile: delete, or addOrUpdate, which deletes the entry  *)
(* of a malformed Secret and fails, so that the key is tried again.        *)
StoreSecret ==
    /\ worker # None
    /\ store' = [store EXCEPT ![worker.key] = Usable(worker.obj)]
    /\ queue' = IF Serveable(worker.obj) /\ ~WellFormed(worker.obj.data)
                THEN queue \cup {worker.key} ELSE queue
    /\ at' = [at EXCEPT ![worker.key] = worker.at]
    /\ worker' = None
    /\ UNCHANGED <<log, cached, tokens, lock, req, writes, restarts>>

-----------------------------------------------------------------------------
(* Headers.                                                                *)

(* maps.Copy(merged, credentialsData); maps.Copy(merged, extraData)        *)
Merge(base, over) ==
    [f \in DOMAIN base \cup DOMAIN over |-> IF f \in DOMAIN over THEN over[f] ELSE base[f]]

NoFields == [f \in {} |-> ""]
Field(f, m) == IF f \in DOMAIN m THEN m[f] ELSE ""

(* regionFromEndpoint: the second label of a standard endpoint.            *)
RegionFromEndpoint(endpoint) == IF endpoint = "standard" THEN "r1" ELSE ""

(* APIKeyAuthGenerator.ExtractRequestData; None is its error.              *)
APIKeyData(in) ==
    IF in.config = None THEN None
    ELSE LET custom == Field(HeaderName, in.config) # ""
         IN  [f \in {HeaderName, ValuePrefix} |->
                 IF f = HeaderName
                 THEN IF custom THEN in.config[HeaderName] ELSE "Authorization"
                 ELSE IF custom THEN Field(ValuePrefix, in.config) ELSE "Bearer "]

(* SigV4AuthGenerator.ExtractRequestData, without the body and path.       *)
SigV4Data(in) ==
    LET config == IF in.config = None THEN NoFields ELSE in.config
        region == IF Field("region", config) # "" THEN Field("region", config)
                  ELSE RegionFromEndpoint(in.endpoint)
    IN  IF in.endpoint = "" \/ region = "" \/ Field("service", config) = ""
        THEN None
        ELSE [f \in {"endpoint", "region", "service"} |->
                 IF f = "endpoint" THEN in.endpoint
                 ELSE IF f = "region" THEN region ELSE config["service"]]

ExtractRequestData(in) ==
    IF in.auth = "apikey" THEN APIKeyData(in)
    ELSE IF in.auth = "sigv4" THEN SigV4Data(in) ELSE NoFields

(* The fields of the Secret each generator requires.                       *)
Required(auth) ==
    IF auth = "apikey" THEN {APIKeyField}
    ELSE IF auth = "sigv4" THEN {AccessKeyField, SecretKeyField} ELSE {AccountField}

(* The part of the credentials that the headers are made from.             *)
Secret(auth, creds) == [f \in Required(auth) |-> creds[f]]

Supported == {"apikey", "sigv4", "oauth2"}

(* The merged credentials are enough for GenerateAuthHeaders.              *)
Complete(in, creds) ==
    /\ in.auth \in Supported
    /\ ExtractRequestData(in) # None
    /\ Required(in.auth) \subseteq DOMAIN creds

(* The header GenerateAuthHeaders returns from the merged credentials.     *)
Header(in, creds) ==
    LET merged == Merge(creds, ExtractRequestData(in))
    IN  IF in.auth = "apikey" THEN <<merged[HeaderName], merged[ValuePrefix]>>
        ELSE IF in.auth = "sigv4" THEN <<"Authorization", merged["region"]>>
        ELSE <<"Authorization", "Bearer ">>

-----------------------------------------------------------------------------
(* Requests.                                                               *)

Ended == {"done", "failed"}
Finish(how) == [pc |-> how, in |-> None, since |-> 0, creds |-> None, sent |-> None]

(* The request as it leaves the plugin with its credential.  `left' is the *)
(* time its token has left, `age' the time since the injection.            *)
Send(q, header, secret, left) ==
    [q EXCEPT !.pc = "sent", !.creds = None,
              !.sent = [header |-> header, secret |-> secret, left |-> left, age |-> 0]]

(* ProcessRequest up to the lookup: internal models have no auth type,     *)
(* "none" strips the header, a reference must be complete.                 *)
Begin(r, in) ==
    /\ req[r].pc \in Ended
    /\ req' = [req EXCEPT ![r] =
          IF in.auth \in {"", "none"} THEN Finish("done")
          ELSE IF in.ref = None THEN Finish("failed")
          ELSE [Finish("lookup") EXCEPT !.in = in, !.since = at[in.ref]]]
    /\ UNCHANGED <<log, cached, queue, worker, store, at, tokens, lock, writes, restarts>>

(* store.get and the generator, up to GenerateAuthHeaders.                 *)
Lookup(r) ==
    /\ req[r].pc = "lookup"
    /\ LET in == req[r].in
           creds == store[in.ref]
       IN  req' = [req EXCEPT ![r] =
              IF creds = None \/ ~Complete(in, creds) THEN Finish("failed")
              ELSE IF in.auth = "oauth2" THEN [req[r] EXCEPT !.pc = "wait", !.creds = creds]
              ELSE Send(req[r], Header(in, creds), Secret(in.auth, creds), 0)]
    /\ UNCHANGED <<log, cached, queue, worker, store, at, tokens, lock, writes, restarts>>

(* Mutant: one slot for all accounts.                                      *)
CacheKeyShared(account) == "sha256"

(* cacheKey, an injective hash                                             *)
CacheKey(account) == <<"sha256", account>>

Cached(account) ==
    IF CacheKey(account) \in DOMAIN tokens THEN tokens[CacheKey(account)] ELSE None

(* Mutant: valid until it expires.                                         *)
IsTokenValidNoMargin(token) == token # None /\ token.left > 0

(* isTokenValid                                                            *)
IsTokenValid(token) == token # None /\ token.left > Margin

Account(r) == req[r].creds[AccountField]

(* getOrRefreshToken with a valid token in the cache.                      *)
UseCachedToken(r) ==
    /\ req[r].pc = "wait" /\ lock = None
    /\ IsTokenValid(Cached(Account(r)))
    /\ LET token == Cached(Account(r))
       IN  req' = [req EXCEPT ![r] =
              Send(@, Header(@.in, @.creds), [f \in {AccountField} |-> token.account], token.left)]
    /\ UNCHANGED <<log, cached, queue, worker, store, at, tokens, lock, writes, restarts>>

(* CredentialsFromJSONWithType fails.                                      *)
ParseAccountFails(r) ==
    /\ req[r].pc = "wait" /\ lock = None
    /\ ~IsTokenValid(Cached(Account(r))) /\ Account(r) \in BadAccounts
    /\ req' = [req EXCEPT ![r] = Finish("failed")]
    /\ UNCHANGED <<log, cached, queue, worker, store, at, tokens, lock, writes, restarts>>

(* The lock is held while the token endpoint is asked.                     *)
StartFetch(r) ==
    /\ req[r].pc = "wait" /\ lock = None
    /\ ~IsTokenValid(Cached(Account(r))) /\ Account(r) \notin BadAccounts
    /\ lock' = r
    /\ req' = [req EXCEPT ![r].pc = "fetch"]
    /\ UNCHANGED <<log, cached, queue, worker, store, at, tokens, writes, restarts>>

(* Token returns a token, which is cached and used.                        *)
FetchToken(r) ==
    /\ req[r].pc = "fetch"
    /\ \E l \in Lifetimes :
          /\ tokens' = [c \in DOMAIN tokens \cup {CacheKey(Account(r))} |->
                           IF c = CacheKey(Account(r)) THEN [account |-> Account(r), left |-> l]
                           ELSE tokens[c]]
          /\ req' = [req EXCEPT ![r] = Send(@, Header(@.in, @.creds), Secret("oauth2", @.creds), l)]
    /\ lock' = None
    /\ UNCHANGED <<log, cached, queue, worker, store, at, writes, restarts>>

(* Mutant: the error path keeps the lock.                                  *)
FetchFailsLocked(r) ==
    /\ req[r].pc = "fetch"
    /\ req' = [req EXCEPT ![r] = Finish("failed")]
    /\ UNCHANGED <<log, cached, queue, worker, store, at, tokens, lock, writes, restarts>>

(* Token fails or runs into tokenFetchTimeout.                             *)
FetchFails(r) ==
    /\ req[r].pc = "fetch"
    /\ req' = [req EXCEPT ![r] = Finish("failed")]
    /\ lock' = None
    /\ UNCHANGED <<log, cached, queue, worker, store, at, tokens, writes, restarts>>

(* The provider receives the request and checks its credential.            *)
Arrive(r) ==
    /\ req[r].pc = "sent"
    /\ req' = [req EXCEPT ![r] = Finish("done")]
    /\ UNCHANGED <<log, cached, queue, worker, store, at, tokens, lock, writes, restarts>>

Less(n) == IF n = 0 THEN 0 ELSE n - 1

(* Time passes; no request is under way for longer than MaxTransit.        *)
Tick ==
    /\ \A r \in Requests : req[r].pc = "sent" => req[r].sent.age < MaxTransit
    /\ tokens' = [c \in DOMAIN tokens |-> [tokens[c] EXCEPT !.left = Less(@)]]
    /\ req' = [r \in Requests |->
                  IF req[r].pc = "sent"
                  THEN [req[r] EXCEPT !.sent.left = Less(@), !.sent.age = @ + 1]
                  ELSE req[r]]
    /\ UNCHANGED <<log, cached, queue, worker, store, at, lock, writes, restarts>>

(* A new process: the informer lists the Secrets and the plugin waits for  *)
(* it, then every listed Secret is enqueued.                               *)
Restart ==
    /\ restarts > 0
    /\ restarts' = restarts - 1
    /\ cached' = [k \in Keys |-> Len(log[k])]
    /\ queue' = {k \in Keys : Selected(Version(k, Len(log[k]))) # None}
    /\ worker' = None
    /\ store' = [k \in Keys |-> None]
    /\ tokens' = <<>>
    /\ lock' = None
    /\ req' = [r \in Requests |-> Finish("failed")]
    /\ UNCHANGED <<log, at, writes>>

-----------------------------------------------------------------------------
Init ==
    /\ log = [k \in Keys |-> <<>>]
    /\ cached = [k \in Keys |-> 0]
    /\ queue = {}
    /\ worker = None
    /\ store = [k \in Keys |-> None]
    /\ at = [k \in Keys |-> 0]
    /\ tokens = <<>>
    /\ lock = None
    /\ req = [r \in Requests |-> Finish("done")]
    /\ writes = MaxWrites
    /\ restarts = MaxRestarts

SecretNext ==
    \/ \E k \in Keys : \/ \E o \in SecretObjects[k] \cup {None} : Write(k, o)
                      \/ Deliver(k) \/ GetSecret(k)
    \/ StoreSecret

(* A request's own next step.                                              *)
Progress(r) ==
    \/ Lookup(r) \/ UseCachedToken(r) \/ ParseAccountFails(r) \/ StartFetch(r)
    \/ FetchToken(r) \/ FetchFails(r)

RequestNext ==
    \E r \in Requests : \/ \E in \in RequestData[r] : Begin(r, in)
                        \/ Progress(r) \/ Arrive(r)

Next == SecretNext \/ RequestNext \/ Tick \/ Restart

(* Informers deliver, the single worker runs; the work queue is FIFO, so   *)
(* a key is not overtaken for ever.  A fetch ends by its timeout, and a    *)
(* Go mutex hands over to a waiter that starves.                           *)
Fairness ==
    /\ WF_vars(\E k \in Keys : Deliver(k))
    /\ WF_vars(StoreSecret)
    /\ \A k \in Keys : SF_vars(GetSecret(k))
    /\ \A r \in Requests : SF_vars(Progress(r))

Spec == Init /\ [][Next]_vars
FairSpec == Spec /\ Fairness

-----------------------------------------------------------------------------
(* Properties.                                                             *)

HeaderTexts == Texts \cup {"", "Authorization", "Bearer ", "r1"}
SentType == [header : HeaderTexts \X HeaderTexts, secret : Data, left : Nat, age : Nat]
RequestType == [pc : Ended \cup {"lookup", "wait", "fetch", "sent"}, in : Inputs \cup {None},
                since : Nat, creds : Data \cup {None}, sent : SentType \cup {None}]
Token == [account : Texts, left : Nat]

(* The store, its informer position and queue, the token cache and the     *)
(* requests of the plugin have the shapes its Go types give them.          *)
TypeOK ==
    /\ log \in [Keys -> Seq(SecretObject \cup {None})]
    /\ cached \in [Keys -> Nat] /\ at \in [Keys -> Nat]
    /\ queue \subseteq Keys
    /\ worker \in WorkerType \cup {None}
    /\ store \in [Keys -> Data \cup {None}]
    /\ \A c \in DOMAIN tokens : tokens[c] \in Token
    /\ lock \in Requests \cup {None}
    /\ req \in [Requests -> RequestType]
    /\ writes \in Nat /\ restarts \in Nat

(* The store serves what the cached version of a Secret offers, unless the *)
(* key is queued or being reconciled: no event is spent on a read that     *)
(* missed the object it announced (plugin.go:78-83).                       *)
StoreFollowsCache ==
    \A k \in Keys :
        \/ store[k] = Usable(Selected(Version(k, cached[k])))
        \/ k \in queue
        \/ worker # None /\ worker.key = k

(* The secretStore implements its promise: whatever the informer, the      *)
(* queue, the worker and restarts do, a Secret's entry is the usable data  *)
(* of one version and never that of an earlier version than before.        *)
Mirror == INSTANCE SecretMirror WITH
    Versions <- (UNION {SecretObjects[k] : k \in Keys}) \cup {None}
MirrorsSecrets == Mirror!Spec

(* A request is sent with a credential of a version that its store served  *)
(* between the beginning of the request and now: never with the parts of   *)
(* two versions, with a Secret rotated away before it began, or with the   *)
(* token of another account.                                               *)
CredentialServedMeanwhile ==
    \A r \in Requests : req[r].pc = "sent" =>
        LET in == req[r].in
        IN  \E i \in req[r].since..at[in.ref] :
                LET creds == Usable(Version(in.ref, i))
                IN  /\ creds # None /\ Required(in.auth) \subseteq DOMAIN creds
                    /\ req[r].sent.secret = Secret(in.auth, creds)

(* A token has not expired while its request is under way: the margin of   *)
(* isTokenValid covers the way to the provider.                            *)
TokenOutlivesRequest ==
    \A r \in Requests :
        req[r].pc = "sent" /\ req[r].in.auth = "oauth2" => req[r].sent.left > 0

(* Once users leave a Secret alone, the store comes to serve its last      *)
(* version, or nothing if that is not usable, also next to a malformed     *)
(* Secret that is retried for ever.                                        *)
StoreConverges ==
    \A k \in Keys : <>[](store[k] = Usable(Version(k, Len(log[k]))))

(* Every request that looks for a credential is answered: the token lock   *)
(* is released on all paths.                                               *)
RequestsAnswered ==
    \A r \in Requests :
        req[r].pc \in {"lookup", "wait", "fetch"} ~> req[r].pc \in Ended \cup {"sent"}
=============================================================================
