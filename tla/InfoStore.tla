----------------------------- MODULE InfoStore -----------------------------
(***************************************************************************)
(* The model-provider-resolver's in-memory store and the two reconcilers   *)
(* that fill it (pkg/plugins/model-provider-resolver).                     *)
(*                                                                         *)
(* Two controllers, each with one worker and one deduplicating work queue, *)
(* read ExternalProvider and ExternalModel objects from the informer cache *)
(* and write the store the request path reads.  A provider event enqueues  *)
(* the provider on the provider queue and, through a second event handler, *)
(* the models that reference it on the model queue.  The model reconciler  *)
(* resolves its references one after the other from the provider half of   *)
(* the store, so the provider worker runs in between.                      *)
(*                                                                         *)
(* `providers' and `models' are the objects in the informer cache.  A      *)
(* failed Get puts the key back where it was, a stuttering step.  The      *)
(* delays of retries are abstracted: a requeued key is simply queued.      *)
(***************************************************************************)
EXTENDS Naturals, Sequences, FiniteSets

CONSTANTS
    Namespaces,     \* Kubernetes namespaces
    Names,          \* metadata.name of objects
    ProviderKeys,   \* namespaced names of ExternalProviders
    ModelKeys,      \* namespaced names of ExternalModels
    ClientNames,    \* client-facing model names
    ConfigKeys,     \* keys of the config maps
    Values,         \* opaque values: endpoints, targets, config values, secrets
    ProviderSpecs,  \* the specs users write into an ExternalProvider
    ModelSpecs,     \* the specs users write into an ExternalModel
    Faults,         \* the environment's moves, see below
    MaxEnv,         \* bound on the environment's steps
    None            \* no object, no mapping, no worker

(* Environment moves a model may leave out: deleting an object, failing a  *)
(* List, restarting the process.                                           *)
FaultKinds == {"delete", "list", "restart"}

Key == [ns : Namespaces, name : Names]
Configs == UNION {[S -> Values] : S \in SUBSET ConfigKeys}
ProviderTypes == {"openai", "anthropic", "azure", "azure-openai", "remote-maas"}
AuthTypes == {"apikey", "simple", "sigv4", "oauth2"}

ProviderSpec == [provider : ProviderTypes, endpoint : Values, authType : AuthTypes,
                 secret : Values, config : Configs]

(* An ExternalProviderRef.  ns = "" is the model's own namespace; path is  *)
(* the set of {key} placeholders of spec.path; target stands for the       *)
(* fields that are copied through (targetModel, apiFormat); the API        *)
(* server has already defaulted weight to 1.                               *)
Ref == [ns : Namespaces \cup {""}, name : Names, target : Values, path : SUBSET ConfigKeys,
        config : Configs, auth : [type : AuthTypes, secret : Values] \cup {None},
        weight : 0..100]

ModelSpec == [modelName : ClientNames \cup {""}, gatewayRefs : BOOLEAN, refs : Seq(Ref)]

(* Objects in the informer cache: deleting is a set deletionTimestamp,     *)
(* served the presence of AGC's finalizer.                                 *)
ProviderObject == [spec : ProviderSpec, deleting : BOOLEAN]
ModelObject == [spec : ModelSpec, served : BOOLEAN, deleting : BOOLEAN]

ASSUME KeysAssumption == ProviderKeys \subseteq Key /\ ModelKeys \subseteq Key
ASSUME NamesAssumption == Names \subseteq ClientNames /\ "" \notin ClientNames
ASSUME ConfigAssumption == /\ {"authHeaderName", "model"} \subseteq ConfigKeys
                           /\ {"x-api-key", "api-key"} \subseteq Values
ASSUME SpecsAssumption == ProviderSpecs \subseteq ProviderSpec /\ ModelSpecs \subseteq ModelSpec
ASSUME EnvAssumption == Faults \subseteq FaultKinds /\ MaxEnv \in Nat
ASSUME NoneAssumption ==
    /\ None \notin ModelKeys \cup [type : AuthTypes, secret : Values]
    /\ None \notin [key : ProviderKeys, obj : ProviderObject \cup {None}]

VARIABLES
    providers,      \* ExternalProvider objects
    models,         \* ExternalModel objects
    pq, mq,         \* the work queues of the two controllers
    mapq,           \* provider events the model controller's handler has yet to map
    pstore,         \* infoStore.providers
    mstore,         \* infoStore.models, by client-facing name
    pwork,          \* the provider worker's key and the object it read
    mpc, mkey,      \* the model worker's control state and key
    cur,            \* the model being cached: key and the object that was read
    resolved,       \* its references resolved so far
    nextRef,        \* index of the next reference to resolve
    held,           \* names the excluded model held, to be restored
    todo,           \* models listed for those names and not yet cached
    env             \* environment steps left

objects == <<providers, models>>
providerWorker == <<pstore, pwork>>
modelWorker == <<mpc, mkey, cur, resolved, nextRef, held, todo>>
vars == <<providers, models, pq, mq, mapq, pstore, mstore, pwork, mpc, mkey, cur,
          resolved, nextRef, held, todo, env>>

-----------------------------------------------------------------------------
(* Operators of the reconcilers.                                           *)

(* The object the reconciler's Get returned is gone or going.              *)
Deleting(obj) == obj # None /\ obj.deleting
Gone(obj) == obj = None \/ obj.deleting

(* Mutant: the legacy value is mapped to a type no generator knows.        *)
AuthOfUnmapped(crdType) == IF crdType = "simple" THEN "api-key" ELSE crdType

(* mapCRDAuthType *)
AuthOf(crdType) == IF crdType = "simple" THEN "apikey" ELSE crdType

(* mergeConfig, and the maps.Copy of buildConfigWithDefaults               *)
Merge(base, over) ==
    [k \in DOMAIN base \cup DOMAIN over |-> IF k \in DOMAIN over THEN over[k] ELSE base[k]]

DefaultHeader ==
    [t \in {"anthropic", "azure", "azure-openai"} |->
        IF t = "anthropic" THEN "x-api-key" ELSE "api-key"]

BuildConfigWithDefaults(type, config) ==
    IF type \in DOMAIN DefaultHeader
    THEN Merge([k \in {"authHeaderName"} |-> DefaultHeader[type]], config)
    ELSE config

(* The providerInfo the provider reconciler stores for an object.          *)
ProviderInfo(ns, spec) ==
    [provider |-> spec.provider, endpoint |-> spec.endpoint, auth |-> AuthOf(spec.authType),
     secret |-> spec.secret, secretNs |-> ns,
     config |-> BuildConfigWithDefaults(spec.provider, spec.config)]

Foreign(ns, ref) == ref.ns # "" /\ ref.ns # ns
HasForeign(ns, spec) == \E i \in DOMAIN spec.refs : Foreign(ns, spec.refs[i])
HasLocal(ns, spec) == \E i \in DOMAIN spec.refs : ~Foreign(ns, spec.refs[i])

(* IsAGCManaged, IsAGCServed and excludedFromStore                         *)
IsAGCManaged(ns, spec) == spec.gatewayRefs \/ (HasForeign(ns, spec) /\ ~HasLocal(ns, spec))
ExcludedFromStore(ns, obj) == IsAGCManaged(ns, obj.spec) \/ obj.served

ClientModelName(k, obj) == IF obj.spec.modelName # "" THEN obj.spec.modelName ELSE k.name

(* ResolvePath: every placeholder but {model} needs a config entry, and an *)
(* explicit "model" entry wins over the target model.                      *)
PathResolves(path, config) == path \ {"model"} \subseteq DOMAIN config
ResolvePath(path, config, target) ==
    [k \in path |-> IF k \in DOMAIN config THEN config[k] ELSE target]

(* resolveRef's conditions on a reference of a model in ns, and its result *)
Resolves(ns, ref, ps) ==
    LET p == [ns |-> ns, name |-> ref.name] IN
    /\ ~Foreign(ns, ref)
    /\ p \in ProviderKeys
    /\ ps[p] # None
    /\ PathResolves(ref.path, Merge(ps[p].config, ref.config))

ResolveRef(ns, ref, info) ==
    LET config == Merge(info.config, ref.config) IN
    [provider |-> info.provider, providerName |-> ref.name, target |-> ref.target,
     auth |-> IF ref.auth = None THEN info.auth ELSE ref.auth.type,
     secret |-> IF ref.auth = None THEN info.secret ELSE ref.auth.secret,
     secretNs |-> IF ref.auth = None THEN info.secretNs ELSE ns,
     endpoint |-> info.endpoint, path |-> ResolvePath(ref.path, config, ref.target),
     config |-> config, weight |-> ref.weight]

(* infoStore.deleteModel: the names the owner holds, and the store without *)
NamesOf(owner) == {n \in ClientNames : mstore[n] # None /\ mstore[n].owner = owner}
WithoutOwner(owner) == [n \in ClientNames |-> IF n \in NamesOf(owner) THEN None ELSE mstore[n]]

-----------------------------------------------------------------------------
(* The environment: users, the API server and ai-gateway-controller (AGC)  *)
(* change objects; each change is an event for the controllers' handlers.  *)

ProviderEvent(k) == /\ pq' = pq \cup {k}
                    /\ mapq' = mapq \cup {k}
                    /\ UNCHANGED <<models, mq, mstore, providerWorker, modelWorker>>

ModelEvent(k) == /\ mq' = mq \cup {k}
                 /\ UNCHANGED <<providers, pq, mapq, mstore, providerWorker, modelWorker>>

EnvStep == env > 0 /\ env' = env - 1

PutProvider(k, s) ==
    /\ EnvStep
    /\ providers[k] # [spec |-> s, deleting |-> FALSE]
    /\ ~Deleting(providers[k])
    /\ providers' = [providers EXCEPT ![k] = [spec |-> s, deleting |-> FALSE]]
    /\ ProviderEvent(k)

(* A delete sets deletionTimestamp while finalizers remain; the last       *)
(* finalizer's removal takes the object out of the cache.                  *)
DeleteProvider(k) ==
    /\ "delete" \in Faults
    /\ EnvStep
    /\ providers[k] # None
    /\ \/ providers' = [providers EXCEPT ![k] = None]
       \/ ~providers[k].deleting /\ providers' = [providers EXCEPT ![k].deleting = TRUE]
    /\ ProviderEvent(k)

PutModel(k, s) ==
    /\ EnvStep
    /\ ~Deleting(models[k])
    /\ models[k] # None => models[k].spec # s
    /\ models' = [models EXCEPT ![k] =
                    [spec |-> s, served |-> models[k] # None /\ models[k].served,
                     deleting |-> FALSE]]
    /\ ModelEvent(k)

DeleteModelObject(k) ==
    /\ "delete" \in Faults
    /\ EnvStep
    /\ models[k] # None
    /\ \/ models' = [models EXCEPT ![k] = None]
       \/ ~models[k].deleting /\ models' = [models EXCEPT ![k].deleting = TRUE]
    /\ ModelEvent(k)

(* AGC adds its finalizer when it starts serving the model, removes it     *)
(* when the tenant selects IPP again.                                      *)
AGCServe(k) ==
    /\ EnvStep
    /\ models[k] # None /\ ~Deleting(models[k])
    /\ models' = [models EXCEPT ![k].served = ~@]
    /\ ModelEvent(k)

-----------------------------------------------------------------------------
(* The model controller's handler for provider events, mapProviderToModels *)

References(m, k) ==
    /\ models[m] # None
    /\ m.ns = k.ns
    /\ \E i \in DOMAIN models[m].spec.refs : models[m].spec.refs[i].name = k.name

MapProvider(k) ==
    /\ k \in mapq
    /\ mapq' = mapq \ {k}
    /\ mq' = mq \cup {m \in ModelKeys : References(m, k)}
    /\ UNCHANGED <<objects, pq, mstore, providerWorker, modelWorker, env>>

(* Its List failed: the event is dropped.                                  *)
MapProviderFails(k) ==
    /\ "list" \in Faults
    /\ EnvStep
    /\ k \in mapq
    /\ mapq' = mapq \ {k}
    /\ UNCHANGED <<objects, pq, mq, mstore, providerWorker, modelWorker>>

-----------------------------------------------------------------------------
(* externalProviderReconciler.Reconcile: read the object, then write.      *)

GetProvider(k) ==
    /\ pwork = None
    /\ k \in pq
    /\ pq' = pq \ {k}
    /\ pwork' = [key |-> k, obj |-> providers[k]]
    /\ UNCHANGED <<objects, mapq, mq, pstore, mstore, modelWorker, env>>

(* Mutant: an object with a deletionTimestamp is stored like a live one.   *)
StoreProviderTerminating ==
    /\ pwork # None
    /\ pstore' = [pstore EXCEPT ![pwork.key] =
                    IF pwork.obj = None THEN None
                    ELSE ProviderInfo(pwork.key.ns, pwork.obj.spec)]
    /\ pwork' = None
    /\ UNCHANGED <<objects, pq, mq, mapq, mstore, modelWorker, env>>

StoreProvider ==
    /\ pwork # None
    /\ pstore' = [pstore EXCEPT ![pwork.key] =
                    IF Gone(pwork.obj) THEN None
                    ELSE ProviderInfo(pwork.key.ns, pwork.obj.spec)]
    /\ pwork' = None
    /\ UNCHANGED <<objects, pq, mq, mapq, mstore, modelWorker, env>>

-----------------------------------------------------------------------------
(* externalModelReconciler.Reconcile                                       *)

(* The worker is done with its key.                                        *)
Finish == /\ mpc' = "idle" /\ mkey' = None /\ cur' = None
          /\ resolved' = <<>> /\ nextRef' = 1 /\ held' = {} /\ todo' = {}

(* Start resolving the references of the model read as w.                  *)
BeginCache(w) == mpc' = "resolve" /\ cur' = w /\ resolved' = <<>> /\ nextRef' = 1

GetModel(k) ==
    /\ mpc = "idle"
    /\ k \in mq
    /\ mq' = mq \ {k}
    /\ mkey' = k
    /\ cur' = [key |-> k, obj |-> models[k]]
    /\ mpc' = IF Gone(models[k]) THEN "drop"
              ELSE IF ExcludedFromStore(k.ns, models[k]) THEN "exclude" ELSE "resolve"
    /\ UNCHANGED <<objects, pq, mapq, mstore, providerWorker, resolved, nextRef, held, todo, env>>

DropModel ==
    /\ mpc = "drop"
    /\ mstore' = WithoutOwner(mkey)
    /\ Finish
    /\ UNCHANGED <<objects, pq, mq, mapq, providerWorker, env>>

(* Mutant: an excluded model is skipped, its mappings stay.                *)
ExcludeModelSkips ==
    /\ mpc = "exclude"
    /\ Finish
    /\ UNCHANGED <<objects, pq, mq, mapq, mstore, providerWorker, env>>

ExcludeModel ==
    /\ mpc = "exclude"
    /\ mstore' = WithoutOwner(mkey)
    /\ \/ NamesOf(mkey) = {} /\ Finish
       \/ /\ NamesOf(mkey) # {}
          /\ mpc' = "list"
          /\ held' = NamesOf(mkey)
          /\ UNCHANGED <<mkey, cur, resolved, nextRef, todo>>
    /\ UNCHANGED <<objects, pq, mq, mapq, providerWorker, env>>

(* Mutant: models that are being deleted are restored too.                 *)
RestorableTerminating ==
    {w \in [key : ModelKeys, obj : {models[k] : k \in ModelKeys}] :
        /\ w.obj = models[w.key]
        /\ w.obj # None
        /\ ClientModelName(w.key, w.obj) \in held
        /\ ~ExcludedFromStore(w.key.ns, w.obj)}

(* The models that restoreModelNames caches again.                         *)
Restorable ==
    {w \in [key : ModelKeys, obj : {models[k] : k \in ModelKeys}] :
        /\ w.obj = models[w.key]
        /\ ~Gone(w.obj)
        /\ ClientModelName(w.key, w.obj) \in held
        /\ ~ExcludedFromStore(w.key.ns, w.obj)}

ListToRestore ==
    /\ mpc = "list"
    /\ \/ Restorable = {} /\ Finish
       \/ \E w \in Restorable :
            /\ todo' = Restorable \ {w}
            /\ BeginCache(w)
            /\ UNCHANGED <<mkey, held>>
    /\ UNCHANGED <<objects, pq, mq, mapq, mstore, providerWorker, env>>

(* The error is returned and the key retried.                              *)
ListToRestoreFails ==
    /\ "list" \in Faults
    /\ EnvStep
    /\ mpc = "list"
    /\ mq' = mq \cup {mkey}
    /\ Finish
    /\ UNCHANGED <<objects, pq, mapq, mstore, providerWorker>>

(* Mutant: a restored model's references are looked up in the namespace of *)
(* the model being reconciled.                                             *)
ResolveNextRefInRequestNs ==
    /\ mpc = "resolve"
    /\ nextRef \in DOMAIN cur.obj.spec.refs
    /\ LET ns == mkey.ns
           ref == cur.obj.spec.refs[nextRef] IN
       resolved' = IF Resolves(ns, ref, pstore)
                   THEN Append(resolved, ResolveRef(ns, ref, pstore[[ns |-> ns, name |-> ref.name]]))
                   ELSE resolved
    /\ nextRef' = nextRef + 1
    /\ UNCHANGED <<objects, pq, mq, mapq, mstore, providerWorker, mpc, mkey, cur, held, todo, env>>
ResolveNextRef ==
    /\ mpc = "resolve"
    /\ nextRef \in DOMAIN cur.obj.spec.refs
    /\ LET ns == cur.key.ns
           ref == cur.obj.spec.refs[nextRef] IN
       resolved' = IF Resolves(ns, ref, pstore)
                   THEN Append(resolved, ResolveRef(ns, ref, pstore[[ns |-> ns, name |-> ref.name]]))
                   ELSE resolved
    /\ nextRef' = nextRef + 1
    /\ UNCHANGED <<objects, pq, mq, mapq, mstore, providerWorker, mpc, mkey, cur, held, todo, env>>

(* After one model: the next listed one, or the reconcile ends.            *)
Continue ==
    \/ todo = {} /\ Finish
    \/ \E w \in todo : /\ todo' = todo \ {w}
                       /\ BeginCache(w)
                       /\ UNCHANGED <<mkey, held>>

AllRefsTried == mpc = "resolve" /\ nextRef \notin DOMAIN cur.obj.spec.refs

CacheModel ==
    /\ AllRefsTried
    /\ resolved # <<>>
    /\ LET name == ClientModelName(cur.key, cur.obj) IN
       mstore' = [mstore EXCEPT ![name] =
                    [owner |-> cur.key, modelName |-> name, refs |-> resolved]]
    /\ Continue
    /\ UNCHANGED <<objects, pq, mq, mapq, providerWorker, env>>

(* Mutant: the reconcile ends without a requeue.                           *)
RequeueModelForgets ==
    /\ AllRefsTried
    /\ resolved = <<>>
    /\ Continue
    /\ UNCHANGED <<objects, pq, mq, mapq, mstore, providerWorker, env>>

(* No reference resolved: the mapping stays as it is and the key is        *)
(* requeued, unless this is a restore, which discards the result.          *)
RequeueModel ==
    /\ AllRefsTried
    /\ resolved = <<>>
    /\ mq' = IF held = {} THEN mq \cup {mkey} ELSE mq
    /\ Continue
    /\ UNCHANGED <<objects, pq, mapq, mstore, providerWorker, env>>

-----------------------------------------------------------------------------
(* The process starts with an empty store, and every object is an event.   *)
Existing(objs) == {k \in DOMAIN objs : objs[k] # None}

Init == /\ providers \in [ProviderKeys -> [spec : ProviderSpecs, deleting : {FALSE}] \cup {None}]
        /\ models \in [ModelKeys -> [spec : ModelSpecs, served : BOOLEAN, deleting : {FALSE}]
                                      \cup {None}]
        /\ pq = Existing(providers) /\ mapq = Existing(providers) /\ mq = Existing(models)
        /\ pstore = [k \in ProviderKeys |-> None]
        /\ mstore = [n \in ClientNames |-> None]
        /\ pwork = None
        /\ mpc = "idle" /\ mkey = None /\ cur = None
        /\ resolved = <<>> /\ nextRef = 1 /\ held = {} /\ todo = {}
        /\ env = MaxEnv

Restart == /\ "restart" \in Faults
           /\ EnvStep
           /\ pq' = Existing(providers) /\ mapq' = Existing(providers) /\ mq' = Existing(models)
           /\ pstore' = [k \in ProviderKeys |-> None]
           /\ mstore' = [n \in ClientNames |-> None]
           /\ pwork' = None
           /\ Finish
           /\ UNCHANGED objects

Environment ==
    \/ \E k \in ProviderKeys : (\E s \in ProviderSpecs : PutProvider(k, s)) \/ DeleteProvider(k)
    \/ \E k \in ModelKeys : \/ \E s \in ModelSpecs : PutModel(k, s)
                            \/ DeleteModelObject(k)
                            \/ AGCServe(k)
    \/ \E k \in ProviderKeys : MapProviderFails(k)
    \/ ListToRestoreFails
    \/ Restart

ProviderReconciler == (\E k \in ProviderKeys : GetProvider(k)) \/ StoreProvider

ModelReconciler ==
    \/ \E k \in ModelKeys : GetModel(k)
    \/ DropModel \/ ExcludeModel \/ ListToRestore
    \/ ResolveNextRef \/ CacheModel \/ RequeueModel

Next == \/ Environment
        \/ \E k \in ProviderKeys : MapProvider(k)
        \/ ProviderReconciler
        \/ ModelReconciler

Spec == Init /\ [][Next]_vars

(* The work queues are FIFO, so a queued key is eventually taken although  *)
(* the worker is busy with others in between (strong fairness); a handler  *)
(* or a worker that has begun always goes on.                              *)
Fairness == /\ \A k \in ProviderKeys : WF_vars(MapProvider(k)) /\ SF_vars(GetProvider(k))
            /\ \A k \in ModelKeys : SF_vars(GetModel(k))
            /\ WF_vars(StoreProvider)
            /\ WF_vars(DropModel \/ ExcludeModel \/ ListToRestore
                       \/ ResolveNextRef \/ CacheModel \/ RequeueModel)

FairSpec == Spec /\ Fairness

-----------------------------------------------------------------------------
(* Properties                                                              *)

ResolvedRef == [provider : ProviderTypes, providerName : Names, target : Values,
                auth : AuthTypes, secret : Values, secretNs : Namespaces, endpoint : Values,
                path : Configs, config : Configs, weight : 0..100]
Info == [provider : ProviderTypes, endpoint : Values, auth : AuthTypes, secret : Values,
         secretNs : Namespaces, config : Configs]
Mapping == [owner : ModelKeys, modelName : ClientNames, refs : Seq(ResolvedRef)]
Work == [key : ModelKeys, obj : ModelObject]

(* The types of the objects, the queues, the store and the workers' state  *)
(* (resolver store.go, the two reconcilers).                               *)
TypeOK ==
    /\ providers \in [ProviderKeys -> ProviderObject \cup {None}]
    /\ models \in [ModelKeys -> ModelObject \cup {None}]
    /\ pq \subseteq ProviderKeys /\ mapq \subseteq ProviderKeys /\ mq \subseteq ModelKeys
    /\ pstore \in [ProviderKeys -> Info \cup {None}]
    /\ mstore \in [ClientNames -> Mapping \cup {None}]
    /\ pwork \in [key : ProviderKeys, obj : ProviderObject \cup {None}] \cup {None}
    /\ mpc \in {"idle", "drop", "exclude", "list", "resolve"}
    /\ mkey \in ModelKeys \cup {None}
    /\ cur \in [key : ModelKeys, obj : ModelObject \cup {None}] \cup {None}
    /\ resolved \in Seq(ResolvedRef)
    /\ nextRef \in Nat \ {0}
    /\ held \subseteq ClientNames
    /\ todo \subseteq Work
    /\ env \in 0..MaxEnv

ShouldServe(m) == ~Gone(models[m]) /\ ~ExcludedFromStore(m.ns, models[m])
BeingWithdrawn(m) == mkey = m /\ mpc \in {"drop", "exclude"}
Quiescent == pq = {} /\ mapq = {} /\ mq = {} /\ pwork = None /\ mpc = "idle"

(* Credentials stay inside a tenant: every reference a mapping offers to   *)
(* requests names a provider and a Secret of its owner's own namespace,    *)
(* also when the mapping was written while another tenant's model was      *)
(* being reconciled (resolveRef, restoreModelNames).                       *)
TenantConfinement ==
    \A n \in ClientNames : mstore[n] # None =>
        \A i \in DOMAIN mstore[n].refs :
            LET ref == mstore[n].refs[i] IN
            /\ ref.secretNs = mstore[n].owner.ns
            /\ [ns |-> mstore[n].owner.ns, name |-> ref.providerName] \in ProviderKeys

(* The provider half of the store lags only behind work that is still      *)
(* queued or running: an update or deletion that arrives while an older    *)
(* read is being stored is never lost (externalProviderReconciler).        *)
ProviderStoreCurrent ==
    \A k \in ProviderKeys :
        \/ k \in pq
        \/ pwork # None /\ pwork.key = k
        \/ pstore[k] = IF Gone(providers[k]) THEN None ELSE ProviderInfo(k.ns, providers[k].spec)

(* A mapping outlives its model (deleted, attached to AGC, served by AGC,  *)
(* or left with foreign references only) no longer than a reconcile of     *)
(* that model is pending, whatever a concurrent restore read before.       *)
WithdrawnUnlessPending ==
    \A n \in ClientNames : mstore[n] # None =>
        LET m == mstore[n].owner IN ShouldServe(m) \/ m \in mq \/ BeingWithdrawn(m)

(* A model IPP must not serve loses every name it holds, or becomes IPP's  *)
(* again: the withdrawal is never postponed for ever (Reconcile).          *)
EventuallyWithdrawn ==
    \A m \in ModelKeys : ~ShouldServe(m) ~> (ShouldServe(m) \/ NamesOf(m) = {})

Servable(m) == /\ ShouldServe(m)
               /\ \E i \in DOMAIN models[m].spec.refs : Resolves(m.ns, models[m].spec.refs[i], pstore)
Unserved(m) == Servable(m) /\ mstore[ClientModelName(m, models[m])] = None

(* A model with an available provider does not stay unmapped: its name is  *)
(* served, also after a same-named model that displaced it was excluded,   *)
(* and also when its providers appear after it (restoreModelNames,         *)
(* cacheModel's requeue).                                                  *)
EventuallyServed == \A m \in ModelKeys : Unserved(m) ~> ~Unserved(m)

(* The references that resolve now, in order.                              *)
Expected(m) ==
    LET usable == SelectSeq(models[m].spec.refs, LAMBDA r : Resolves(m.ns, r, pstore)) IN
    [i \in DOMAIN usable |->
        ResolveRef(m.ns, usable[i], pstore[[ns |-> m.ns, name |-> usable[i].name]])]

(* plugin.go:94-95 promises that credential and endpoint changes of a      *)
(* provider propagate to the mappings: once all queued work is done, every *)
(* mapping shows its owner's references as the providers now define them.  *)
ChangesPropagate ==
    Quiescent =>
        \A n \in ClientNames :
            (mstore[n] # None /\ ShouldServe(mstore[n].owner)) =>
                mstore[n].refs = Expected(mstore[n].owner)
===========================================================================
