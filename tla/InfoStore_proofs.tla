-------------------------- MODULE InfoStore_proofs --------------------------
(* Proofs about InfoStore: the types, the confinement of credentials to a  *)
(* tenant, the currency of the provider half and the withdrawal of         *)
(* mappings, for any sets of objects, specs and environment moves.         *)
EXTENDS InfoStore, TLAPS

(* The model worker's control state determines what its registers hold.    *)
WorkerOK ==
    /\ mpc = "idle" => mkey = None
    /\ mpc # "idle" => mkey \in ModelKeys
    /\ mpc \in {"drop", "exclude"} => cur.key = mkey
    /\ mpc # "resolve" => todo = {} /\ resolved = <<>>
    /\ mpc = "resolve" => cur \in Work

(* TypeOK in four parts, so that an action's proof treats only the parts   *)
(* the action changes.                                                     *)
ObjectTypes ==
    /\ providers \in [ProviderKeys -> ProviderObject \cup {None}]
    /\ models \in [ModelKeys -> ModelObject \cup {None}]

QueueTypes ==
    /\ pq \subseteq ProviderKeys /\ mapq \subseteq ProviderKeys /\ mq \subseteq ModelKeys
    /\ env \in 0..MaxEnv

StoreTypes ==
    /\ pstore \in [ProviderKeys -> Info \cup {None}]
    /\ mstore \in [ClientNames -> Mapping \cup {None}]
    /\ pwork \in [key : ProviderKeys, obj : ProviderObject \cup {None}] \cup {None}

WorkerTypes ==
    /\ mpc \in {"idle", "drop", "exclude", "list", "resolve"}
    /\ mkey \in ModelKeys \cup {None}
    /\ cur \in [key : ModelKeys, obj : ModelObject \cup {None}] \cup {None}
    /\ resolved \in Seq(ResolvedRef)
    /\ nextRef \in Nat \ {0}
    /\ held \subseteq ClientNames
    /\ todo \subseteq Work
    /\ WorkerOK

TypeInv == ObjectTypes /\ QueueTypes /\ StoreTypes /\ WorkerTypes

-----------------------------------------------------------------------------
(* Lemmas on the operators of the reconcilers.                             *)

(* Overriding a config map with another gives a config map (mergeConfig).  *)
LEMMA MergeType ==
    ASSUME NEW a \in Configs, NEW b \in Configs
    PROVE  Merge(a, b) \in Configs
<1>1. PICK S \in SUBSET ConfigKeys : a \in [S -> Values]
  BY DEF Configs
<1>2. PICK T \in SUBSET ConfigKeys : b \in [T -> Values]
  BY DEF Configs
<1>3. Merge(a, b) \in [S \cup T -> Values]
  BY <1>1, <1>2 DEF Merge
<1>4. S \cup T \in SUBSET ConfigKeys
  OBVIOUS
<1> QED
  BY <1>3, <1>4 DEF Configs

(* What the provider reconciler stores is a providerInfo of the provider's *)
(* own namespace.                                                          *)
LEMMA ProviderInfoType ==
    ASSUME NEW ns \in Namespaces, NEW spec \in ProviderSpec
    PROVE  ProviderInfo(ns, spec) \in Info /\ ProviderInfo(ns, spec).secretNs = ns
<1>1. AuthOf(spec.authType) \in AuthTypes
  BY DEF AuthOf, AuthTypes, ProviderSpec
<1>2. BuildConfigWithDefaults(spec.provider, spec.config) \in Configs
  <2>1. spec.config \in Configs
    BY DEF ProviderSpec
  <2>2. CASE spec.provider \in DOMAIN DefaultHeader
    <3>1. DefaultHeader[spec.provider] \in Values
      BY <2>2, ConfigAssumption DEF DefaultHeader
    <3>2. [k \in {"authHeaderName"} |-> DefaultHeader[spec.provider]] \in [{"authHeaderName"} -> Values]
      BY <3>1
    <3>3. [k \in {"authHeaderName"} |-> DefaultHeader[spec.provider]] \in Configs
      BY <3>2, ConfigAssumption DEF Configs
    <3> QED
      BY <2>1, <2>2, <3>3, MergeType DEF BuildConfigWithDefaults
  <2>3. CASE spec.provider \notin DOMAIN DefaultHeader
    BY <2>1, <2>3 DEF BuildConfigWithDefaults
  <2> QED
    BY <2>2, <2>3
<1> QED
  BY <1>1, <1>2 DEF ProviderInfo, Info, ProviderSpec

(* A resolved reference is well typed, names the reference's provider, and *)
(* its Secret is in the model's namespace if the provider's is.            *)
LEMMA ResolveRefType ==
    ASSUME NEW ns \in Namespaces, NEW ref \in Ref, NEW info \in Info,
           PathResolves(ref.path, Merge(info.config, ref.config))
    PROVE  /\ ResolveRef(ns, ref, info) \in ResolvedRef
           /\ ResolveRef(ns, ref, info).providerName = ref.name
           /\ info.secretNs = ns => ResolveRef(ns, ref, info).secretNs = ns
<1> DEFINE config == Merge(info.config, ref.config)
<1>1. config \in Configs
  BY MergeType DEF Info, Ref
<1>2. ResolvePath(ref.path, config, ref.target) \in Configs
  <2>1. PICK S \in SUBSET ConfigKeys : config \in [S -> Values]
    BY <1>1 DEF Configs
  <2>2. ref.target \in Values /\ ref.path \in SUBSET ConfigKeys
    BY DEF Ref
  <2>3. ResolvePath(ref.path, config, ref.target) \in [ref.path -> Values]
    BY <2>1, <2>2 DEF ResolvePath
  <2> QED
    BY <2>2, <2>3 DEF Configs
<1>3. ref.auth # None => ref.auth \in [type : AuthTypes, secret : Values]
  BY DEF Ref
<1> HIDE DEF config
<1>4. /\ info.provider \in ProviderTypes /\ info.auth \in AuthTypes /\ info.secret \in Values
      /\ info.secretNs \in Namespaces /\ info.endpoint \in Values
  BY DEF Info
<1>5. ref.name \in Names /\ ref.target \in Values /\ ref.weight \in 0..100
  BY DEF Ref
<1> QED
  BY <1>1, <1>2, <1>3, <1>4, <1>5 DEF ResolveRef, ResolvedRef, config

(* The name a live model is stored under is a client-facing name.          *)
LEMMA ClientModelNameType ==
    ASSUME NEW w \in Work
    PROVE  ClientModelName(w.key, w.obj) \in ClientNames
  BY KeysAssumption, NamesAssumption DEF ClientModelName, Work, ModelObject, ModelSpec, Key

(* The four parts make up TypeOK.                                          *)
LEMMA TypeInvTypeOK == TypeInv => TypeOK
  BY DEF TypeInv, TypeOK, ObjectTypes, QueueTypes, StoreTypes, WorkerTypes

(* A step that leaves a part alone keeps it typed; so does the end of a    *)
(* reconcile for the worker's registers.                                   *)
LEMMA ObjectFrame == ObjectTypes /\ UNCHANGED objects => ObjectTypes'
  BY DEF ObjectTypes, objects

(* The model worker's registers, when it does not run.                     *)
LEMMA WorkerFrame == WorkerTypes /\ UNCHANGED modelWorker => WorkerTypes'
  BY DEF WorkerTypes, WorkerOK, modelWorker

(* The store and the provider worker, when neither changes.                *)
LEMMA StoreFrame == StoreTypes /\ UNCHANGED <<providerWorker, mstore>> => StoreTypes'
  BY DEF StoreTypes, providerWorker

(* The registers a finished reconcile leaves are well typed.               *)
LEMMA FinishType == Finish => WorkerTypes'
<1> SUFFICES ASSUME Finish PROVE WorkerTypes'
  OBVIOUS
<1>1. mpc' = "idle" /\ mkey' = None /\ cur' = None
  BY DEF Finish
<1>2. resolved' = <<>> /\ nextRef' = 1 /\ held' = {} /\ todo' = {}
  BY DEF Finish
<1>3. resolved' \in Seq(ResolvedRef) /\ nextRef' \in Nat \ {0}
  BY <1>2
<1>4. WorkerOK'
  BY <1>1, <1>2 DEF WorkerOK
<1> QED
  BY <1>1, <1>2, <1>3, <1>4 DEF WorkerTypes

(* The environment's budget stays within its bound.                        *)
LEMMA EnvStepType == QueueTypes /\ EnvStep => env' \in 0..MaxEnv
  BY EnvAssumption DEF QueueTypes, EnvStep

(* Resolving the next model w of a reconcile of mkey.                      *)
LEMMA BeginCacheType ==
    ASSUME WorkerTypes, mpc # "idle", NEW w \in Work, BeginCache(w), todo' \subseteq Work,
           UNCHANGED <<mkey, held>>
    PROVE  WorkerTypes'
<1>1. mpc' = "resolve" /\ cur' = w /\ resolved' = <<>> /\ nextRef' = 1
  BY DEF BeginCache
<1>2. mkey' \in ModelKeys /\ held' \subseteq ClientNames
  BY DEF WorkerTypes, WorkerOK
<1>3. w \in [key : ModelKeys, obj : ModelObject \cup {None}]
  BY DEF Work
<1>4. resolved' \in Seq(ResolvedRef) /\ nextRef' \in Nat \ {0}
  BY <1>1
<1>5. WorkerOK'
  BY <1>1, <1>2 DEF WorkerOK
<1> QED
  BY <1>1, <1>2, <1>3, <1>4, <1>5 DEF WorkerTypes

(* The step that resolves one reference appends a well-typed one, from a   *)
(* provider of the model's namespace, or nothing (resolveRef).             *)
LEMMA ResolveStep ==
    ASSUME TypeInv, ResolveNextRef
    PROVE  \/ resolved' = resolved
           \/ \E r \in ResolvedRef, k \in ProviderKeys :
                /\ resolved' = Append(resolved, r)
                /\ k = [ns |-> cur.key.ns, name |-> r.providerName]
                /\ pstore[k] # None
                /\ pstore[k].secretNs = cur.key.ns => r.secretNs = cur.key.ns
<1> DEFINE ns == cur.key.ns
           ref == cur.obj.spec.refs[nextRef]
           k == [ns |-> ns, name |-> ref.name]
<1>1. cur \in Work /\ nextRef \in DOMAIN cur.obj.spec.refs
  BY DEF TypeInv, WorkerTypes, WorkerOK, ResolveNextRef
<1>2. ref \in Ref /\ ns \in Namespaces
  <2>1. cur.obj.spec.refs \in Seq(Ref) /\ cur.key \in ModelKeys
    BY <1>1 DEF Work, ModelObject, ModelSpec
  <2> QED
    BY <1>1, <2>1, KeysAssumption DEF Key
<1>3. CASE ~Resolves(ns, ref, pstore)
  BY <1>3 DEF ResolveNextRef
<1>4. CASE Resolves(ns, ref, pstore)
  <2>1. k \in ProviderKeys /\ pstore[k] # None
        /\ PathResolves(ref.path, Merge(pstore[k].config, ref.config))
    BY <1>4 DEF Resolves
  <2>2. pstore[k] \in Info
    BY <2>1 DEF TypeInv, StoreTypes
  <2>3. resolved' = Append(resolved, ResolveRef(ns, ref, pstore[k]))
    BY <1>4 DEF ResolveNextRef
  <2> HIDE DEF ref, ns
  <2>4. /\ ResolveRef(ns, ref, pstore[k]) \in ResolvedRef
        /\ ResolveRef(ns, ref, pstore[k]).providerName = ref.name
        /\ pstore[k].secretNs = ns => ResolveRef(ns, ref, pstore[k]).secretNs = ns
    BY <1>2, <2>1, <2>2, ResolveRefType
  <2> QED
    BY <2>1, <2>3, <2>4 DEF ns
<1> QED
  BY <1>3, <1>4

(* Listing for restoration yields live models of the cache.                *)
LEMMA RestorableType ==
    ASSUME TypeOK
    PROVE  Restorable \subseteq Work
           /\ \A w \in Restorable : ShouldServe(w.key) /\ w.obj = models[w.key]
<1> SUFFICES ASSUME NEW w \in Restorable
             PROVE  w \in Work /\ ShouldServe(w.key) /\ w.obj = models[w.key]
  OBVIOUS
<1>1. /\ w \in [key : ModelKeys, obj : {models[k] : k \in ModelKeys}]
      /\ w.obj = models[w.key] /\ ~Gone(w.obj) /\ ~ExcludedFromStore(w.key.ns, w.obj)
  BY DEF Restorable
<1>2. w.key \in ModelKeys /\ models[w.key] \in ModelObject
  BY <1>1 DEF TypeOK, Gone
<1> QED
  BY <1>1, <1>2 DEF Work, ShouldServe

(* Going on to the next listed model keeps the worker's registers typed.   *)
LEMMA ContinueType == WorkerTypes /\ mpc = "resolve" /\ Continue => WorkerTypes'
<1> SUFFICES ASSUME WorkerTypes, mpc = "resolve", Continue PROVE WorkerTypes'
  OBVIOUS
<1>1. CASE todo = {} /\ Finish
  BY <1>1, FinishType
<1>2. ASSUME NEW w \in todo, todo' = todo \ {w}, BeginCache(w), UNCHANGED <<mkey, held>>
      PROVE  WorkerTypes'
  <2>1. w \in Work /\ todo' \subseteq Work
    BY <1>2 DEF WorkerTypes
  <2> QED
    BY <1>2, <2>1, BeginCacheType
<1> QED
  BY <1>1, <1>2 DEF Continue

-----------------------------------------------------------------------------
(* The parts hold initially.                                               *)
LEMMA TypeInit == Init => TypeInv
<1> SUFFICES ASSUME Init PROVE TypeInv
  OBVIOUS
<1>1. providers \in [ProviderKeys -> ProviderObject \cup {None}]
  BY SpecsAssumption DEF Init, ProviderObject
<1>2. models \in [ModelKeys -> ModelObject \cup {None}]
  BY SpecsAssumption DEF Init, ModelObject
<1>3. QueueTypes
  BY <1>1, <1>2, EnvAssumption DEF Init, Existing, QueueTypes
<1>4. StoreTypes
  BY DEF Init, StoreTypes
<1>5. WorkerTypes
  BY DEF Init, WorkerTypes, WorkerOK
<1> QED
  BY <1>1, <1>2, <1>3, <1>4, <1>5 DEF TypeInv, ObjectTypes

(* Every step keeps the parts, one case per action.                        *)
LEMMA TypeNext == TypeInv /\ [Next]_vars => TypeInv'
<1> SUFFICES ASSUME TypeInv, [Next]_vars
             PROVE  TypeInv'
  OBVIOUS
<1>0. ObjectTypes /\ QueueTypes /\ StoreTypes /\ WorkerTypes
  BY DEF TypeInv
<1> USE DEF TypeInv
<1>1. ASSUME NEW k \in ProviderKeys, NEW s \in ProviderSpecs, PutProvider(k, s)
      PROVE  TypeInv'
  <2>1. [spec |-> s, deleting |-> FALSE] \in ProviderObject
    BY SpecsAssumption DEF ProviderObject
  <2>2. ObjectTypes'
    BY <1>0, <1>1, <2>1 DEF PutProvider, ProviderEvent, ObjectTypes
  <2>3. QueueTypes'
    BY <1>0, <1>1, EnvStepType DEF PutProvider, ProviderEvent, QueueTypes
  <2> QED
    BY <1>0, <1>1, <2>2, <2>3, StoreFrame, WorkerFrame DEF PutProvider, ProviderEvent
<1>2. ASSUME NEW k \in ProviderKeys, DeleteProvider(k)
      PROVE  TypeInv'
  <2>1. ObjectTypes'
    BY <1>0, <1>2 DEF DeleteProvider, ProviderEvent, ProviderObject, ObjectTypes
  <2>2. QueueTypes'
    BY <1>0, <1>2, EnvStepType DEF DeleteProvider, ProviderEvent, QueueTypes
  <2> QED
    BY <1>0, <1>2, <2>1, <2>2, StoreFrame, WorkerFrame DEF DeleteProvider, ProviderEvent
<1>3. ASSUME NEW k \in ModelKeys, NEW s \in ModelSpecs, PutModel(k, s)
      PROVE  TypeInv'
  <2>1. ObjectTypes'
    <3>1. (models[k] # None /\ models[k].served) \in BOOLEAN
      OBVIOUS
    <3> QED
      BY <1>0, <1>3, <3>1, SpecsAssumption DEF PutModel, ModelEvent, ModelObject, ObjectTypes
  <2>2. QueueTypes'
    BY <1>0, <1>3, EnvStepType DEF PutModel, ModelEvent, QueueTypes
  <2> QED
    BY <1>0, <1>3, <2>1, <2>2, StoreFrame, WorkerFrame DEF PutModel, ModelEvent
<1>4. ASSUME NEW k \in ModelKeys, DeleteModelObject(k)
      PROVE  TypeInv'
  <2>1. ObjectTypes'
    BY <1>0, <1>4 DEF DeleteModelObject, ModelEvent, ModelObject, ObjectTypes
  <2>2. QueueTypes'
    BY <1>0, <1>4, EnvStepType DEF DeleteModelObject, ModelEvent, QueueTypes
  <2> QED
    BY <1>0, <1>4, <2>1, <2>2, StoreFrame, WorkerFrame DEF DeleteModelObject, ModelEvent
<1>5. ASSUME NEW k \in ModelKeys, AGCServe(k)
      PROVE  TypeInv'
  <2>1. ObjectTypes'
    BY <1>0, <1>5 DEF AGCServe, ModelEvent, ModelObject, ObjectTypes
  <2>2. QueueTypes'
    BY <1>0, <1>5, EnvStepType DEF AGCServe, ModelEvent, QueueTypes
  <2> QED
    BY <1>0, <1>5, <2>1, <2>2, StoreFrame, WorkerFrame DEF AGCServe, ModelEvent
<1>6. ASSUME NEW k \in ProviderKeys, MapProviderFails(k)
      PROVE  TypeInv'
  <2>1. QueueTypes'
    BY <1>0, <1>6, EnvStepType DEF MapProviderFails, QueueTypes
  <2> QED
    BY <1>0, <1>6, <2>1, ObjectFrame, StoreFrame, WorkerFrame DEF MapProviderFails
<1>7. CASE ListToRestoreFails
  <2>1. mkey \in ModelKeys
    BY <1>0, <1>7 DEF ListToRestoreFails, WorkerTypes, WorkerOK
  <2>2. QueueTypes'
    BY <1>0, <1>7, <2>1, EnvStepType DEF ListToRestoreFails, QueueTypes
  <2> QED
    BY <1>0, <1>7, <2>2, ObjectFrame, StoreFrame, FinishType DEF ListToRestoreFails
<1>8. CASE Restart
  <2>1. QueueTypes'
    BY <1>0, <1>8, EnvStepType DEF Restart, QueueTypes, ObjectTypes, Existing
  <2>2. StoreTypes'
    BY <1>8 DEF Restart, StoreTypes
  <2> QED
    BY <1>0, <1>8, <2>1, <2>2, ObjectFrame, FinishType DEF Restart
<1>9. ASSUME NEW k \in ProviderKeys, MapProvider(k)
      PROVE  TypeInv'
  <2>1. QueueTypes'
    BY <1>0, <1>9 DEF MapProvider, QueueTypes
  <2> QED
    BY <1>0, <1>9, <2>1, ObjectFrame, StoreFrame, WorkerFrame DEF MapProvider
<1>10. ASSUME NEW k \in ProviderKeys, GetProvider(k)
       PROVE  TypeInv'
  <2>1. QueueTypes'
    BY <1>0, <1>10 DEF GetProvider, QueueTypes
  <2>2. StoreTypes'
    BY <1>0, <1>10 DEF GetProvider, StoreTypes, ObjectTypes
  <2> QED
    BY <1>0, <1>10, <2>1, <2>2, ObjectFrame, WorkerFrame DEF GetProvider
<1>11. CASE StoreProvider
  <2>1. pwork \in [key : ProviderKeys, obj : ProviderObject \cup {None}]
    BY <1>0, <1>11 DEF StoreProvider, StoreTypes
  <2>2. ASSUME ~Gone(pwork.obj)
        PROVE  ProviderInfo(pwork.key.ns, pwork.obj.spec) \in Info
    <3>1. pwork.key.ns \in Namespaces /\ pwork.obj.spec \in ProviderSpec
      BY <2>1, <2>2, KeysAssumption DEF Gone, ProviderObject, Key
    <3> QED
      BY <3>1, ProviderInfoType
  <2>3. StoreTypes'
    BY <1>0, <1>11, <2>1, <2>2 DEF StoreProvider, StoreTypes
  <2>4. QueueTypes'
    BY <1>0, <1>11 DEF StoreProvider, QueueTypes
  <2> QED
    BY <1>0, <1>11, <2>3, <2>4, ObjectFrame, WorkerFrame DEF StoreProvider
<1>12. ASSUME NEW k \in ModelKeys, GetModel(k)
       PROVE  TypeInv'
  <2>1. models[k] \in ModelObject \cup {None}
    BY <1>0 DEF ObjectTypes
  <2>2. cur' \in [key : ModelKeys, obj : ModelObject \cup {None}] /\ cur'.key = k
    BY <1>12, <2>1 DEF GetModel
  <2>3. mpc' = "resolve" => cur' \in Work
    BY <1>12, <2>1 DEF GetModel, Gone, Work
  <2>4. WorkerTypes'
    BY <1>0, <1>12, <2>2, <2>3 DEF GetModel, WorkerTypes, WorkerOK
  <2>5. QueueTypes'
    BY <1>0, <1>12 DEF GetModel, QueueTypes
  <2> QED
    BY <1>0, <1>12, <2>4, <2>5, ObjectFrame, StoreFrame DEF GetModel
<1>13. CASE DropModel
  <2>1. StoreTypes'
    BY <1>0, <1>13 DEF DropModel, WithoutOwner, StoreTypes, providerWorker
  <2>2. QueueTypes'
    BY <1>0, <1>13 DEF DropModel, QueueTypes
  <2> QED
    BY <1>0, <1>13, <2>1, <2>2, ObjectFrame, FinishType DEF DropModel
<1>14. CASE ExcludeModel
  <2>1. StoreTypes'
    BY <1>0, <1>14 DEF ExcludeModel, WithoutOwner, StoreTypes, providerWorker
  <2>2. QueueTypes'
    BY <1>0, <1>14 DEF ExcludeModel, QueueTypes
  <2>3. WorkerTypes'
    <3>1. CASE Finish
      BY <3>1, FinishType
    <3>2. CASE mpc' = "list" /\ held' = NamesOf(mkey) /\ UNCHANGED <<mkey, cur, resolved, nextRef, todo>>
      BY <1>0, <1>14, <3>2 DEF ExcludeModel, NamesOf, WorkerTypes, WorkerOK
    <3> QED
      BY <1>14, <3>1, <3>2 DEF ExcludeModel
  <2> QED
    BY <1>0, <1>14, <2>1, <2>2, <2>3, ObjectFrame DEF ExcludeModel
<1>15. CASE ListToRestore
  <2>1. QueueTypes'
    BY <1>0, <1>15 DEF ListToRestore, QueueTypes
  <2>2. WorkerTypes'
    <3>1. CASE Finish
      BY <3>1, FinishType
    <3>2. ASSUME NEW w \in Restorable, todo' = Restorable \ {w}, BeginCache(w),
                 UNCHANGED <<mkey, held>>
          PROVE  WorkerTypes'
      <4>1. w \in Work /\ todo' \subseteq Work
        BY <3>2, RestorableType, TypeInvTypeOK
      <4>2. mpc # "idle"
        BY <1>15 DEF ListToRestore
      <4> QED
        BY <1>0, <3>2, <4>1, <4>2, BeginCacheType
    <3> QED
      BY <1>15, <3>1, <3>2 DEF ListToRestore
  <2> QED
    BY <1>0, <1>15, <2>1, <2>2, ObjectFrame, StoreFrame DEF ListToRestore
<1>16. CASE ResolveNextRef
  <2>1. resolved' \in Seq(ResolvedRef)
    BY <1>0, <1>16, ResolveStep DEF WorkerTypes
  <2>2. mpc = "resolve" /\ nextRef' \in Nat \ {0}
    BY <1>0, <1>16 DEF ResolveNextRef, WorkerTypes
  <2>3. WorkerTypes'
    BY <1>0, <1>16, <2>1, <2>2 DEF ResolveNextRef, WorkerTypes, WorkerOK
  <2>4. QueueTypes'
    BY <1>0, <1>16 DEF ResolveNextRef, QueueTypes
  <2> QED
    BY <1>0, <1>16, <2>3, <2>4, ObjectFrame, StoreFrame DEF ResolveNextRef
<1>17. CASE CacheModel
  <2>1. mpc = "resolve" /\ cur \in Work /\ Continue
    BY <1>0, <1>17 DEF CacheModel, AllRefsTried, WorkerTypes, WorkerOK
  <2>2. [owner |-> cur.key, modelName |-> ClientModelName(cur.key, cur.obj), refs |-> resolved]
             \in Mapping
    BY <1>0, <2>1, ClientModelNameType DEF Mapping, Work, WorkerTypes
  <2>3. StoreTypes'
    BY <1>0, <1>17, <2>2 DEF CacheModel, StoreTypes, providerWorker
  <2>4. QueueTypes'
    BY <1>0, <1>17 DEF CacheModel, QueueTypes
  <2> QED
    BY <1>0, <1>17, <2>1, <2>3, <2>4, ContinueType, ObjectFrame DEF CacheModel
<1>18. CASE RequeueModel
  <2>1. mpc = "resolve" /\ mkey \in ModelKeys /\ Continue
    BY <1>0, <1>18 DEF RequeueModel, AllRefsTried, WorkerTypes, WorkerOK
  <2>2. QueueTypes'
    BY <1>0, <1>18, <2>1 DEF RequeueModel, QueueTypes
  <2> QED
    BY <1>0, <1>18, <2>1, <2>2, ContinueType, ObjectFrame, StoreFrame DEF RequeueModel
<1>19. CASE UNCHANGED vars
  <2>1. UNCHANGED objects /\ UNCHANGED modelWorker /\ UNCHANGED <<providerWorker, mstore>>
        /\ UNCHANGED <<pq, mapq, mq, env>>
    BY <1>19 DEF vars, objects, modelWorker, providerWorker
  <2>2. QueueTypes'
    BY <1>0, <2>1 DEF QueueTypes
  <2> QED
    BY <1>0, <2>1, <2>2, ObjectFrame, StoreFrame, WorkerFrame
<1> QED
  BY <1>1, <1>2, <1>3, <1>4, <1>5, <1>6, <1>7, <1>8, <1>9, <1>10, <1>11, <1>12, <1>13, <1>14,
     <1>15, <1>16, <1>17, <1>18, <1>19
  DEF Next, Environment, ProviderReconciler, ModelReconciler

(* The state of the store, queues and reconcilers is always well typed.    *)
THEOREM TypeCorrect == Spec => []TypeOK
  BY TypeInit, TypeNext, TypeInvTypeOK, PTL DEF Spec

-----------------------------------------------------------------------------
(* Confinement of credentials to a tenant.                                 *)

Confined(r, ns) == r.secretNs = ns /\ [ns |-> ns, name |-> r.providerName] \in ProviderKeys

ProvidersConfined == \A k \in ProviderKeys : pstore[k] # None => pstore[k].secretNs = k.ns
ResolvedConfined == \A i \in DOMAIN resolved : Confined(resolved[i], cur.key.ns)
MappingsConfined == \A n \in ClientNames : mstore[n] # None =>
                       \A i \in DOMAIN mstore[n].refs : Confined(mstore[n].refs[i], mstore[n].owner.ns)

ConfinedInv == ProvidersConfined /\ ResolvedConfined /\ MappingsConfined

(* A step that clears the references resolved so far, and removes mappings *)
(* or leaves them, keeps the store confined.                               *)
LEMMA ConfinedClear ==
    ASSUME ConfinedInv, StoreTypes, resolved' = <<>>, UNCHANGED pstore,
           \A n \in ClientNames : mstore'[n] = None \/ mstore'[n] = mstore[n]
    PROVE  ConfinedInv'
<1>1. ProvidersConfined' /\ MappingsConfined'
  BY DEF ConfinedInv, ProvidersConfined, MappingsConfined, Confined
<1>2. ResolvedConfined'
  BY DEF ResolvedConfined
<1> QED
  BY <1>1, <1>2 DEF ConfinedInv

(* Every step keeps the mappings and the references being resolved         *)
(* confined, one case per action (only CacheModel adds a mapping).         *)
LEMMA ConfinedNext == TypeInv /\ ConfinedInv /\ [Next]_vars => ConfinedInv'
<1> SUFFICES ASSUME TypeInv, ConfinedInv, [Next]_vars
             PROVE  ConfinedInv'
  OBVIOUS
<1>0. StoreTypes /\ WorkerTypes /\ WorkerOK
  BY DEF TypeInv, WorkerTypes
<1>1. ASSUME UNCHANGED <<pstore, mstore, cur, resolved>>
      PROVE  ConfinedInv'
  BY <1>1 DEF ConfinedInv, ProvidersConfined, ResolvedConfined, MappingsConfined, Confined
<1>2. CASE \/ \E k \in ProviderKeys : \/ \E s \in ProviderSpecs : PutProvider(k, s)
                                      \/ DeleteProvider(k) \/ MapProviderFails(k)
                                      \/ MapProvider(k) \/ GetProvider(k)
           \/ \E k \in ModelKeys : \/ \E s \in ModelSpecs : PutModel(k, s)
                                   \/ DeleteModelObject(k) \/ AGCServe(k)
  BY <1>1, <1>2 DEF PutProvider, DeleteProvider, ProviderEvent, PutModel, DeleteModelObject,
     AGCServe, ModelEvent, MapProviderFails, MapProvider, GetProvider, providerWorker, modelWorker
<1>3. CASE Restart
  <2>1. ProvidersConfined' /\ MappingsConfined'
    BY <1>3 DEF Restart, ProvidersConfined, MappingsConfined
  <2>2. ResolvedConfined'
    BY <1>3 DEF Restart, Finish, ResolvedConfined
  <2> QED
    BY <2>1, <2>2 DEF ConfinedInv
<1>4. CASE StoreProvider
  <2>1. pwork \in [key : ProviderKeys, obj : ProviderObject \cup {None}]
    BY <1>0, <1>4 DEF StoreProvider, StoreTypes
  <2>2. ASSUME ~Gone(pwork.obj)
        PROVE  ProviderInfo(pwork.key.ns, pwork.obj.spec).secretNs = pwork.key.ns
    <3>1. pwork.key.ns \in Namespaces /\ pwork.obj.spec \in ProviderSpec
      BY <2>1, <2>2, KeysAssumption DEF Gone, ProviderObject, Key
    <3> QED
      BY <3>1, ProviderInfoType
  <2>3. ProvidersConfined'
    BY <1>0, <1>4, <2>1, <2>2 DEF StoreProvider, StoreTypes, ConfinedInv, ProvidersConfined
  <2>4. ResolvedConfined' /\ MappingsConfined'
    BY <1>4 DEF StoreProvider, modelWorker, ConfinedInv, ResolvedConfined, MappingsConfined, Confined
  <2> QED
    BY <2>3, <2>4 DEF ConfinedInv
<1>5. CASE \E k \in ModelKeys : GetModel(k)
  <2>1. resolved' = <<>> /\ UNCHANGED <<pstore, mstore>>
    BY <1>0, <1>5 DEF GetModel, WorkerOK, providerWorker
  <2> QED
    BY <1>0, <2>1, ConfinedClear
<1>6. CASE ListToRestoreFails \/ ListToRestore \/ RequeueModel
  <2>1. resolved' = <<>> /\ UNCHANGED <<pstore, mstore>>
    BY <1>6 DEF ListToRestoreFails, ListToRestore, RequeueModel, Continue, Finish, BeginCache,
       providerWorker
  <2> QED
    BY <1>0, <2>1, ConfinedClear
<1>7. CASE DropModel \/ ExcludeModel
  <2>1. resolved' = <<>> /\ UNCHANGED pstore /\ mstore' = WithoutOwner(mkey)
    BY <1>0, <1>7 DEF DropModel, ExcludeModel, Finish, WorkerOK, providerWorker
  <2> QED
    BY <1>0, <2>1, ConfinedClear DEF WithoutOwner
<1>8. CASE ResolveNextRef
  <2>1. ProvidersConfined' /\ MappingsConfined'
    BY <1>8 DEF ResolveNextRef, providerWorker, ConfinedInv, ProvidersConfined, MappingsConfined,
       Confined
  <2>2. ResolvedConfined'
    <3>1. cur' = cur /\ resolved \in Seq(ResolvedRef) /\ cur \in Work
      BY <1>0, <1>8 DEF ResolveNextRef, WorkerTypes, WorkerOK
    <3>2. CASE resolved' = resolved
      BY <3>1, <3>2 DEF ConfinedInv, ResolvedConfined, Confined
    <3>3. ASSUME NEW r \in ResolvedRef, NEW k \in ProviderKeys,
                 resolved' = Append(resolved, r),
                 k = [ns |-> cur.key.ns, name |-> r.providerName],
                 pstore[k] # None,
                 pstore[k].secretNs = cur.key.ns => r.secretNs = cur.key.ns
          PROVE  ResolvedConfined'
      <4>1. pstore[k].secretNs = cur.key.ns
        BY <3>3 DEF ConfinedInv, ProvidersConfined
      <4>2. Confined(r, cur.key.ns)
        BY <3>3, <4>1 DEF Confined
      <4>3. \A i \in DOMAIN resolved' : i \in DOMAIN resolved \/ i = Len(resolved) + 1
        BY <3>1, <3>3
      <4> QED
        BY <3>1, <3>3, <4>2, <4>3 DEF ConfinedInv, ResolvedConfined, Confined
    <3> QED
      BY <1>8, <3>2, <3>3, ResolveStep
  <2> QED
    BY <2>1, <2>2 DEF ConfinedInv
<1>9. CASE CacheModel
  <2> DEFINE name == ClientModelName(cur.key, cur.obj)
             map == [owner |-> cur.key, modelName |-> name, refs |-> resolved]
  <2>1. /\ mstore' = [mstore EXCEPT ![name] = map] /\ resolved' = <<>> /\ UNCHANGED pstore
    BY <1>9 DEF CacheModel, Continue, Finish, BeginCache, providerWorker
  <2>2. \A i \in DOMAIN map.refs : Confined(map.refs[i], map.owner.ns)
    BY DEF ConfinedInv, ResolvedConfined
  <2> HIDE DEF map, name
  <2>3. MappingsConfined'
    BY <1>0, <2>1, <2>2 DEF ConfinedInv, MappingsConfined, StoreTypes, Confined
  <2>4. ProvidersConfined'
    BY <2>1 DEF ConfinedInv, ProvidersConfined
  <2>5. ResolvedConfined'
    BY <2>1 DEF ResolvedConfined
  <2> QED
    BY <2>3, <2>4, <2>5 DEF ConfinedInv
<1>10. CASE UNCHANGED vars
  BY <1>1, <1>10 DEF vars
<1> QED
  BY <1>2, <1>3, <1>4, <1>5, <1>6, <1>7, <1>8, <1>9, <1>10
  DEF Next, Environment, ProviderReconciler, ModelReconciler

(* Every reference a mapping offers names a provider and a Secret of its   *)
(* owner's namespace, for any number of tenants, models and providers.     *)
THEOREM CredentialsConfined == Spec => []TenantConfinement
<1>1. Init => ConfinedInv
  BY DEF Init, ConfinedInv, ProvidersConfined, ResolvedConfined, MappingsConfined
<1>2. ConfinedInv => TenantConfinement
  BY DEF ConfinedInv, MappingsConfined, Confined, TenantConfinement
<1> QED
  BY <1>1, <1>2, TypeInit, TypeNext, ConfinedNext, PTL DEF Spec

-----------------------------------------------------------------------------
(* Withdrawal of mappings.                                                 *)

(* IPP serves m, or a reconcile of m is pending.                           *)
Accounted(m) == ShouldServe(m) \/ m \in mq \/ BeingWithdrawn(m)

(* WithdrawnUnlessPending is not inductive: the models a reconcile has     *)
(* read, and will still write, must be accounted for as well.              *)
WithdrawInv ==
    /\ WithdrawnUnlessPending
    /\ mpc = "resolve" => Accounted(cur.key) /\ \A w \in todo : Accounted(w.key)

(* A step that takes no model out of account, and adds neither mappings    *)
(* nor models to be written.                                               *)
LEMMA WithdrawFrame ==
    ASSUME WithdrawInv, TypeInv, \A m \in ModelKeys : Accounted(m) => Accounted(m)',
           \A n \in ClientNames : mstore'[n] = None \/ mstore'[n] = mstore[n],
           mpc' = "resolve" => mpc = "resolve" /\ cur' = cur /\ todo' = todo
    PROVE  WithdrawInv'
<1>1. \A n \in ClientNames : mstore[n] # None => mstore[n].owner \in ModelKeys
  BY DEF TypeInv, StoreTypes, Mapping
<1>2. WithdrawnUnlessPending'
  BY <1>1 DEF WithdrawInv, WithdrawnUnlessPending, Accounted
<1>3. mpc = "resolve" => cur.key \in ModelKeys /\ \A w \in todo : w.key \in ModelKeys
  BY DEF TypeInv, WorkerTypes, WorkerOK, Work
<1> QED
  BY <1>2, <1>3 DEF WithdrawInv

(* A changed model object is queued, so every model stays accounted for.   *)
LEMMA ObjectChange ==
    ASSUME TypeInv, NEW k \in ModelKeys, mq' = mq \cup {k}, UNCHANGED <<mpc, mkey>>,
           \A m \in ModelKeys : m # k => models'[m] = models[m]
    PROVE  \A m \in ModelKeys : Accounted(m) => Accounted(m)'
  BY DEF Accounted, ShouldServe, BeingWithdrawn

(* Going on with a restore, or ending the reconcile.                       *)
LEMMA WithdrawContinue ==
    ASSUME TypeInv, WithdrawInv, mpc = "resolve", Continue, UNCHANGED <<models>>, mq \subseteq mq'
    PROVE  /\ \A m \in ModelKeys : Accounted(m) => Accounted(m)'
           /\ mpc' = "resolve" => Accounted(cur.key)' /\ \A w \in todo' : Accounted(w.key)'
<1>1. \A m \in ModelKeys : Accounted(m) => Accounted(m)'
  BY DEF Accounted, ShouldServe, BeingWithdrawn
<1>2. \A w \in todo : w.key \in ModelKeys
  BY DEF TypeInv, WorkerTypes, Work
<1>3. mpc' = "resolve" => cur' \in todo /\ todo' \subseteq todo
  BY DEF Continue, Finish, BeginCache
<1> QED
  BY <1>1, <1>2, <1>3 DEF WithdrawInv, Accounted

(* Every step keeps the owners of mappings, and the models about to be     *)
(* cached, accounted for, one case per action.                             *)
LEMMA WithdrawNext == TypeInv /\ WithdrawInv /\ [Next]_vars => WithdrawInv'
<1> SUFFICES ASSUME TypeInv, WithdrawInv, [Next]_vars
             PROVE  WithdrawInv'
  OBVIOUS
<1>0. ObjectTypes /\ StoreTypes /\ WorkerTypes /\ WorkerOK
  BY DEF TypeInv, WorkerTypes
<1>1. ASSUME NEW k \in ModelKeys,
             (\E s \in ModelSpecs : PutModel(k, s)) \/ DeleteModelObject(k) \/ AGCServe(k)
      PROVE  WithdrawInv'
  <2>1. /\ mq' = mq \cup {k} /\ UNCHANGED <<mpc, mkey, cur, todo, mstore>>
        /\ \A m \in ModelKeys : m # k => models'[m] = models[m]
    BY <1>0, <1>1 DEF PutModel, DeleteModelObject, AGCServe, ModelEvent, modelWorker, ObjectTypes
  <2>2. \A m \in ModelKeys : Accounted(m) => Accounted(m)'
    BY <2>1, ObjectChange
  <2> QED
    BY <2>1, <2>2, WithdrawFrame
<1>2. CASE \/ \E k \in ProviderKeys : \/ \E s \in ProviderSpecs : PutProvider(k, s)
                                      \/ DeleteProvider(k) \/ MapProviderFails(k)
                                      \/ MapProvider(k) \/ GetProvider(k)
           \/ StoreProvider \/ ResolveNextRef
  <2>1. UNCHANGED <<models, mpc, mkey, cur, todo, mstore>> /\ mq \subseteq mq'
    BY <1>2 DEF PutProvider, DeleteProvider, ProviderEvent, MapProviderFails, MapProvider,
       GetProvider, StoreProvider, ResolveNextRef, objects, modelWorker
  <2>2. \A m \in ModelKeys : Accounted(m) => Accounted(m)'
    BY <2>1 DEF Accounted, ShouldServe, BeingWithdrawn
  <2> QED
    BY <2>1, <2>2, WithdrawFrame
<1>3. CASE Restart
  BY <1>3 DEF Restart, Finish, WithdrawInv, WithdrawnUnlessPending
<1>4. CASE ListToRestoreFails
  <2>1. /\ UNCHANGED <<models, mstore>> /\ mq \subseteq mq' /\ mpc = "list" /\ mpc' = "idle"
    BY <1>4 DEF ListToRestoreFails, Finish, objects
  <2>2. \A m \in ModelKeys : Accounted(m) => Accounted(m)'
    BY <2>1 DEF Accounted, ShouldServe, BeingWithdrawn
  <2> QED
    BY <2>1, <2>2, WithdrawFrame
<1>5. ASSUME NEW k \in ModelKeys, GetModel(k)
      PROVE  WithdrawInv'
  <2>1. /\ mpc = "idle" /\ mkey' = k /\ mq' = mq \ {k} /\ todo' = {} /\ cur'.key = k
        /\ UNCHANGED <<models, mstore>>
    BY <1>0, <1>5 DEF GetModel, WorkerOK, objects
  <2>2. Accounted(k)'
    BY <1>5, <2>1 DEF GetModel, Accounted, ShouldServe, BeingWithdrawn
  <2>3. \A m \in ModelKeys : Accounted(m) => Accounted(m)'
    BY <2>1, <2>2 DEF Accounted, ShouldServe, BeingWithdrawn
  <2>4. WithdrawnUnlessPending'
    BY <1>0, <2>1, <2>3 DEF WithdrawInv, WithdrawnUnlessPending, Accounted, StoreTypes, Mapping
  <2> QED
    BY <2>1, <2>2, <2>4 DEF WithdrawInv
<1>6. CASE DropModel \/ ExcludeModel
  <2>1. /\ UNCHANGED <<models, mq>> /\ mstore' = WithoutOwner(mkey) /\ mpc' # "resolve"
    BY <1>6 DEF DropModel, ExcludeModel, Finish, objects
  <2>2. \A n \in ClientNames :
          mstore'[n] # None => mstore'[n] = mstore[n] /\ mstore[n].owner # mkey
    BY <2>1 DEF WithoutOwner, NamesOf
  <2>3. \A m \in ModelKeys : m # mkey /\ Accounted(m) => Accounted(m)'
    BY <2>1 DEF Accounted, ShouldServe, BeingWithdrawn
  <2>4. WithdrawnUnlessPending'
    BY <1>0, <2>2, <2>3 DEF WithdrawInv, WithdrawnUnlessPending, Accounted, StoreTypes, Mapping
  <2> QED
    BY <2>1, <2>4 DEF WithdrawInv
<1>7. CASE ListToRestore
  <2>1. UNCHANGED <<models, mq, mstore>> /\ mpc = "list"
    BY <1>7 DEF ListToRestore, objects
  <2>2. \A m \in ModelKeys : Accounted(m) => Accounted(m)'
    BY <2>1 DEF Accounted, ShouldServe, BeingWithdrawn
  <2>3. WithdrawnUnlessPending'
    BY <1>0, <2>1, <2>2 DEF WithdrawInv, WithdrawnUnlessPending, Accounted, StoreTypes, Mapping
  <2>4. mpc' = "resolve" => cur' \in Restorable /\ todo' \subseteq Restorable
    BY <1>7 DEF ListToRestore, Finish, BeginCache
  <2>5. \A w \in Restorable : ShouldServe(w.key)'
    BY <2>1, RestorableType, TypeInvTypeOK DEF ShouldServe
  <2> QED
    BY <2>3, <2>4, <2>5 DEF WithdrawInv, Accounted
<1>8. CASE RequeueModel
  <2>1. UNCHANGED <<models, mstore>> /\ mq \subseteq mq' /\ mpc = "resolve" /\ Continue
    BY <1>8 DEF RequeueModel, AllRefsTried, objects
  <2>2. WithdrawnUnlessPending'
    BY <1>0, <2>1, WithdrawContinue
    DEF WithdrawInv, WithdrawnUnlessPending, Accounted, StoreTypes, Mapping
  <2> QED
    BY <2>1, <2>2, WithdrawContinue DEF WithdrawInv
<1>9. CASE CacheModel
  <2>1. UNCHANGED <<models, mq>> /\ mpc = "resolve" /\ cur \in Work /\ Continue
    BY <1>0, <1>9 DEF CacheModel, AllRefsTried, objects, WorkerOK
  <2>2. \A m \in ModelKeys : Accounted(m) => Accounted(m)'
    BY <2>1, WithdrawContinue
  <2>3. PICK o \in ModelKeys : o = cur.key /\ Accounted(o)'
    BY <2>1, <2>2 DEF WithdrawInv, Work
  <2>4. \A n \in ClientNames :
          mstore'[n] # None => mstore'[n] = mstore[n] \/ mstore'[n].owner = o
    BY <1>0, <1>9, <2>3 DEF CacheModel, StoreTypes
  <2>5. WithdrawnUnlessPending'
    BY <1>0, <2>2, <2>3, <2>4
    DEF WithdrawInv, WithdrawnUnlessPending, Accounted, StoreTypes, Mapping
  <2> QED
    BY <2>1, <2>5, WithdrawContinue DEF WithdrawInv
<1>10. CASE UNCHANGED vars
  BY <1>10 DEF vars, WithdrawInv, WithdrawnUnlessPending, Accounted, ShouldServe, BeingWithdrawn
<1> QED
  BY <1>1, <1>2, <1>3, <1>4, <1>5, <1>6, <1>7, <1>8, <1>9, <1>10
  DEF Next, Environment, ProviderReconciler, ModelReconciler

(* A mapping whose model IPP must not serve is always about to be removed, *)
(* however reconciles, restores, edits and restarts interleave.            *)
THEOREM MappingsWithdrawn == Spec => []WithdrawnUnlessPending
<1>1. Init => WithdrawInv
  BY DEF Init, WithdrawInv, WithdrawnUnlessPending
<1>2. WithdrawInv => WithdrawnUnlessPending
  BY DEF WithdrawInv
<1> QED
  BY <1>1, <1>2, TypeInit, TypeNext, WithdrawNext, PTL DEF Spec

-----------------------------------------------------------------------------
(* Currency of the provider half.                                          *)

CurrentInfo(k) ==
    pstore[k] = IF Gone(providers[k]) THEN None ELSE ProviderInfo(k.ns, providers[k].spec)

(* What the provider worker read is current unless its key is queued again.*)
ReadCurrent == pwork # None /\ pwork.key \notin pq => pwork.obj = providers[pwork.key]

ProviderInv == ProviderStoreCurrent /\ ReadCurrent

(* Every step keeps the provider store current up to pending work, one     *)
(* case per action.                                                        *)
LEMMA ProviderNext == TypeInv /\ ProviderInv /\ [Next]_vars => ProviderInv'
<1> SUFFICES ASSUME TypeInv, ProviderInv, [Next]_vars
             PROVE  ProviderInv'
  OBVIOUS
<1>0. ObjectTypes /\ StoreTypes
  BY DEF TypeInv
<1>1. ASSUME UNCHANGED <<providers, pq, pstore, pwork>>
      PROVE  ProviderInv'
  BY <1>1 DEF ProviderInv, ProviderStoreCurrent, ReadCurrent
<1>2. CASE \/ \E k \in ProviderKeys : MapProviderFails(k) \/ MapProvider(k)
           \/ \E k \in ModelKeys : \/ \E s \in ModelSpecs : PutModel(k, s)
                                   \/ DeleteModelObject(k) \/ AGCServe(k) \/ GetModel(k)
           \/ ListToRestoreFails \/ DropModel \/ ExcludeModel \/ ListToRestore
           \/ ResolveNextRef \/ CacheModel \/ RequeueModel
           \/ UNCHANGED vars
  <2>1. UNCHANGED <<providers, pq, pstore, pwork>>
    BY <1>2 DEF MapProviderFails, MapProvider, PutModel, DeleteModelObject, AGCServe, GetModel,
       ModelEvent, ListToRestoreFails, DropModel, ExcludeModel, ListToRestore, ResolveNextRef,
       CacheModel, RequeueModel, vars, objects, providerWorker
  <2> QED
    BY <1>1, <2>1
<1>3. ASSUME NEW k \in ProviderKeys, (\E s \in ProviderSpecs : PutProvider(k, s)) \/ DeleteProvider(k)
      PROVE  ProviderInv'
  <2>1. /\ pq' = pq \cup {k} /\ UNCHANGED <<pstore, pwork>>
        /\ \A j \in ProviderKeys : j # k => providers'[j] = providers[j]
    BY <1>0, <1>3 DEF PutProvider, DeleteProvider, ProviderEvent, providerWorker, ObjectTypes
  <2>2. pwork # None => pwork.key \in ProviderKeys
    BY <1>0 DEF StoreTypes
  <2> QED
    BY <2>1, <2>2 DEF ProviderInv, ProviderStoreCurrent, ReadCurrent
<1>4. ASSUME NEW k \in ProviderKeys, GetProvider(k)
      PROVE  ProviderInv'
  <2>1. /\ pq' = pq \ {k} /\ UNCHANGED <<pstore, providers>> /\ pwork = None
        /\ pwork' = [key |-> k, obj |-> providers[k]]
    BY <1>4 DEF GetProvider, objects
  <2>2. pwork'.key = k /\ pwork'.obj = providers[k] /\ pwork' # None
    <3>1. pwork' \in [key : ProviderKeys, obj : ProviderObject \cup {None}]
      BY <1>0, <2>1 DEF ObjectTypes
    <3> QED
      BY <2>1, <3>1, NoneAssumption
  <2> QED
    BY <2>1, <2>2 DEF ProviderInv, ProviderStoreCurrent, ReadCurrent
<1>5. CASE StoreProvider
  <2>1. pwork \in [key : ProviderKeys, obj : ProviderObject \cup {None}] /\ pwork # None
    BY <1>0, <1>5 DEF StoreProvider, StoreTypes
  <2>2. /\ UNCHANGED <<providers, pq>> /\ pwork' = None
        /\ pstore' = [pstore EXCEPT ![pwork.key] =
                        IF Gone(pwork.obj) THEN None
                        ELSE ProviderInfo(pwork.key.ns, pwork.obj.spec)]
    BY <1>5 DEF StoreProvider, objects
  <2>3. ASSUME NEW k \in ProviderKeys, k \notin pq
        PROVE  CurrentInfo(k)'
    <3>1. CASE k = pwork.key
      BY <1>0, <2>1, <2>2, <2>3, <3>1 DEF ProviderInv, ReadCurrent, CurrentInfo, StoreTypes
    <3>2. CASE k # pwork.key
      BY <1>0, <2>1, <2>2, <2>3, <3>2 DEF ProviderInv, ProviderStoreCurrent, CurrentInfo, StoreTypes
    <3> QED
      BY <3>1, <3>2
  <2> QED
    BY <2>2, <2>3 DEF ProviderInv, ProviderStoreCurrent, ReadCurrent, CurrentInfo
<1>6. CASE Restart
  <2>1. /\ UNCHANGED providers /\ pwork' = None /\ pq' = Existing(providers)
        /\ pstore' = [k \in ProviderKeys |-> None]
    BY <1>6 DEF Restart, objects
  <2> QED
    BY <1>0, <2>1 DEF ProviderInv, ProviderStoreCurrent, ReadCurrent, Existing, Gone, ObjectTypes
<1> QED
  BY <1>2, <1>3, <1>4, <1>5, <1>6 DEF Next, Environment, ProviderReconciler, ModelReconciler

(* No provider update or deletion is lost between the informer cache and   *)
(* the provider half of the store.                                         *)
THEOREM ProvidersCurrent == Spec => []ProviderStoreCurrent
<1>1. Init => ProviderInv
  BY DEF Init, ProviderInv, ProviderStoreCurrent, ReadCurrent, Existing, Gone
<1>2. ProviderInv => ProviderStoreCurrent
  BY DEF ProviderInv
<1> QED
  BY <1>1, <1>2, TypeInit, TypeNext, ProviderNext, PTL DEF Spec
=============================================================================
