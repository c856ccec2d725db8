-------------------------- MODULE ModelRoute_proofs --------------------------
(***************************************************************************)
(* Proofs about ModelRoute and Gateway, for any providers, specs, faults   *)
(* and bounds.                                                             *)
(*                                                                         *)
(* A copy of the model whose flag is set agrees with the API server        *)
(* (Copies); Reconcile reaches a status write only with a copy AGC does    *)
(* not serve, and looks for a route without rules only to withdraw it      *)
(* (Decided).  For Gateway, SettledInv relates the route to the providers  *)
(* that resolve.                                                           *)
(***************************************************************************)
EXTENDS Gateway, SequenceTheorems, TLAPS

ModelTypes ==
    /\ model \in Model \cup {None} /\ mseen \in Model \cup {None} /\ my \in Model \cup {None}
    /\ mCur \in BOOLEAN /\ myCur \in BOOLEAN

ProviderTypes ==
    /\ prov \in [Providers -> Provider \cup {None}] /\ pseen \in [Providers -> Provider \cup {None}]

RouteTypes ==
    /\ route \in Route \cup {None} /\ rseen \in Route \cup {None} /\ got \in Route \cup {None}
    /\ rCur \in BOOLEAN /\ rSame \in BOOLEAN /\ gotCur \in BOOLEAN /\ gotSame \in BOOLEAN
    /\ misled \in BOOLEAN

RuleTypes == i \in Nat \ {0} /\ resolved \in Seq(Rule)

ControlTypes ==
    /\ pc \in {"idle", "status", "resolve", "find", "write", "delete"}
    /\ queued \in BOOLEAN
    /\ want \in Phases /\ named \in BOOLEAN /\ then \in {"idle", "retry", "resolve"}
    /\ pc # "idle" => my # None

EnvTypes == env \in 0..MaxEnv

TypeInv == ModelTypes /\ ProviderTypes /\ RouteTypes /\ RuleTypes /\ ControlTypes /\ EnvTypes

Copies ==
    /\ mCur => mseen = model
    /\ (myCur /\ pc # "idle") => /\ model # None
                                 /\ model.spec = my.spec
                                 /\ model.served = my.served

Decided ==
    /\ pc \in {"resolve", "status", "write"} => ~AGC(my)
    /\ (pc = "find" /\ resolved # << >>) => ~AGC(my)
    /\ (pc \in {"find", "delete"} /\ resolved = << >>) => AGC(my) \/ ForeignOnly(my.spec)
    /\ pc = "delete" => resolved = << >>

RouteInv == TypeInv /\ Copies /\ Decided

-----------------------------------------------------------------------------
(* A rule made from a reference that resolves is a rule.                   *)
LEMMA RuleType ==
  ASSUME NEW ref \in Ref, NEW p \in Provider \cup {None}, Resolves(ref, p)
  PROVE  RuleOf(ref, p) \in Rule
<1>1. p \in Provider
  BY DEF Resolves
<1>2. p.port \in {"", "8080"}
  BY <1>1 DEF Resolves, Provider, Ports
<1>3. PortOf(p) \in {"443", "8080"}
  BY <1>2 DEF PortOf
<1>4. ref.name \in Providers
  BY DEF Ref
<1>5. p.endpoint \in {"e1", "e2"}
  BY <1>1 DEF Provider
<1> QED
  BY <1>3, <1>4, <1>5 DEF RuleOf, Rule

(* A route built from rules is a route.                                    *)
LEMMA BuiltType ==
  ASSUME NEW rules \in Seq(Rule), NEW spec \in ModelSpec
  PROVE  BuildHTTPRoute(rules, spec) \in Route
<1>1. spec.name \in {"", "gpt"}
  BY DEF ModelSpec
<1> QED
  BY <1>1 DEF BuildHTTPRoute, Route

(* A model's parts have their types.                                       *)
LEMMA ModelParts ==
  ASSUME NEW m \in Model
  PROVE  /\ m.spec \in ModelSpec /\ m.spec.refs \in Seq(Ref)
         /\ m.routeName \in BOOLEAN /\ m.served \in BOOLEAN /\ m # None
<1>1. m.spec \in ModelSpec /\ m.routeName \in BOOLEAN /\ m.served \in BOOLEAN
  BY DEF Model
<1>2. m.spec.refs \in Seq(Ref)
  BY <1>1 DEF ModelSpec
<1> QED
  BY <1>1, <1>2, NoneAssumption

(* The bounded counter.                                                    *)
LEMMA EnvType == EnvTypes /\ (EnvStep \/ UNCHANGED env) => EnvTypes'
<1>1. MaxEnv \in Nat
  BY MaxEnvAssumption
<1> QED
  BY <1>1 DEF EnvTypes, EnvStep

-----------------------------------------------------------------------------
(* A change of the model by users or AGC.                                  *)
LEMMA ModelStep ==
  ASSUME RouteInv, NEW m \in Model \cup {None}, ChangeModel(m)
  PROVE  RouteInv'
<1> USE DEF RouteInv, TypeInv, ChangeModel, provVars, routeVars, gotVars, statusVars
<1>1. ModelTypes' /\ EnvTypes'
  BY EnvType DEF ModelTypes
<1>2. ProviderTypes' /\ RouteTypes' /\ RuleTypes'
  BY DEF ProviderTypes, RouteTypes, RuleTypes
<1>3. ControlTypes'
  BY DEF ControlTypes
<1>4. Copies' /\ Decided'
  BY DEF Copies, Decided
<1> QED
  BY <1>1, <1>2, <1>3, <1>4

(* Every step of users, AGC and other controllers keeps the invariant.     *)
LEMMA EnvironmentNext == RouteInv /\ Environment => RouteInv'
<1> SUFFICES ASSUME RouteInv, Environment PROVE RouteInv'
  OBVIOUS
<1>t. model \in Model \cup {None}
  BY DEF RouteInv, TypeInv, ModelTypes
<1>1. ASSUME model # None, EditModel PROVE RouteInv'
  <2>1. PICK s \in ModelSpecs : ChangeModel([model EXCEPT !.spec = s])
    BY <1>1 DEF EditModel
  <2>2. [model EXCEPT !.spec = s] \in Model
    BY <1>t, <1>1, SpecsAssumption DEF Model
  <2> QED
    BY <2>1, <2>2, ModelStep
<1>2. ASSUME model # None, DeleteModel PROVE RouteInv'
  <2>1. [model EXCEPT !.deleting = TRUE] \in Model
    BY <1>t, <1>2 DEF Model
  <2> QED
    BY <1>2, <2>1, ModelStep DEF DeleteModel
<1>3. ASSUME model # None, AGCServe PROVE RouteInv'
  <2>1. [model EXCEPT !.served = ~model.served] \in Model
    BY <1>t, <1>3 DEF Model
  <2> QED
    BY <1>3, <2>1, ModelStep DEF AGCServe
<1>4. ASSUME model # None, AGCStatus PROVE RouteInv'
  <2>1. PICK p \in {"Ready", "Failed"} : ChangeModel([model EXCEPT !.phase = p])
    BY <1>4 DEF AGCStatus
  <2>2. [model EXCEPT !.phase = p] \in Model
    BY <1>t, <1>4 DEF Model, Phases
  <2> QED
    BY <2>1, <2>2, ModelStep
<1>5. ASSUME NEW p \in Providers, ChangeProvider(p) PROVE RouteInv'
  <2> USE DEF RouteInv, TypeInv
  <2>0. UNCHANGED <<modelVars, queued, pseen, routeVars, pc, my, myCur, i, resolved, gotVars, statusVars>>
        /\ EnvStep
    BY <1>5 DEF ChangeProvider
  <2>1. ProviderTypes'
    BY <1>5, SpecsAssumption DEF ChangeProvider, ProviderTypes
  <2>2. ModelTypes' /\ RouteTypes' /\ RuleTypes'
    BY <2>0 DEF ModelTypes, RouteTypes, RuleTypes, modelVars, routeVars, gotVars
  <2>3. ControlTypes'
    BY <2>0 DEF ControlTypes, statusVars
  <2>4. Copies' /\ Decided'
    BY <2>0 DEF Copies, Decided, modelVars
  <2> QED
    BY <2>0, <2>1, <2>2, <2>3, <2>4, EnvType
<1>6. CASE RelabelRoute
  <2> USE DEF RouteInv, TypeInv
  <2>0. /\ UNCHANGED <<modelVars, queued, provVars, rseen, rSame, pc, my, myCur, i, resolved, got, gotSame, misled,
                       statusVars>>
        /\ EnvStep /\ route # None /\ rCur' = FALSE /\ gotCur' = FALSE
        /\ route' = [route EXCEPT !.label = "other"]
    BY <1>6 DEF RelabelRoute
  <2>1. route' \in Route
    BY <2>0 DEF RouteTypes, Route
  <2>2. RouteTypes'
    BY <2>0, <2>1 DEF RouteTypes
  <2>3. ModelTypes' /\ ProviderTypes' /\ RuleTypes'
    BY <2>0 DEF ModelTypes, ProviderTypes, RuleTypes, modelVars, provVars
  <2>4. ControlTypes'
    BY <2>0 DEF ControlTypes, statusVars
  <2>5. Copies' /\ Decided'
    BY <2>0 DEF Copies, Decided, modelVars
  <2> QED
    BY <2>0, <2>2, <2>3, <2>4, <2>5, EnvType
<1> QED
  BY <1>1, <1>2, <1>3, <1>4, <1>5, <1>6 DEF Environment

(* The informers change their copies only.                                 *)
LEMMA InformersNext == RouteInv /\ Informers => RouteInv'
<1> SUFFICES ASSUME RouteInv, Informers PROVE RouteInv'
  OBVIOUS
<1> USE DEF RouteInv, TypeInv, modelVars, provVars, routeVars, gotVars, statusVars
<1>1. CASE SyncModel
  <2>1. ModelTypes' /\ ControlTypes'
    BY <1>1 DEF SyncModel, ModelTypes, ControlTypes
  <2>2. ProviderTypes' /\ RouteTypes' /\ RuleTypes' /\ EnvTypes'
    BY <1>1 DEF SyncModel, ProviderTypes, RouteTypes, RuleTypes, EnvTypes
  <2>3. Copies' /\ Decided'
    BY <1>1 DEF SyncModel, Copies, Decided
  <2> QED
    BY <2>1, <2>2, <2>3
<1>2. CASE SyncRoute
  <2>1. ModelTypes' /\ ControlTypes'
    BY <1>2 DEF SyncRoute, ModelTypes, ControlTypes
  <2>2. ProviderTypes' /\ RouteTypes' /\ RuleTypes' /\ EnvTypes'
    BY <1>2 DEF SyncRoute, ProviderTypes, RouteTypes, RuleTypes, EnvTypes
  <2>3. Copies' /\ Decided'
    BY <1>2 DEF SyncRoute, Copies, Decided
  <2> QED
    BY <2>1, <2>2, <2>3
<1>3. ASSUME NEW p \in Providers, SyncProvider(p) PROVE RouteInv'
  <2>0. /\ UNCHANGED <<modelVars, prov, routeVars, pc, my, myCur, i, resolved, gotVars, statusVars, env>>
        /\ pseen' = [pseen EXCEPT ![p] = prov[p]]
        /\ queued' = (queued \/ References(p))
    BY <1>3 DEF SyncProvider
  <2>1. queued' \in BOOLEAN
    BY <2>0 DEF ControlTypes, References
  <2>2. ModelTypes' /\ ControlTypes'
    BY <2>0, <2>1 DEF ModelTypes, ControlTypes
  <2>3. ProviderTypes'
    BY <2>0 DEF ProviderTypes
  <2>4. RouteTypes' /\ RuleTypes' /\ EnvTypes'
    BY <2>0 DEF RouteTypes, RuleTypes, EnvTypes
  <2>5. Copies' /\ Decided'
    BY <2>0 DEF Copies, Decided
  <2> QED
    BY <2>2, <2>3, <2>4, <2>5
<1> QED
  BY <1>1, <1>2, <1>3 DEF Informers

-----------------------------------------------------------------------------
(* The steps of Reconcile.                                                 *)

(* Reading the model: the early returns and the new model's status.        *)
LEMMA GetModelNext == RouteInv /\ GetModel => RouteInv'
<1> SUFFICES ASSUME RouteInv, GetModel PROVE RouteInv'
  OBVIOUS
<1> USE DEF RouteInv, TypeInv
<1>0. /\ UNCHANGED <<modelVars, provVars, routeVars, gotVars, env>>
      /\ queued' = FALSE /\ my' = mseen /\ myCur' = mCur /\ i' = 1 /\ resolved' = << >>
  BY DEF GetModel
<1>1. \/ pc' = "idle" /\ UNCHANGED statusVars
      \/ mseen # None /\ AGC(mseen) /\ pc' = "find" /\ UNCHANGED statusVars
      \/ mseen # None /\ ~AGC(mseen) /\ pc' = "resolve" /\ UNCHANGED statusVars
      \/ /\ mseen # None /\ ~AGC(mseen) /\ pc' = "status" /\ want' = "Pending"
         /\ then' = "resolve" /\ named' = mseen.routeName
  BY DEF GetModel
<1>2. ModelTypes' /\ ProviderTypes' /\ RouteTypes' /\ EnvTypes'
  BY <1>0 DEF ModelTypes, ProviderTypes, RouteTypes, EnvTypes, modelVars, provVars, routeVars, gotVars
<1>3. RuleTypes'
  BY <1>0 DEF RuleTypes
<1>4. ControlTypes'
  <2>1. mseen # None => mseen.routeName \in BOOLEAN
    BY ModelParts DEF ModelTypes
  <2>2. want' \in Phases /\ named' \in BOOLEAN /\ then' \in {"idle", "retry", "resolve"}
    BY <1>1, <2>1 DEF ControlTypes, statusVars, Phases
  <2>3. pc' \in {"idle", "status", "resolve", "find"} /\ (pc' # "idle" => mseen # None)
    BY <1>1
  <2> QED
    BY <1>0, <2>2, <2>3 DEF ControlTypes
<1>5. Copies'
  <2>1. pc' # "idle" => mseen # None
    BY <1>1
  <2> QED
    BY <1>0, <2>1 DEF Copies, modelVars
<1>6. Decided'
  <2>1. AGC(mseen)' = AGC(mseen) /\ AGC(my)' = AGC(mseen)
    BY <1>0 DEF AGC, modelVars
  <2> QED
    BY <1>0, <1>1, <2>1 DEF Decided
<1> QED
  BY <1>2, <1>3, <1>4, <1>5, <1>6

(* The loop over the references and what follows it.                       *)
LEMMA ResolveNext ==
  RouteInv /\ (ResolveNextRef \/ ResolveFails \/ Conclude) => RouteInv'
<1> SUFFICES ASSUME RouteInv, ResolveNextRef \/ ResolveFails \/ Conclude PROVE RouteInv'
  OBVIOUS
<1> USE DEF RouteInv, TypeInv
<1>0. /\ UNCHANGED <<modelVars, provVars, routeVars, my, myCur, gotVars>> /\ pc = "resolve"
      /\ EnvStep \/ UNCHANGED env
  BY DEF ResolveNextRef, ResolveFails, Conclude, Fails
<1>m. my \in Model
  BY <1>0 DEF ModelTypes, ControlTypes
<1>p. my.routeName \in BOOLEAN /\ Refs \in Seq(Ref)
  BY <1>m, ModelParts DEF Refs
<1>1. ModelTypes' /\ ProviderTypes' /\ RouteTypes' /\ EnvTypes'
  BY <1>0, EnvType DEF ModelTypes, ProviderTypes, RouteTypes, modelVars, provVars, routeVars, gotVars
<1>2. RuleTypes'
  <2>1. CASE ResolveNextRef
    <3>1. i \in 1..Len(Refs)
      BY <2>1, <1>p DEF ResolveNextRef, RuleTypes
    <3>r. Refs[i] \in Ref
      BY <1>p, <3>1
    <3>2. Refs[i] \in Ref /\ Refs[i].name \in Providers
      BY <3>r DEF Ref
    <3>3. pseen[Refs[i].name] \in Provider \cup {None}
      BY <3>2 DEF ProviderTypes
    <3>4. Resolves(Refs[i], pseen[Refs[i].name]) => RuleOf(Refs[i], pseen[Refs[i].name]) \in Rule
      BY <3>2, <3>3, RuleType
    <3> QED
      BY <2>1, <3>4 DEF ResolveNextRef, RuleTypes
  <2>2. CASE ResolveFails \/ Conclude
    BY <2>2 DEF ResolveFails, Conclude, RuleTypes
  <2> QED
    BY <2>1, <2>2
<1>3. \/ pc' = "resolve" /\ UNCHANGED <<queued, statusVars>>
      \/ SetStatus("Failed", my.routeName, "retry")
      \/ /\ pc' = "find" /\ UNCHANGED <<queued, statusVars, resolved>>
         /\ resolved # << >> \/ ForeignOnly(my.spec)
  BY <1>0 DEF ResolveNextRef, ResolveFails, Conclude
<1>4. ControlTypes'
  <2>1. want' \in Phases /\ named' \in BOOLEAN /\ then' \in {"idle", "retry", "resolve"} /\ queued' \in BOOLEAN
    BY <1>3, <1>p DEF SetStatus, statusVars, ControlTypes, Phases
  <2>2. pc' \in {"resolve", "status", "find"}
    BY <1>3 DEF SetStatus
  <2> QED
    BY <1>0, <2>1, <2>2 DEF ControlTypes
<1>5. Copies'
  BY <1>0 DEF Copies, modelVars
<1>6. Decided'
  <2>1. AGC(my)' = AGC(my) /\ ForeignOnly(my.spec)' = ForeignOnly(my.spec)
    BY <1>0 DEF AGC, ForeignOnly
  <2>2. ~AGC(my)
    BY <1>0 DEF Decided
  <2> QED
    BY <1>3, <2>1, <2>2 DEF Decided, SetStatus
<1> QED
  BY <1>1, <1>2, <1>4, <1>5, <1>6

(* Reading and writing the route.                                          *)
LEMMA ApplyNext ==
  RouteInv /\ (GetRoute \/ WriteRoute \/ WriteRouteFails) => RouteInv'
<1> SUFFICES ASSUME RouteInv, GetRoute \/ WriteRoute \/ WriteRouteFails PROVE RouteInv'
  OBVIOUS
<1> USE DEF RouteInv, TypeInv
<1>0. /\ UNCHANGED <<modelVars, provVars, rseen, my, myCur, i, resolved>> /\ pc \in {"find", "write"}
      /\ EnvStep \/ UNCHANGED env
  BY DEF GetRoute, WriteRoute, WriteRouteFails, Fails, routeVars
<1>m. my \in Model
  BY <1>0 DEF ModelTypes, ControlTypes
<1>p. my.routeName \in BOOLEAN /\ my.spec \in ModelSpec
  BY <1>m, ModelParts
<1>1. ModelTypes' /\ ProviderTypes' /\ RuleTypes' /\ EnvTypes'
  BY <1>0, EnvType DEF ModelTypes, ProviderTypes, RuleTypes, modelVars, provVars
<1>2. RouteTypes'
  <2>1. CASE GetRoute
    BY <2>1 DEF GetRoute, RouteTypes, routeVars
  <2>2. CASE WriteRoute
    <3>1. Wanted \in Route
      BY <1>p, BuiltType DEF Wanted, RuleTypes
    <3>2. /\ route' \in {route, Wanted} /\ UNCHANGED <<rseen, got, gotCur, gotSame>>
          /\ rCur' \in BOOLEAN /\ rSame' \in BOOLEAN /\ misled' \in BOOLEAN
      BY <2>2 DEF WriteRoute, RouteTypes
    <3> QED
      BY <3>1, <3>2 DEF RouteTypes, gotVars
  <2>3. CASE WriteRouteFails
    BY <2>3 DEF WriteRouteFails, RouteTypes, routeVars, gotVars
  <2> QED
    BY <2>1, <2>2, <2>3
<1>3. \/ /\ pc = "find" /\ UNCHANGED <<queued, statusVars>>
         /\ pc' = IF resolved = << >> THEN "delete" ELSE "write"
      \/ pc = "write" /\ SetStatus("Ready", TRUE, "idle")
      \/ pc = "write" /\ SetStatus("Failed", my.routeName, "retry")
  BY DEF GetRoute, WriteRoute, WriteRouteFails
<1>4. ControlTypes'
  <2>1. want' \in Phases /\ named' \in BOOLEAN /\ then' \in {"idle", "retry", "resolve"} /\ queued' \in BOOLEAN
    BY <1>3, <1>p DEF SetStatus, statusVars, ControlTypes, Phases
  <2>2. pc' \in {"delete", "status", "write"}
    BY <1>3 DEF SetStatus
  <2> QED
    BY <1>0, <2>1, <2>2 DEF ControlTypes
<1>5. Copies'
  BY <1>0 DEF Copies, modelVars
<1>6. Decided'
  <2>1. AGC(my)' = AGC(my) /\ ForeignOnly(my.spec)' = ForeignOnly(my.spec) /\ resolved' = resolved
    BY <1>0 DEF AGC, ForeignOnly
  <2> QED
    BY <1>3, <2>1 DEF Decided, SetStatus
<1> QED
  BY <1>1, <1>2, <1>4, <1>5, <1>6

(* Withdrawing the route.                                                  *)
LEMMA WithdrawNext ==
  RouteInv /\ (DeleteRoute \/ LeaveRoute \/ DeleteRouteFails) => RouteInv'
<1> SUFFICES ASSUME RouteInv, DeleteRoute \/ LeaveRoute \/ DeleteRouteFails PROVE RouteInv'
  OBVIOUS
<1> USE DEF RouteInv, TypeInv
<1>0. /\ UNCHANGED <<modelVars, provVars, rseen, my, myCur, i, resolved, got>> /\ pc = "delete"
      /\ EnvStep \/ UNCHANGED env
  BY DEF DeleteRoute, LeaveRoute, DeleteRouteFails, Fails, routeVars, gotVars
<1>m. my \in Model
  BY <1>0 DEF ModelTypes, ControlTypes
<1>p. my.routeName \in BOOLEAN
  BY <1>m, ModelParts
<1>1. ModelTypes' /\ ProviderTypes' /\ RuleTypes' /\ EnvTypes'
  BY <1>0, EnvType DEF ModelTypes, ProviderTypes, RuleTypes, modelVars, provVars
<1>2. RouteTypes'
  <2>1. CASE DeleteRoute
    BY <2>1 DEF DeleteRoute, RouteTypes
  <2>2. CASE LeaveRoute \/ DeleteRouteFails
    BY <2>2 DEF LeaveRoute, DeleteRouteFails, RouteTypes, routeVars, gotVars
  <2> QED
    BY <2>1, <2>2
<1>3. \E ok \in BOOLEAN : Withdrawn(ok)
  BY DEF DeleteRoute, LeaveRoute, DeleteRouteFails
<1>4. \/ AGC(my) /\ pc' = "idle" /\ queued' \in BOOLEAN /\ UNCHANGED statusVars
      \/ /\ ~AGC(my) /\ pc' = "status" /\ want' = "Failed" /\ named' \in BOOLEAN
         /\ then' = "retry" /\ UNCHANGED queued
  BY <1>3, <1>p DEF Withdrawn, Done, SetStatus, ControlTypes
<1>5. ControlTypes'
  BY <1>0, <1>4 DEF ControlTypes, statusVars, Phases
<1>6. Copies'
  BY <1>0 DEF Copies, modelVars
<1>7. Decided'
  <2>1. AGC(my)' = AGC(my)
    BY <1>0 DEF AGC
  <2> QED
    BY <1>4, <2>1 DEF Decided
<1> QED
  BY <1>1, <1>2, <1>5, <1>6, <1>7

(* Writing the status.                                                     *)
LEMMA StatusNext == RouteInv /\ (WriteStatus \/ WriteStatusFails) => RouteInv'
<1> SUFFICES ASSUME RouteInv, WriteStatus \/ WriteStatusFails PROVE RouteInv'
  OBVIOUS
<1> USE DEF RouteInv, TypeInv
<1>0. /\ AfterStatus /\ pc = "status"
      /\ EnvStep \/ UNCHANGED env
      /\ \/ UNCHANGED <<model, mCur>>
         \/ /\ myCur /\ model' = [model EXCEPT !.phase = want, !.routeName = named]
            /\ mCur' = (mCur /\ model' = model)
  BY DEF WriteStatus, WriteStatusFails, Fails
<1>a. /\ UNCHANGED <<mseen, provVars, routeVars, myCur, i, resolved, gotVars, statusVars>>
      /\ my' = [my EXCEPT !.phase = want, !.routeName = named]
      /\ pc' \in {"resolve", "idle"} /\ queued' \in BOOLEAN
  BY <1>0 DEF AfterStatus, ControlTypes
<1>m. my \in Model /\ want \in Phases /\ named \in BOOLEAN
  BY <1>0 DEF ModelTypes, ControlTypes
<1>1. my' \in Model /\ my'.spec = my.spec /\ my'.served = my.served
  BY <1>a, <1>m DEF Model
<1>2. /\ model' \in Model \cup {None} /\ mCur' \in BOOLEAN
      /\ model # None => model' # None /\ model'.spec = model.spec /\ model'.served = model.served
      /\ mCur' => mCur /\ model' = model
  <2>1. CASE UNCHANGED <<model, mCur>>
    BY <2>1 DEF ModelTypes
  <2>2. CASE myCur /\ model' = [model EXCEPT !.phase = want, !.routeName = named]
             /\ mCur' = (mCur /\ model' = model)
    <3>1. model \in Model
      BY <2>2, <1>0 DEF Copies, ModelTypes
    <3>2. model' \in Model /\ model'.spec = model.spec /\ model'.served = model.served
      BY <2>2, <3>1, <1>m DEF Model
    <3> QED
      BY <2>2, <3>1, <3>2, NoneAssumption DEF ModelTypes
  <2> QED
    BY <1>0, <2>1, <2>2
<1>3. ModelTypes' /\ EnvTypes'
  BY <1>0, <1>a, <1>1, <1>2, EnvType DEF ModelTypes
<1>4. ProviderTypes' /\ RouteTypes' /\ RuleTypes'
  BY <1>a DEF ProviderTypes, RouteTypes, RuleTypes, provVars, routeVars, gotVars
<1>5. ControlTypes'
  BY <1>a, <1>1, NoneAssumption DEF ControlTypes, statusVars
<1>6. Copies'
  BY <1>0, <1>a, <1>1, <1>2 DEF Copies
<1>7. Decided'
  <2>1. AGC(my)' = AGC(my)
    BY <1>1 DEF AGC
  <2> QED
    BY <1>0, <1>a, <2>1 DEF Decided
<1> QED
  BY <1>3, <1>4, <1>5, <1>6, <1>7

-----------------------------------------------------------------------------
(* Every step keeps the invariant.                                         *)
LEMMA RouteNext == RouteInv /\ [Next]_vars => RouteInv'
<1> SUFFICES ASSUME RouteInv, [Next]_vars PROVE RouteInv'
  OBVIOUS
<1>1. CASE UNCHANGED vars
  <2> USE DEF RouteInv, TypeInv
  <2>0. UNCHANGED <<modelVars, queued, provVars, routeVars, pc, my, myCur, i, resolved, gotVars, statusVars, env>>
    BY <1>1 DEF vars
  <2>1. ModelTypes' /\ ProviderTypes' /\ RouteTypes' /\ RuleTypes' /\ EnvTypes'
    BY <2>0 DEF ModelTypes, ProviderTypes, RouteTypes, RuleTypes, EnvTypes, modelVars, provVars, routeVars, gotVars
  <2>2. ControlTypes' /\ Copies' /\ Decided'
    BY <2>0 DEF ControlTypes, Copies, Decided, modelVars, statusVars
  <2> QED
    BY <2>1, <2>2
<1> QED
  BY <1>1, EnvironmentNext, InformersNext, GetModelNext, ResolveNext, ApplyNext, WithdrawNext, StatusNext
     DEF Next, Reconcile

(* The invariant holds for a model that was just created.                  *)
LEMMA RouteInit == Init => RouteInv
<1> SUFFICES ASSUME Init PROVE RouteInv
  OBVIOUS
<1>1. model \in Model
  BY SpecsAssumption DEF Init, Model, Phases
<1>2. ModelTypes
  BY <1>1 DEF Init, ModelTypes
<1>3. ProviderTypes
  BY SpecsAssumption DEF Init, ProviderTypes
<1>4. RouteTypes
  BY DEF Init, RouteTypes
<1>5. RuleTypes
  <2>1. i = 1 /\ resolved = << >>
    BY DEF Init
  <2>2. << >> \in Seq(Rule)
    OBVIOUS
  <2> QED
    BY <2>1, <2>2 DEF RuleTypes
<1>6. ControlTypes
  BY DEF Init, ControlTypes, Phases
<1>7. EnvTypes
  <2>1. env = MaxEnv
    BY DEF Init
  <2> QED
    BY <2>1, MaxEnvAssumption DEF EnvTypes
<1>8. Copies /\ Decided
  BY DEF Init, Copies, Decided
<1> QED
  BY <1>2, <1>3, <1>4, <1>5, <1>6, <1>7, <1>8 DEF RouteInv, TypeInv

(* The invariant holds always.                                             *)
LEMMA RouteAlways == Spec => []RouteInv
  BY RouteInit, RouteNext, PTL DEF Spec

(* The state of the ExternalModel controller is always well typed.         *)
THEOREM RouteTyped == Spec => []TypeOK
<1>1. RouteInv => TypeOK
  BY DEF RouteInv, TypeInv, ModelTypes, ProviderTypes, RouteTypes, RuleTypes, ControlTypes, EnvTypes, TypeOK
<1> QED
  BY RouteAlways, <1>1, PTL

(* IPP never writes the status of a model AGC serves (reconciler.go:       *)
(* 101-114, setStatus).                                                    *)
THEOREM ServedStatusKept == Spec => NoStatusWhenServed
<1>1. RouteInv /\ [Next]_vars => [WriteStatus => ~AGC(model)]_vars
  <2> SUFFICES ASSUME RouteInv, WriteStatus PROVE ~AGC(model)
    OBVIOUS
  <2>1. pc = "status" /\ myCur
    BY DEF WriteStatus
  <2>2. ~AGC(my) /\ model.spec = my.spec /\ model.served = my.served
    BY <2>1 DEF RouteInv, Copies, Decided
  <2> QED
    BY <2>2 DEF AGC
<1> QED
  BY RouteAlways, <1>1, PTL DEF Spec, NoStatusWhenServed

(* A route is withdrawn only from a model AGC serves or without local      *)
(* references, never because providers fail (reconciler.go:183-206).       *)
THEOREM RouteKept == Spec => LastGoodRouteKept
<1>1. RouteInv /\ [Next]_vars => [DeleteRoute => AGC(my) \/ ForeignOnly(my.spec)]_vars
  <2> SUFFICES ASSUME RouteInv, DeleteRoute PROVE AGC(my) \/ ForeignOnly(my.spec)
    OBVIOUS
  <2>1. pc = "delete"
    BY DEF DeleteRoute
  <2> QED
    BY <2>1 DEF RouteInv, Decided
<1> QED
  BY RouteAlways, <1>1, PTL DEF Spec, LastGoodRouteKept

-----------------------------------------------------------------------------
(* Destination and credential (Gateway).                                   *)

(* The providers of the references before the last-th that resolve.        *)
GoodNames(spec, last, seen) ==
    {spec.refs[k].name : k \in {j \in DOMAIN spec.refs :
        j < last /\ Resolves(spec.refs[j], seen[spec.refs[j].name])}}
NamesIn(rules) == {rules[n].provider : n \in DOMAIN rules}
Concerned == mseen # None /\ ~mseen.deleting /\ ~AGC(mseen) /\ ~ForeignOnly(mseen.spec)

(* Unless the model is queued again: a reconcile works on what the         *)
(* informer has (WorksOnSeen), has collected the names that resolve        *)
(* (Collected), has read the route that exists if its copy is current      *)
(* (RouteRead), and once it ends without having been misled by another     *)
(* copy, the route names exactly the providers that resolve (Applied).     *)
WorksOnSeen == pc # "idle" /\ ~queued => mseen # None /\ my.spec = mseen.spec /\ my.served = mseen.served
Collected ==
    /\ (pc \in {"resolve", "find", "write"} \/ (pc = "status" /\ then = "resolve")) /\ ~queued /\ ~AGC(my) =>
          NamesIn(resolved) = GoodNames(my.spec, i, pseen)
    /\ pc \in {"find", "write"} /\ ~AGC(my) => i > Len(my.spec.refs)
    /\ pc = "write" => resolved # << >>
RouteRead ==
    /\ rCur => rseen = route
    /\ pc = "write" /\ gotCur => got = route
Applied ==
    ~queued /\ (pc = "idle" \/ (pc = "status" /\ then = "idle")) /\ Concerned /\ ~misled =>
       /\ route # None /\ NamesIn(route.rules) # {}
       /\ NamesIn(route.rules) = GoodNames(mseen.spec, Len(mseen.spec.refs) + 1, pseen)
SettledInv == RouteInv /\ WorksOnSeen /\ Collected /\ RouteRead /\ Applied

(* A rule more is a name more.                                             *)
LEMMA AppendedNames ==
  ASSUME NEW rules \in Seq(Rule), NEW r \in Rule
  PROVE  NamesIn(Append(rules, r)) = NamesIn(rules) \cup {r.provider}
<1>1. /\ DOMAIN Append(rules, r) = 1..(Len(rules) + 1) /\ DOMAIN rules = 1..Len(rules) /\ Len(rules) \in Nat
      /\ \A n \in 1..Len(rules) : Append(rules, r)[n] = rules[n]
      /\ Append(rules, r)[Len(rules) + 1] = r
  BY AppendProperties
<1>2. \A n \in 1..(Len(rules) + 1) : n \in 1..Len(rules) \/ n = Len(rules) + 1
  BY <1>1
<1>3. 1..Len(rules) \subseteq 1..(Len(rules) + 1) /\ Len(rules) + 1 \in 1..(Len(rules) + 1)
  BY <1>1
<1> HIDE DEF Rule
<1> QED
  BY <1>1, <1>2, <1>3 DEF NamesIn

(* One turn of the loop.                                                   *)
LEMMA NextGoodNames ==
  ASSUME NEW spec \in ModelSpec, NEW k \in DOMAIN spec.refs, NEW seen
  PROVE  GoodNames(spec, k + 1, seen) = GoodNames(spec, k, seen) \cup
            (IF Resolves(spec.refs[k], seen[spec.refs[k].name]) THEN {spec.refs[k].name} ELSE {})
<1>1. spec.refs \in Seq(Ref)
  BY DEF ModelSpec
<1>2. k \in Nat /\ \A j \in DOMAIN spec.refs : j \in Nat
  BY <1>1
<1>3. \A j \in DOMAIN spec.refs : j < k + 1 <=> j < k \/ j = k
  BY <1>2
<1> QED
  BY <1>3 DEF GoodNames

(* The end of the loop.                                                    *)
LEMMA AllGoodNames ==
  ASSUME NEW spec \in ModelSpec, NEW k \in Nat, k > Len(spec.refs), NEW seen
  PROVE  GoodNames(spec, k, seen) = GoodNames(spec, Len(spec.refs) + 1, seen)
<1>1. spec.refs \in Seq(Ref)
  BY DEF ModelSpec
<1>2. \A j \in DOMAIN spec.refs : j < k /\ j < Len(spec.refs) + 1
  BY <1>1
<1> QED
  BY <1>2 DEF GoodNames

LEMMA SettledInit == Init => SettledInv
<1> SUFFICES ASSUME Init PROVE SettledInv
  OBVIOUS
<1>1. WorksOnSeen /\ Collected /\ RouteRead /\ Applied
  BY DEF Init, WorksOnSeen, Collected, RouteRead, Applied
<1> QED
  BY <1>1, RouteInit DEF SettledInv

(* Steps of users, AGC, other controllers and two of the informers.        *)
LEMMA SettledEnvironment ==
  ASSUME SettledInv, Environment \/ SyncModel \/ SyncRoute
  PROVE  WorksOnSeen' /\ Collected' /\ RouteRead' /\ Applied'
<1> USE DEF provVars, routeVars, gotVars, statusVars, modelVars, SettledInv
<1>1. /\ UNCHANGED <<pseen, pc, my, i, resolved, got, then, misled>>
      /\ queued' \/ (queued' = queued /\ mseen' = mseen)
  BY DEF Environment, EditModel, DeleteModel, AGCServe, AGCStatus, ChangeModel, ChangeProvider, RelabelRoute,
     SyncModel, SyncRoute
<1>2. \/ UNCHANGED <<route, rseen, rCur, gotCur>>
      \/ route' = [route EXCEPT !.label = "other"] /\ route # None /\ ~rCur' /\ ~gotCur'
      \/ route' = route /\ rseen' = route /\ gotCur' = gotCur
  BY DEF Environment, EditModel, DeleteModel, AGCServe, AGCStatus, ChangeModel, ChangeProvider, RelabelRoute,
     SyncModel, SyncRoute
<1>3. route # None => route' # None /\ route'.rules = route.rules
  <2>1. route # None => route \in Route
    BY DEF RouteInv, TypeInv, RouteTypes
  <2>2. ASSUME route # None PROVE [route EXCEPT !.label = "other"] \in Route
    BY <2>1, <2>2 DEF Route
  <2> QED
    BY <1>2, <2>1, <2>2, NoneAssumption DEF Route
<1>4. WorksOnSeen' /\ Collected'
  BY <1>1 DEF WorksOnSeen, Collected, AGC
<1>5. RouteRead'
  BY <1>1, <1>2, <1>3 DEF RouteRead
<1>6. Applied'
  BY <1>1, <1>3 DEF Applied, Concerned, AGC, ForeignOnly
<1> QED
  BY <1>4, <1>5, <1>6

(* A provider that no reference names changes nothing.                     *)
LEMMA SettledProvider ==
  ASSUME SettledInv, NEW p \in Providers, SyncProvider(p)
  PROVE  WorksOnSeen' /\ Collected' /\ RouteRead' /\ Applied'
<1> USE DEF provVars, routeVars, gotVars, statusVars, modelVars, SettledInv
<1>1. /\ UNCHANGED <<mseen, route, rseen, rCur, pc, my, i, resolved, got, gotCur, misled, then>>
      /\ queued' = (queued \/ References(p)) /\ pseen' = [pseen EXCEPT ![p] = prov[p]]
  BY DEF SyncProvider
<1>2. WorksOnSeen' /\ RouteRead'
  BY <1>1 DEF WorksOnSeen, RouteRead
<1>3. CASE queued'
  BY <1>1, <1>2, <1>3 DEF Collected, Applied, AGC
<1>4. CASE ~queued'
  <2>1. ~queued /\ ~References(p)
    BY <1>1, <1>4
  <2>2. \A q \in Providers : q # p => pseen'[q] = pseen[q]
    BY <1>1 DEF RouteInv, TypeInv, ProviderTypes
  <2>3. ASSUME mseen # None, NEW k
        PROVE  GoodNames(mseen.spec, k, pseen') = GoodNames(mseen.spec, k, pseen)
    <3>1. mseen \in Model
      BY <2>3 DEF RouteInv, TypeInv, ModelTypes
    <3>2. mseen.spec \in ModelSpec /\ mseen.spec.refs \in Seq(Ref)
      BY <3>1, ModelParts
    <3>3. \A j \in DOMAIN mseen.spec.refs : mseen.spec.refs[j].name # p
      BY <2>1, <2>3, <3>2 DEF References
    <3>4. ASSUME NEW j \in DOMAIN mseen.spec.refs
          PROVE  pseen'[mseen.spec.refs[j].name] = pseen[mseen.spec.refs[j].name]
      <4>1. mseen.spec.refs[j] \in Ref
        BY <3>2
      <4>2. mseen.spec.refs[j].name \in Providers
        BY <4>1 DEF Ref
      <4> QED
        BY <2>2, <3>3, <4>2
    <3> QED
      BY <3>4 DEF GoodNames
  <2>4. pc # "idle" => mseen # None /\ my.spec = mseen.spec
    BY <2>1 DEF WorksOnSeen
  <2>5. Collected'
    <3>1. pc # "idle" => GoodNames(my.spec, i, pseen') = GoodNames(my.spec, i, pseen)
      BY <2>3, <2>4
    <3> QED
      BY <1>1, <2>1, <3>1 DEF Collected, AGC
  <2>6. Applied'
    <3>1. AGC(mseen)' = AGC(mseen) /\ ForeignOnly(mseen.spec)' = ForeignOnly(mseen.spec)
      BY <1>1 DEF AGC, ForeignOnly
    <3> QED
      BY <1>1, <2>1, <2>3, <3>1 DEF Applied, Concerned
  <2> QED
    BY <1>2, <2>5, <2>6
<1> QED
  BY <1>3, <1>4

(* A reconcile begins.                                                     *)
LEMMA SettledGetModel ==
  ASSUME SettledInv, GetModel
  PROVE  WorksOnSeen' /\ Collected' /\ RouteRead' /\ Applied'
<1> USE DEF provVars, routeVars, gotVars, statusVars, modelVars, SettledInv
<1>1. /\ UNCHANGED <<mseen, pseen, route, rseen, rCur, got, gotCur, misled>>
      /\ my' = mseen /\ i' = 1 /\ resolved' = << >>
      /\ \/ pc' = "idle" /\ (mseen = None \/ mseen.deleting)
         \/ pc' = "find" /\ AGC(mseen) /\ mseen # None
         \/ pc' = "resolve" /\ mseen # None
         \/ pc' = "status" /\ then' = "resolve" /\ mseen # None
  BY DEF GetModel
<1>2. WorksOnSeen' /\ RouteRead' /\ Applied'
  BY <1>1 DEF WorksOnSeen, RouteRead, Applied, Concerned
<1>3. Collected'
  <2>1. AGC(my)' = AGC(mseen)
    BY <1>1 DEF AGC
  <2>2. NamesIn(<< >>) = {}
    BY DEF NamesIn
  <2>3. mseen # None => GoodNames(mseen.spec, 1, pseen) = {}
    <3> SUFFICES ASSUME mseen # None PROVE GoodNames(mseen.spec, 1, pseen) = {}
      OBVIOUS
    <3>1. mseen \in Model
      BY DEF RouteInv, TypeInv, ModelTypes
    <3>2. mseen.spec.refs \in Seq(Ref)
      BY <3>1, ModelParts
    <3>3. \A j \in DOMAIN mseen.spec.refs : ~(j < 1)
      BY <3>2
    <3> QED
      BY <3>3 DEF GoodNames
  <2> QED
    BY <1>1, <2>1, <2>2, <2>3 DEF Collected
<1> QED
  BY <1>2, <1>3

(* It collects rules.                                                      *)
LEMMA SettledResolve ==
  ASSUME SettledInv, ResolveNextRef \/ ResolveFails \/ Conclude
  PROVE  WorksOnSeen' /\ Collected' /\ RouteRead' /\ Applied'
<1> USE DEF provVars, routeVars, gotVars, statusVars, modelVars, SettledInv
<1>1. /\ UNCHANGED <<mseen, pseen, route, rseen, rCur, got, gotCur, misled, my, queued>> /\ pc = "resolve"
      /\ \/ pc' = "status" /\ then' = "retry"
         \/ /\ pc' = "find" /\ UNCHANGED <<i, resolved>> /\ i > Len(Refs)
         \/ ResolveNextRef /\ pc' = pc
  BY DEF ResolveNextRef, ResolveFails, Conclude, SetStatus
<1>2. WorksOnSeen' /\ RouteRead' /\ Applied'
  BY <1>1 DEF WorksOnSeen, RouteRead, Applied, Concerned
<1>3. AGC(my)' = AGC(my)
  BY <1>1 DEF AGC
<1>4. CASE pc' = "status" /\ then' = "retry"
  BY <1>2, <1>4 DEF Collected
<1>5. CASE pc' = "find" /\ UNCHANGED <<i, resolved>> /\ i > Len(Refs)
  BY <1>1, <1>2, <1>3, <1>5 DEF Collected, Refs
<1>6. CASE ResolveNextRef
  <2>1. my \in Model /\ my.spec \in ModelSpec /\ my.spec.refs \in Seq(Ref) /\ i \in Nat \ {0} /\ resolved \in Seq(Rule)
    BY <1>1, ModelParts DEF RouteInv, TypeInv, ModelTypes, ControlTypes, RuleTypes
  <2>2. i \in DOMAIN my.spec.refs
    BY <1>6, <2>1 DEF ResolveNextRef, Refs
  <2> DEFINE ref == my.spec.refs[i]
             p == pseen[ref.name]
  <2>3. /\ i' = i + 1 /\ pc' = "resolve"
        /\ resolved' = IF Resolves(ref, p) THEN Append(resolved, RuleOf(ref, p)) ELSE resolved
    BY <1>1, <1>6 DEF ResolveNextRef, Refs
  <2>4. ref \in Ref
    BY <2>1, <2>2
  <2>5. p \in Provider \cup {None}
    <3>1. ref.name \in Providers
      BY <2>4 DEF Ref
    <3> QED
      BY <3>1 DEF RouteInv, TypeInv, ProviderTypes
  <2>6. Resolves(ref, p) => RuleOf(ref, p) \in Rule /\ RuleOf(ref, p).provider = ref.name
    BY <2>4, <2>5, RuleType DEF RuleOf
  <2>7. NamesIn(resolved') = NamesIn(resolved) \cup (IF Resolves(ref, p) THEN {ref.name} ELSE {})
    <3> HIDE DEF ref, p
    <3> QED
      BY <2>1, <2>3, <2>6, AppendedNames
  <2>8. GoodNames(my.spec, i + 1, pseen) = GoodNames(my.spec, i, pseen) \cup
           (IF Resolves(ref, p) THEN {ref.name} ELSE {})
    BY <2>1, <2>2, NextGoodNames
  <2>9. Collected'
    <3> HIDE DEF ref, p
    <3> QED
      BY <1>1, <1>3, <2>3, <2>7, <2>8 DEF Collected
  <2> QED
    BY <1>2, <2>9
<1> QED
  BY <1>1, <1>2, <1>4, <1>5, <1>6

(* It reads and writes the route.                                          *)
LEMMA SettledApply ==
  ASSUME SettledInv, GetRoute \/ WriteRoute \/ WriteRouteFails
  PROVE  WorksOnSeen' /\ Collected' /\ RouteRead' /\ Applied'
<1> USE DEF provVars, routeVars, gotVars, statusVars, modelVars, SettledInv
<1>1. UNCHANGED <<mseen, pseen, rseen, my, queued, i, resolved>>
  BY DEF GetRoute, WriteRoute, WriteRouteFails, SetStatus
<1>2. AGC(my)' = AGC(my)
  BY <1>1 DEF AGC
<1>3. CASE GetRoute
  <2>1. /\ pc = "find" /\ UNCHANGED <<route, rCur>> /\ got' = rseen /\ gotCur' = rCur
        /\ pc' = IF resolved = << >> THEN "delete" ELSE "write"
    BY <1>3 DEF GetRoute
  <2>2. WorksOnSeen' /\ Collected'
    BY <1>1, <1>2, <2>1 DEF WorksOnSeen, Collected
  <2>3. RouteRead' /\ Applied'
    BY <1>1, <2>1 DEF RouteRead, Applied
  <2> QED
    BY <2>2, <2>3
<1>4. CASE WriteRouteFails
  <2>1. pc = "write" /\ pc' = "status" /\ then' = "retry" /\ UNCHANGED <<route, rCur, got, gotCur>>
    BY <1>4 DEF WriteRouteFails, SetStatus
  <2> QED
    BY <1>1, <2>1 DEF WorksOnSeen, Collected, RouteRead, Applied
<1>5. CASE WriteRoute
  <2>1. /\ pc = "write" /\ pc' = "status" /\ then' = "idle" /\ got' = got
        /\ \/ UNCHANGED <<route, rCur>> /\ got # None /\ got = Wanted /\ misled' = ~gotCur
           \/ route' = Wanted /\ ~rCur'
    BY <1>5 DEF WriteRoute, SetStatus, Unchanged
  <2>2. my.spec \in ModelSpec /\ resolved \in Seq(Rule) /\ i \in Nat /\ resolved # << >> /\ ~AGC(my)
    BY <2>1, ModelParts DEF RouteInv, TypeInv, ModelTypes, ControlTypes, RuleTypes, Collected, Decided
  <2>3. Wanted \in Route /\ Wanted.rules = resolved
    BY <2>2, BuiltType DEF Wanted, BuildHTTPRoute
  <2>4. ~misled' => route' # None /\ route'.rules = resolved
    BY <2>1, <2>3, NoneAssumption DEF RouteRead
  <2>5. WorksOnSeen' /\ Collected' /\ RouteRead'
    BY <1>1, <2>1 DEF WorksOnSeen, Collected, RouteRead
  <2>6. Applied'
    <3>1. NamesIn(resolved) # {}
      <4>1. 1 \in DOMAIN resolved
        BY <2>2
      <4> QED
        BY <4>1 DEF NamesIn
    <3>2. ASSUME ~queued PROVE NamesIn(resolved) = GoodNames(mseen.spec, Len(mseen.spec.refs) + 1, pseen)
      <4>1. NamesIn(resolved) = GoodNames(my.spec, i, pseen) /\ i > Len(my.spec.refs) /\ my.spec = mseen.spec
        BY <2>1, <2>2, <3>2 DEF Collected, WorksOnSeen
      <4> QED
        BY <2>2, <4>1, AllGoodNames
    <3> QED
      BY <1>1, <2>4, <3>1, <3>2 DEF Applied
  <2> QED
    BY <2>5, <2>6
<1> QED
  BY <1>3, <1>4, <1>5

(* It withdraws the route and ends only for a model AGC serves.            *)
LEMMA SettledWithdraw ==
  ASSUME SettledInv, DeleteRoute \/ LeaveRoute \/ DeleteRouteFails
  PROVE  WorksOnSeen' /\ Collected' /\ RouteRead' /\ Applied'
<1> USE DEF provVars, routeVars, gotVars, statusVars, modelVars, SettledInv
<1>1. /\ UNCHANGED <<mseen, pseen, rseen, my, i, resolved, got>> /\ pc = "delete"
      /\ \/ AGC(my) /\ pc' = "idle" /\ (queued => queued')
         \/ pc' = "status" /\ then' = "retry" /\ queued' = queued
      /\ \/ UNCHANGED <<route, rCur>>
         \/ route' = None /\ (rCur' => rCur /\ route = None)
  BY DEF DeleteRoute, LeaveRoute, DeleteRouteFails, Withdrawn, Done, SetStatus
<1>2. WorksOnSeen' /\ Collected' /\ RouteRead'
  BY <1>1 DEF WorksOnSeen, Collected, RouteRead
<1>3. Applied'
  <2>1. ASSUME ~queued, AGC(my) PROVE AGC(mseen)
    BY <1>1, <2>1 DEF WorksOnSeen, AGC
  <2>2. AGC(mseen)' = AGC(mseen)
    BY <1>1 DEF AGC
  <2>3. ~queued' => ~queued
    BY <1>1 DEF RouteInv, TypeInv, ControlTypes
  <2> QED
    BY <1>1, <2>1, <2>2, <2>3 DEF Applied, Concerned
<1> QED
  BY <1>2, <1>3

(* It writes the status, and ends, begins again or goes on.                *)
LEMMA SettledStatus ==
  ASSUME SettledInv, WriteStatus \/ WriteStatusFails
  PROVE  WorksOnSeen' /\ Collected' /\ RouteRead' /\ Applied'
<1> USE DEF provVars, routeVars, gotVars, statusVars, modelVars, SettledInv
<1>1. /\ UNCHANGED <<mseen, pseen, route, rseen, rCur, got, gotCur, misled, i, resolved, then>> /\ pc = "status"
      /\ pc' = (IF then = "resolve" THEN "resolve" ELSE "idle")
      /\ queued' = (queued \/ then = "retry")
      /\ my' = [my EXCEPT !.phase = want, !.routeName = named]
  BY DEF WriteStatus, WriteStatusFails, AfterStatus
<1>2. my \in Model
  BY <1>1 DEF RouteInv, TypeInv, ModelTypes, ControlTypes
<1>3. my'.spec = my.spec /\ my'.served = my.served
  BY <1>1, <1>2 DEF Model
<1>4. AGC(my)' = AGC(my) /\ AGC(mseen)' = AGC(mseen) /\ ForeignOnly(mseen.spec)' = ForeignOnly(mseen.spec)
  BY <1>1, <1>3 DEF AGC, ForeignOnly
<1>5. WorksOnSeen' /\ Collected' /\ RouteRead'
  BY <1>1, <1>3, <1>4 DEF WorksOnSeen, Collected, RouteRead
<1>6. Applied'
  <2>1. then \in {"idle", "retry", "resolve"}
    BY DEF RouteInv, TypeInv, ControlTypes
  <2> QED
    BY <1>1, <1>4, <2>1 DEF Applied, Concerned
<1> QED
  BY <1>5, <1>6

(* Every step keeps the invariant.                                         *)
LEMMA SettledNext ==
  ASSUME SettledInv, [Next]_vars
  PROVE  SettledInv'
<1>1. RouteInv'
  BY RouteNext DEF SettledInv
<1>2. CASE Next
  BY <1>1, <1>2, SettledEnvironment, SettledProvider, SettledGetModel, SettledResolve, SettledApply,
     SettledWithdraw, SettledStatus DEF Next, Informers, Reconcile, SettledInv
<1>3. CASE UNCHANGED vars
  <2>1. UNCHANGED <<mseen, pseen, route, rseen, rCur, pc, my, queued, got, gotCur, misled, i, resolved, then>>
    BY <1>3 DEF vars, modelVars, provVars, routeVars, gotVars, statusVars
  <2>2. WorksOnSeen' /\ Collected' /\ RouteRead'
    BY <2>1 DEF SettledInv, WorksOnSeen, Collected, RouteRead, AGC
  <2>3. Applied'
    BY <2>1 DEF SettledInv, Applied, Concerned, AGC, ForeignOnly
  <2> QED
    BY <1>1, <2>2, <2>3 DEF SettledInv
<1> QED
  BY <1>2, <1>3

(* The invariant is about the route, the property about the mapping too.   *)
LEMMA SettledFollows == SettledInv => SettledConsistent
<1> SUFFICES ASSUME SettledInv, Settled, ~misled, NEW p \in mapping, prov[p].phase = "Ready", prov[p].port # "junk"
             PROVE  route # None /\ Destination(p) = p
  BY DEF SettledConsistent
<1>1. pc = "idle" /\ ~queued /\ pseen = prov /\ mapping = MappingNow
  BY DEF Settled
<1>2. mseen # None /\ ~mseen.deleting /\ ~Excluded(mseen)
  BY <1>1 DEF MappingNow
<1>3. Concerned
  BY <1>2 DEF Concerned, Excluded
<1>4. /\ route # None /\ NamesIn(route.rules) # {}
      /\ NamesIn(route.rules) = GoodNames(mseen.spec, Len(mseen.spec.refs) + 1, pseen)
  BY <1>1, <1>3 DEF SettledInv, Applied
<1>5. mseen.spec.refs \in Seq(Ref) /\ route.rules \in Seq(Rule)
  <2>1. mseen \in Model /\ route \in Route
    BY <1>2, <1>4 DEF SettledInv, RouteInv, TypeInv, ModelTypes, RouteTypes
  <2> QED
    BY <2>1, ModelParts DEF Route
<1>6. \A q \in NamesIn(route.rules) : q \in ProvidersOf(mseen)
  BY <1>4 DEF GoodNames, ProvidersOf, InStore, Resolves
<1>7. p \in ProvidersOf(mseen)
  BY <1>1, <1>2, <1>4, <1>6 DEF MappingNow
<1>8. PICK k \in DOMAIN mseen.spec.refs : mseen.spec.refs[k].name = p /\ InStore(mseen.spec.refs[k])
  BY <1>7 DEF ProvidersOf
<1>9. Resolves(mseen.spec.refs[k], pseen[p])
  BY <1>1, <1>8 DEF InStore, Resolves
<1>10. k < Len(mseen.spec.refs) + 1
  BY <1>5
<1>11. p \in NamesIn(route.rules)
  BY <1>4, <1>8, <1>9, <1>10 DEF GoodNames
<1>12. DOMAIN route.rules = 1..Len(route.rules)
  BY <1>5
<1> QED
  BY <1>4, <1>11, <1>12 DEF Destination, NamesIn

(* Once both reconcilers have handled every change, each Ready and well    *)
(* annotated provider the store maps receives the requests with its        *)
(* credential (plugin.go:50-53), whatever calls fail and whoever relabels  *)
(* the route and however late the route informer is - unless its copy was  *)
(* late and looked right, so that the last reconcile left the route alone. *)
THEOREM SettledHolds == GatewaySpec => []SettledConsistent
<1>1. GatewayInit => SettledInv
  BY SettledInit DEF GatewayInit
<1>2. SettledInv /\ [GatewayNext]_gatewayVars => SettledInv'
  BY SettledNext DEF GatewayNext, StoreModel, gatewayVars
<1> QED
  BY <1>1, <1>2, SettledFollows, PTL DEF GatewaySpec
==============================================================================
