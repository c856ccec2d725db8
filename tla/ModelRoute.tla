----------------------------- MODULE ModelRoute -----------------------------
(***************************************************************************)
(* The ExternalModel controller (pkg/controller/externalmodel): for one    *)
(* ExternalModel it resolves the referenced ExternalProviders of the       *)
(* model's namespace one after the other, applies an HTTPRoute with rules  *)
(* for those that resolve, and writes the model's status.  It withdraws    *)
(* the route when the AI Gateway Controller (AGC) serves the model or when *)
(* every reference is to another namespace.                                *)
(*                                                                         *)
(* Models, providers and routes are read from informer caches; a write     *)
(* carries the resourceVersion of the copy read, the delete of a route     *)
(* only its UID.  The `Cur' flags say that a copy is the last version, the *)
(* `Same' flags that the object of that UID still exists.  The controller, *)
(* as cmd/controllers.go registers it, watches models and providers, not   *)
(* routes.                                                                 *)
(***************************************************************************)
EXTENDS Naturals, Sequences

CONSTANTS
    Providers,      \* names of ExternalProviders in the model's namespace
    ProviderStates, \* what users and the provider controller make of them
    ModelSpecs,     \* specs users write
    Faults,         \* "get", "route", "status": calls that may fail;
                    \* "relabel": another controller takes the route over
    MaxEnv,         \* bound on the steps of users, AGC and faults
    None            \* no object

Phases == {"", "Pending", "Ready", "Failed"}
Ports == {"", "8080", "junk"}       \* the port annotation, "" when absent
Keys == {"project"}                 \* config keys

Provider == [endpoint : {"e1", "e2"}, port : Ports, keys : SUBSET Keys, phase : Phases]

(* A reference: to this namespace or another, with the keys its path needs *)
(* and the keys it sets.                                                   *)
Ref == [name : Providers, foreign : BOOLEAN, needs : SUBSET Keys, keys : SUBSET Keys]

ModelSpec == [refs : Seq(Ref) \ {<< >>}, attached : BOOLEAN, name : {"", "gpt"}]
Model == [spec : ModelSpec, served : BOOLEAN, deleting : BOOLEAN, phase : Phases, routeName : BOOLEAN]

Rule == [provider : Providers, endpoint : {"e1", "e2"}, port : {"443", "8080"}]
Route == [rules : Seq(Rule), name : {"", "gpt"}, label : {"ipp", "other"}, owner : {"model", "other"}]

ASSUME SpecsAssumption == ModelSpecs \subseteq ModelSpec /\ ProviderStates \subseteq Provider
ASSUME MaxEnvAssumption == MaxEnv \in Nat
ASSUME FaultsAssumption == Faults \subseteq {"get", "route", "status", "relabel"}
ASSUME NoneAssumption == None \notin Provider \cup Model \cup Route

VARIABLES
    model,          \* the ExternalModel on the API server
    mseen, mCur,    \* the informer's copy, and whether it is the last version
    queued,         \* the model is on the work queue
    prov, pseen,    \* the providers on the API server and in the informer
    route,          \* the HTTPRoute of the model's name
    rseen, rCur, rSame, \* the informer's copy of it
    pc,             \* where Reconcile is
    my, myCur,      \* the copy of the model it works on
    i, resolved,    \* next reference to resolve, and the rules so far
    got, gotCur, gotSame, \* the route it read
    misled,         \* ghost: it last left a route alone because of a copy that was not the last version
    want, named, then,    \* the status to write, and where to go on
    env             \* steps left to users, AGC and faults

modelVars == <<model, mseen, mCur>>
provVars == <<prov, pseen>>
routeVars == <<route, rseen, rCur, rSame>>
gotVars == <<got, gotCur, gotSame, misled>>
statusVars == <<want, named, then>>
vars == <<modelVars, queued, provVars, routeVars, pc, my, myCur, i, resolved, gotVars, statusVars, env>>

-----------------------------------------------------------------------------
(* IsAGCAttached or IsAGCServed                                            *)
AGC(m) == m.spec.attached \/ m.served

Resolves(ref, p) ==
    /\ ~ref.foreign
    /\ p # None
    /\ p.phase = "Ready"
    /\ ref.needs \subseteq ref.keys \cup p.keys
    /\ p.port # "junk"

(* GetConnectionSettings: the default port.                                *)
PortOf(p) == IF p.port = "" THEN "443" ELSE p.port
RuleOf(ref, p) == [provider |-> ref.name, endpoint |-> p.endpoint, port |-> PortOf(p)]

ForeignOnly(spec) == \A k \in 1..Len(spec.refs) : spec.refs[k].foreign

(* buildHTTPRoute, commonLabels and the controller reference.              *)
BuildHTTPRoute(rules, spec) ==
    [rules |-> rules, name |-> spec.name, label |-> "ipp", owner |-> "model"]

-----------------------------------------------------------------------------
(* Users, the provider controller, AGC and the informers.                  *)

EnvStep == env > 0 /\ env' = env - 1

ChangeModel(m) ==
    /\ EnvStep
    /\ model # None
    /\ model' = m
    /\ mCur' = FALSE
    /\ myCur' = FALSE
    /\ UNCHANGED <<mseen, queued, provVars, routeVars, pc, my, i, resolved, gotVars, statusVars>>

EditModel == \E s \in ModelSpecs \ {model.spec} : ChangeModel([model EXCEPT !.spec = s])
DeleteModel == \/ ChangeModel(None)
               \/ ~model.deleting /\ ChangeModel([model EXCEPT !.deleting = TRUE])

(* AGC adds its finalizer, not to an object being deleted, or removes it.  *)
AGCServe == (model.deleting => model.served) /\ ChangeModel([model EXCEPT !.served = ~model.served])
AGCStatus == AGC(model) /\ \E p \in {"Ready", "Failed"} \ {model.phase} :
                              ChangeModel([model EXCEPT !.phase = p])

ChangeProvider(p) ==
    /\ EnvStep
    /\ \E s \in (ProviderStates \cup {None}) \ {prov[p]} : prov' = [prov EXCEPT ![p] = s]
    /\ UNCHANGED <<modelVars, queued, pseen, routeVars, pc, my, myCur, i, resolved, gotVars, statusVars>>

(* Another controller takes the route over: the same object with its label.*)
RelabelRoute ==
    /\ "relabel" \in Faults
    /\ EnvStep
    /\ route # None /\ route.label = "ipp"
    /\ route' = [route EXCEPT !.label = "other"]
    /\ rCur' = FALSE
    /\ gotCur' = FALSE
    /\ UNCHANGED <<modelVars, queued, provVars, rseen, rSame, pc, my, myCur, i, resolved, got, gotSame, misled, statusVars>>

SyncModel ==
    /\ ~mCur
    /\ mseen' = model
    /\ mCur' = TRUE
    /\ queued' = TRUE
    /\ UNCHANGED <<model, provVars, routeVars, pc, my, myCur, i, resolved, gotVars, statusVars, env>>

(* MapProviderToModels compares the names only.                            *)
References(p) == mseen # None /\ \E k \in 1..Len(mseen.spec.refs) : mseen.spec.refs[k].name = p

SyncProvider(p) ==
    /\ pseen[p] # prov[p]
    /\ pseen' = [pseen EXCEPT ![p] = prov[p]]
    /\ queued' = (queued \/ References(p))
    /\ UNCHANGED <<modelVars, prov, routeVars, pc, my, myCur, i, resolved, gotVars, statusVars, env>>

SyncRoute ==
    /\ ~rCur
    /\ rseen' = route
    /\ rCur' = TRUE
    /\ rSame' = TRUE
    /\ UNCHANGED <<modelVars, queued, provVars, route, pc, my, myCur, i, resolved, gotVars, statusVars, env>>

-----------------------------------------------------------------------------
(* Reconcile                                                               *)

Fails(call) == call \in Faults /\ EnvStep
Done(retry) == pc' = "idle" /\ queued' = (queued \/ retry) /\ UNCHANGED statusVars
SetStatus(phase, name, l) ==
    pc' = "status" /\ want' = phase /\ named' = name /\ then' = l /\ UNCHANGED queued

(* The copy of the model, the early returns, and a new model's status.     *)
GetModel ==
    /\ pc = "idle"
    /\ queued
    /\ queued' = FALSE
    /\ my' = mseen
    /\ myCur' = mCur
    /\ i' = 1
    /\ resolved' = << >>
    /\ CASE mseen = None -> pc' = "idle" /\ UNCHANGED statusVars
         [] mseen # None ->
            CASE mseen.deleting -> pc' = "idle" /\ UNCHANGED statusVars
              [] ~mseen.deleting /\ AGC(mseen) -> pc' = "find" /\ UNCHANGED statusVars
              [] OTHER -> IF mseen.phase = ""
                          THEN pc' = "status" /\ want' = "Pending" /\ then' = "resolve"
                               /\ named' = mseen.routeName
                          ELSE pc' = "resolve" /\ UNCHANGED statusVars
    /\ UNCHANGED <<modelVars, provVars, routeVars, gotVars, env>>

Refs == my.spec.refs

(* Mutant: the loop ends at the first reference that resolves.             *)
ResolveNextRefStops ==
    /\ pc = "resolve"
    /\ i <= Len(Refs)
    /\ IF Resolves(Refs[i], pseen[Refs[i].name])
       THEN resolved' = Append(resolved, RuleOf(Refs[i], pseen[Refs[i].name])) /\ i' = Len(Refs) + 1
       ELSE i' = i + 1 /\ UNCHANGED resolved
    /\ UNCHANGED <<modelVars, queued, provVars, routeVars, pc, my, myCur, gotVars, statusVars, env>>

(* One turn of reconcileHTTPRoute's loop.                                  *)
ResolveNextRef ==
    /\ pc = "resolve"
    /\ i <= Len(Refs)
    /\ i' = i + 1
    /\ resolved' = IF Resolves(Refs[i], pseen[Refs[i].name])
                   THEN Append(resolved, RuleOf(Refs[i], pseen[Refs[i].name]))
                   ELSE resolved
    /\ UNCHANGED <<modelVars, queued, provVars, routeVars, pc, my, myCur, gotVars, statusVars, env>>

(* The Get of a provider fails, and Reconcile returns the error.           *)
ResolveFails ==
    /\ pc = "resolve"
    /\ i <= Len(Refs)
    /\ ~Refs[i].foreign
    /\ Fails("get")
    /\ SetStatus("Failed", my.routeName, "retry")
    /\ UNCHANGED <<modelVars, provVars, routeVars, my, myCur, i, resolved, gotVars>>

(* Mutant: any reference to another namespace withdraws the route.         *)
ConcludeMixed ==
    /\ pc = "resolve"
    /\ i > Len(Refs)
    /\ IF resolved # << >> \/ \E k \in 1..Len(Refs) : Refs[k].foreign
       THEN pc' = "find" /\ UNCHANGED <<queued, statusVars>>
       ELSE SetStatus("Failed", my.routeName, "retry")
    /\ UNCHANGED <<modelVars, provVars, routeVars, my, myCur, i, resolved, gotVars, env>>

(* After the loop: apply the route, withdraw it, or keep the last good one.*)
Conclude ==
    /\ pc = "resolve"
    /\ i > Len(Refs)
    /\ IF resolved # << >> \/ ForeignOnly(my.spec)
       THEN pc' = "find" /\ UNCHANGED <<queued, statusVars>>
       ELSE SetStatus("Failed", my.routeName, "retry")
    /\ UNCHANGED <<modelVars, provVars, routeVars, my, myCur, i, resolved, gotVars, env>>

(* The Get of applyHTTPRoute and deleteOwnedHTTPRoute, from the cache,     *)
(* which may miss even the controller's own last write.                    *)
GetRoute ==
    /\ pc = "find"
    /\ got' = rseen
    /\ gotCur' = rCur
    /\ gotSame' = (rseen # None /\ rSame)
    /\ pc' = IF resolved = << >> THEN "delete" ELSE "write"
    /\ UNCHANGED <<modelVars, queued, provVars, routeVars, my, myCur, i, resolved, misled, statusVars, env>>

Wanted == BuildHTTPRoute(resolved, my.spec)
Unchanged == got # None /\ got = Wanted

(* Create, update or leave the route.  An update replaces labels and       *)
(* owners too.                                                             *)
WriteRoute ==
    /\ pc = "write"
    /\ IF Unchanged
       THEN UNCHANGED <<route, rCur, rSame>>
       ELSE /\ IF got = None THEN route = None ELSE gotCur
            /\ route' = Wanted
            /\ rCur' = FALSE
            /\ rSame' = (rSame /\ got # None)
    /\ misled' = (Unchanged /\ ~gotCur)
    /\ SetStatus("Ready", TRUE, "idle")
    /\ UNCHANGED <<modelVars, provVars, rseen, my, myCur, i, resolved, got, gotCur, gotSame, env>>

(* Mutant: a refused write is reported but not retried.                    *)
WriteRouteGivesUp ==
    /\ pc = "write"
    /\ ~Unchanged
    /\ \/ ~(IF got = None THEN route = None ELSE gotCur) /\ UNCHANGED env
       \/ Fails("route")
    /\ SetStatus("Failed", my.routeName, "idle")
    /\ UNCHANGED <<modelVars, provVars, routeVars, my, myCur, i, resolved, gotVars>>

(* AlreadyExists, a conflict or another error.                             *)
WriteRouteFails ==
    /\ pc = "write"
    /\ ~Unchanged
    /\ \/ ~(IF got = None THEN route = None ELSE gotCur) /\ UNCHANGED env
       \/ Fails("route")
    /\ SetStatus("Failed", my.routeName, "retry")
    /\ UNCHANGED <<modelVars, provVars, routeVars, my, myCur, i, resolved, gotVars>>

(* Back in Reconcile after deleteOwnedHTTPRoute: a model AGC serves is     *)
(* left alone, one without local references is reported.                   *)
Withdrawn(ok) ==
    IF AGC(my) THEN Done(~ok)
    ELSE SetStatus("Failed", my.routeName /\ ~ok, "retry")

Owned(r) == r # None /\ r.label = "ipp" /\ r.owner = "model"

DeleteRoute ==
    /\ pc = "delete"
    /\ Owned(got)
    /\ gotSame \/ route = None
    /\ route' = None
    /\ rCur' = (rCur /\ route = None)
    /\ rSame' = FALSE
    /\ gotSame' = FALSE
    /\ gotCur' = FALSE
    /\ misled' = FALSE
    /\ Withdrawn(TRUE)
    /\ UNCHANGED <<modelVars, provVars, rseen, my, myCur, i, resolved, got, env>>

LeaveRoute ==
    /\ pc = "delete"
    /\ ~Owned(got)
    /\ misled' = ~gotCur
    /\ Withdrawn(TRUE)
    /\ UNCHANGED <<modelVars, provVars, routeVars, my, myCur, i, resolved, got, gotCur, gotSame, env>>

DeleteRouteFails ==
    /\ pc = "delete"
    /\ Owned(got)
    /\ \/ route # None /\ ~gotSame /\ UNCHANGED env
       \/ Fails("route")
    /\ Withdrawn(FALSE)
    /\ UNCHANGED <<modelVars, provVars, routeVars, my, myCur, i, resolved, gotVars>>

(* setStatus: an update of the version read, its error logged only.        *)
AfterStatus ==
    /\ pc' = IF then = "resolve" THEN "resolve" ELSE "idle"
    /\ queued' = (queued \/ then = "retry")
    /\ my' = [my EXCEPT !.phase = want, !.routeName = named]
    /\ UNCHANGED <<mseen, provVars, routeVars, myCur, i, resolved, gotVars, statusVars>>

(* Mutant: the status is written whatever the version.                     *)
WriteStatusUnversioned ==
    /\ pc = "status"
    /\ model # None
    /\ model' = [model EXCEPT !.phase = want, !.routeName = named]
    /\ mCur' = (mCur /\ model' = model)
    /\ AfterStatus
    /\ UNCHANGED env

WriteStatus ==
    /\ pc = "status"
    /\ myCur
    /\ model' = [model EXCEPT !.phase = want, !.routeName = named]
    /\ mCur' = (mCur /\ model' = model)
    /\ AfterStatus
    /\ UNCHANGED env

WriteStatusFails ==
    /\ pc = "status"
    /\ \/ ~myCur /\ UNCHANGED env
       \/ myCur /\ Fails("status")
    /\ AfterStatus
    /\ UNCHANGED <<model, mCur>>

-----------------------------------------------------------------------------
Init ==
    /\ model \in [spec : ModelSpecs, served : {FALSE}, deleting : {FALSE}, phase : {""}, routeName : {FALSE}]
    /\ mseen = model /\ mCur = TRUE /\ queued = TRUE
    /\ prov \in [Providers -> ProviderStates] /\ pseen = prov
    /\ route = None /\ rseen = None /\ rCur = TRUE /\ rSame = FALSE
    /\ pc = "idle" /\ my = None /\ myCur = FALSE /\ i = 1 /\ resolved = << >>
    /\ got = None /\ gotCur = FALSE /\ gotSame = FALSE /\ misled = FALSE
    /\ want = "" /\ named = FALSE /\ then = "idle"
    /\ env = MaxEnv

Environment ==
    \/ model # None /\ (EditModel \/ DeleteModel \/ AGCServe \/ AGCStatus)
    \/ \E p \in Providers : ChangeProvider(p)
    \/ RelabelRoute

Informers == SyncModel \/ SyncRoute \/ \E p \in Providers : SyncProvider(p)

Reconcile ==
    \/ GetModel \/ ResolveNextRef \/ ResolveFails \/ Conclude \/ GetRoute
    \/ WriteRoute \/ WriteRouteFails \/ DeleteRoute \/ LeaveRoute \/ DeleteRouteFails
    \/ WriteStatus \/ WriteStatusFails

Next == Environment \/ Informers \/ Reconcile

Spec == Init /\ [][Next]_vars

(* The informers deliver and the worker runs.                              *)
Fairness == /\ WF_vars(SyncModel) /\ WF_vars(SyncRoute)
            /\ \A p \in Providers : WF_vars(SyncProvider(p))
            /\ WF_vars(Reconcile)
FairSpec == Spec /\ Fairness

-----------------------------------------------------------------------------
(* Properties                                                              *)

(* The types of the objects, caches and the reconciler's locals.           *)
TypeOK ==
    /\ model \in Model \cup {None} /\ mseen \in Model \cup {None} /\ my \in Model \cup {None}
    /\ mCur \in BOOLEAN /\ myCur \in BOOLEAN /\ queued \in BOOLEAN
    /\ prov \in [Providers -> Provider \cup {None}] /\ pseen \in [Providers -> Provider \cup {None}]
    /\ route \in Route \cup {None} /\ rseen \in Route \cup {None} /\ got \in Route \cup {None}
    /\ rCur \in BOOLEAN /\ rSame \in BOOLEAN /\ gotCur \in BOOLEAN /\ gotSame \in BOOLEAN /\ misled \in BOOLEAN
    /\ pc \in {"idle", "status", "resolve", "find", "write", "delete"}
    /\ i \in Nat \ {0} /\ resolved \in Seq(Rule)
    /\ want \in Phases /\ named \in BOOLEAN /\ then \in {"idle", "retry", "resolve"}
    /\ env \in 0..MaxEnv

(* reconciler.go:101-105: AGC owns the status of the models it serves, so  *)
(* IPP never writes it, also not from a reconcile that began before.       *)
NoStatusWhenServed == [][WriteStatus => ~AGC(model)]_vars

(* reconciler.go:198-204: the route of a model with a reference to its own *)
(* namespace is never withdrawn because providers fail.                    *)
LastGoodRouteKept == [][DeleteRoute => AGC(my) \/ ForeignOnly(my.spec)]_vars

(* The rules the model's references define now, by a direct definition.    *)
Good(ref) == Resolves(ref, prov[ref.name])
RulesNow ==
    LET good == SelectSeq(model.spec.refs, Good)
    IN [k \in 1..Len(good) |-> RuleOf(good[k], prov[good[k].name])]

Live == model # None /\ ~model.deleting
Servable == Live /\ ~AGC(model) /\ RulesNow # << >>
Withdrawable == Live /\ (AGC(model) \/ ForeignOnly(model.spec))

(* reconciler.go:101-106 and the type's comment: a servable model gets the *)
(* route its references define; one AGC serves, or without a reference to  *)
(* its namespace, loses the route IPP owns - unless another controller has *)
(* taken the route over, or a late copy of the route looked right and was  *)
(* left alone: no event on the route brings the model back.                *)
TakenOver == route # None /\ ~Owned(route)
RouteConverges ==
    /\ Servable ~> (~Servable \/ misled \/ TakenOver \/ route = BuildHTTPRoute(RulesNow, model.spec))
    /\ Withdrawable ~> (~Withdrawable \/ misled \/ ~Owned(route))

(* The phase follows: Ready with a route for a servable model, Failed for  *)
(* a model IPP cannot serve.                                               *)
StatusConverges ==
    /\ Servable ~> (~Servable \/ (model.phase = "Ready" /\ model.routeName))
    /\ (Live /\ ~AGC(model) /\ ~Servable) ~>
          (~Live \/ AGC(model) \/ Servable \/ model.phase = "Failed")
=============================================================================
