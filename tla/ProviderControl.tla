--------------------------- MODULE ProviderControl ---------------------------
(***************************************************************************)
(* The ExternalProvider controller (pkg/controller/externalprovider): for  *)
(* one ExternalProvider it creates a Service, a ServiceEntry and a         *)
(* DestinationRule, writes the provider's status, and removes what it      *)
(* created when the AI Gateway Controller (AIGC) claims the provider with  *)
(* a finalizer.                                                            *)
(*                                                                         *)
(* Every Get and every write is a step of its own, so users and AIGC act   *)
(* in between.  The provider and the Service are read from informer caches *)
(* that lag behind the API server; the Istio kinds are unstructured and    *)
(* read live.  A write carries the resourceVersion of the copy read and    *)
(* fails when the object was written since: a `current' flag says whether  *)
(* that has happened, which stands for comparing the versions.             *)
(*                                                                         *)
(* The controller is registered by cmd/controllers.go, which watches       *)
(* ExternalProviders and ExternalModels and none of the created objects.   *)
(***************************************************************************)
EXTENDS Naturals

CONSTANTS
    Specs,      \* specs and annotations users write
    Faults,     \* the steps whose API call may fail: "list", "child", "status"
    MaxEnv,     \* bound on the steps of users, AIGC and faults
    None        \* no object

Kinds == {"Service", "ServiceEntry", "DestinationRule"}
Cached == {"Service"}
AuthTypes == {"apikey", "simple", "sigv4", "oauth2"}

(* port and tls are the annotations' values by class: "" when absent.      *)
Spec0 == [endpoint : {"e1", "e2"}, auth : AuthTypes, port : {"", "8080", "junk"},
          tls : {"", "true", "false", "junk"}]
Phases == {"", "Pending", "Ready", "Failed"}
Provider == [spec : Spec0, claimed : BOOLEAN, deleting : BOOLEAN, phase : Phases]

(* A created object: the spec it was built from and its managed-by label.  *)
Managers == {"ipp", "aigc"}
Child == [spec : Spec0, label : Managers]

ASSUME SpecsAssumption == Specs \subseteq Spec0 /\ Specs # {}
ASSUME BoundsAssumption == MaxEnv \in Nat /\ Faults \subseteq {"list", "child", "status"}
ASSUME NoneAssumption == None \notin Provider \cup Child \cup Kinds

VARIABLES
    obj,        \* the ExternalProvider on the API server
    cache,      \* the informer's copy
    cacheCur,   \* the informer has seen the last write
    queued,     \* the provider is on the work queue
    child,      \* the created objects on the API server
    seen,       \* the informer's copies of the cached kinds
    secretOK,   \* the Secret exists
    agcOnly,    \* only AGC-managed models reference the provider
    pc,         \* where Reconcile is
    my, myCur,  \* the copy of the provider it works on, not written since
    quiet,      \* statusSuppressed
    kind,       \* the kind being applied or cleaned up
    got, gotCur,\* the object of that kind it read, not written since
    want, then, \* the phase to write, and where to go on afterwards
    env         \* steps left to users, AIGC and faults

apiServer == <<obj, child, secretOK, agcOnly>>
informers == <<cache, cacheCur, seen>>
registers == <<my, myCur, quiet, kind, got, gotCur, want, then>>
vars == <<obj, cache, cacheCur, queued, child, seen, secretOK, agcOnly,
          pc, my, myCur, quiet, kind, got, gotCur, want, then, env>>

-----------------------------------------------------------------------------
(* GetConnectionSettings' errors, and ValidateConnectionSecurity           *)
ValidAnnotations(s) == s.port # "junk" /\ s.tls # "junk"
Plaintext(s) == s.tls = "false"
(* Mutant: plaintext is refused for the auth types the documentation names.*)
SecureAsDocumented(s) == ~(Plaintext(s) /\ s.auth \in {"apikey", "sigv4"})
SecureConnection(s) == ~(Plaintext(s) /\ s.auth # "")

(* The order in which the kinds are applied and cleaned up.                *)
NextKind == [k \in Kinds |-> CASE k = "Service" -> "ServiceEntry"
                               [] k = "ServiceEntry" -> "DestinationRule"
                               [] k = "DestinationRule" -> None]

Desired(s) == [spec |-> s, label |-> "ipp"]

-----------------------------------------------------------------------------
(* Users, the API server and AIGC.                                         *)

EnvStep == env > 0 /\ env' = env - 1

Writes(o) == /\ obj' = o
             /\ cacheCur' = FALSE
             /\ myCur' = FALSE

ChangeObject(o) ==
    /\ Writes(o)
    /\ UNCHANGED <<cache, queued, child, seen, secretOK, agcOnly,
                   pc, my, quiet, kind, got, gotCur, want, then>>

EditSpec == /\ EnvStep
            /\ obj # None
            /\ \E s \in Specs \ {obj.spec} : ChangeObject([obj EXCEPT !.spec = s])

DeleteProvider ==
    /\ EnvStep
    /\ obj # None
    /\ \/ ChangeObject(None)
       \/ ~obj.deleting /\ ChangeObject([obj EXCEPT !.deleting = TRUE])

(* AIGC claims a provider by its finalizer and releases it after removing  *)
(* the objects it labelled.                                                *)
Claim == /\ EnvStep
         /\ obj # None /\ ~obj.claimed /\ ~obj.deleting
         /\ ChangeObject([obj EXCEPT !.claimed = TRUE])

Release == /\ EnvStep
           /\ obj # None /\ obj.claimed
           /\ \A k \in Kinds : child[k] # None => child[k].label = "ipp"
           /\ ChangeObject([obj EXCEPT !.claimed = FALSE])

AIGCStatus == /\ EnvStep
              /\ obj # None /\ obj.claimed
              /\ \E p \in {"Pending", "Ready", "Failed"} \ {obj.phase} :
                    ChangeObject([obj EXCEPT !.phase = p])

ChangeChild(k, c) ==
    /\ child' = [child EXCEPT ![k] = c]
    /\ gotCur' = (gotCur /\ kind # k)
    /\ UNCHANGED <<obj, informers, queued, secretOK, agcOnly,
                   pc, my, myCur, quiet, kind, got, want, then>>

(* While it claims the provider, AIGC creates its own object or relabels   *)
(* the one it finds, and removes what it labelled.                         *)
AIGCApply(k) ==
    /\ EnvStep
    /\ obj # None /\ obj.claimed
    /\ \/ child[k] = None /\ ChangeChild(k, [spec |-> obj.spec, label |-> "aigc"])
       \/ child[k] # None /\ child[k].label = "ipp"
          /\ ChangeChild(k, [child[k] EXCEPT !.label = "aigc"])

AIGCRemove(k) ==
    /\ EnvStep
    /\ child[k] # None /\ child[k].label = "aigc"
    /\ ChangeChild(k, None)

(* The Secret is not watched; a model's change enqueues the provider.      *)
SecretChange ==
    /\ EnvStep
    /\ secretOK' = ~secretOK
    /\ UNCHANGED <<obj, informers, queued, child, agcOnly, pc, registers>>

ModelChange ==
    /\ EnvStep
    /\ agcOnly' = ~agcOnly
    /\ queued' = TRUE
    /\ UNCHANGED <<obj, informers, child, secretOK, pc, registers>>

(* The informers catch up; a change of the provider is an event.           *)
SyncProvider ==
    /\ ~cacheCur
    /\ cache' = obj
    /\ cacheCur' = TRUE
    /\ queued' = TRUE
    /\ UNCHANGED <<apiServer, seen, pc, registers, env>>

SyncChild(k) ==
    /\ seen[k] # child[k]
    /\ seen' = [seen EXCEPT ![k] = child[k]]
    /\ UNCHANGED <<apiServer, cache, cacheCur, queued, pc, registers, env>>

-----------------------------------------------------------------------------
(* Reconcile                                                               *)

Fails(call) == call \in Faults /\ EnvStep

Goto(l) == pc' = l
Done(retry) == Goto("idle") /\ queued' = (queued \/ retry)

(* setStatus(phase), then on to l: "idle", "retry" or the next step.       *)
SetStatus(phase, l) ==
    IF quiet THEN /\ IF l \in {"idle", "retry"} THEN Done(l = "retry") ELSE Goto(l) /\ UNCHANGED queued
                  /\ UNCHANGED <<want, then>>
             ELSE Goto("status") /\ want' = phase /\ then' = l /\ UNCHANGED queued

GetProvider ==
    /\ pc = "idle"
    /\ queued
    /\ queued' = FALSE
    /\ my' = cache
    /\ myCur' = cacheCur
    /\ kind' = "Service"
    /\ Goto(IF cache = None THEN "idle"
            ELSE IF cache.deleting THEN "idle"
            ELSE IF cache.claimed THEN "cleanup" ELSE "list")
    /\ UNCHANGED <<apiServer, informers, quiet, got, gotCur, want, then, env>>

(* referencedByAGCOnly, and the Pending status of a new provider.          *)
ListModels ==
    /\ pc = "list"
    /\ quiet' = agcOnly
    /\ IF my.phase = "" /\ ~agcOnly
       THEN Goto("status") /\ want' = "Pending" /\ then' = "secret"
       ELSE Goto("secret") /\ UNCHANGED <<want, then>>
    /\ UNCHANGED <<apiServer, informers, queued, my, myCur, kind, got, gotCur, env>>

ListModelsFails ==
    /\ pc = "list"
    /\ Fails("list")
    /\ Done(TRUE)
    /\ UNCHANGED <<apiServer, informers, registers>>

(* validateSecretRef and the two checks of the annotations.                *)
Validate ==
    /\ pc = "secret"
    /\ CASE ~secretOK -> SetStatus("Failed", "retry")
         [] secretOK /\ ~(ValidAnnotations(my.spec) /\ SecureConnection(my.spec)) ->
                SetStatus("Failed", "idle")
         [] OTHER -> Goto("apply") /\ UNCHANGED <<queued, want, then>>
    /\ UNCHANGED <<apiServer, informers, my, myCur, quiet, kind, got, gotCur, env>>

(* The Get of applyService, applyUnstructured and cleanupTransport.        *)
GetChild ==
    /\ pc \in {"apply", "cleanup"}
    /\ IF kind \in Cached
       THEN got' = seen[kind] /\ gotCur' = (seen[kind] = child[kind])
       ELSE got' = child[kind] /\ gotCur' = TRUE
    /\ Goto(IF pc = "apply" THEN "write" ELSE "delete")
    /\ UNCHANGED <<apiServer, informers, queued, my, myCur, quiet, kind, want, then, env>>

(* On to the next kind, or the end of the list.                            *)
Advance(l, end) ==
    IF NextKind[kind] # None THEN Goto(l) /\ kind' = NextKind[kind] /\ UNCHANGED <<queued, want, then>>
    ELSE end /\ UNCHANGED kind

UpToDate(c, s) == c # None /\ c.spec = s /\ c.label = "ipp"

(* Create, update (which keeps the object but replaces its labels, owner   *)
(* and spec, whoever manages it) or leave the object.                      *)
WriteChild ==
    /\ pc = "write"
    /\ gotCur \/ UpToDate(got, my.spec)
    /\ child' = IF UpToDate(got, my.spec) THEN child
                ELSE [child EXCEPT ![kind] = Desired(my.spec)]
    /\ gotCur' = FALSE
    /\ Advance("apply", SetStatus("Ready", "idle"))
    /\ UNCHANGED <<obj, informers, secretOK, agcOnly, my, myCur, quiet, got, env>>

(* The API server refuses the write, because of a conflict or otherwise.   *)
WriteChildFails ==
    /\ pc = "write"
    /\ ~UpToDate(got, my.spec)
    /\ \/ ~gotCur /\ UNCHANGED env
       \/ gotCur /\ Fails("child")
    /\ SetStatus("Failed", "retry")
    /\ UNCHANGED <<apiServer, informers, my, myCur, quiet, kind, got, gotCur>>

(* Mutant: the delete has no precondition on the version.                  *)
DeleteChildUnconditionally ==
    /\ pc = "delete"
    /\ got # None /\ got.label = "ipp"
    /\ child' = [child EXCEPT ![kind] = None]
    /\ gotCur' = FALSE
    /\ Advance("cleanup", Done(FALSE) /\ UNCHANGED <<want, then>>)
    /\ UNCHANGED <<obj, informers, secretOK, agcOnly, my, myCur, quiet, got, env>>

(* cleanupTransport: delete an object that carries IPP's label, on the     *)
(* condition that it is still the version read.                            *)
DeleteChild ==
    /\ pc = "delete"
    /\ got # None /\ got.label = "ipp"
    /\ gotCur \/ child[kind] = None
    /\ child' = [child EXCEPT ![kind] = None]
    /\ gotCur' = FALSE
    /\ Advance("cleanup", Done(FALSE) /\ UNCHANGED <<want, then>>)
    /\ UNCHANGED <<obj, informers, secretOK, agcOnly, my, myCur, quiet, got, env>>

LeaveChild ==
    /\ pc = "delete"
    /\ got # None => got.label # "ipp"
    /\ Advance("cleanup", Done(FALSE) /\ UNCHANGED <<want, then>>)
    /\ UNCHANGED <<apiServer, informers, my, myCur, quiet, got, gotCur, env>>

(* Mutant: a failed delete is not retried.                                 *)
DeleteChildGivesUp ==
    /\ pc = "delete"
    /\ got # None /\ got.label = "ipp"
    /\ \/ ~gotCur /\ child[kind] # None /\ UNCHANGED env
       \/ Fails("child")
    /\ Done(FALSE)
    /\ UNCHANGED <<apiServer, informers, registers>>

DeleteChildFails ==
    /\ pc = "delete"
    /\ got # None /\ got.label = "ipp"
    /\ \/ ~gotCur /\ child[kind] # None /\ UNCHANGED env
       \/ Fails("child")
    /\ Done(TRUE)
    /\ UNCHANGED <<apiServer, informers, registers>>

(* setStatus: the update takes effect only on the version read; an error   *)
(* is logged and forgotten.                                                *)
AfterStatus == IF then \in {"idle", "retry"} THEN Done(then = "retry")
               ELSE Goto(then) /\ UNCHANGED queued

(* Mutant: the status is patched without the version read.                 *)
WriteStatusUnversioned ==
    /\ pc = "status"
    /\ obj # None
    /\ obj' = [obj EXCEPT !.phase = want]
    /\ cacheCur' = (cacheCur /\ obj.phase = want)
    /\ my' = [my EXCEPT !.phase = want]
    /\ AfterStatus
    /\ UNCHANGED <<cache, child, seen, secretOK, agcOnly, myCur, quiet, kind, got, gotCur, want, then, env>>

WriteStatus ==
    /\ pc = "status"
    /\ myCur
    /\ obj' = [obj EXCEPT !.phase = want]
    /\ cacheCur' = (cacheCur /\ obj.phase = want)
    /\ my' = [my EXCEPT !.phase = want]
    /\ AfterStatus
    /\ UNCHANGED <<cache, child, seen, secretOK, agcOnly, myCur, quiet, kind, got, gotCur, want, then, env>>

WriteStatusFails ==
    /\ pc = "status"
    /\ \/ ~myCur /\ UNCHANGED env
       \/ myCur /\ Fails("status")
    /\ my' = [my EXCEPT !.phase = want]
    /\ AfterStatus
    /\ UNCHANGED <<apiServer, informers, myCur, quiet, kind, got, gotCur, want, then>>

-----------------------------------------------------------------------------
(* A new provider is created and the process has just started.             *)
Init == /\ obj \in [spec : Specs, claimed : BOOLEAN, deleting : {FALSE}, phase : {""}]
        /\ cache = obj /\ cacheCur = TRUE /\ queued = TRUE
        /\ child = [k \in Kinds |-> None] /\ seen = [k \in Kinds |-> None]
        /\ secretOK \in BOOLEAN /\ agcOnly \in BOOLEAN
        /\ pc = "idle" /\ my = None /\ myCur = FALSE
        /\ quiet = FALSE /\ kind = "Service" /\ got = None /\ gotCur = FALSE
        /\ want = "" /\ then = "idle"
        /\ env = MaxEnv

Environment ==
    \/ EditSpec \/ DeleteProvider \/ Claim \/ Release \/ AIGCStatus
    \/ \E k \in Kinds : AIGCApply(k) \/ AIGCRemove(k)
    \/ SecretChange \/ ModelChange

Informers == SyncProvider \/ \E k \in Cached : SyncChild(k)

Reconcile ==
    \/ GetProvider \/ ListModels \/ ListModelsFails \/ Validate
    \/ GetChild \/ WriteChild \/ WriteChildFails
    \/ DeleteChild \/ LeaveChild \/ DeleteChildFails
    \/ WriteStatus \/ WriteStatusFails

Next == Environment \/ Informers \/ Reconcile

Spec == Init /\ [][Next]_vars

(* The informers deliver, the worker runs.                                 *)
FairSpec == /\ Spec
            /\ WF_vars(SyncProvider)
            /\ \A k \in Cached : WF_vars(SyncChild(k))
            /\ WF_vars(Reconcile)

-----------------------------------------------------------------------------
(* Properties                                                              *)

(* The types of the objects, caches and the reconciler's locals.           *)
TypeOK ==
    /\ obj \in Provider \cup {None} /\ cache \in Provider \cup {None}
    /\ cacheCur \in BOOLEAN /\ queued \in BOOLEAN
    /\ child \in [Kinds -> Child \cup {None}] /\ seen \in [Kinds -> Child \cup {None}]
    /\ secretOK \in BOOLEAN /\ agcOnly \in BOOLEAN
    /\ pc \in {"idle", "list", "secret", "apply", "write", "cleanup", "delete", "status"}
    /\ my \in Provider \cup {None} /\ myCur \in BOOLEAN /\ quiet \in BOOLEAN
    /\ kind \in Kinds /\ got \in Child \cup {None} /\ gotCur \in BOOLEAN
    /\ want \in Phases /\ then \in {"idle", "retry", "secret"}
    /\ env \in 0..MaxEnv

(* IPP never writes the status of a provider AIGC has claimed, not even    *)
(* from a reconcile that began before the claim (reconciler.go:96-98,      *)
(* setStatus' resourceVersion).                                            *)
NoStatusWhenClaimed == [][WriteStatus => ~obj.claimed]_vars

(* The handoff never deletes an object that another controller has         *)
(* relabelled or replaced since it was read (transportDeletePreconditions).*)
OnlyOwnLabelDeleted ==
    [][DeleteChild /\ child[kind] # None => child[kind].label = "ipp"]_vars

(* Credentials never get a plaintext transport: no object carrying IPP's   *)
(* label is built from a spec that disables TLS, whatever edits race with  *)
(* the reconcile (ValidateConnectionSecurity before reconcileResources).   *)
NoPlaintextTransport ==
    \A k \in Kinds : child[k] # None /\ child[k].label = "ipp" => ~Plaintext(child[k].spec)

Live == obj # None /\ ~obj.deleting
Wanted == /\ Live /\ ~obj.claimed /\ secretOK
          /\ ValidAnnotations(obj.spec) /\ SecureConnection(obj.spec)

(* The Istio objects follow the provider: a valid, unclaimed provider gets *)
(* both in its current form, a claimed one loses those labelled by IPP,    *)
(* whatever conflicts and errors occur (Reconcile's returned errors).      *)
IstioConverges ==
    \A k \in Kinds \ Cached :
        /\ Wanted ~> (~Wanted \/ UpToDate(child[k], obj.spec))
        /\ (Live /\ obj.claimed) ~>
              (~Live \/ ~obj.claimed \/ child[k] = None \/ child[k].label # "ipp")
===========================================================================
