----------------------------- MODULE Migration -----------------------------
(***************************************************************************)
(* The legacy migration controller (pkg/controller/legacymigration): from  *)
(* one legacy ExternalModel it creates, and keeps up to date, a provider   *)
(* and a model of the same name, as long as these carry its label.         *)
(*                                                                         *)
(* Only legacy objects are watched (cmd/controllers.go).  The legacy       *)
(* object is read from the API server, the other two from the informer     *)
(* cache.  `seenCur' and `gotCur' tell whether a copy still has the        *)
(* object's current resourceVersion.                                       *)
(***************************************************************************)
EXTENDS Naturals

CONSTANTS
    LegacySpecs,    \* specs and connection annotations of legacy objects
    MaxSteps,       \* bound on the steps of users and on failing calls
    None

Kinds == {"provider", "model"}      \* in the order in which they are applied
Vendors == {"", "anthropic", "openai", "azure", "azure-openai", "vertex-openai"}
Endpoints == {"", "e1", "e2"}
Targets == {"", "t1"}
Ports == {"", "8443", "junk"}       \* annotations, "" when absent
TLSValues == {"", "true", "false", "junk"}
Connection == [port : Ports, tls : TLSValues]
LegacySpec == [provider : Vendors, endpoint : Endpoints, target : Targets, conn : Connection]
Legacy == [uid : Nat, deleting : BOOLEAN, spec : LegacySpec]

Paths == {"/v1/messages", "/openai/v1/chat/completions", "vertex", "/v1/chat/completions"}
ProviderSpec == [provider : Vendors, endpoint : Endpoints]
ModelSpec == [target : Targets, format : {"messages", "openai-chat"}, path : Paths]

(* managed: the migration's label; owner: the UID of the legacy object it  *)
(* belongs to, 0 if none; spec: None for one a user has written; notes:    *)
(* annotations other than the connection's.                                *)
Object == [managed : BOOLEAN, owner : Nat, spec : ProviderSpec \cup ModelSpec \cup {None},
           conn : Connection, notes : BOOLEAN]

ASSUME MigrationAssumption ==
    /\ LegacySpecs \subseteq LegacySpec /\ MaxSteps \in Nat
    /\ None \notin Object \cup Legacy \cup ProviderSpec \cup ModelSpec

VARIABLES
    legacy,         \* the legacy object (None: absent): uid, deleting, spec
    uid,            \* UIDs given out
    objs,           \* provider and model on the API server
    seen, seenCur,  \* the informer cache
    queued,         \* the work queue
    pc, kind,       \* "idle", or the next call ("get", "write") and its object
    my,             \* the legacy object the reconcile has read
    got, gotCur,    \* what it has read of the object
    touched,        \* ghost: a user or the garbage collector changed an object
    late,           \* ghost: a write was left out because of a stale read
    steps           \* steps of users and failures left

userVars == <<legacy, uid>>
objVars == <<objs, seen, seenCur>>
workVars == <<queued, pc, kind, my, got, gotCur>>
vars == <<legacy, uid, objs, seen, seenCur, queued, pc, kind, my, got, gotCur, touched, late, steps>>

NoConnection == [port |-> "", tls |-> ""]

-----------------------------------------------------------------------------
(* What the controller wants.                                              *)

Complete(spec) == spec.provider # "" /\ spec.endpoint # "" /\ spec.target # ""

(* GetConnectionSettings, ValidateConnectionSecurity with "apikey".        *)
ValidConnection(conn) == conn.port # "junk" /\ conn.tls # "junk"
Secure(conn) == conn.tls # "false"

Migratable(l) ==
    /\ l # None /\ ~l.deleting /\ Complete(l.spec)
    /\ ValidConnection(l.spec.conn) /\ Secure(l.spec.conn)

(* mapProviderToAPIFormat, mapProviderToDefaultPath                        *)
MapProviderToAPIFormat(provider) == IF provider = "anthropic" THEN "messages" ELSE "openai-chat"
MapProviderToDefaultPath(provider) ==
    CASE provider = "anthropic" -> "/v1/messages"
      [] provider \in {"azure", "azure-openai"} -> "/openai/v1/chat/completions"
      [] provider = "vertex-openai" -> "vertex"
      [] OTHER -> "/v1/chat/completions"

DesiredSpec(k, l) ==
    IF k = "provider" THEN [provider |-> l.spec.provider, endpoint |-> l.spec.endpoint]
    ELSE [target |-> l.spec.target, format |-> MapProviderToAPIFormat(l.spec.provider),
          path |-> MapProviderToDefaultPath(l.spec.provider)]

(* forwardConnectionAnnotations; models carry none.                        *)
ForwardConnectionAnnotations(k, l) == IF k = "provider" THEN l.spec.conn ELSE NoConnection

(* Mutant: annotations the legacy object lacks stay.                       *)
MergeConnectionAnnotationsKeeps(k, existing, desired) ==
    IF k = "model" THEN existing
    ELSE [a \in {"port", "tls"} |-> IF desired[a] = "" THEN existing[a] ELSE desired[a]]

(* mergeConnectionAnnotations: the desired ones replace the existing ones, *)
(* absent ones too.  applyModel leaves annotations alone.                  *)
MergeConnectionAnnotations(k, existing, desired) == IF k = "model" THEN existing ELSE desired

Created(k) == [managed |-> TRUE, owner |-> my.uid, spec |-> DesiredSpec(k, my),
               conn |-> ForwardConnectionAnnotations(k, my), notes |-> FALSE]
Updated(k, existing) ==
    [existing EXCEPT !.spec = DesiredSpec(k, my),
                     !.conn = MergeConnectionAnnotations(k, @, ForwardConnectionAnnotations(k, my))]

-----------------------------------------------------------------------------
(* Users, the garbage collector and the cache.                             *)

Step == steps > 0 /\ steps' = steps - 1

(* Every write gives the object a new version.                             *)
SetObject(k, o) ==
    /\ objs' = [objs EXCEPT ![k] = o]
    /\ seenCur' = [seenCur EXCEPT ![k] = FALSE]
    /\ gotCur' = (gotCur /\ kind # k)
    /\ UNCHANGED seen

ChangeLegacy(l) ==
    /\ Step /\ legacy' = l /\ queued' = TRUE
    /\ UNCHANGED <<objVars, pc, kind, my, got, gotCur, touched, late>>

CreateLegacy == /\ legacy = None /\ uid' = uid + 1
                /\ \E s \in LegacySpecs : ChangeLegacy([uid |-> uid', deleting |-> FALSE, spec |-> s])
EditLegacy == /\ legacy # None /\ UNCHANGED uid
              /\ \E s \in LegacySpecs \ {legacy.spec} : ChangeLegacy([legacy EXCEPT !.spec = s])
DeleteLegacy == /\ legacy # None /\ UNCHANGED uid
                /\ \/ ChangeLegacy(None)
                   \/ ~legacy.deleting /\ ChangeLegacy([legacy EXCEPT !.deleting = TRUE])

UserChange(k, o) ==
    /\ Step /\ SetObject(k, o) /\ touched' = TRUE
    /\ UNCHANGED <<userVars, queued, pc, kind, my, got, late>>

(* A user removes the label, edits the object, deletes it, or makes one of *)
(* the same name.                                                          *)
TakeOver(k) == objs[k] # None /\ objs[k].managed /\ UserChange(k, [objs[k] EXCEPT !.managed = FALSE])
EditObject(k) ==
    /\ objs[k] # None
    /\ UserChange(k, [objs[k] EXCEPT !.spec = None, !.conn.tls = "false", !.notes = TRUE])
DeleteObject(k) == objs[k] # None /\ UserChange(k, None)
CreateObject(k) ==
    /\ objs[k] = None
    /\ UserChange(k, [managed |-> FALSE, owner |-> 0, spec |-> None, conn |-> NoConnection, notes |-> TRUE])

(* An object whose owner is gone is collected.                             *)
CollectGarbage(k) ==
    /\ objs[k] # None /\ objs[k].owner # 0
    /\ IF legacy = None THEN TRUE ELSE legacy.uid # objs[k].owner
    /\ SetObject(k, None) /\ touched' = TRUE
    /\ UNCHANGED <<userVars, queued, pc, kind, my, got, late, steps>>

SyncCache(k) ==
    /\ ~seenCur[k]
    /\ seen' = [seen EXCEPT ![k] = objs[k]] /\ seenCur' = [seenCur EXCEPT ![k] = TRUE]
    /\ UNCHANGED <<userVars, objs, workVars, touched, late, steps>>

-----------------------------------------------------------------------------
(* Reconcile.                                                              *)

(* Mutant: the model is applied first.                                     *)
ReadLegacyModelFirst ==
    /\ pc = "idle" /\ queued /\ queued' = FALSE
    /\ my' = legacy
    /\ IF Migratable(legacy) THEN pc' = "get" /\ kind' = "model" ELSE UNCHANGED <<pc, kind>>
    /\ UNCHANGED <<userVars, objVars, got, gotCur, touched, late, steps>>

(* The Get of the legacy object and the checks.  An object that is gone,   *)
(* incomplete or insecure is left alone; invalid annotations are a         *)
(* terminal error; none of them is retried.                                *)
ReadLegacy ==
    /\ pc = "idle" /\ queued /\ queued' = FALSE
    /\ my' = legacy
    /\ IF Migratable(legacy) THEN pc' = "get" /\ kind' = "provider" ELSE UNCHANGED <<pc, kind>>
    /\ UNCHANGED <<userVars, objVars, got, gotCur, touched, late, steps>>

(* The Get of applyProvider and applyModel.                                *)
GetObject ==
    /\ pc = "get" /\ pc' = "write"
    /\ got' = seen[kind] /\ gotCur' = seenCur[kind]
    /\ UNCHANGED <<userVars, objVars, queued, kind, my, touched, late, steps>>

(* After the provider comes the model.                                     *)
Continue == IF kind = "provider" THEN pc' = "get" /\ kind' = "model"
            ELSE pc' = "idle" /\ UNCHANGED kind
Retry == pc' = "idle" /\ queued' = TRUE /\ UNCHANGED kind

Needless == got # None /\ (~got.managed \/ got = Updated(kind, got))

(* An object without the label is skipped, one that is right is left.      *)
LeaveObject ==
    /\ pc = "write" /\ Needless
    /\ late' = (late \/ ~gotCur)
    /\ Continue
    /\ UNCHANGED <<userVars, objVars, queued, my, got, gotCur, touched, steps>>

(* Mutant: the update has no resourceVersion.                              *)
AcceptedUnversioned == IF got = None THEN objs[kind] = None ELSE objs[kind] # None

(* The API server: no Create of what exists, no Update of another version. *)
Accepted == IF got = None THEN objs[kind] = None ELSE gotCur

(* Create or Update.  The answer to a write may be lost.                   *)
WriteObject ==
    /\ pc = "write" /\ ~Needless /\ Accepted
    /\ SetObject(kind, IF got = None THEN Created(kind) ELSE Updated(kind, got))
    /\ \/ Continue /\ UNCHANGED <<queued, steps>>
       \/ Step /\ Retry
    /\ UNCHANGED <<userVars, my, got, touched, late>>

(* Mutant: a conflict is taken for success.                                *)
WriteObjectRefusedIgnored ==
    /\ pc = "write" /\ ~Needless /\ ~Accepted
    /\ Continue /\ UNCHANGED queued
    /\ UNCHANGED <<userVars, objVars, my, got, gotCur, touched, late, steps>>

(* AlreadyExists or a conflict: the error is returned.                     *)
WriteObjectRefused ==
    /\ pc = "write" /\ ~Needless /\ ~Accepted
    /\ Retry
    /\ UNCHANGED <<userVars, objVars, my, got, gotCur, touched, late, steps>>

(* A call that fails otherwise.                                            *)
CallFails ==
    /\ Step /\ pc # "idle" /\ Retry
    /\ UNCHANGED <<userVars, objVars, my, got, gotCur, touched, late>>

-----------------------------------------------------------------------------
Init ==
    /\ legacy = None /\ uid = 0 /\ objs = [k \in Kinds |-> None]
    /\ seen = objs /\ seenCur = [k \in Kinds |-> TRUE]
    /\ queued = FALSE /\ pc = "idle" /\ kind = "provider" /\ my = None
    /\ got = None /\ gotCur = FALSE /\ touched = FALSE /\ late = FALSE /\ steps = MaxSteps

Users == \/ CreateLegacy \/ EditLegacy \/ DeleteLegacy
         \/ \E k \in Kinds : TakeOver(k) \/ EditObject(k) \/ DeleteObject(k) \/ CreateObject(k)

Reconcile == ReadLegacy \/ GetObject \/ LeaveObject \/ WriteObject \/ WriteObjectRefused

Next == \/ Users \/ Reconcile \/ CallFails
        \/ \E k \in Kinds : CollectGarbage(k) \/ SyncCache(k)

Spec == Init /\ [][Next]_vars

(* The worker goes on as long as there is work, and the cache follows.     *)
FairSpec == Spec /\ WF_vars(Reconcile) /\ WF_vars(\E k \in Kinds : SyncCache(k))

-----------------------------------------------------------------------------
(* Properties.                                                             *)

(* Every variable has its type.                                            *)
TypeOK ==
    /\ legacy \in Legacy \cup {None} /\ uid \in Nat
    /\ objs \in [Kinds -> Object \cup {None}] /\ seen \in [Kinds -> Object \cup {None}]
    /\ seenCur \in [Kinds -> BOOLEAN] /\ queued \in BOOLEAN
    /\ pc \in {"idle", "get", "write"} /\ kind \in Kinds /\ my \in Legacy \cup {None}
    /\ got \in Object \cup {None} /\ gotCur \in BOOLEAN
    /\ touched \in BOOLEAN /\ late \in BOOLEAN /\ steps \in Nat

(* A copy that counts as current equals the object, and a reconcile under  *)
(* way works for a legacy object it may migrate.                           *)
CopiesCurrent ==
    /\ \A k \in Kinds : seenCur[k] => seen[k] = objs[k]
    /\ pc = "write" /\ gotCur => got = objs[kind]
    /\ pc # "idle" => Migratable(my)

(* The migration never writes an object that does not carry its label at   *)
(* that moment, and keeps the owner and the other annotations of one that  *)
(* does, although it decided on a copy from the cache and users take       *)
(* objects over between the read and the write (applyProvider, applyModel, *)
(* mergeConnectionAnnotations).                                            *)
UserChangesKept ==
    [][WriteObject => \A k \in Kinds : objs[k] # None =>
          IF objs[k].managed
          THEN objs'[k].managed /\ objs'[k].owner = objs[k].owner /\ objs'[k].notes = objs[k].notes
          ELSE objs'[k] = objs[k]]_vars

(* Whatever annotations the legacy object had earlier or a user has put on *)
(* the provider, a provider written by the migration uses TLS.             *)
MigratedOverTLS ==
    [][WriteObject /\ kind = "provider" => Secure(objs'["provider"].conn)]_vars

(* As long as nobody else changes the objects, a migrated model is never   *)
(* there without its provider, also when a call fails in between.          *)
ProviderFirst == ~touched /\ objs["model"] # None => objs["provider"] # None

(* Objects as the legacy object wants them.                                *)
Follows == \A k \in Kinds : /\ objs[k] # None
                            /\ objs[k].spec = DesiredSpec(k, legacy)
                            /\ objs[k].conn = ForwardConnectionAnnotations(k, legacy)

(* In the end provider and model follow the legacy object through edits,   *)
(* conflicts, failed calls and lost answers, unless someone else changed   *)
(* them, or a stale read made a write look needless (nothing repeats a     *)
(* reconcile in these two cases).                                          *)
FollowsLegacy == []<>(touched \/ late \/ ~Migratable(legacy) \/ Follows)
=============================================================================
