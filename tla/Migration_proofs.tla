-------------------------- MODULE Migration_proofs --------------------------
(***************************************************************************)
(* Proofs about the legacy migration, for any legacy specs and any number  *)
(* of user steps and failing calls.                                        *)
(*                                                                         *)
(* UserChangesKept and MigratedOverTLS are properties of one write; they   *)
(* follow from CopiesCurrent, the invariant behind optimistic concurrency. *)
(* ProviderFirst needs that nothing but the migration removes objects      *)
(* (Existing).                                                             *)
(***************************************************************************)
EXTENDS Migration, TLAPS

LegacyTypes ==
    /\ legacy \in Legacy \cup {None} /\ uid \in Nat
    /\ queued \in BOOLEAN /\ pc \in {"idle", "get", "write"} /\ my \in Legacy \cup {None}
    /\ touched \in BOOLEAN /\ late \in BOOLEAN /\ steps \in Nat

ObjectTypes ==
    /\ objs \in [Kinds -> Object \cup {None}] /\ seen \in [Kinds -> Object \cup {None}]
    /\ seenCur \in [Kinds -> BOOLEAN] /\ kind \in Kinds
    /\ got \in Object \cup {None} /\ gotCur \in BOOLEAN

(* As long as nobody else touches the objects, what the cache or the       *)
(* reconcile has seen is still there, and the model's turn comes when the  *)
(* provider is there.                                                      *)
Existing ==
    ~touched =>
        /\ \A k \in Kinds : seen[k] # None => objs[k] # None
        /\ pc = "write" /\ got # None => objs[kind] # None
        /\ pc # "idle" /\ kind = "model" => objs["provider"] # None
        /\ objs["model"] # None => objs["provider"] # None

MigrationInv == LegacyTypes /\ ObjectTypes /\ CopiesCurrent /\ Existing

-----------------------------------------------------------------------------
(* The specs made from a legacy object are specs of the new CRDs.          *)
LEMMA DesiredType ==
    ASSUME NEW k \in Kinds, NEW l \in Legacy
    PROVE  DesiredSpec(k, l) \in ProviderSpec \cup ModelSpec
  <1>1. MapProviderToAPIFormat(l.spec.provider) \in {"messages", "openai-chat"}
    BY DEF MapProviderToAPIFormat
  <1>2. MapProviderToDefaultPath(l.spec.provider) \in Paths
    BY DEF MapProviderToDefaultPath, Paths
  <1> QED
    BY <1>1, <1>2 DEF DesiredSpec, ProviderSpec, ModelSpec, Legacy, LegacySpec

LEMMA ForwardType ==
    ASSUME NEW k \in Kinds, NEW l \in Legacy
    PROVE  ForwardConnectionAnnotations(k, l) \in Connection
  BY DEF ForwardConnectionAnnotations, NoConnection, Connection, Ports, TLSValues, Legacy, LegacySpec

LEMMA CreatedType ==
    ASSUME NEW k \in Kinds, my \in Legacy
    PROVE  Created(k) \in Object
  BY DesiredType, ForwardType DEF Created, Object, Legacy

LEMMA UpdatedType ==
    ASSUME NEW k \in Kinds, my \in Legacy, NEW o \in Object
    PROVE  /\ Updated(k, o) \in Object
           /\ Updated(k, o).managed = o.managed /\ Updated(k, o).owner = o.owner
           /\ Updated(k, o).notes = o.notes
           /\ k = "provider" => Updated(k, o).conn = my.spec.conn
  <1>1. PICK s, c : /\ s = DesiredSpec(k, my)
                    /\ c = MergeConnectionAnnotations(k, o.conn, ForwardConnectionAnnotations(k, my))
    OBVIOUS
  <1>2. Updated(k, o) = [o EXCEPT !.spec = s, !.conn = c]
    BY <1>1 DEF Updated
  <1>3. s \in ProviderSpec \cup ModelSpec \cup {None} /\ c \in Connection
    BY <1>1, DesiredType, ForwardType DEF MergeConnectionAnnotations, Object
  <1>4. k = "provider" => c = my.spec.conn
    BY <1>1 DEF MergeConnectionAnnotations, ForwardConnectionAnnotations
  <1> QED
    BY <1>2, <1>3, <1>4 DEF Object

(* A user's edit keeps the object an object.                               *)
LEMMA EditedType ==
    ASSUME NEW o \in Object
    PROVE  /\ [o EXCEPT !.managed = FALSE] \in Object
           /\ [o EXCEPT !.spec = None, !.conn.tls = "false", !.notes = TRUE] \in Object
  <1>1. PICK c : c = [o.conn EXCEPT !.tls = "false"]
    OBVIOUS
  <1>2. o.conn \in Connection
    BY DEF Object
  <1>3. c \in Connection
    BY <1>1, <1>2 DEF Connection, TLSValues
  <1>4. [o EXCEPT !.spec = None, !.conn.tls = "false", !.notes = TRUE]
            = [o EXCEPT !.spec = None, !.conn = c, !.notes = TRUE]
    BY <1>1 DEF Object
  <1> QED
    BY <1>3, <1>4 DEF Object

LEMMA NoneApart == None \notin Object /\ None \notin Legacy
  BY MigrationAssumption

-----------------------------------------------------------------------------
LEMMA InitHolds == Init => MigrationInv
  <1> SUFFICES ASSUME Init PROVE MigrationInv
    OBVIOUS
  <1>1. LegacyTypes
    BY MigrationAssumption DEF Init, LegacyTypes
  <1>2. ObjectTypes
    BY DEF Init, ObjectTypes, Kinds
  <1>3. CopiesCurrent
    BY DEF Init, CopiesCurrent
  <1>4. Existing
    BY DEF Init, Existing, Kinds
  <1> QED
    BY <1>1, <1>2, <1>3, <1>4 DEF MigrationInv

(* A change of the legacy object touches nothing else.                     *)
LEMMA ChangeLegacyHolds ==
    ASSUME MigrationInv, uid' \in Nat, NEW l \in Legacy \cup {None}, ChangeLegacy(l)
    PROVE  MigrationInv'
  <1>1. /\ UNCHANGED <<objs, seen, seenCur, pc, kind, my, got, gotCur, touched, late>>
        /\ legacy' = l /\ queued' = TRUE /\ steps' = steps - 1 /\ steps > 0
    BY DEF ChangeLegacy, objVars, Step
  <1>2. LegacyTypes'
    BY <1>1 DEF MigrationInv, LegacyTypes
  <1>3. ObjectTypes' /\ Existing' /\ CopiesCurrent'
    BY <1>1 DEF MigrationInv, ObjectTypes, Existing, CopiesCurrent
  <1> QED
    BY <1>2, <1>3 DEF MigrationInv

LEMMA LegacyHolds ==
    ASSUME MigrationInv, CreateLegacy \/ EditLegacy \/ DeleteLegacy
    PROVE  MigrationInv'
  <1>1. legacy \in Legacy \cup {None} /\ uid \in Nat /\ LegacySpecs \subseteq LegacySpec
    BY MigrationAssumption DEF MigrationInv, LegacyTypes
  <1>2. uid' \in Nat
    BY <1>1 DEF CreateLegacy, EditLegacy, DeleteLegacy
  <1>3. \E l \in Legacy \cup {None} : ChangeLegacy(l)
    <2>1. CASE CreateLegacy
      <3>1. PICK s \in LegacySpecs : ChangeLegacy([uid |-> uid', deleting |-> FALSE, spec |-> s])
        BY <2>1 DEF CreateLegacy
      <3>2. [uid |-> uid', deleting |-> FALSE, spec |-> s] \in Legacy
        BY <1>1, <1>2 DEF Legacy
      <3> QED
        BY <3>1, <3>2
    <2>2. CASE EditLegacy
      <3>1. PICK s \in LegacySpecs : ChangeLegacy([legacy EXCEPT !.spec = s])
        BY <2>2 DEF EditLegacy
      <3>2. [legacy EXCEPT !.spec = s] \in Legacy
        BY <1>1, <2>2 DEF Legacy, EditLegacy
      <3> QED
        BY <3>1, <3>2
    <2>3. CASE DeleteLegacy
      <3>1. [legacy EXCEPT !.deleting = TRUE] \in Legacy
        BY <1>1, <2>3 DEF Legacy, DeleteLegacy
      <3> QED
        BY <2>3, <3>1 DEF DeleteLegacy
    <2> QED
      BY <2>1, <2>2, <2>3
  <1> QED
    BY <1>2, <1>3, ChangeLegacyHolds

(* A write of someone else makes the copies of that object out of date.    *)
LEMMA ForeignWrite ==
    ASSUME MigrationInv, NEW k \in Kinds, NEW o \in Object \cup {None}, SetObject(k, o),
           touched' = TRUE, steps' \in Nat, UNCHANGED <<legacy, uid, queued, pc, kind, my, got, late>>
    PROVE  MigrationInv'
  <1>1. /\ objs' = [objs EXCEPT ![k] = o] /\ seenCur' = [seenCur EXCEPT ![k] = FALSE]
        /\ gotCur' = (gotCur /\ kind # k) /\ seen' = seen
    BY DEF SetObject
  <1>2. LegacyTypes' /\ Existing'
    BY DEF MigrationInv, LegacyTypes, Existing
  <1>3. ObjectTypes'
    BY <1>1 DEF MigrationInv, ObjectTypes
  <1>4. CopiesCurrent'
    BY <1>1 DEF MigrationInv, ObjectTypes, CopiesCurrent
  <1> QED
    BY <1>2, <1>3, <1>4 DEF MigrationInv

LEMMA UserHolds ==
    ASSUME MigrationInv, NEW k \in Kinds,
           TakeOver(k) \/ EditObject(k) \/ DeleteObject(k) \/ CreateObject(k) \/ CollectGarbage(k)
    PROVE  MigrationInv'
  <1>1. objs[k] \in Object \cup {None} /\ steps \in Nat
    BY DEF MigrationInv, ObjectTypes, LegacyTypes
  <1>2. [managed |-> FALSE, owner |-> 0, spec |-> None, conn |-> NoConnection, notes |-> TRUE] \in Object
    BY DEF Object, NoConnection, Connection, Ports, TLSValues
  <1>3. CASE CollectGarbage(k)
    BY <1>1, <1>3, ForeignWrite DEF CollectGarbage, userVars
  <1>4. CASE ~CollectGarbage(k)
    <2>1. \E o \in Object \cup {None} : UserChange(k, o)
      BY <1>1, <1>2, <1>4, EditedType DEF TakeOver, EditObject, DeleteObject, CreateObject
    <2> QED
      BY <1>1, <2>1, ForeignWrite DEF UserChange, Step, userVars
  <1> QED
    BY <1>3, <1>4

LEMMA SyncHolds ==
    ASSUME MigrationInv, NEW k \in Kinds, SyncCache(k)
    PROVE  MigrationInv'
  <1>1. /\ UNCHANGED <<legacy, uid, objs, queued, pc, kind, my, got, gotCur, touched, late, steps>>
        /\ seen' = [seen EXCEPT ![k] = objs[k]] /\ seenCur' = [seenCur EXCEPT ![k] = TRUE]
    BY DEF SyncCache, userVars, workVars
  <1>2. LegacyTypes'
    BY <1>1 DEF MigrationInv, LegacyTypes
  <1>3. ObjectTypes'
    BY <1>1 DEF MigrationInv, ObjectTypes
  <1>4. CopiesCurrent'
    BY <1>1 DEF MigrationInv, ObjectTypes, CopiesCurrent
  <1>5. Existing'
    BY <1>1 DEF MigrationInv, ObjectTypes, Existing
  <1> QED
    BY <1>2, <1>3, <1>4, <1>5 DEF MigrationInv

LEMMA ReadLegacyHolds ==
    ASSUME MigrationInv, ReadLegacy
    PROVE  MigrationInv'
  <1>1. /\ UNCHANGED <<legacy, uid, objs, seen, seenCur, got, gotCur, touched, late, steps>>
        /\ my' = legacy /\ queued' = FALSE /\ pc = "idle"
        /\ IF Migratable(legacy) THEN pc' = "get" /\ kind' = "provider" ELSE UNCHANGED <<pc, kind>>
    BY DEF ReadLegacy, userVars, objVars
  <1>2. LegacyTypes'
    BY <1>1 DEF MigrationInv, LegacyTypes
  <1>3. ObjectTypes'
    BY <1>1 DEF MigrationInv, ObjectTypes, Kinds
  <1>4. CopiesCurrent'
    BY <1>1 DEF MigrationInv, CopiesCurrent
  <1>5. Existing'
    BY <1>1 DEF MigrationInv, Existing
  <1> QED
    BY <1>2, <1>3, <1>4, <1>5 DEF MigrationInv

LEMMA GetObjectHolds ==
    ASSUME MigrationInv, GetObject
    PROVE  MigrationInv'
  <1>1. /\ UNCHANGED <<legacy, uid, objs, seen, seenCur, queued, kind, my, touched, late, steps>>
        /\ pc = "get" /\ pc' = "write" /\ got' = seen[kind] /\ gotCur' = seenCur[kind]
    BY DEF GetObject, userVars, objVars
  <1>2. LegacyTypes'
    BY <1>1 DEF MigrationInv, LegacyTypes
  <1>3. ObjectTypes'
    BY <1>1 DEF MigrationInv, ObjectTypes
  <1>4. CopiesCurrent'
    BY <1>1 DEF MigrationInv, ObjectTypes, CopiesCurrent
  <1>5. Existing'
    BY <1>1 DEF MigrationInv, ObjectTypes, Existing
  <1> QED
    BY <1>2, <1>3, <1>4, <1>5 DEF MigrationInv

(* After an object that was left or written comes the next one, or the     *)
(* end; after an error the whole reconcile is repeated.                    *)
LEMMA LeaveHolds ==
    ASSUME MigrationInv, LeaveObject
    PROVE  MigrationInv'
  <1>1. /\ UNCHANGED <<legacy, uid, objs, seen, seenCur, queued, my, got, gotCur, touched, steps>>
        /\ pc = "write" /\ got # None /\ late' = (late \/ ~gotCur)
        /\ IF kind = "provider" THEN pc' = "get" /\ kind' = "model"
           ELSE pc' = "idle" /\ UNCHANGED kind
    BY DEF LeaveObject, Needless, Continue, userVars, objVars
  <1>2. LegacyTypes'
    BY <1>1 DEF MigrationInv, LegacyTypes
  <1>3. ObjectTypes'
    BY <1>1 DEF MigrationInv, ObjectTypes, Kinds
  <1>4. CopiesCurrent'
    BY <1>1 DEF MigrationInv, CopiesCurrent
  <1>5. Existing'
    BY <1>1 DEF MigrationInv, ObjectTypes, Existing, Kinds
  <1> QED
    BY <1>2, <1>3, <1>4, <1>5 DEF MigrationInv

LEMMA FailHolds ==
    ASSUME MigrationInv, WriteObjectRefused \/ CallFails
    PROVE  MigrationInv'
  <1>1. /\ UNCHANGED <<legacy, uid, objs, seen, seenCur, kind, my, got, gotCur, touched, late>>
        /\ pc' = "idle" /\ queued' = TRUE /\ steps' \in Nat
    BY DEF WriteObjectRefused, CallFails, Retry, Step, userVars, objVars, MigrationInv, LegacyTypes
  <1>2. LegacyTypes' /\ ObjectTypes'
    BY <1>1 DEF MigrationInv, LegacyTypes, ObjectTypes
  <1>3. CopiesCurrent' /\ Existing'
    BY <1>1 DEF MigrationInv, CopiesCurrent, Existing
  <1> QED
    BY <1>2, <1>3 DEF MigrationInv

(* What WriteObject writes is an object of the migration's: a new one, or  *)
(* the one it has read, which is the current one, with its label.          *)
LEMMA Written ==
    ASSUME MigrationInv, WriteObject
    PROVE  /\ objs'[kind] \in Object /\ my \in Legacy /\ kind \in Kinds /\ Secure(my.spec.conn)
           /\ objs' = [objs EXCEPT ![kind] = objs'[kind]]
           /\ kind = "provider" => objs'[kind].conn = my.spec.conn
           /\ objs[kind] # None => /\ objs[kind].managed /\ objs'[kind].managed
                                   /\ objs'[kind].owner = objs[kind].owner
                                   /\ objs'[kind].notes = objs[kind].notes
  <1>1. /\ pc = "write" /\ ~Needless /\ Accepted
        /\ objs' = [objs EXCEPT ![kind] = IF got = None THEN Created(kind) ELSE Updated(kind, got)]
    BY DEF WriteObject, SetObject
  <1>2. Migratable(my) /\ kind \in Kinds /\ my \in Legacy /\ got \in Object \cup {None}
    BY <1>1 DEF MigrationInv, CopiesCurrent, Migratable, LegacyTypes, ObjectTypes
  <1>3. Secure(my.spec.conn)
    BY <1>2 DEF Migratable
  <1>4. objs'[kind] = IF got = None THEN Created(kind) ELSE Updated(kind, got)
    BY <1>1, <1>2 DEF MigrationInv, ObjectTypes
  <1>5. CASE got = None
    <2>1. objs'[kind] = Created(kind) /\ objs[kind] = None
      BY <1>1, <1>4, <1>5 DEF Accepted
    <2>2. kind = "provider" => Created(kind).conn = my.spec.conn
      BY DEF Created, ForwardConnectionAnnotations
    <2> QED
      BY <1>1, <1>2, <1>3, <1>4, <2>1, <2>2, CreatedType
  <1>6. CASE got # None
    <2>1. objs'[kind] = Updated(kind, got) /\ got = objs[kind] /\ got.managed
      BY <1>1, <1>4, <1>6 DEF Accepted, Needless, MigrationInv, CopiesCurrent
    <2>2. PICK o \in Object : o = got
      BY <1>2, <1>6
    <2>3. /\ Updated(kind, o) \in Object
          /\ Updated(kind, o).managed = o.managed /\ Updated(kind, o).owner = o.owner
          /\ Updated(kind, o).notes = o.notes
          /\ kind = "provider" => Updated(kind, o).conn = my.spec.conn
      BY <1>2, UpdatedType
    <2> QED
      BY <1>1, <1>2, <1>3, <1>4, <2>1, <2>2, <2>3
  <1> QED
    BY <1>5, <1>6

LEMMA WriteHolds ==
    ASSUME MigrationInv, WriteObject
    PROVE  MigrationInv'
  <1>1. /\ UNCHANGED <<legacy, uid, my, got, touched, late, seen>>
        /\ pc = "write" /\ seenCur' = [seenCur EXCEPT ![kind] = FALSE] /\ gotCur' = FALSE
    BY DEF WriteObject, SetObject, userVars
  <1>2. objs'[kind] \in Object /\ kind \in Kinds /\ objs' = [objs EXCEPT ![kind] = objs'[kind]]
    BY Written
  <1>3. objs'[kind] # None
    BY <1>2, NoneApart
  <1>4. /\ \/ kind = "provider" /\ pc' = "get" /\ kind' = "model"
           \/ pc' = "idle" /\ kind' = kind
        /\ queued' \in BOOLEAN /\ steps' \in Nat
    <2>1. steps \in Nat /\ queued \in BOOLEAN
      BY DEF MigrationInv, LegacyTypes
    <2>2. CASE Continue /\ UNCHANGED <<queued, steps>>
      BY <2>1, <2>2 DEF Continue
    <2>3. CASE Step /\ Retry
      BY <2>1, <2>3 DEF Step, Retry
    <2> QED
      BY <2>2, <2>3 DEF WriteObject
  <1>5. LegacyTypes'
    BY <1>1, <1>4 DEF MigrationInv, LegacyTypes
  <1>6. ObjectTypes'
    BY <1>1, <1>2, <1>4 DEF MigrationInv, ObjectTypes, Kinds
  <1>7. CopiesCurrent'
    BY <1>1, <1>2, <1>4 DEF MigrationInv, ObjectTypes, CopiesCurrent
  <1>8. \A k \in Kinds : objs[k] # None => objs'[k] # None
    BY <1>2, <1>3 DEF MigrationInv, ObjectTypes
  <1>9. objs'["model"] # None /\ ~touched => objs'["provider"] # None
    BY <1>1, <1>2, <1>3, <1>8 DEF MigrationInv, ObjectTypes, Existing, Kinds
  <1>10. Existing'
    BY <1>1, <1>2, <1>3, <1>4, <1>8, <1>9 DEF MigrationInv, Existing, Kinds
  <1> QED
    BY <1>5, <1>6, <1>7, <1>10 DEF MigrationInv

LEMMA MigrationInvariant == Spec => []MigrationInv
  <1>1. MigrationInv /\ [Next]_vars => MigrationInv'
    <2> SUFFICES ASSUME MigrationInv, [Next]_vars PROVE MigrationInv'
      OBVIOUS
    <2>1. CASE UNCHANGED vars
      BY <2>1 DEF vars, MigrationInv, LegacyTypes, ObjectTypes, CopiesCurrent, Existing
    <2>2. CASE Users
      BY <2>2, LegacyHolds, UserHolds DEF Users
    <2>3. CASE Reconcile \/ CallFails
      BY <2>3, ReadLegacyHolds, GetObjectHolds, LeaveHolds, WriteHolds, FailHolds DEF Reconcile
    <2>4. ASSUME NEW k \in Kinds, CollectGarbage(k) \/ SyncCache(k) PROVE MigrationInv'
      BY <2>4, UserHolds, SyncHolds
    <2> QED
      BY <2>1, <2>2, <2>3, <2>4 DEF Next
  <1> QED
    BY <1>1, InitHolds, PTL DEF Spec

-----------------------------------------------------------------------------
(* Objects, cache and worker keep their types: every vendor's name maps to *)
(* a format and a path of the new CRDs.                                    *)
THEOREM Types == Spec => []TypeOK
  <1>1. MigrationInv => TypeOK
    BY DEF MigrationInv, LegacyTypes, ObjectTypes, TypeOK
  <1> QED
    BY <1>1, MigrationInvariant, PTL

(* No reconcile overwrites an object a user has taken over, and the owner  *)
(* and the other annotations survive every write.                          *)
THEOREM KeepsUserChanges == Spec => UserChangesKept
  <1>1. MigrationInv => [WriteObject => \A k \in Kinds : objs[k] # None =>
            IF objs[k].managed
            THEN objs'[k].managed /\ objs'[k].owner = objs[k].owner /\ objs'[k].notes = objs[k].notes
            ELSE objs'[k] = objs[k]]_vars
    <2> SUFFICES ASSUME MigrationInv, WriteObject, NEW k \in Kinds, objs[k] # None
                 PROVE  IF objs[k].managed
                        THEN objs'[k].managed /\ objs'[k].owner = objs[k].owner /\ objs'[k].notes = objs[k].notes
                        ELSE objs'[k] = objs[k]
      OBVIOUS
    <2>1. CASE k = kind
      BY <2>1, Written
    <2>2. CASE k # kind
      <3>1. objs'[k] = objs[k]
        BY <2>2, Written DEF MigrationInv, ObjectTypes
      <3> QED
        BY <3>1
    <2> QED
      BY <2>1, <2>2
  <1> QED
    BY <1>1, MigrationInvariant, PTL DEF UserChangesKept

(* A provider the migration writes uses TLS, whatever was there before.    *)
THEOREM WritesTLS == Spec => MigratedOverTLS
  <1>1. MigrationInv => [WriteObject /\ kind = "provider" => Secure(objs'["provider"].conn)]_vars
    BY Written
  <1> QED
    BY <1>1, MigrationInvariant, PTL DEF MigratedOverTLS

(* A migrated model is never there without its provider, as long as nobody *)
(* else changes the objects.                                               *)
THEOREM ProviderComesFirst == Spec => []ProviderFirst
  <1>1. MigrationInv => ProviderFirst
    BY DEF MigrationInv, Existing, ProviderFirst
  <1> QED
    BY <1>1, MigrationInvariant, PTL
=============================================================================
