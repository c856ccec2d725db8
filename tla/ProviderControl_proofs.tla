----------------------- MODULE ProviderControl_proofs -----------------------
(***************************************************************************)
(* Proofs about ProviderControl, for any specs, faults and bounds.         *)
(*                                                                         *)
(* The argument rests on optimistic concurrency: a copy whose `current'    *)
(* flag is still set agrees with the API server (Copies), and Reconcile    *)
(* reaches a status write only with a copy that was not claimed, a child   *)
(* write only with a spec that was validated (Decided).                    *)
(***************************************************************************)
EXTENDS ProviderControl, TLAPS

ObjectTypes ==
    /\ obj \in Provider \cup {None} /\ cache \in Provider \cup {None}
    /\ cacheCur \in BOOLEAN /\ queued \in BOOLEAN
    /\ secretOK \in BOOLEAN /\ agcOnly \in BOOLEAN
    /\ env \in 0..MaxEnv

ChildTypes ==
    /\ child \in [Kinds -> Child \cup {None}] /\ seen \in [Kinds -> Child \cup {None}]
    /\ kind \in Kinds /\ got \in Child \cup {None} /\ gotCur \in BOOLEAN

LocalTypes ==
    /\ pc \in {"idle", "list", "secret", "apply", "write", "cleanup", "delete", "status"}
    /\ my \in Provider \cup {None} /\ myCur \in BOOLEAN /\ quiet \in BOOLEAN
    /\ want \in Phases /\ then \in {"idle", "retry", "secret"}
    /\ pc # "idle" => my # None

TypeInv == ObjectTypes /\ ChildTypes /\ LocalTypes

Copies ==
    /\ cacheCur => cache = obj
    /\ (myCur /\ pc # "idle") => obj # None /\ obj.claimed = my.claimed
    /\ (gotCur /\ pc \in {"write", "delete"}) => got = child[kind]

Decided ==
    /\ pc \in {"list", "secret", "apply", "write", "status"} => ~my.claimed
    /\ pc \in {"apply", "write"} => ~Plaintext(my.spec)

ControlInv == TypeInv /\ Copies /\ Decided /\ NoPlaintextTransport

-----------------------------------------------------------------------------
(* Every auth type of the CRD forbids plaintext.                           *)
LEMMA SecureMeansTLS == \A s \in Spec0 : SecureConnection(s) => ~Plaintext(s)
  BY DEF Spec0, AuthTypes, SecureConnection

(* The next kind is a kind, or the end.                                    *)
LEMMA NextKindType == \A k \in Kinds : NextKind[k] \in Kinds \cup {None}
  BY DEF Kinds, NextKind

(* What Reconcile builds from a valid spec is an object of IPP's.          *)
LEMMA DesiredType == \A s \in Spec0 : Desired(s) \in Child
  BY DEF Desired, Child, Managers

(* A step on a counter that is bounded.                                    *)
LEMMA EnvType == env \in 0..MaxEnv /\ EnvStep => env' \in 0..MaxEnv
  BY BoundsAssumption DEF EnvStep

(* A change of the provider on the API server by users or AIGC.            *)
LEMMA ObjectStep ==
  ASSUME ControlInv, EnvStep, NEW o \in Provider \cup {None}, ChangeObject(o)
  PROVE  ControlInv'
<1> USE DEF ControlInv, ChangeObject, Writes
<1>1. ObjectTypes'
  BY EnvType DEF TypeInv, ObjectTypes
<1>2. ChildTypes' /\ LocalTypes'
  BY DEF TypeInv, ChildTypes, LocalTypes
<1>3. Copies' /\ Decided' /\ NoPlaintextTransport'
  BY DEF Copies, Decided, NoPlaintextTransport
<1> QED
  BY <1>1, <1>2, <1>3 DEF TypeInv

(* A change of a created object by AIGC.                                   *)
LEMMA ChildStep ==
  ASSUME ControlInv, EnvStep, NEW k \in Kinds, NEW c \in Child \cup {None},
         c # None => c.label # "ipp",
         ChangeChild(k, c)
  PROVE  ControlInv'
<1> USE DEF ControlInv, ChangeChild, informers
<1>1. ObjectTypes' /\ LocalTypes'
  BY EnvType DEF TypeInv, ObjectTypes, LocalTypes
<1>2. ChildTypes'
  BY DEF TypeInv, ChildTypes
<1>3. Copies' /\ Decided'
  BY DEF Copies, Decided, TypeInv, ChildTypes
<1>4. NoPlaintextTransport'
  BY DEF NoPlaintextTransport, TypeInv, ChildTypes
<1> QED
  BY <1>1, <1>2, <1>3, <1>4 DEF TypeInv

(* Every step of users and AIGC keeps the invariant.                       *)
LEMMA EnvironmentNext == ControlInv /\ Environment => ControlInv'
<1> SUFFICES ASSUME ControlInv, Environment PROVE ControlInv'
  OBVIOUS
<1>t. obj \in Provider \cup {None} /\ child \in [Kinds -> Child \cup {None}]
  BY DEF ControlInv, TypeInv, ObjectTypes, ChildTypes
<1>1. CASE EditSpec
  <2>1. PICK s \in Specs : obj # None /\ EnvStep /\ ChangeObject([obj EXCEPT !.spec = s])
    BY <1>1 DEF EditSpec
  <2>2. [obj EXCEPT !.spec = s] \in Provider
    BY <1>t, <2>1, SpecsAssumption DEF Provider
  <2> QED
    BY <2>1, <2>2, ObjectStep
<1>2. CASE DeleteProvider
  <2>1. obj # None => [obj EXCEPT !.deleting = TRUE] \in Provider
    BY <1>t DEF Provider
  <2> QED
    BY <1>2, <2>1, ObjectStep DEF DeleteProvider
<1>3. CASE Claim
  <2>1. obj # None => [obj EXCEPT !.claimed = TRUE] \in Provider
    BY <1>t DEF Provider
  <2> QED
    BY <1>3, <2>1, ObjectStep DEF Claim
<1>4. CASE Release
  <2>1. obj # None => [obj EXCEPT !.claimed = FALSE] \in Provider
    BY <1>t DEF Provider
  <2> QED
    BY <1>4, <2>1, ObjectStep DEF Release
<1>5. CASE AIGCStatus
  <2>1. PICK p \in {"Pending", "Ready", "Failed"} :
          obj # None /\ EnvStep /\ ChangeObject([obj EXCEPT !.phase = p])
    BY <1>5 DEF AIGCStatus
  <2>2. [obj EXCEPT !.phase = p] \in Provider
    BY <1>t, <2>1 DEF Provider, Phases
  <2> QED
    BY <2>1, <2>2, ObjectStep
<1>6. ASSUME NEW k \in Kinds, AIGCApply(k) PROVE ControlInv'
  <2>1. CASE child[k] = None
    <3> DEFINE c == [spec |-> obj.spec, label |-> "aigc"]
    <3>1. EnvStep /\ ChangeChild(k, c) /\ obj # None
      BY <1>6, <2>1 DEF AIGCApply
    <3>2. c \in Child /\ c.label # "ipp"
      BY <1>t, <3>1 DEF Child, Managers, Provider
    <3> QED
      BY <3>1, <3>2, ChildStep
  <2>2. CASE child[k] # None
    <3> DEFINE c == [child[k] EXCEPT !.label = "aigc"]
    <3>1. EnvStep /\ ChangeChild(k, c)
      BY <1>6, <2>2 DEF AIGCApply
    <3>2. c \in Child /\ c.label # "ipp"
      BY <1>t, <2>2 DEF Child, Managers
    <3> QED
      BY <3>1, <3>2, ChildStep
  <2> QED
    BY <2>1, <2>2
<1>7. ASSUME NEW k \in Kinds, AIGCRemove(k) PROVE ControlInv'
  BY <1>7, ChildStep DEF AIGCRemove
<1>8. CASE SecretChange
  BY <1>8, EnvType DEF SecretChange, informers, registers, ControlInv, TypeInv, ObjectTypes, ChildTypes,
                       LocalTypes, Copies, Decided, NoPlaintextTransport
<1>9. CASE ModelChange
  BY <1>9, EnvType DEF ModelChange, informers, registers, ControlInv, TypeInv, ObjectTypes, ChildTypes,
                       LocalTypes, Copies, Decided, NoPlaintextTransport
<1> QED
  BY <1>1, <1>2, <1>3, <1>4, <1>5, <1>6, <1>7, <1>8, <1>9 DEF Environment

(* The informers only change their copies.                                 *)
LEMMA InformersNext == ControlInv /\ Informers => ControlInv'
<1> SUFFICES ASSUME ControlInv, Informers PROVE ControlInv'
  OBVIOUS
<1>1. CASE SyncProvider
  BY <1>1 DEF SyncProvider, apiServer, registers, ControlInv, TypeInv, ObjectTypes, ChildTypes,
              LocalTypes, Copies, Decided, NoPlaintextTransport
<1>2. ASSUME NEW k \in Cached, SyncChild(k) PROVE ControlInv'
  BY <1>2 DEF SyncChild, Cached, Kinds, apiServer, registers, ControlInv, TypeInv, ObjectTypes,
              ChildTypes, LocalTypes, Copies, Decided, NoPlaintextTransport
<1> QED
  BY <1>1, <1>2 DEF Informers

-----------------------------------------------------------------------------
(* The steps of Reconcile.                                                 *)

(* A terminal setStatus writes a phase or ends the reconcile.              *)
LEMMA SetStatusType ==
  ASSUME NEW phase \in Phases, NEW l \in {"idle", "retry"}, SetStatus(phase, l),
         queued \in BOOLEAN, want \in Phases, then \in {"idle", "retry", "secret"}
  PROVE  /\ pc' \in {"status", "idle"} /\ queued' \in BOOLEAN
         /\ want' \in Phases /\ then' \in {"idle", "retry", "secret"}
  BY DEF SetStatus, Done, Goto

(* Going on to the next kind, or ending as `end' says.                     *)
LEMMA AdvanceType ==
  ASSUME NEW l, NEW end \in BOOLEAN, Advance(l, end), kind \in Kinds
  PROVE  /\ kind' \in Kinds
         /\ (pc' = l /\ UNCHANGED <<queued, want, then>>) \/ end
  BY NextKindType DEF Advance, Goto

(* After a status write the reconcile ends or goes on to the Secret.       *)
LEMMA AfterStatusType ==
  ASSUME AfterStatus, queued \in BOOLEAN, then \in {"idle", "retry", "secret"}
  PROVE  pc' \in {"idle", "secret"} /\ queued' \in BOOLEAN
  BY DEF AfterStatus, Done, Goto

(* The steps that read.                                                    *)
LEMMA ReadsNext ==
  ControlInv /\ (GetProvider \/ ListModels \/ ListModelsFails \/ Validate \/ GetChild) => ControlInv'
<1> SUFFICES ASSUME ControlInv,
                    GetProvider \/ ListModels \/ ListModelsFails \/ Validate \/ GetChild
             PROVE  ControlInv'
  OBVIOUS
<1> USE DEF ControlInv, TypeInv
<1>n. NoPlaintextTransport'
  <2>1. UNCHANGED child
    BY DEF GetProvider, ListModels, ListModelsFails, Validate, GetChild, apiServer
  <2> QED
    BY <2>1 DEF NoPlaintextTransport
<1>1. CASE GetProvider
  <2>0. UNCHANGED <<apiServer, informers, quiet, got, gotCur, want, then, env>> /\ queued' = FALSE
    BY <1>1 DEF GetProvider
  <2>3. ObjectTypes'
    BY <2>0 DEF apiServer, informers, ObjectTypes
  <2>4. ChildTypes'
    <3>1. kind' = "Service"
      BY <1>1 DEF GetProvider
    <3> QED
      BY <2>0, <3>1 DEF apiServer, informers, ChildTypes, Kinds
  <2>5. LocalTypes'
    <3>1. my' = cache /\ myCur' = cacheCur
      BY <1>1 DEF GetProvider
    <3>2. pc' \in {"idle", "cleanup", "list"}
      BY <1>1 DEF GetProvider, Goto
    <3>3. pc' # "idle" => cache # None
      BY <1>1 DEF GetProvider, Goto
    <3> QED
      BY <2>0, <3>1, <3>2, <3>3 DEF LocalTypes, ObjectTypes, ChildTypes
  <2>1. ObjectTypes' /\ ChildTypes' /\ LocalTypes'
    BY <2>3, <2>4, <2>5
  <2>2. Copies' /\ Decided'
    BY <1>1 DEF GetProvider, Goto, apiServer, informers, Copies, Decided
  <2> QED
    BY <1>n, <2>1, <2>2
<1>2. CASE ListModels
  <2>0. UNCHANGED <<apiServer, informers, queued, my, myCur, kind, got, gotCur, env>>
        /\ quiet' = agcOnly /\ pc = "list"
    BY <1>2 DEF ListModels
  <2>3. ObjectTypes'
    BY <2>0 DEF apiServer, informers, ObjectTypes
  <2>4. ChildTypes'
    BY <2>0 DEF apiServer, informers, ChildTypes
  <2>5. LocalTypes'
    <3>1. pc' \in {"status", "secret"} /\ want' \in Phases /\ then' \in {"idle", "retry", "secret"}
      BY <1>2 DEF ListModels, Goto, LocalTypes, Phases
    <3> QED
      BY <2>0, <3>1 DEF LocalTypes, ObjectTypes
  <2>1. ObjectTypes' /\ ChildTypes' /\ LocalTypes'
    BY <2>3, <2>4, <2>5
  <2>2. Copies' /\ Decided'
    BY <1>2 DEF ListModels, Goto, apiServer, informers, Copies, Decided
  <2> QED
    BY <1>n, <2>1, <2>2
<1>3. CASE ListModelsFails
  <2>1. ObjectTypes' /\ ChildTypes' /\ LocalTypes'
    BY <1>3, EnvType DEF ListModelsFails, Fails, Done, Goto, apiServer, informers, registers,
                         ObjectTypes, ChildTypes, LocalTypes
  <2>2. Copies' /\ Decided'
    BY <1>3 DEF ListModelsFails, Fails, Done, Goto, apiServer, informers, registers, Copies, Decided
  <2> QED
    BY <1>n, <2>1, <2>2
<1>4. CASE Validate
  <2>0. UNCHANGED <<apiServer, informers, my, myCur, quiet, kind, got, gotCur, env>> /\ pc = "secret"
    BY <1>4 DEF Validate
  <2>1. my \in Provider /\ my.spec \in Spec0
    BY <2>0 DEF LocalTypes, Provider
  <2>2. \/ \E l \in {"idle", "retry"} : SetStatus("Failed", l)
        \/ /\ pc' = "apply" /\ UNCHANGED <<queued, want, then>>
           /\ SecureConnection(my.spec)
    BY <1>4 DEF Validate, Goto, ObjectTypes
  <2>3. \/ pc' \in {"status", "idle"}
        \/ pc' = "apply" /\ ~Plaintext(my.spec)
    BY <2>1, <2>2, SetStatusType, SecureMeansTLS DEF Phases, ObjectTypes, LocalTypes
  <2>4. queued' \in BOOLEAN /\ want' \in Phases /\ then' \in {"idle", "retry", "secret"}
    BY <2>2, SetStatusType DEF Phases, ObjectTypes, LocalTypes
  <2>5. ObjectTypes' /\ ChildTypes' /\ LocalTypes'
    BY <2>0, <2>1, <2>3, <2>4 DEF apiServer, informers, ObjectTypes, ChildTypes, LocalTypes
  <2>6. Copies' /\ Decided'
    BY <2>0, <2>3 DEF apiServer, informers, Copies, Decided
  <2> QED
    BY <1>n, <2>5, <2>6
<1>5. CASE GetChild
  <2>1. ObjectTypes' /\ ChildTypes' /\ LocalTypes'
    BY <1>5 DEF GetChild, Goto, apiServer, informers, ObjectTypes, ChildTypes, LocalTypes
  <2>2. Copies' /\ Decided'
    BY <1>5 DEF GetChild, Goto, apiServer, informers, Copies, Decided
  <2> QED
    BY <1>n, <2>1, <2>2
<1> QED
  BY <1>1, <1>2, <1>3, <1>4, <1>5

(* The steps that create, update or delete an object.                      *)
LEMMA ChildrenNext ==
  ControlInv /\ (WriteChild \/ WriteChildFails \/ DeleteChild \/ LeaveChild \/ DeleteChildFails)
      => ControlInv'
<1> SUFFICES ASSUME ControlInv,
                    WriteChild \/ WriteChildFails \/ DeleteChild \/ LeaveChild \/ DeleteChildFails
             PROVE  ControlInv'
  OBVIOUS
<1> USE DEF ControlInv, TypeInv
<1>t. /\ kind \in Kinds /\ queued \in BOOLEAN /\ want \in Phases /\ then \in {"idle", "retry", "secret"}
      /\ my \in Provider /\ my.spec \in Spec0 /\ "Failed" \in Phases /\ "Ready" \in Phases
  BY DEF ObjectTypes, ChildTypes, LocalTypes, Provider, Phases, WriteChild, WriteChildFails, DeleteChild,
         LeaveChild, DeleteChildFails
<1>1. CASE WriteChild
  <2>0. /\ pc = "write" /\ gotCur' = FALSE
        /\ UNCHANGED <<obj, informers, secretOK, agcOnly, my, myCur, quiet, got, env>>
    BY <1>1 DEF WriteChild
  <2>1. kind' \in Kinds /\ ((pc' = "apply" /\ UNCHANGED <<queued, want, then>>) \/ SetStatus("Ready", "idle"))
    <3>1. SetStatus("Ready", "idle") \in BOOLEAN
      BY DEF SetStatus, Done, Goto
    <3> QED
      BY <1>1, <1>t, <3>1, AdvanceType DEF WriteChild
  <2>2. /\ pc' \in {"apply", "status", "idle"} /\ queued' \in BOOLEAN
        /\ want' \in Phases /\ then' \in {"idle", "retry", "secret"}
    BY <1>t, <2>1, SetStatusType
  <2>3. \E c \in Child : /\ c.label = "ipp" /\ ~Plaintext(c.spec)
                         /\ child' \in {child, [child EXCEPT ![kind] = c]}
    <3> DEFINE c == Desired(my.spec)
    <3>1. c \in Child /\ c.label = "ipp" /\ c.spec = my.spec
      BY <1>t, DesiredType DEF Desired, Child, ChildTypes
    <3>2. ~Plaintext(my.spec)
      BY <2>0 DEF Decided
    <3>3. child' \in {child, [child EXCEPT ![kind] = c]}
      BY <1>1 DEF WriteChild
    <3> QED
      BY <3>1, <3>2, <3>3
  <2>4. ObjectTypes' /\ ChildTypes' /\ LocalTypes'
    BY <1>t, <2>0, <2>1, <2>2, <2>3 DEF informers, ObjectTypes, ChildTypes, LocalTypes
  <2>5. Copies' /\ Decided'
    BY <2>0, <2>2 DEF informers, Copies, Decided
  <2>6. NoPlaintextTransport'
    BY <1>t, <2>3 DEF NoPlaintextTransport, ChildTypes
  <2> QED
    BY <2>4, <2>5, <2>6
<1>2. CASE WriteChildFails
  <2>0. /\ pc = "write" /\ SetStatus("Failed", "retry") /\ (UNCHANGED env \/ EnvStep)
        /\ UNCHANGED <<apiServer, informers, my, myCur, quiet, kind, got, gotCur>>
    BY <1>2 DEF WriteChildFails, Fails
  <2>1. /\ pc' \in {"status", "idle"} /\ queued' \in BOOLEAN
        /\ want' \in Phases /\ then' \in {"idle", "retry", "secret"}
    BY <1>t, <2>0, SetStatusType
  <2>2. ObjectTypes' /\ ChildTypes' /\ LocalTypes'
    BY <1>t, <2>0, <2>1, EnvType DEF apiServer, informers, ObjectTypes, ChildTypes, LocalTypes
  <2>3. Copies' /\ Decided' /\ NoPlaintextTransport'
    BY <2>0, <2>1 DEF apiServer, informers, Copies, Decided, NoPlaintextTransport
  <2> QED
    BY <2>2, <2>3
<1>e. (Done(FALSE) /\ UNCHANGED <<want, then>>) \in BOOLEAN
  OBVIOUS
<1>3. CASE DeleteChild
  <2>0. /\ pc = "delete" /\ gotCur' = FALSE /\ child' = [child EXCEPT ![kind] = None]
        /\ UNCHANGED <<obj, informers, secretOK, agcOnly, my, myCur, quiet, got, env>>
    BY <1>3 DEF DeleteChild
  <2>1. /\ kind' \in Kinds /\ UNCHANGED <<want, then>>
        /\ pc' \in {"cleanup", "idle"} /\ queued' \in BOOLEAN
    BY <1>3, <1>t, <1>e, AdvanceType DEF DeleteChild, Done, Goto
  <2>2. ObjectTypes' /\ ChildTypes' /\ LocalTypes'
    BY <1>t, <2>0, <2>1 DEF informers, ObjectTypes, ChildTypes, LocalTypes
  <2>3. Copies' /\ Decided' /\ NoPlaintextTransport'
    BY <1>t, <2>0, <2>1 DEF informers, Copies, Decided, NoPlaintextTransport, ChildTypes
  <2> QED
    BY <2>2, <2>3
<1>4. CASE LeaveChild
  <2>0. pc = "delete" /\ UNCHANGED <<apiServer, informers, my, myCur, quiet, got, gotCur, env>>
    BY <1>4 DEF LeaveChild
  <2>1. /\ kind' \in Kinds /\ UNCHANGED <<want, then>>
        /\ pc' \in {"cleanup", "idle"} /\ queued' \in BOOLEAN
    BY <1>4, <1>t, <1>e, AdvanceType DEF LeaveChild, Done, Goto
  <2>2. ObjectTypes' /\ ChildTypes' /\ LocalTypes'
    BY <1>t, <2>0, <2>1 DEF apiServer, informers, ObjectTypes, ChildTypes, LocalTypes
  <2>3. Copies' /\ Decided' /\ NoPlaintextTransport'
    BY <2>0, <2>1 DEF apiServer, informers, Copies, Decided, NoPlaintextTransport
  <2> QED
    BY <2>2, <2>3
<1>5. CASE DeleteChildFails
  <2>0. /\ pc = "delete" /\ pc' = "idle" /\ queued' \in BOOLEAN /\ (UNCHANGED env \/ EnvStep)
        /\ UNCHANGED <<apiServer, informers, registers>>
    BY <1>5, <1>t DEF DeleteChildFails, Fails, Done, Goto
  <2>2. ObjectTypes' /\ ChildTypes' /\ LocalTypes'
    BY <1>t, <2>0, EnvType DEF apiServer, informers, registers, ObjectTypes, ChildTypes, LocalTypes
  <2>3. Copies' /\ Decided' /\ NoPlaintextTransport'
    BY <2>0 DEF apiServer, informers, registers, Copies, Decided, NoPlaintextTransport
  <2> QED
    BY <2>2, <2>3
<1> QED
  BY <1>1, <1>2, <1>3, <1>4, <1>5

(* The status writes.                                                      *)
LEMMA StatusNext == ControlInv /\ (WriteStatus \/ WriteStatusFails) => ControlInv'
<1> SUFFICES ASSUME ControlInv, WriteStatus \/ WriteStatusFails PROVE ControlInv'
  OBVIOUS
<1> USE DEF ControlInv, TypeInv
<1>t. /\ pc = "status" /\ my' = [my EXCEPT !.phase = want] /\ my \in Provider
      /\ UNCHANGED <<child, seen, secretOK, agcOnly, cache, myCur, quiet, kind, got, gotCur, want, then>>
  BY DEF WriteStatus, WriteStatusFails, LocalTypes, apiServer, informers
<1>1. pc' \in {"idle", "secret"} /\ queued' \in BOOLEAN
  BY AfterStatusType DEF WriteStatus, WriteStatusFails, ObjectTypes, LocalTypes
<1>2. my' \in Provider /\ my'.claimed = my.claimed /\ my'.spec = my.spec /\ ~my.claimed
  BY <1>t DEF Provider, LocalTypes, Decided
<1>3. ChildTypes' /\ LocalTypes' /\ Decided' /\ NoPlaintextTransport'
  BY <1>t, <1>1, <1>2, NoneAssumption DEF ChildTypes, LocalTypes, Decided, NoPlaintextTransport
<1>4. CASE WriteStatus
  <2>1. /\ myCur /\ obj \in Provider /\ obj' = [obj EXCEPT !.phase = want] /\ UNCHANGED env
        /\ cacheCur' = (cacheCur /\ obj.phase = want)
    BY <1>4, <1>t DEF WriteStatus, Copies, ObjectTypes
  <2>2. obj' \in Provider /\ obj'.claimed = obj.claimed /\ (obj.phase = want => obj' = obj)
    BY <2>1 DEF Provider, LocalTypes
  <2>3. ObjectTypes' /\ Copies'
    BY <1>t, <1>1, <1>2, <2>1, <2>2, NoneAssumption DEF ObjectTypes, Copies
  <2> QED
    BY <1>3, <2>3
<1>5. CASE WriteStatusFails
  <2>1. UNCHANGED <<obj, cacheCur>> /\ (UNCHANGED env \/ EnvStep)
    BY <1>5 DEF WriteStatusFails, Fails, apiServer, informers
  <2>2. ObjectTypes' /\ Copies'
    BY <1>t, <1>1, <1>2, <2>1, EnvType DEF ObjectTypes, Copies
  <2> QED
    BY <1>3, <2>2
<1> QED
  BY <1>4, <1>5

(* Every step keeps the invariant.                                         *)
LEMMA ControlNext == ControlInv /\ [Next]_vars => ControlInv'
<1> SUFFICES ASSUME ControlInv, [Next]_vars PROVE ControlInv'
  OBVIOUS
<1>1. CASE UNCHANGED vars
  BY <1>1 DEF vars, ControlInv, TypeInv, ObjectTypes, ChildTypes, LocalTypes, Copies, Decided,
              NoPlaintextTransport
<1> QED
  BY <1>1, EnvironmentNext, InformersNext, ReadsNext, ChildrenNext, StatusNext DEF Next, Reconcile

(* The invariant holds for a provider that was just created.               *)
LEMMA ControlInit == Init => ControlInv
<1> SUFFICES ASSUME Init PROVE ControlInv
  OBVIOUS
<1>1. obj \in Provider
  BY SpecsAssumption DEF Init, Provider, Phases
<1>2. ObjectTypes
  <2>1. env \in 0..MaxEnv
    <3>1. MaxEnv \in Nat
      BY BoundsAssumption
    <3>2. env = MaxEnv
      BY DEF Init
    <3> QED
      BY <3>1, <3>2
  <2>2. cache = obj /\ cacheCur = TRUE /\ queued = TRUE /\ secretOK \in BOOLEAN /\ agcOnly \in BOOLEAN
    BY DEF Init
  <2> QED
    BY <1>1, <2>1, <2>2 DEF ObjectTypes
<1>4. ChildTypes
  BY DEF Init, ChildTypes, Kinds
<1>5. LocalTypes
  BY DEF Init, LocalTypes, Phases
<1>3. Copies /\ Decided /\ NoPlaintextTransport
  BY DEF Init, Copies, Decided, NoPlaintextTransport
<1> QED
  BY <1>2, <1>3, <1>4, <1>5 DEF ControlInv, TypeInv

(* The invariant holds always.                                             *)
LEMMA ControlAlways == Spec => []ControlInv
  BY ControlInit, ControlNext, PTL DEF Spec

(* The state of the controller is always well typed.                       *)
THEOREM ControlTyped == Spec => []TypeOK
<1>1. ControlInv => TypeOK
  BY DEF ControlInv, TypeInv, ObjectTypes, ChildTypes, LocalTypes, TypeOK
<1> QED
  BY ControlAlways, <1>1, PTL

(* No object with IPP's label ever disables TLS.                           *)
THEOREM TransportIsTLS == Spec => []NoPlaintextTransport
<1>1. ControlInv => NoPlaintextTransport
  BY DEF ControlInv
<1> QED
  BY ControlAlways, <1>1, PTL

(* A status write never takes effect on a provider AIGC has claimed.       *)
THEOREM ClaimedStatusKept == Spec => NoStatusWhenClaimed
<1>1. ControlInv => [WriteStatus => ~obj.claimed]_vars
  BY DEF ControlInv, Copies, Decided, WriteStatus
<1> QED
  BY ControlAlways, <1>1, PTL DEF NoStatusWhenClaimed

(* The handoff only ever deletes objects that carry IPP's label.           *)
THEOREM HandoffKeepsForeign == Spec => OnlyOwnLabelDeleted
<1>1. ControlInv => [DeleteChild /\ child[kind] # None => child[kind].label = "ipp"]_vars
  BY DEF ControlInv, Copies, DeleteChild
<1> QED
  BY ControlAlways, <1>1, PTL DEF OnlyOwnLabelDeleted
=============================================================================
