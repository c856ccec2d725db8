-------------------------- MODULE OriginLoop_proofs --------------------------
(***************************************************************************)
(* Proofs about OriginLoop, for any clusters, names and references.        *)
(*                                                                         *)
(* The argument: between the chains the header, and inside a standard      *)
(* chain the captured value, is the marker's name until a hop loses it     *)
(* (MarkCarried), so the marker recognises the request; and without a      *)
(* header from the client the only name the request can carry is that of   *)
(* a cluster that has sent it on (NameExplained).                          *)
(***************************************************************************)
EXTENDS OriginLoop, TLAPS

(* Where captured values and headers may be, and which clusters run which  *)
(* chain.                                                                  *)
ChainShape ==
    /\ stage \in {"guard", "pre", "pick", "post"} => captured = ""
    /\ stage = "resolve" => origin = ""
    /\ stage \in {"guard", "resolve"} => at \notin Hubs
    /\ stage \in {"pre", "pick", "post"} => at \in Hubs
    /\ stage # "done" => outcome = "travelling"

MarkCarried ==
    (marker # None /\ ~lost /\ stage # "done") => Name(marker) # "" /\ Origin = Name(marker)

NameExplained ==
    (Trim[client] = "" /\ ~early /\ stage # "done" /\ Origin # "") =>
        marker \in senders /\ Origin = Name(marker)

LoopInv == /\ TypeOK /\ ChainShape
           /\ MarkCarried /\ MarkerSendsOnce
           /\ NameExplained /\ OnlyLoopsRejected
           /\ OriginKeptFromProviders

-----------------------------------------------------------------------------
(* Names and origins are header values, and trimmed already.               *)
LEMMA NameType == \A c \in Clusters : Name(c) \in Texts /\ Trim[Name(c)] = Name(c)
  BY TextsAssumption, FoldAssumption DEF Name

(* What originCluster returns is a trimmed header value.                   *)
LEMMA OriginType == TypeOK => Origin \in Texts /\ Trim[Origin] = Origin
  BY TextsAssumption, FoldAssumption DEF TypeOK, Origin

(* The header a selected reference leaves is a header value.               *)
LEMMA RestoreType ==
  ASSUME TypeOK, NEW ref
  PROVE  RestoreOrMarkOrigin(ref) \in Texts
  BY NameType, OriginType DEF RestoreOrMarkOrigin, TypeOK

(* Every step keeps the types, one case per action.                        *)
LEMMA TypeNext == TypeOK /\ [Next]_vars => TypeOK'
<1> SUFFICES ASSUME TypeOK, [Next]_vars PROVE TypeOK'
  OBVIOUS
<1> USE DEF TypeOK, Stages, Outcomes, ghosts
<1>1. CASE Guard
  BY <1>1, TextsAssumption DEF Guard
<1>2. CASE NotFound
  BY <1>2 DEF NotFound, End
<1>3. CASE RejectLoop
  BY <1>3 DEF RejectLoop, End
<1>4. CASE Propose
  <2>1. PICK held \in SUBSET Eligible : subset' = {ref.to : ref \in held}
    BY <1>4 DEF Propose
  <2>2. \A ref \in held : ref.to \in Destinations
    <3>1. Refs[at] \subseteq Ref
      BY RefsAssumption
    <3> QED
      BY <3>1 DEF Eligible, Ref
  <2>3. subset' \subseteq Destinations
    BY <2>1, <2>2
  <2> QED
    BY <1>4, <2>3 DEF Propose, End
<1>5. CASE BadRequest
  BY <1>5 DEF BadRequest, End
<1>6. CASE TransformBeforePick
  <2>1. PICK ref \in Refs[at] : Selects(ref)
    BY <1>6 DEF TransformBeforePick
  <2>2. origin' \in Texts /\ marker' \in Clusters \cup {None} /\ lost' \in BOOLEAN /\ again' \in BOOLEAN
    BY <2>1, RestoreType DEF Selects
  <2> QED
    BY <1>6, <2>2 DEF TransformBeforePick
<1>7. CASE Forward
  <2>1. PICK ref \in Refs[at] :
          /\ Selects(ref)
          /\ IF ref.to = ThirdParty
             THEN End("provider") /\ UNCHANGED <<at, captured, dest, senders>>
             ELSE /\ at' = ref.to
                  /\ stage' = Entry(ref.to)
                  /\ captured' = ""
                  /\ dest' \in {dest, None}
                  /\ senders' = senders \cup {at}
                  /\ UNCHANGED outcome
    BY <1>7 DEF Forward
  <2>2. origin' \in Texts /\ marker' \in Clusters \cup {None} /\ lost' \in BOOLEAN /\ again' \in BOOLEAN
    BY <2>1, RestoreType DEF Selects
  <2>3. ref.to \in Destinations
    <3>1. ref \in Ref
      BY RefsAssumption
    <3> QED
      BY <3>1 DEF Ref
  <2>4. CASE ref.to = ThirdParty
    BY <1>7, <2>1, <2>2, <2>4 DEF Forward, End
  <2>5. CASE ref.to # ThirdParty
    BY <1>7, <2>1, <2>2, <2>3, <2>5, TextsAssumption DEF Forward, Entry, Destinations
  <2> QED
    BY <2>4, <2>5
<1>8. CASE PickEndpoint
  BY <1>8, TextsAssumption DEF PickEndpoint
<1>9. CASE UNCHANGED vars
  BY <1>9 DEF vars
<1> QED
  BY <1>1, <1>2, <1>3, <1>4, <1>5, <1>6, <1>7, <1>8, <1>9 DEF Next

(* A selection made without a loop: what it does to the header, and to     *)
(* the ghosts, in terms of the origin the chain saw.                       *)
LEMMA SelectStep ==
  ASSUME TypeOK, MarkCarried, MarkerSendsOnce, stage \in {"resolve", "pre", "post"},
         NEW ref, Selects(ref)
  PROVE  /\ again' => lost'
         /\ marker' # None /\ ~lost' => /\ Name(marker') # ""
                                        /\ origin' = Name(marker')
<1> USE DEF Selects
<1>1. CASE MarksOrigin(ref)
  <2>1. marker = None \/ lost
    BY <1>1 DEF MarkCarried, MarksOrigin
  <2>2. ~again'
    BY <1>1, <2>1, ClustersAssumption DEF MarkerSendsOnce, TypeOK, Destinations
  <2>3. origin' = Name(marker') /\ Name(marker') # ""
    BY <1>1 DEF MarksOrigin, RestoreOrMarkOrigin
  <2> QED
    BY <2>2, <2>3
<1>2. CASE ~MarksOrigin(ref)
  <2>1. marker' = marker /\ lost' = (lost \/ (marker # None /\ ~ShouldInjectOrigin(ref)))
    BY <1>2 DEF TypeOK
  <2>2. ASSUME marker # None, ~lost PROVE at # marker /\ Origin # "" /\ Origin = Name(marker)
    BY <2>2 DEF MarkCarried, LoopDetected
  <2>3. again' => lost'
    BY <1>2, <2>1, <2>2, ClustersAssumption DEF MarkerSendsOnce, TypeOK, Destinations
  <2>4. ASSUME marker' # None, ~lost' PROVE Name(marker') # "" /\ origin' = Name(marker')
    BY <1>2, <2>1, <2>2, <2>4 DEF RestoreOrMarkOrigin
  <2> QED
    BY <2>3, <2>4
<1> QED
  BY <1>1, <1>2

-----------------------------------------------------------------------------
(* Every step keeps the invariant, one case per action.                    *)
LEMMA LoopNext == LoopInv /\ [Next]_vars => LoopInv'
<1> SUFFICES ASSUME LoopInv, [Next]_vars PROVE LoopInv'
  OBVIOUS
<1>t. TypeOK /\ TypeOK'
  BY TypeNext DEF LoopInv
<1>o. Origin \in Texts /\ Trim[Origin] = Origin /\ Trim[""] = ""
  BY <1>t, OriginType, FoldAssumption
<1> SUFFICES /\ ChainShape' /\ MarkCarried' /\ MarkerSendsOnce'
             /\ NameExplained' /\ OnlyLoopsRejected' /\ OriginKeptFromProviders'
  BY <1>t DEF LoopInv
<1> USE DEF LoopInv
<1>1. CASE Guard
  <2>1. Origin' = Origin
    BY <1>1, <1>o DEF Guard, Origin, ChainShape
  <2> QED
    BY <1>1, <2>1 DEF Guard, ghosts, ChainShape, MarkCarried, MarkerSendsOnce, NameExplained,
                      OnlyLoopsRejected, OriginKeptFromProviders
<1>2. CASE NotFound
  BY <1>2 DEF NotFound, End, ghosts, ChainShape, MarkCarried, MarkerSendsOnce, NameExplained,
              OnlyLoopsRejected, OriginKeptFromProviders
<1>3. CASE RejectLoop
  <2>1. stage # "done" /\ stage' = "done" /\ outcome' = "rejected" /\ UNCHANGED <<at, ghosts>>
    BY <1>3 DEF RejectLoop, Resolving, End
  <2>2. ASSUME Trim[client] = "", ~early PROVE at \in senders
    <3>1. marker \in senders /\ Origin = Name(marker) /\ Name(at) # ""
          /\ Fold[Origin] = Fold[Name(at)]
      BY <1>3, <2>1, <2>2 DEF RejectLoop, LoopDetected, NameExplained
    <3>2. marker = at
      BY <1>t, <3>1, NamesAssumption DEF TypeOK
    <3> QED
      BY <3>1, <3>2
  <2> QED
    BY <2>1, <2>2 DEF ghosts, ChainShape, MarkCarried, MarkerSendsOnce, NameExplained,
                      OnlyLoopsRejected, OriginKeptFromProviders
<1>4. CASE Propose
  <2>1. stage # "done" /\ UNCHANGED <<at, origin, captured, ghosts>>
    BY <1>4 DEF Propose, Resolving
  <2>2. Origin' = Origin
    BY <2>1 DEF Origin
  <2>3. \/ stage = "pre" /\ stage' = "pick" /\ UNCHANGED outcome
        \/ stage' = "done" /\ outcome' = "unrouted"
    BY <1>4 DEF Propose, End
  <2> QED
    BY <2>1, <2>2, <2>3 DEF ghosts, ChainShape, MarkCarried, MarkerSendsOnce, NameExplained,
                            OnlyLoopsRejected, OriginKeptFromProviders
<1>5. CASE BadRequest
  BY <1>5 DEF BadRequest, End, ghosts, ChainShape, MarkCarried, MarkerSendsOnce, NameExplained,
              OnlyLoopsRejected, OriginKeptFromProviders
<1>6. CASE TransformBeforePick
  <2>1. PICK ref \in Refs[at] : Selects(ref)
    BY <1>6 DEF TransformBeforePick
  <2>2. stage = "pre" /\ stage' = "pick" /\ early' = TRUE /\ UNCHANGED <<at, captured, outcome>>
    BY <1>6 DEF TransformBeforePick
  <2>3. /\ again' => lost'
        /\ marker' # None /\ ~lost' => Name(marker') # "" /\ origin' = Name(marker')
    BY <1>t, <2>1, <2>2, SelectStep
  <2>4. ASSUME marker' # None, ~lost' PROVE Origin' = Name(marker')
    BY <1>t, <1>o, <2>2, <2>3, <2>4, NameType DEF ChainShape, Origin, TypeOK
  <2> QED
    BY <2>2, <2>3, <2>4 DEF ChainShape, MarkCarried, MarkerSendsOnce, NameExplained,
                            OnlyLoopsRejected, OriginKeptFromProviders
<1>7. CASE Forward
  <2>1. PICK ref \in Refs[at] :
          /\ Selects(ref)
          /\ IF ref.to = ThirdParty
             THEN End("provider") /\ UNCHANGED <<at, captured, dest, senders>>
             ELSE /\ at' = ref.to
                  /\ stage' = Entry(ref.to)
                  /\ captured' = ""
                  /\ dest' \in {dest, None}
                  /\ senders' = senders \cup {at}
                  /\ UNCHANGED outcome
    BY <1>7 DEF Forward
  <2>2. stage \in {"resolve", "post"} /\ UNCHANGED <<early, client>>
    BY <1>7 DEF Forward
  <2>3. /\ again' => lost'
        /\ marker' # None /\ ~lost' => Name(marker') # "" /\ origin' = Name(marker')
    BY <1>t, <2>1, <2>2, SelectStep
  <2>4. CASE ref.to = ThirdParty
    <3>1. at \in Clusters /\ ref.provider # "remote-maas"
      BY <1>t, <2>4, RefsAssumption, ClustersAssumption DEF TypeOK
    <3>2. at \notin Hubs => origin' = ""
      BY <2>1, <2>2, <3>1
      DEF Selects, RestoreOrMarkOrigin, MarksOrigin, ShouldInjectOrigin, ChainShape
    <3> QED
      BY <2>1, <2>3, <2>4, <3>2 DEF End, ChainShape, MarkCarried, MarkerSendsOnce, NameExplained,
                                    OnlyLoopsRejected, OriginKeptFromProviders
  <2>5. CASE ref.to # ThirdParty
    <3>1. stage' = Entry(at') /\ captured' = "" /\ outcome' = "travelling"
      BY <2>1, <2>2, <2>5 DEF ChainShape
    <3>2. Origin' = Trim[origin']
      BY <1>o, <3>1 DEF Origin
    <3>3. ASSUME marker' # None, ~lost' PROVE Origin' = Name(marker')
      BY <1>t, <2>3, <3>2, <3>3, NameType DEF TypeOK
    <3>4. ASSUME Trim[client] = "", ~early, Origin' # ""
          PROVE  marker' \in senders' /\ Origin' = Name(marker')
      <4>1. CASE MarksOrigin(ref)
        BY <1>t, <2>1, <2>5, <3>2, <4>1, NameType
        DEF Selects, RestoreOrMarkOrigin, TypeOK
      <4>2. CASE ~MarksOrigin(ref) /\ ShouldInjectOrigin(ref) /\ Origin # ""
        BY <1>o, <2>1, <2>2, <2>5, <3>2, <3>4, <4>2
        DEF Selects, RestoreOrMarkOrigin, NameExplained
      <4>3. CASE ~MarksOrigin(ref) /\ ~(ShouldInjectOrigin(ref) /\ Origin # "")
        <5>1. origin' = origin
          BY <2>1, <4>3 DEF Selects, RestoreOrMarkOrigin
        <5>2. Trim[origin] = ""
          BY <1>o, <2>2, <4>3 DEF ShouldInjectOrigin, ChainShape, Origin
        <5> QED
          BY <3>2, <3>4, <5>1, <5>2
      <4> QED
        BY <4>1, <4>2, <4>3
    <3>5. ChainShape'
      BY <3>1 DEF ChainShape, Entry
    <3> QED
      BY <2>2, <2>3, <3>1, <3>3, <3>4, <3>5 DEF MarkCarried, MarkerSendsOnce, NameExplained,
                                          OnlyLoopsRejected, OriginKeptFromProviders
  <2> QED
    BY <2>4, <2>5
<1>8. CASE PickEndpoint
  <2>1. Origin' = Origin
    BY <1>8 DEF PickEndpoint, Origin, ChainShape
  <2> QED
    BY <1>8, <2>1 DEF PickEndpoint, ghosts, ChainShape, MarkCarried, MarkerSendsOnce, NameExplained,
                      OnlyLoopsRejected, OriginKeptFromProviders
<1>9. CASE UNCHANGED vars
  BY <1>9 DEF vars, Origin, ChainShape, MarkCarried, MarkerSendsOnce, NameExplained,
              OnlyLoopsRejected, OriginKeptFromProviders
<1> QED
  BY <1>1, <1>2, <1>3, <1>4, <1>5, <1>6, <1>7, <1>8, <1>9 DEF Next

(* The invariant holds when the client's request arrives.                  *)
LEMMA LoopInit == Init => LoopInv
<1> SUFFICES ASSUME Init PROVE LoopInv
  OBVIOUS
<1>1. TypeOK
  BY TextsAssumption DEF Init, TypeOK, Entry, Stages, Outcomes
<1>2. Origin = Trim[client]
  BY FoldAssumption DEF Init, Origin
<1> QED
  BY <1>1, <1>2 DEF Init, LoopInv, ChainShape, Entry, MarkCarried, MarkerSendsOnce, NameExplained,
                    OnlyLoopsRejected, OriginKeptFromProviders

(* The invariant holds always; the theorems below are its parts.           *)
LEMMA LoopAlways == Spec => []LoopInv
  BY LoopInit, LoopNext, PTL DEF Spec

(* The plugin state of every cluster on the way has its type: what is read *)
(* back from CycleState after a hop is a header value again.               *)
THEOREM LoopTypes == Spec => []TypeOK
<1>1. LoopInv => TypeOK
  BY DEF LoopInv
<1> QED
  BY LoopAlways, <1>1, PTL

(* The cluster that marked a request does not send it away again, whatever *)
(* the clusters on the way, unless a hop dropped the header.               *)
THEOREM LoopsStopAtOrigin == Spec => []MarkerSendsOnce
<1>1. LoopInv => MarkerSendsOnce
  BY DEF LoopInv
<1> QED
  BY LoopAlways, <1>1, PTL

(* A request the client did not mark is only rejected where it has been.   *)
THEOREM RejectionsAreLoops == Spec => []OnlyLoopsRejected
<1>1. LoopInv => OnlyLoopsRejected
  BY DEF LoopInv
<1> QED
  BY LoopAlways, <1>1, PTL

(* A standard cluster never shows the header to a third-party provider.    *)
THEOREM OriginStaysInside == Spec => []OriginKeptFromProviders
<1>1. LoopInv => OriginKeptFromProviders
  BY DEF LoopInv
<1> QED
  BY LoopAlways, <1>1, PTL
=============================================================================
