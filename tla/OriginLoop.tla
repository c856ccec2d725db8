----------------------------- MODULE OriginLoop -----------------------------
(***************************************************************************)
(* One request travelling between clusters, and the X-Origin-Cluster       *)
(* header that lets a cluster recognise a request it has already sent away *)
(* (maas-headers-guard, model-provider-resolver).                          *)
(*                                                                         *)
(* A standard cluster runs one chain: the guard moves the header into the  *)
(* CycleState, then the resolver checks for a loop, selects a provider and *)
(* puts the header back on a hop to another MaaS cluster.  A hub cluster   *)
(* runs the resolver alone, twice: before the endpoint picker (PROPOSE)    *)
(* and after it (TRANSFORM); which of the two is decided by the presence   *)
(* of the destination header.  Each chain has a CycleState of its own.     *)
(*                                                                         *)
(* The store may change at any time, so a cluster offers any of the        *)
(* references it may hold for the model, or none.                          *)
(***************************************************************************)
EXTENDS Naturals

CONSTANTS
    Clusters,       \* clusters running the payload processor
    Hubs,           \* those deployed in hub mode
    Texts,          \* header values, "" when the header is absent
    Trim, Fold,     \* strings.TrimSpace, and the classes of strings.EqualFold
    EnvName,        \* CLUSTER_NAME of each cluster, "" when unset
    Refs,           \* the provider references each cluster may hold
    ClientOrigins,  \* X-Origin-Cluster values clients send, "" for none
    ThirdParty,     \* a provider that is not a cluster
    None            \* no destination header, no cluster

Destinations == Clusters \cup {ThirdParty}
Ref == [provider : {"remote-maas", "openai"}, to : Destinations, weight : 0..100]

(* A remote-maas provider is another cluster, trimming twice changes       *)
(* nothing, and no two clusters are given the same CLUSTER_NAME.           *)
Name(c) == Trim[EnvName[c]]
ASSUME ClustersAssumption == Hubs \subseteq Clusters /\ None \notin Destinations
                             /\ ThirdParty \notin Clusters
ASSUME RefsAssumption ==
    /\ Refs \in [Clusters -> SUBSET Ref]
    /\ \A c \in Clusters : \A ref \in Refs[c] : ref.provider = "remote-maas" => ref.to \in Clusters
ASSUME TextsAssumption ==
    /\ "" \in Texts /\ ClientOrigins \subseteq Texts
    /\ Trim \in [Texts -> Texts] /\ Fold \in [Texts -> Texts]
    /\ EnvName \in [Clusters -> Texts]
ASSUME FoldAssumption ==
    /\ Trim[""] = ""
    /\ \A t \in Texts : Trim[Trim[t]] = Trim[t]
ASSUME NamesAssumption ==
    \A c, d \in Clusters : Name(c) # "" /\ Fold[Name(c)] = Fold[Name(d)] => c = d

VARIABLES
    at,         \* the cluster that has the request
    stage,      \* where in its chains the request is
    origin,     \* the X-Origin-Cluster header
    captured,   \* the chain's CycleState entry for it
    dest,       \* the x-gateway-destination-endpoint header
    subset,     \* the endpoints proposed to the endpoint picker, {} for no hint
    outcome,    \* how the request ended
    senders,    \* the clusters that have sent it on to another cluster
    marker,     \* the cluster that put its own name into the header
    lost,       \* a hop since then did not restore the header
    again,      \* the marker has sent it away after the hop it marked
    early,      \* a hub saw a destination header before its endpoint picker
    client      \* the origin header the client sent

vars == <<at, stage, origin, captured, dest, subset, outcome,
          senders, marker, lost, again, early, client>>
ghosts == <<senders, marker, lost, again, early, client>>

Stages == {"guard", "resolve", "pre", "pick", "post", "done"}
Outcomes == {"travelling", "internal", "rejected", "bad request", "unrouted", "provider"}

Entry(c) == IF c \in Hubs THEN "pre" ELSE "guard"

-----------------------------------------------------------------------------
(* originCluster: the captured value wins over the header.                 *)
Origin == IF Trim[captured] # "" THEN Trim[captured] ELSE Trim[origin]

(* Mutant: CLUSTER_NAME is compared as it is in the environment.           *)
LoopDetectedUntrimmed == EnvName[at] # "" /\ Origin # "" /\ Fold[Origin] = Fold[EnvName[at]]

(* checkRoutingLoop                                                        *)
LoopDetected == Name(at) # "" /\ Origin # "" /\ Fold[Origin] = Fold[Name(at)]

(* Mutant: every outgoing request is marked.                               *)
ShouldInjectAlways(ref) == TRUE

(* shouldInjectOrigin                                                      *)
ShouldInjectOrigin(ref) == at \in Hubs \/ ref.provider = "remote-maas"

(* restoreOrMarkOrigin: the first origin is kept, else this cluster's name *)
MarksOrigin(ref) == ShouldInjectOrigin(ref) /\ Origin = "" /\ Name(at) # ""
RestoreOrMarkOrigin(ref) ==
    IF MarksOrigin(ref) THEN Name(at)
    ELSE IF ShouldInjectOrigin(ref) /\ Origin # "" THEN Origin
    ELSE origin

Eligible == {ref \in Refs[at] : ref.weight > 0}

-----------------------------------------------------------------------------
(* Mutant: the header is stripped but not captured.                        *)
GuardStripsOnly ==
    /\ stage = "guard"
    /\ stage' = "resolve"
    /\ origin' = ""
    /\ UNCHANGED <<at, captured, dest, subset, outcome, ghosts>>

(* maas-headers-guard: capture the header, then strip it.                  *)
Guard ==
    /\ stage = "guard"
    /\ stage' = "resolve"
    /\ captured' = IF origin # "" THEN origin ELSE captured
    /\ origin' = ""
    /\ UNCHANGED <<at, dest, subset, outcome, ghosts>>

Resolving == stage \in {"resolve", "pre", "post"}

End(o) == stage' = "done" /\ outcome' = o

(* No external model of that name (or no model in the body): the request   *)
(* goes on to a model of this cluster.                                     *)
NotFound ==
    /\ Resolving
    /\ End("internal")
    /\ UNCHANGED <<at, origin, captured, dest, subset, ghosts>>

RejectLoop ==
    /\ Resolving
    /\ LoopDetected
    /\ End("rejected")
    /\ UNCHANGED <<at, origin, captured, dest, subset, ghosts>>

(* Hub mode without a destination: advertise the eligible endpoints.       *)
Proposing == at \in Hubs /\ dest = None

(* Mutant: PROPOSE marks the request although it is not a hop.             *)
ProposeMarks ==
    /\ Resolving
    /\ ~LoopDetected
    /\ Proposing
    /\ \E held \in SUBSET Eligible : subset' = {ref.to : ref \in held}
    /\ IF stage = "pre" THEN stage' = "pick" /\ UNCHANGED outcome ELSE End("unrouted")
    /\ origin' = IF Origin = "" THEN Name(at) ELSE Origin
    /\ UNCHANGED <<at, captured, dest, ghosts>>

Propose ==
    /\ Resolving
    /\ ~LoopDetected
    /\ Proposing
    /\ \E held \in SUBSET Eligible : subset' = {ref.to : ref \in held}
    /\ IF stage = "pre" THEN stage' = "pick" /\ UNCHANGED outcome ELSE End("unrouted")
    /\ UNCHANGED <<at, origin, captured, dest, ghosts>>

(* An unsupported path, every reference disabled, or no reference for the  *)
(* destination.                                                            *)
BadRequest ==
    /\ Resolving
    /\ ~LoopDetected
    /\ ~Proposing
    /\ End("bad request")
    /\ UNCHANGED <<at, origin, captured, dest, subset, ghosts>>

(* selectByWeight, or findRefByEndpoint in hub mode.                       *)
Selectable == {ref \in Eligible : at \in Hubs => ref.to = dest}

Selects(ref) ==
    /\ Resolving
    /\ ~LoopDetected
    /\ ~Proposing
    /\ ref \in Selectable
    /\ origin' = RestoreOrMarkOrigin(ref)
    /\ marker' = IF MarksOrigin(ref) THEN at ELSE marker
    /\ lost' = (~MarksOrigin(ref) /\ (lost \/ (marker # None /\ ~ShouldInjectOrigin(ref))))
    /\ again' = (~(MarksOrigin(ref) /\ lost) /\ (again \/ (stage # "pre" /\ at = marker)))

(* A hub's pre-processing deployment found a destination header already:   *)
(* it transforms, and the request goes on to the endpoint picker.          *)
TransformBeforePick ==
    /\ stage = "pre"
    /\ \E ref \in Refs[at] : Selects(ref)
    /\ stage' = "pick"
    /\ early' = TRUE
    /\ UNCHANGED <<at, captured, dest, subset, outcome, senders, client>>

(* The request leaves the cluster.  The next gateway may drop the          *)
(* destination header, the code never does.                                *)
Forward ==
    /\ stage \in {"resolve", "post"}
    /\ \E ref \in Refs[at] :
        /\ Selects(ref)
        /\ IF ref.to = ThirdParty
           THEN End("provider") /\ UNCHANGED <<at, captured, dest, senders>>
           ELSE /\ at' = ref.to
                /\ stage' = Entry(ref.to)
                /\ captured' = ""
                /\ dest' \in {dest, None}
                /\ senders' = senders \cup {at}
                /\ UNCHANGED outcome
    /\ subset' = {}
    /\ UNCHANGED <<early, client>>

(* The endpoint picker takes one of the endpoints hinted at, any endpoint  *)
(* without a hint, or makes no choice.                                     *)
PickEndpoint ==
    /\ stage = "pick"
    /\ stage' = "post"
    /\ dest' \in {dest} \cup (IF subset = {} THEN Destinations ELSE subset)
    /\ captured' = ""
    /\ UNCHANGED <<at, origin, subset, outcome, ghosts>>

Init == /\ at \in Clusters
        /\ stage = Entry(at)
        /\ origin \in ClientOrigins
        /\ client = origin
        /\ captured = ""
        /\ dest \in Destinations \cup {None}
        /\ subset = {}
        /\ outcome = "travelling"
        /\ senders = {}
        /\ again = FALSE
        /\ marker = None
        /\ lost = FALSE
        /\ early = FALSE

Next == Guard \/ NotFound \/ RejectLoop \/ Propose \/ BadRequest
        \/ TransformBeforePick \/ Forward \/ PickEndpoint

Spec == Init /\ [][Next]_vars

(* A request that is being processed goes on: the chain's plugins run one  *)
(* after the other, Envoy forwards, the endpoint picker answers.           *)
FairSpec == Spec /\ WF_vars(Next)

-----------------------------------------------------------------------------
(* Properties                                                              *)

(* The types of the request's headers and state (plugin.go, both plugins). *)
TypeOK ==
    /\ at \in Clusters /\ stage \in Stages /\ outcome \in Outcomes
    /\ origin \in Texts /\ captured \in Texts /\ client \in ClientOrigins
    /\ dest \in Destinations \cup {None} /\ subset \subseteq Destinations
    /\ senders \subseteq Clusters
    /\ marker \in Clusters \cup {None}
    /\ lost \in BOOLEAN /\ again \in BOOLEAN /\ early \in BOOLEAN

(* The cluster that marked the request never sends it away again, on       *)
(* whatever way it comes back, unless a hop in between did not restore the *)
(* header (checkRoutingLoop, restoreOrMarkOrigin, the guard's capture).    *)
MarkerSendsOnce == again => lost

(* A request the client did not mark is rejected as a loop only by a       *)
(* cluster that has already sent it on, unless a hub met a destination     *)
(* header before its endpoint picker (checkRoutingLoop).                   *)
OnlyLoopsRejected ==
    (outcome = "rejected" /\ Trim[client] = "" /\ ~early) => at \in senders

(* A standard cluster never sends the header to a provider that is not a   *)
(* cluster, although it must remember it for the loop check (guard's       *)
(* strip, shouldInjectOrigin).                                             *)
OriginKeptFromProviders ==
    (outcome = "provider" /\ at \notin Hubs) => origin = ""

(* No request circulates for ever through the cluster that marked it: one  *)
(* that keeps coming back there with the header kept is answered or        *)
(* rejected (checkRoutingLoop, the trimmed CLUSTER_NAME).                  *)
ReturningRequestEnds ==
    []<>(marker # None /\ at = marker /\ ~lost) => <>(stage = "done")
=============================================================================
