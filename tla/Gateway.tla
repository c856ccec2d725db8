------------------------------ MODULE Gateway ------------------------------
(***************************************************************************)
(* Where a request for an external model goes and whose credential it      *)
(* carries.  The resolver plugin selects one of the references its store   *)
(* maps for the model, injects that provider's credential and names the    *)
(* provider in x-ipp-selected-provider; Envoy matches the header against   *)
(* the rules of the HTTPRoute the ExternalModel controller wrote.  The two *)
(* are filled by different reconcilers from the same objects: this module  *)
(* adds the store's mapping of the model to ModelRoute.                    *)
(*                                                                         *)
(* The mapping changes in one step here, when the store's reconcilers have *)
(* worked on some version of the objects; InfoStore has their steps.       *)
(***************************************************************************)
EXTENDS ModelRoute

VARIABLE mapping    \* the providers the store maps for the model

gatewayVars == <<vars, mapping>>

(* excludedFromStore                                                       *)
Excluded(m) == AGC(m) \/ ForeignOnly(m.spec)

(* resolveRef finds the provider in the store, whatever its phase and      *)
(* connection annotations.                                                 *)
InStore(ref) ==
    /\ ~ref.foreign
    /\ pseen[ref.name] # None
    /\ ref.needs \subseteq ref.keys \cup pseen[ref.name].keys
ProvidersOf(m) == LET refs == m.spec.refs
                  IN  {refs[k].name : k \in {j \in DOMAIN refs : InStore(refs[j])}}

(* What a reconcile of the model makes of the mapping.                     *)
MappingNow ==
    CASE mseen = None -> {}
      [] mseen # None ->
         CASE mseen.deleting \/ Excluded(mseen) -> {}
           [] OTHER -> IF ProvidersOf(mseen) = {} THEN mapping ELSE ProvidersOf(mseen)

StoreModel ==
    /\ mapping # MappingNow
    /\ mapping' = MappingNow
    /\ UNCHANGED vars

(* Envoy prefers the rules that match the header; the last rules, without  *)
(* the header, lead to the first reference that resolved.                  *)
Destination(p) ==
    IF \E k \in 1..Len(route.rules) : route.rules[k].provider = p
    THEN p ELSE route.rules[1].provider

GatewayInit == Init /\ mapping = {}
GatewayNext == (Next /\ UNCHANGED mapping) \/ StoreModel
GatewaySpec == GatewayInit /\ [][GatewayNext]_gatewayVars

-----------------------------------------------------------------------------
(* Properties                                                              *)

(* plugin.go:50-53: the per-provider rules ensure that the destination and *)
(* the credential are always consistent.                                   *)
DestinationMatchesCredential ==
    Owned(route) => \A p \in mapping : Destination(p) = p

(* Both reconcilers have handled every change.                             *)
Settled ==
    /\ pc = "idle" /\ ~queued
    /\ mCur /\ rCur /\ pseen = prov
    /\ mapping = MappingNow

(* Once both reconcilers have handled every change, each provider that is  *)
(* Ready and well annotated receives the requests with its credential      *)
(* (plugin.go:50-53, restricted to such providers) - unless a late copy of *)
(* the route looked right to the last reconcile, which then left it alone. *)
SettledConsistent ==
    Settled /\ ~misled => \A p \in mapping :
        prov[p].phase = "Ready" /\ prov[p].port # "junk" => route # None /\ Destination(p) = p
=============================================================================
