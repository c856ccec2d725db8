---------------------------- MODULE SecretMirror ----------------------------
(***************************************************************************)
(* What the Secret store of the apikey-injection plugin promises, whatever *)
(* informers, queues and workers stand between the API server and the      *)
(* store: for every Secret it serves the usable data of one version, it    *)
(* only moves on to later versions, and it may forget everything when the  *)
(* process restarts.                                                       *)
(***************************************************************************)
EXTENDS Naturals, Sequences

CONSTANTS
    Keys,           \* namespaced names of Secrets
    Versions,       \* the contents a version may have
    Usable(_),      \* the credentials a version offers, None if it offers none
    None

VARIABLES
    log,            \* all versions of each Secret, oldest first
    at,             \* the last version the store has taken
    store           \* the credentials the store serves

vars == <<log, at, store>>

Init ==
    /\ log = [k \in Keys |-> <<>>]
    /\ at = [k \in Keys |-> 0]
    /\ store = [k \in Keys |-> None]

(* A user writes or deletes a Secret.                                      *)
Publish(k, v) ==
    /\ log' = [log EXCEPT ![k] = Append(@, v)]
    /\ UNCHANGED <<at, store>>

(* The store takes a version that is not older than the last one.          *)
Follow(k) ==
    /\ \E i \in at[k]..Len(log[k]) :
          /\ i > 0
          /\ at' = [at EXCEPT ![k] = i]
          /\ store' = [store EXCEPT ![k] = Usable(log[k][i])]
    /\ UNCHANGED log

(* The process restarts with an empty store.                               *)
Forget ==
    /\ store' = [k \in Keys |-> None]
    /\ UNCHANGED <<log, at>>

Next ==
    \/ \E k \in Keys : (\E v \in Versions : Publish(k, v)) \/ Follow(k)
    \/ Forget

Spec == Init /\ [][Next]_vars
=============================================================================
