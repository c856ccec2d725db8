------------------------- MODULE Credentials_proofs -------------------------
(***************************************************************************)
(* Proofs about the Secret store, its refinement of SecretMirror and the   *)
(* requests of the apikey-injection plugin, for any Secrets, requests,     *)
(* lifetimes and numbers of writes and restarts.                           *)
(***************************************************************************)
EXTENDS Credentials, TLAPS

-----------------------------------------------------------------------------
(* The Secret store.                                                       *)

SecretType ==
    /\ log \in [Keys -> Seq(SecretObject \cup {None})]
    /\ cached \in [Keys -> Nat] /\ at \in [Keys -> Nat]
    /\ queue \subseteq Keys
    /\ worker \in WorkerType \cup {None}
    /\ store \in [Keys -> Data \cup {None}]

(* The store has taken no later version than the cache holds, and only     *)
(* keys the cache has had a version of are queued.                         *)
Positions ==
    \A k \in Keys : /\ at[k] <= cached[k] /\ cached[k] <= Len(log[k])
                    /\ k \in queue => cached[k] > 0

(* The worker holds a version between the store's and the cache's, and if  *)
(* the cache has gone on to another object, the key is queued again.       *)
WorkerHolds ==
    worker # None =>
        LET k == worker.key
        IN  /\ worker.at > 0 /\ at[k] <= worker.at /\ worker.at <= cached[k]
            /\ worker.obj = Selected(Version(k, worker.at))
            /\ k \in queue \/ Selected(Version(k, cached[k])) = worker.obj

(* The store serves the version it took last, or nothing since a restart.  *)
ServesTaken == \A k \in Keys : store[k] = None \/ store[k] = Usable(Version(k, at[k]))

SecretInv == SecretType /\ Positions /\ WorkerHolds /\ ServesTaken /\ StoreFollowsCache

(* The selector does not change what the store serves for a version.       *)
LEMMA UsableSelected == \A o : Usable(Selected(o)) = Usable(o)
  BY DEF Usable, Selected, Serveable

(* The store serves data, or nothing.                                      *)
LEMMA UsableType == \A o \in SecretObject \cup {None} : Usable(o) \in Data \cup {None}
  BY DEF Usable, Selected, Serveable, SecretObject

(* Any version of a Secret, as the selector shows it, is an object.        *)
LEMMA VersionType ==
    ASSUME SecretType, NEW k \in Keys, NEW i \in 0..Len(log[k])
    PROVE  /\ Version(k, i) \in SecretObject \cup {None}
           /\ Selected(Version(k, i)) \in SecretObject \cup {None}
  BY DEF SecretType, Version, Selected

(* The empty store of a new process satisfies the invariant.               *)
LEMMA SecretInit == Init => SecretInv
  BY NoneAssumption DEF Init, SecretInv, SecretType, Positions, WorkerHolds, ServesTaken,
      StoreFollowsCache, Version, Selected, Usable, Serveable

(* A user's write adds a version and leaves the earlier ones.              *)
LEMMA WriteSecret ==
    ASSUME SecretInv, NEW k \in Keys, NEW o \in SecretObjects[k] \cup {None}, Write(k, o)
    PROVE  SecretInv'
  <1> USE DEF SecretInv
  <1>1. UNCHANGED <<cached, queue, worker, store, at>> /\ log' = [log EXCEPT ![k] = Append(@, o)]
    BY DEF Write
  <1>2. o \in SecretObject \cup {None}
    BY ObjectsAssumption
  <1>3. SecretType'
    BY <1>1, <1>2 DEF SecretType
  <1>4. \A j \in Keys : /\ Len(log[j]) \in Nat /\ Len(log'[j]) >= Len(log[j])
                        /\ \A i \in 1..Len(log[j]) : log'[j][i] = log[j][i]
    BY <1>1, <1>2 DEF SecretType
  <1>5. \A j \in Keys : \A i \in 0..Len(log[j]) : Version(j, i)' = Version(j, i)
    BY <1>4 DEF Version
  <1>6. Positions'
    BY <1>1, <1>4 DEF Positions, SecretType
  <1>7. \A j \in Keys : /\ cached[j] \in 0..Len(log[j]) /\ at[j] \in 0..Len(log[j])
    BY <1>4 DEF Positions, SecretType
  <1>8. WorkerHolds'
    <2>1. SUFFICES ASSUME worker # None PROVE WorkerHolds'
      BY <1>1 DEF WorkerHolds
    <2>2. worker.key \in Keys /\ worker.at \in Nat
      BY <2>1 DEF SecretType, WorkerType
    <2>3. worker.at \in 0..Len(log[worker.key])
      BY <2>1, <2>2, <1>7 DEF WorkerHolds, SecretType
    <2> QED
      BY <2>1, <2>2, <2>3, <1>1, <1>5, <1>7 DEF WorkerHolds
  <1>9. ServesTaken'
    BY <1>1, <1>5, <1>7 DEF ServesTaken
  <1>10. StoreFollowsCache'
    BY <1>1, <1>5, <1>7 DEF StoreFollowsCache
  <1> QED
    BY <1>3, <1>6, <1>8, <1>9, <1>10

(* The informer's steps: a change of the object enqueues the key.          *)
LEMMA DeliverSecret ==
    ASSUME SecretInv, NEW k \in Keys, Deliver(k)
    PROVE  SecretInv'
  <1> USE DEF SecretInv
  <1>1. UNCHANGED <<log, worker, store, at>>
    BY DEF Deliver
  <1>2. PICK i \in (cached[k] + 1)..Len(log[k]) :
          /\ cached' = [cached EXCEPT ![k] = i]
          /\ queue' = IF Selected(Version(k, i)) # Selected(Version(k, cached[k]))
                      THEN queue \cup {k} ELSE queue
    BY DEF Deliver
  <1>3. i \in Nat /\ i > cached[k] /\ i <= Len(log[k]) /\ \A j \in Keys : Len(log[j]) \in Nat
    BY <1>2 DEF SecretType
  <1>4. queue \subseteq queue' /\ queue' \subseteq queue \cup {k}
    BY <1>2
  <1>5. SecretType'
    BY <1>1, <1>2, <1>3, <1>4 DEF SecretType
  <1>6. Positions'
    BY <1>1, <1>2, <1>3, <1>4 DEF Positions, SecretType
  <1>7. \A j, n : Version(j, n)' = Version(j, n)
    BY <1>1 DEF Version
  <1>8. WorkerHolds'
    <2>1. SUFFICES ASSUME worker # None PROVE WorkerHolds'
      BY <1>1 DEF WorkerHolds
    <2>2. worker.key \in Keys /\ worker.at \in Nat
      BY <2>1 DEF SecretType, WorkerType
    <2>3. CASE worker.key # k
      BY <2>1, <2>2, <2>3, <1>1, <1>2, <1>4, <1>7 DEF WorkerHolds, SecretType
    <2>4. CASE worker.key = k
      BY <2>1, <2>2, <2>4, <1>1, <1>2, <1>3, <1>4, <1>7 DEF WorkerHolds, SecretType
    <2> QED
      BY <2>3, <2>4
  <1>9. ServesTaken'
    BY <1>1, <1>7 DEF ServesTaken
  <1>10. StoreFollowsCache'
    <2>1. SUFFICES ASSUME NEW j \in Keys, j \notin queue', ~(worker' # None /\ worker'.key = j)
                   PROVE  store'[j] = Usable(Selected(Version(j, cached[j])'))
      BY <1>7 DEF StoreFollowsCache
    <2>2. store[j] = Usable(Selected(Version(j, cached[j])))
      BY <2>1, <1>1, <1>4 DEF StoreFollowsCache
    <2>3. CASE j # k
      BY <2>2, <2>3, <1>1, <1>2, <1>7 DEF SecretType
    <2>4. CASE j = k
      BY <2>1, <2>2, <2>4, <1>1, <1>2, <1>7 DEF SecretType
    <2> QED
      BY <2>3, <2>4
  <1> QED
    BY <1>5, <1>6, <1>8, <1>9, <1>10

(* The worker's read takes the key out of the queue.                       *)
LEMMA GetSecretHolds ==
    ASSUME SecretInv, NEW k \in Keys, GetSecret(k)
    PROVE  SecretInv'
  <1> USE DEF SecretInv
  <1>1. /\ UNCHANGED <<log, cached, store, at>> /\ worker = None /\ k \in queue
        /\ queue' = queue \ {k}
        /\ worker' = [key |-> k, at |-> cached[k], obj |-> Selected(Version(k, cached[k]))]
    BY DEF GetSecret
  <1>2. cached[k] \in Nat /\ at[k] \in Nat /\ cached[k] > 0 /\ cached[k] <= Len(log[k]) /\ at[k] <= cached[k]
    BY <1>1 DEF Positions, SecretType
  <1>3. Len(log[k]) \in Nat
    BY DEF SecretType
  <1>4. Selected(Version(k, cached[k])) \in SecretObject \cup {None}
    BY <1>2, <1>3, VersionType
  <1>5. worker' \in WorkerType
    BY <1>1, <1>2, <1>4 DEF WorkerType
  <1>6. SecretType'
    BY <1>1, <1>5 DEF SecretType
  <1>7. Positions'
    BY <1>1 DEF Positions
  <1>8. \A j, n : Version(j, n)' = Version(j, n)
    BY <1>1 DEF Version
  <1>9. WorkerHolds'
    BY <1>1, <1>2, <1>8 DEF WorkerHolds
  <1>10. ServesTaken'
    BY <1>1, <1>8 DEF ServesTaken
  <1>11. worker' # None
    BY <1>5, NoneAssumption, <1>1 DEF GetSecret
  <1>12. StoreFollowsCache'
    BY <1>1, <1>8, <1>11 DEF StoreFollowsCache
  <1> QED
    BY <1>6, <1>7, <1>9, <1>10, <1>12

(* The worker's write: the entry becomes that of the version it has read.  *)
LEMMA StoreSecretHolds ==
    ASSUME SecretInv, StoreSecret
    PROVE  SecretInv'
  <1> USE DEF SecretInv
  <1> DEFINE w == worker
  <1>1. /\ UNCHANGED <<log, cached>> /\ w # None /\ worker' = None
        /\ store' = [store EXCEPT ![w.key] = Usable(w.obj)]
        /\ queue \subseteq queue' /\ queue' \subseteq queue \cup {w.key}
        /\ at' = [at EXCEPT ![w.key] = w.at]
    BY DEF StoreSecret
  <1>2. w.key \in Keys /\ w.at \in Nat /\ w.obj \in SecretObject \cup {None}
    BY <1>1 DEF SecretType, WorkerType
  <1>3. /\ w.at > 0 /\ at[w.key] <= w.at /\ w.at <= cached[w.key]
        /\ w.obj = Selected(Version(w.key, w.at))
        /\ w.key \in queue \/ Selected(Version(w.key, cached[w.key])) = w.obj
    BY <1>1 DEF WorkerHolds
  <1>4. SecretType'
    BY <1>1, <1>2, UsableType DEF SecretType
  <1>5. Positions'
    BY <1>1, <1>2, <1>3 DEF Positions, SecretType
  <1>6. WorkerHolds'
    BY <1>1 DEF WorkerHolds
  <1>7. \A j, n : Version(j, n)' = Version(j, n)
    BY <1>1 DEF Version
  <1>8. ServesTaken'
    BY <1>1, <1>2, <1>3, <1>7, UsableSelected DEF ServesTaken, SecretType
  <1>9. StoreFollowsCache'
    <2>1. SUFFICES ASSUME NEW j \in Keys, j \notin queue'
                   PROVE  store'[j] = Usable(Selected(Version(j, cached[j])))
      BY <1>1, <1>7 DEF StoreFollowsCache
    <2>2. CASE j = w.key
      BY <2>1, <2>2, <1>1, <1>2, <1>3 DEF SecretType
    <2>3. CASE j # w.key
      BY <2>1, <2>3, <1>1, <1>2 DEF SecretType, StoreFollowsCache
    <2> QED
      BY <2>2, <2>3
  <1> QED
    BY <1>4, <1>5, <1>6, <1>8, <1>9

(* A new process lists every Secret and enqueues the selected ones.        *)
LEMMA RestartHolds ==
    ASSUME SecretInv, Restart
    PROVE  SecretInv'
  <1> USE DEF SecretInv
  <1>1. /\ UNCHANGED <<log, at>> /\ worker' = None /\ store' = [k \in Keys |-> None]
        /\ cached' = [k \in Keys |-> Len(log[k])]
        /\ queue' = {k \in Keys : Selected(Version(k, Len(log[k]))) # None}
    BY DEF Restart
  <1>2. \A k \in Keys : Len(log[k]) \in Nat
    BY DEF SecretType
  <1>3. SecretType'
    BY <1>1, <1>2 DEF SecretType
  <1>4. Positions'
    <2>1. SUFFICES ASSUME NEW k \in Keys
                   PROVE  /\ at[k] <= Len(log[k])
                          /\ Selected(Version(k, Len(log[k]))) # None => Len(log[k]) > 0
      BY <1>1 DEF Positions
    <2>2. at[k] <= Len(log[k])
      BY <1>2 DEF Positions, SecretType
    <2> QED
      BY <2>2, <1>2 DEF Version, Selected
  <1>5. WorkerHolds' /\ ServesTaken'
    BY <1>1 DEF WorkerHolds, ServesTaken
  <1>6. StoreFollowsCache'
    BY <1>1 DEF StoreFollowsCache, Version, Usable, Serveable
  <1> QED
    BY <1>3, <1>4, <1>5, <1>6

(* Requests and time leave the store alone.                                *)
LEMMA OthersLeaveSecrets == RequestNext \/ Tick => UNCHANGED secretVars
  BY DEF RequestNext, Progress, Begin, Lookup, UseCachedToken, ParseAccountFails, StartFetch,
      FetchToken, FetchFails, Arrive, Tick, secretVars

LEMMA SecretStep == SecretInv /\ [Next]_vars => SecretInv'
  <1> SUFFICES ASSUME SecretInv, [Next]_vars PROVE SecretInv'
    OBVIOUS
  <1>1. CASE UNCHANGED secretVars
    BY <1>1 DEF secretVars, SecretInv, SecretType, Positions, WorkerHolds, ServesTaken,
        StoreFollowsCache, Version
  <1>2. CASE SecretNext
    BY <1>2, WriteSecret, DeliverSecret, GetSecretHolds, StoreSecretHolds DEF SecretNext
  <1>3. CASE Restart
    BY <1>3, RestartHolds
  <1> QED
    BY <1>1, <1>2, <1>3, OthersLeaveSecrets DEF Next, vars, secretVars

LEMMA SecretInvariant == Spec => []SecretInv
  BY SecretInit, SecretStep, PTL DEF Spec

(* The store serves what its cache holds unless the key is queued or being *)
(* reconciled: an event of the informer is never spent on a read that      *)
(* missed it, because reconciler and handler share one cache.              *)
THEOREM StoreFollows == Spec => []StoreFollowsCache
  <1>1. SecretInv => StoreFollowsCache
    BY DEF SecretInv
  <1> QED
    BY <1>1, SecretInvariant, PTL

(* The secretStore implements SecretMirror: informer, queue and worker are *)
(* stutters, the worker's write is a step to a version that is not older.  *)
THEOREM StoreMirrors == Spec => MirrorsSecrets
  <1>1. Init => Mirror!Init
    BY DEF Init, Mirror!Init
  <1>2. SecretInv /\ [Next]_vars => [Mirror!Next]_(Mirror!vars)
    <2> SUFFICES ASSUME SecretInv, [Next]_vars PROVE Mirror!Next \/ UNCHANGED Mirror!vars
      OBVIOUS
    <2>1. ASSUME NEW k \in Keys, NEW o \in SecretObjects[k] \cup {None}, Write(k, o)
          PROVE  Mirror!Next
      BY <2>1 DEF Write, Mirror!Next, Mirror!Publish
    <2>2. ASSUME NEW k \in Keys, Deliver(k) \/ GetSecret(k) PROVE UNCHANGED Mirror!vars
      BY <2>2 DEF Deliver, GetSecret, Mirror!vars
    <2>3. CASE StoreSecret
      <3> DEFINE w == worker
      <3>1. /\ UNCHANGED log /\ w # None
            /\ store' = [store EXCEPT ![w.key] = Usable(w.obj)]
            /\ at' = [at EXCEPT ![w.key] = w.at]
        BY <2>3 DEF StoreSecret
      <3>2. w.key \in Keys /\ w.at \in Nat
        BY <3>1 DEF SecretInv, SecretType, WorkerType
      <3>3. /\ w.at > 0 /\ at[w.key] <= w.at /\ w.at <= Len(log[w.key])
            /\ w.obj = Selected(Version(w.key, w.at))
        BY <3>1, <3>2 DEF SecretInv, WorkerHolds, Positions, SecretType
      <3>4. Usable(w.obj) = Usable(log[w.key][w.at])
        BY <3>2, <3>3, UsableSelected DEF Version
      <3>5. w.at \in at[w.key]..Len(log[w.key])
        BY <3>2, <3>3 DEF SecretInv, SecretType
      <3>6. Mirror!Follow(w.key)
        BY <3>1, <3>3, <3>4, <3>5 DEF Mirror!Follow
      <3> QED
        BY <3>2, <3>6 DEF Mirror!Next
    <2>4. CASE Restart
      BY <2>4 DEF Restart, Mirror!Next, Mirror!Forget
    <2>5. CASE UNCHANGED secretVars
      BY <2>5 DEF secretVars, Mirror!vars
    <2> QED
      BY <2>1, <2>2, <2>3, <2>4, <2>5, OthersLeaveSecrets DEF Next, SecretNext, vars, secretVars
  <1> QED
    BY <1>1, <1>2, SecretInvariant, PTL DEF Spec, MirrorsSecrets, Mirror!Spec

-----------------------------------------------------------------------------
(* Requests.                                                               *)

(* A request under way has a reference, and the store has not gone back    *)
(* since it began.                                                         *)
Referred(q) ==
    /\ q.in \in Inputs /\ q.in.ref \in Keys
    /\ q.since <= at[q.in.ref]

(* The store served these credentials since the request began.             *)
Served(q, creds) ==
    /\ creds \in Data /\ Required(q.in.auth) \subseteq DOMAIN creds
    /\ \E i \in q.since..at[q.in.ref] : creds = Usable(Version(q.in.ref, i))

(* What holds of a request at each point of its way.  The last part is the *)
(* margin that is left of the token's lifetime.                            *)
RequestOK(q) ==
    /\ q \in RequestType
    /\ q.pc \notin Ended => Referred(q)
    /\ q.pc \in {"wait", "fetch"} => q.in.auth = "oauth2" /\ Served(q, q.creds)
    /\ q.pc = "sent" =>
          /\ q.sent \in SentType
          /\ \E creds : Served(q, creds) /\ q.sent.secret = Secret(q.in.auth, creds)
          /\ q.sent.age <= MaxTransit
          /\ q.in.auth = "oauth2" => q.sent.left + q.sent.age > MaxTransit

(* A token is cached under the key of the account it was issued for.       *)
TokensKeyed ==
    \A c \in DOMAIN tokens : tokens[c] \in Token /\ c = CacheKey(tokens[c].account)

RequestInv ==
    /\ DOMAIN req = Requests /\ req = [r \in Requests |-> req[r]]
    /\ \A r \in Requests : RequestOK(req[r])
    /\ TokensKeyed
    /\ lock \in Requests \cup {None} /\ writes \in Nat /\ restarts \in Nat

(* Members of Data are functions on fields, and any such function is one.  *)
LEMMA DataFacts ==
    /\ \A d \in Data : DOMAIN d \subseteq Fields /\ d = [f \in DOMAIN d |-> d[f]]
                       /\ \A f \in DOMAIN d : d[f] \in Texts
    /\ \A S \in SUBSET Fields : [S -> Texts] \subseteq Data
  BY DEF Data

LEMMA ConfigFacts ==
    \A d \in Configs : \A f \in DOMAIN d : d[f] \in Texts
  BY DEF Configs

(* The part of the credentials that is sent is part of Data.               *)
LEMMA SecretPart ==
    ASSUME NEW auth, NEW creds \in Data, Required(auth) \subseteq DOMAIN creds
    PROVE  Secret(auth, creds) \in Data
  <1>1. Required(auth) \in SUBSET Fields
    BY FieldsAssumption DEF Required
  <1>2. Secret(auth, creds) \in [Required(auth) -> Texts]
    BY DataFacts DEF Secret
  <1> QED
    BY <1>1, <1>2, DataFacts

(* Header and value prefix are texts.                                      *)
LEMMA HeaderType ==
    ASSUME NEW in \in Inputs, NEW creds \in Data, Complete(in, creds)
    PROVE  Header(in, creds) \in HeaderTexts \X HeaderTexts
  <1>1. in.config \in Configs \cup {None}
    BY DEF Inputs
  <1>2. CASE in.auth = "apikey"
    <2>1. in.config # None /\ in.config \in Configs
      BY <1>1, <1>2 DEF Complete, ExtractRequestData, APIKeyData
    <2>2. \A f \in DOMAIN in.config : in.config[f] \in HeaderTexts
      BY <2>1, ConfigFacts DEF HeaderTexts
    <2>3. Field(ValuePrefix, in.config) \in HeaderTexts
      BY <2>2 DEF Field, HeaderTexts
    <2>4. Field(HeaderName, in.config) # "" => in.config[HeaderName] \in HeaderTexts
      BY <2>2 DEF Field, HeaderTexts
    <2>5. /\ DOMAIN ExtractRequestData(in) = {HeaderName, ValuePrefix}
          /\ ExtractRequestData(in)[HeaderName] \in HeaderTexts
          /\ ExtractRequestData(in)[ValuePrefix] \in HeaderTexts
      BY <1>2, <2>1, <2>3, <2>4 DEF ExtractRequestData, APIKeyData, HeaderName, ValuePrefix, HeaderTexts
    <2> QED
      BY <1>2, <2>5 DEF Header, Merge, HeaderTexts
  <1>3. CASE in.auth = "sigv4"
    <2> DEFINE config == IF in.config = None THEN NoFields ELSE in.config
               region == IF Field("region", config) # "" THEN Field("region", config)
                         ELSE RegionFromEndpoint(in.endpoint)
    <2>1. Field("region", config) \in HeaderTexts
      BY <1>1, ConfigFacts DEF Field, HeaderTexts, NoFields
    <2>2. region \in HeaderTexts
      BY <2>1 DEF RegionFromEndpoint, HeaderTexts
    <2>3. ExtractRequestData(in) # None /\ ExtractRequestData(in) = SigV4Data(in)
      BY <1>3 DEF Complete, ExtractRequestData
    <2>4. "region" \in DOMAIN ExtractRequestData(in) /\ ExtractRequestData(in)["region"] = region
      BY <2>3 DEF SigV4Data
    <2> QED
      BY <1>3, <2>2, <2>4 DEF Header, Merge, HeaderTexts
  <1>4. CASE in.auth = "oauth2"
    BY <1>4 DEF Header, HeaderTexts
  <1> QED
    BY <1>2, <1>3, <1>4 DEF Complete, Supported

(* The store never goes back, and versions it has taken stay.              *)
Onward == \A k \in Keys : at[k] <= at'[k] /\ \A i \in 0..at[k] : Version(k, i)' = Version(k, i)

LEMMA GoesOnward == SecretInv /\ [Next]_vars => Onward
  <1> SUFFICES ASSUME SecretInv, [Next]_vars PROVE Onward
    OBVIOUS
  <1> USE DEF SecretInv
  <1>1. \A k \in Keys : at[k] \in Nat /\ Len(log[k]) \in Nat /\ at[k] <= Len(log[k])
    BY DEF SecretType, Positions
  <1>2. ASSUME NEW k \in Keys, NEW o \in SecretObjects[k] \cup {None}, Write(k, o)
        PROVE  Onward
    <2>1. UNCHANGED at /\ log' = [log EXCEPT ![k] = Append(@, o)]
      BY <1>2 DEF Write
    <2>2. o \in SecretObject \cup {None}
      BY ObjectsAssumption
    <2>3. \A j \in Keys : \A i \in 1..Len(log[j]) : log'[j][i] = log[j][i]
      BY <2>1, <2>2 DEF SecretType
    <2> QED
      BY <2>1, <2>3, <1>1 DEF Onward, Version
  <1>3. CASE UNCHANGED <<log, at>>
    BY <1>1, <1>3 DEF Onward, Version
  <1>4. CASE StoreSecret
    <2>1. worker.key \in Keys /\ worker.at \in Nat /\ at[worker.key] <= worker.at
      BY <1>4 DEF StoreSecret, WorkerHolds, SecretType, WorkerType
    <2>2. UNCHANGED log /\ at' = [at EXCEPT ![worker.key] = worker.at]
      BY <1>4 DEF StoreSecret
    <2> QED
      BY <2>1, <2>2, <1>1 DEF Onward, Version, SecretType
  <1>5. ASSUME NEW k \in Keys, Deliver(k) \/ GetSecret(k) PROVE UNCHANGED <<log, at>>
    BY <1>5 DEF Deliver, GetSecret
  <1> QED
    BY <1>2, <1>3, <1>4, <1>5, OthersLeaveSecrets DEF Next, SecretNext, Restart, vars, secretVars

(* What holds of a request goes on to hold while the store moves on.       *)
LEMMA RequestStays ==
    ASSUME SecretInv, SecretInv', Onward, NEW CONSTANT q, RequestOK(q)
    PROVE  RequestOK(q)'
  <1>1. ASSUME Referred(q), q \in RequestType PROVE Referred(q)'
    BY <1>1 DEF Referred, Onward, SecretInv, SecretType, RequestType
  <1>2. ASSUME Referred(q), q \in RequestType, NEW CONSTANT creds, Served(q, creds)
        PROVE  Served(q, creds)'
    <2>1. PICK i \in q.since..at[q.in.ref] : creds = Usable(Version(q.in.ref, i))
      BY <1>2 DEF Served
    <2>2. at[q.in.ref] \in Nat /\ at'[q.in.ref] \in Nat /\ q.since \in Nat /\ q.in.ref \in Keys
      BY <1>2 DEF Referred, SecretInv, SecretType, RequestType
    <2>3. Version(q.in.ref, i)' = Version(q.in.ref, i) /\ i \in q.since..at'[q.in.ref]
      BY <2>1, <2>2 DEF Onward
    <2> QED
      BY <1>2, <2>1, <2>3 DEF Served
  <1>3. \A creds : q \in RequestType /\ Referred(q) /\ Served(q, creds) => Served(q, creds)'
    BY <1>2
  <1> QED
    BY <1>1, <1>3 DEF RequestOK, Ended

(* A request that has ended is all right.                                  *)
LEMMA FinishOK == \A how \in Ended : RequestOK(Finish(how)) /\ Finish(how).pc = how
  BY DEF RequestOK, Finish, RequestType, Ended

(* A request is sent with credentials the store has served.                *)
LEMMA SendOK ==
    ASSUME NEW q, RequestOK(q), q.pc \in {"lookup", "wait", "fetch"},
           NEW creds, Served(q, creds), NEW header \in HeaderTexts \X HeaderTexts,
           NEW left \in Nat, q.in.auth = "oauth2" => left > MaxTransit
    PROVE  RequestOK(Send(q, header, Secret(q.in.auth, creds), left))
  <1> DEFINE sent == [header |-> header, secret |-> Secret(q.in.auth, creds), left |-> left, age |-> 0]
             p == Send(q, header, Secret(q.in.auth, creds), left)
  <1>1. Secret(q.in.auth, creds) \in Data
    BY SecretPart DEF Served
  <1>2. sent \in SentType
    BY <1>1 DEF SentType
  <1>3. q \in RequestType /\ Referred(q)
    BY DEF RequestOK, Ended
  <1>4. /\ p \in RequestType /\ p.pc = "sent" /\ p.sent = sent
        /\ p.in = q.in /\ p.since = q.since
    BY <1>2, <1>3 DEF Send, RequestType
  <1>5. Served(p, creds) /\ Referred(p)
    BY <1>3, <1>4 DEF Served, Referred
  <1> QED
    BY <1>2, <1>4, <1>5, TimesAssumption DEF RequestOK, Ended

(* A token that is used or issued lasts longer than the way.               *)
LEMMA TokenLasts ==
    ASSUME RequestInv, NEW account, IsTokenValid(Cached(account))
    PROVE  /\ Cached(account) \in Token /\ Cached(account).account = account
           /\ Cached(account).left > MaxTransit
  <1>1. CacheKey(account) \in DOMAIN tokens /\ Cached(account) = tokens[CacheKey(account)]
    BY DEF IsTokenValid, Cached
  <1>2. Cached(account) \in Token /\ CacheKey(account) = CacheKey(Cached(account).account)
    BY <1>1 DEF RequestInv, TokensKeyed
  <1> QED
    BY <1>2, TimesAssumption, LifetimeAssumption DEF CacheKey, IsTokenValid, Token

(* One request's step keeps the invariant if the request is all right      *)
(* afterwards, whatever else the step leaves alone.                        *)
LEMMA OneRequest ==
    ASSUME SecretInv, RequestInv, UNCHANGED <<secretVars, writes, restarts>>, NEW r \in Requests,
           NEW CONSTANT q, RequestOK(q), req' = [req EXCEPT ![r] = q], TokensKeyed', lock' \in Requests \cup {None}
    PROVE  RequestInv'
  <1>1. \A s \in Requests : req'[s] = IF s = r THEN q ELSE req[s]
    BY DEF RequestInv
  <1>2. \A s \in Requests : RequestOK(req'[s])
    BY <1>1 DEF RequestInv
  <1>3. \A s \in Requests : RequestOK(req[s])'
    <2>1. \A p : Referred(p)' <=> Referred(p)
      BY DEF Referred, secretVars
    <2>2. \A p, creds : Served(p, creds)' <=> Served(p, creds)
      BY DEF Served, Version, secretVars
    <2>3. \A p : RequestOK(p) => RequestOK(p)'
      BY <2>1, <2>2 DEF RequestOK
    <2> QED
      BY <1>2, <2>3
  <1>4. DOMAIN req' = Requests /\ req' = [s \in Requests |-> req'[s]]
    BY DEF RequestInv
  <1> QED
    BY <1>3, <1>4 DEF RequestInv

(* Steps that leave tokens and lock alone.                                 *)
LEMMA OneRequestOnly ==
    ASSUME SecretInv, RequestInv, UNCHANGED <<secretVars, tokens, writes, restarts>>,
           NEW r \in Requests, NEW CONSTANT q, RequestOK(q), req' = [req EXCEPT ![r] = q],
           lock' \in Requests \cup {None}
    PROVE  RequestInv'
  <1>1. TokensKeyed'
    BY DEF RequestInv, TokensKeyed, CacheKey
  <1> QED
    BY <1>1, OneRequest

LEMMA BeginHolds ==
    ASSUME SecretInv, RequestInv, NEW r \in Requests, NEW in \in RequestData[r], Begin(r, in)
    PROVE  RequestInv'
  <1>1. PICK q : q = IF in.auth \in {"", "none"} THEN Finish("done")
                     ELSE IF in.ref = None THEN Finish("failed")
                     ELSE [Finish("lookup") EXCEPT !.in = in, !.since = at[in.ref]]
    OBVIOUS
  <1>2. /\ req' = [req EXCEPT ![r] = q] /\ UNCHANGED <<secretVars, tokens, writes, restarts>>
        /\ lock' = lock
    BY <1>1 DEF Begin, secretVars
  <1>3. in \in Inputs
    BY InputsAssumption
  <1>4. RequestOK(q)
    <2>1. CASE q.pc \in Ended
      BY <1>1, <2>1, FinishOK DEF Ended, Finish
    <2>2. CASE q = [Finish("lookup") EXCEPT !.in = in, !.since = at[in.ref]] /\ in.ref # None
      <3>1. in.ref \in Keys /\ at[in.ref] \in Nat
        BY <1>3, <2>2 DEF Inputs, SecretInv, SecretType
      <3>2. q \in RequestType /\ q.pc = "lookup" /\ q.in = in /\ q.since = at[in.ref]
        BY <2>2, <3>1, <1>3 DEF Finish, RequestType
      <3>3. Referred(q)
        BY <3>1, <3>2, <1>3 DEF Referred
      <3> QED
        BY <3>2, <3>3 DEF RequestOK
    <2> QED
      BY <1>1, <2>1, <2>2, FinishOK DEF Ended
  <1> QED
    BY <1>2, <1>4, OneRequestOnly DEF RequestInv

LEMMA LookupHolds ==
    ASSUME SecretInv, RequestInv, NEW r \in Requests, Lookup(r)
    PROVE  RequestInv'
  <1> DEFINE in == req[r].in
             creds == store[in.ref]
  <1>1. PICK q : q = IF creds = None \/ ~Complete(in, creds) THEN Finish("failed")
                     ELSE IF in.auth = "oauth2" THEN [req[r] EXCEPT !.pc = "wait", !.creds = creds]
                     ELSE Send(req[r], Header(in, creds), Secret(in.auth, creds), 0)
    OBVIOUS
  <1>2. /\ req' = [req EXCEPT ![r] = q] /\ UNCHANGED <<secretVars, tokens, writes, restarts>>
        /\ lock' = lock /\ req[r].pc = "lookup"
    BY <1>1 DEF Lookup, secretVars
  <1>3. RequestOK(req[r]) /\ Referred(req[r]) /\ req[r] \in RequestType
    BY <1>2 DEF RequestInv, RequestOK, Ended
  <1>4. CASE creds = None \/ ~Complete(in, creds)
    <2>1. RequestOK(q)
      BY <1>1, <1>4, FinishOK DEF Ended
    <2> QED
      BY <2>1, <1>2, OneRequestOnly DEF RequestInv
  <1>5. CASE creds # None /\ Complete(in, creds)
    <2>1. in \in Inputs /\ in.ref \in Keys /\ at[in.ref] \in Nat /\ req[r].since \in Nat
      BY <1>3 DEF Referred, RequestType, SecretInv, SecretType
    <2>2. creds \in Data /\ creds = Usable(Version(in.ref, at[in.ref]))
      BY <1>5, <2>1 DEF SecretInv, SecretType, ServesTaken
    <2>3. Served(req[r], creds)
      BY <1>3, <1>5, <2>1, <2>2 DEF Served, Referred, Complete
    <2>4. RequestOK(q)
      <3>1. CASE in.auth # "oauth2"
        BY <1>1, <1>2, <1>3, <1>5, <2>1, <2>2, <2>3, <3>1, SendOK, HeaderType
      <3>2. CASE in.auth = "oauth2"
        <4>1. /\ q \in RequestType /\ q.pc = "wait" /\ q.creds = creds
              /\ q.in = in /\ q.since = req[r].since
          BY <1>1, <1>3, <1>5, <2>2, <3>2 DEF RequestType
        <4>2. Served(q, creds) /\ Referred(q)
          BY <1>3, <2>3, <4>1 DEF Served, Referred
        <4> QED
          BY <3>2, <4>1, <4>2 DEF RequestOK
      <3> QED
        BY <3>1, <3>2
    <2> QED
      BY <2>4, <1>2, OneRequestOnly DEF RequestInv
  <1> QED
    BY <1>4, <1>5

(* A request that waits for a token or fetches one.                        *)
LEMMA AtToken ==
    ASSUME RequestInv, NEW r \in Requests, req[r].pc \in {"wait", "fetch"}
    PROVE  /\ RequestOK(req[r]) /\ Served(req[r], req[r].creds) /\ req[r].in.auth = "oauth2"
           /\ Account(r) \in Texts
           /\ Secret("oauth2", req[r].creds) = [f \in {AccountField} |-> Account(r)]
           /\ Header(req[r].in, req[r].creds) \in HeaderTexts \X HeaderTexts
  <1>1. RequestOK(req[r]) /\ Served(req[r], req[r].creds) /\ req[r].in.auth = "oauth2"
    BY DEF RequestInv, RequestOK
  <1>2. req[r].creds \in Data /\ AccountField \in DOMAIN req[r].creds
    BY <1>1 DEF Served, Required
  <1> QED
    BY <1>1, <1>2, DataFacts DEF Account, Secret, Required, Header, HeaderTexts

LEMMA UseCachedTokenHolds ==
    ASSUME SecretInv, RequestInv, NEW r \in Requests, UseCachedToken(r)
    PROVE  RequestInv'
  <1> DEFINE token == Cached(Account(r))
  <1>1. PICK q : q = Send(req[r], Header(req[r].in, req[r].creds),
                          [f \in {AccountField} |-> token.account], token.left)
    OBVIOUS
  <1>2. /\ req' = [req EXCEPT ![r] = q] /\ UNCHANGED <<secretVars, tokens, writes, restarts>>
        /\ lock' = lock /\ req[r].pc = "wait" /\ IsTokenValid(token)
    BY <1>1 DEF UseCachedToken, secretVars
  <1>3. token \in Token /\ token.account = Account(r) /\ token.left > MaxTransit /\ token.left \in Nat
    BY <1>2, TokenLasts DEF Token
  <1>4. q = Send(req[r], Header(req[r].in, req[r].creds), Secret(req[r].in.auth, req[r].creds), token.left)
    BY <1>1, <1>2, <1>3, AtToken
  <1>5. RequestOK(q)
    BY <1>2, <1>3, <1>4, AtToken, SendOK
  <1> QED
    BY <1>2, <1>5, OneRequestOnly DEF RequestInv

(* The steps that fail, and the arrival at the provider.                   *)
LEMMA FinishHolds ==
    ASSUME SecretInv, RequestInv, NEW r \in Requests,
           ParseAccountFails(r) \/ FetchFails(r) \/ Arrive(r)
    PROVE  RequestInv'
  <1>1. /\ UNCHANGED <<secretVars, tokens, writes, restarts>> /\ lock' \in Requests \cup {None}
        /\ \E how \in Ended : req' = [req EXCEPT ![r] = Finish(how)]
    BY DEF ParseAccountFails, FetchFails, Arrive, secretVars, RequestInv, Ended
  <1>2. PICK how \in Ended : req' = [req EXCEPT ![r] = Finish(how)]
    BY <1>1
  <1>3. PICK q : q = Finish(how)
    OBVIOUS
  <1> QED
    BY <1>1, <1>2, <1>3, FinishOK, OneRequestOnly

LEMMA StartFetchHolds ==
    ASSUME SecretInv, RequestInv, NEW r \in Requests, StartFetch(r)
    PROVE  RequestInv'
  <1>1. PICK q : q = [req[r] EXCEPT !.pc = "fetch"]
    OBVIOUS
  <1>2. /\ req' = [req EXCEPT ![r] = q] /\ UNCHANGED <<secretVars, tokens, writes, restarts>>
        /\ lock' = r /\ req[r].pc = "wait"
    BY <1>1 DEF StartFetch, secretVars
  <1>3. RequestOK(req[r]) /\ Served(req[r], req[r].creds) /\ req[r].in.auth = "oauth2"
    BY <1>2, AtToken
  <1>4. req[r] \in RequestType /\ Referred(req[r])
    BY <1>2, <1>3 DEF RequestOK, Ended
  <1>5. /\ q \in RequestType /\ q.pc = "fetch" /\ q.in = req[r].in /\ q.since = req[r].since
        /\ q.creds = req[r].creds
    BY <1>1, <1>4 DEF RequestType
  <1>6. Served(q, q.creds) /\ Referred(q)
    BY <1>3, <1>4, <1>5 DEF Served, Referred
  <1>7. RequestOK(q)
    BY <1>3, <1>5, <1>6 DEF RequestOK
  <1> QED
    BY <1>2, <1>7, OneRequestOnly

LEMMA FetchTokenHolds ==
    ASSUME SecretInv, RequestInv, NEW r \in Requests, FetchToken(r)
    PROVE  RequestInv'
  <1>1. PICK l \in Lifetimes :
          /\ tokens' = [c \in DOMAIN tokens \cup {CacheKey(Account(r))} |->
                           IF c = CacheKey(Account(r)) THEN [account |-> Account(r), left |-> l]
                           ELSE tokens[c]]
          /\ req' = [req EXCEPT ![r] = Send(@, Header(@.in, @.creds), Secret("oauth2", @.creds), l)]
    BY DEF FetchToken
  <1>2. UNCHANGED <<secretVars, writes, restarts>> /\ lock' = None /\ req[r].pc = "fetch"
    BY DEF FetchToken, secretVars
  <1>3. l \in Nat /\ l > MaxTransit
    BY TimesAssumption, LifetimeAssumption
  <1>4. TokensKeyed'
    <2>1. [account |-> Account(r), left |-> l] \in Token
      BY <1>2, <1>3, AtToken DEF Token
    <2> QED
      BY <1>1, <2>1 DEF RequestInv, TokensKeyed, CacheKey
  <1>5. PICK q : q = Send(req[r], Header(req[r].in, req[r].creds),
                          Secret(req[r].in.auth, req[r].creds), l)
    OBVIOUS
  <1>6. req' = [req EXCEPT ![r] = q]
    BY <1>1, <1>2, <1>5, AtToken DEF RequestInv
  <1>7. RequestOK(q)
    BY <1>2, <1>3, <1>5, AtToken, SendOK
  <1> QED
    BY <1>2, <1>4, <1>6, <1>7, OneRequest

(* What a token loses, the request's age gains.                            *)
LEMMA TickHolds ==
    ASSUME SecretInv, RequestInv, Tick
    PROVE  RequestInv'
  <1>1. /\ UNCHANGED <<secretVars, lock, writes, restarts>>
        /\ \A r \in Requests : req[r].pc = "sent" => req[r].sent.age < MaxTransit
        /\ tokens' = [c \in DOMAIN tokens |-> [tokens[c] EXCEPT !.left = Less(@)]]
        /\ req' = [r \in Requests |->
                      IF req[r].pc = "sent"
                      THEN [req[r] EXCEPT !.sent.left = Less(@), !.sent.age = @ + 1]
                      ELSE req[r]]
    BY DEF Tick, secretVars
  <1>2. \A n \in Nat : Less(n) \in Nat /\ Less(n) >= n - 1
    BY DEF Less
  <1>3. TokensKeyed'
    BY <1>1, <1>2 DEF RequestInv, TokensKeyed, CacheKey, Token
  <1>4. ASSUME NEW r \in Requests PROVE RequestOK(req'[r])
    <2>1. RequestOK(req[r])
      BY DEF RequestInv
    <2>2. CASE req[r].pc # "sent"
      BY <1>1, <2>1, <2>2
    <2>3. CASE req[r].pc = "sent"
      <3> DEFINE q == req[r]
                 p == req'[r]
      <3>1. p = [q EXCEPT !.sent.left = Less(@), !.sent.age = @ + 1]
        BY <1>1, <2>3
      <3>2. q \in RequestType /\ q.sent \in SentType /\ Referred(q) /\ q.sent.age < MaxTransit
        BY <1>1, <2>1, <2>3 DEF RequestOK, Ended
      <3>3. /\ p \in RequestType /\ p.sent \in SentType /\ p.pc = "sent"
            /\ p.in = q.in /\ p.since = q.since /\ p.sent.secret = q.sent.secret
            /\ p.sent.left = Less(q.sent.left) /\ p.sent.age = q.sent.age + 1
        <4>1. PICK t : t = q.sent
          OBVIOUS
        <4>2. PICK l, a, s : l = Less(t.left) /\ a = t.age + 1 /\ s = [t EXCEPT !.left = l, !.age = a]
          OBVIOUS
        <4>3. t \in SentType /\ l \in Nat /\ a \in Nat
          BY <1>2, <3>2, <4>1, <4>2 DEF SentType
        <4>4. s \in SentType /\ s.left = l /\ s.age = a /\ s.secret = t.secret
          <5>1. s = [t EXCEPT !.left = l, !.age = a]
            BY <4>2
          <5> QED
            BY <4>3, <5>1 DEF SentType
        <4>5. p = [q EXCEPT !.sent = s]
          BY <3>1, <3>2, <4>1, <4>2 DEF RequestType, SentType
        <4> QED
          BY <2>3, <4>1, <4>2, <4>4, <4>5, <3>2 DEF RequestType
      <3>4. Referred(p) /\ \A creds : Served(q, creds) => Served(p, creds)
        BY <3>2, <3>3 DEF Referred, Served
      <3>5. q.sent.age \in Nat /\ q.sent.left \in Nat
        BY <3>2 DEF SentType
      <3>6. p.sent.age <= MaxTransit
        BY <3>2, <3>3, <3>5, TimesAssumption
      <3>7. q.in.auth = "oauth2" => p.sent.left + p.sent.age > MaxTransit
        BY <1>2, <2>1, <2>3, <3>3, <3>5, TimesAssumption DEF RequestOK
      <3>8. \E creds : Served(p, creds) /\ p.sent.secret = Secret(p.in.auth, creds)
        BY <2>1, <2>3, <3>3, <3>4 DEF RequestOK
      <3> QED
        BY <3>3, <3>4, <3>6, <3>7, <3>8 DEF RequestOK
    <2> QED
      BY <2>2, <2>3
  <1>5. \A p : RequestOK(p) => RequestOK(p)'
    <2>1. \A p : Referred(p)' <=> Referred(p)
      BY <1>1 DEF Referred, secretVars
    <2>2. \A p, creds : Served(p, creds)' <=> Served(p, creds)
      BY <1>1 DEF Served, Version, secretVars
    <2> QED
      BY <2>1, <2>2 DEF RequestOK
  <1>6. \A r \in Requests : RequestOK(req[r])'
    BY <1>4, <1>5
  <1>7. DOMAIN req' = Requests /\ req' = [r \in Requests |-> req'[r]]
    BY <1>1
  <1> QED
    BY <1>1, <1>3, <1>6, <1>7 DEF RequestInv

LEMMA RequestInit == Init => RequestInv
  <1> SUFFICES ASSUME Init PROVE RequestInv
    OBVIOUS
  <1>1. \A r \in Requests : RequestOK(req[r])
    BY FinishOK DEF Init, Ended
  <1>2. TokensKeyed
    BY DEF Init, TokensKeyed
  <1> QED
    BY <1>1, <1>2, TimesAssumption DEF Init, RequestInv

LEMMA RequestRestart ==
    ASSUME SecretInv, RequestInv, Restart
    PROVE  RequestInv'
  <1>1. \A r \in Requests : req'[r] = Finish("failed")
    BY DEF Restart
  <1>2. \A r \in Requests : RequestOK(req[r])'
    BY <1>1 DEF RequestOK, Finish, RequestType, Ended
  <1>3. TokensKeyed'
    BY DEF Restart, TokensKeyed
  <1> QED
    BY <1>2, <1>3 DEF Restart, RequestInv

(* The store's own steps leave requests alone; what they carry was served  *)
(* since they began, and still was once the store has moved on.            *)
LEMMA RequestSecret ==
    ASSUME SecretInv, SecretInv', RequestInv, SecretNext \/ UNCHANGED vars
    PROVE  RequestInv'
  <1>1. UNCHANGED <<tokens, lock, req, restarts>> /\ writes' \in Nat
    BY DEF SecretNext, Write, Deliver, GetSecret, StoreSecret, vars, RequestInv
  <1>2. Onward
    BY GoesOnward DEF Next
  <1>3. \A q : RequestOK(q) => RequestOK(q)'
    BY <1>2, RequestStays
  <1>4. \A r \in Requests : RequestOK(req[r])'
    BY <1>1, <1>3 DEF RequestInv
  <1>5. TokensKeyed'
    BY <1>1 DEF RequestInv, TokensKeyed, CacheKey
  <1> QED
    BY <1>1, <1>4, <1>5 DEF RequestInv

CredentialInv == SecretInv /\ RequestInv

LEMMA CredentialInvariant == Spec => []CredentialInv
  <1>1. Init => CredentialInv
    BY SecretInit, RequestInit DEF CredentialInv
  <1>2. CredentialInv /\ [Next]_vars => CredentialInv'
    <2> SUFFICES ASSUME SecretInv, RequestInv, [Next]_vars PROVE CredentialInv'
      BY DEF CredentialInv
    <2>1. SecretInv'
      BY SecretStep
    <2>2. CASE RequestNext
      <3>1. PICK r \in Requests : \/ \E in \in RequestData[r] : Begin(r, in)
                                  \/ Progress(r) \/ Arrive(r)
        BY <2>2 DEF RequestNext
      <3> QED
        BY <2>1, <3>1, BeginHolds, LookupHolds, UseCachedTokenHolds, FinishHolds, StartFetchHolds,
            FetchTokenHolds DEF Progress, CredentialInv
    <2> QED
      BY <2>1, <2>2, RequestSecret, TickHolds, RequestRestart DEF Next, CredentialInv
  <1> QED
    BY <1>1, <1>2, PTL DEF Spec

(* The plugin's state keeps its type: in particular the store never holds  *)
(* anything but field maps, and headers are made of texts.                 *)
THEOREM Types == Spec => []TypeOK
  <1>1. CredentialInv => TypeOK
    BY DEF CredentialInv, SecretInv, SecretType, RequestInv, RequestOK, TokensKeyed, TypeOK
  <1> QED
    BY <1>1, CredentialInvariant, PTL

(* A request goes out with the credential of one version that the store    *)
(* served since the request began, for any interleaving of rotations,      *)
(* token fetches and restarts.                                             *)
THEOREM CredentialServed == Spec => []CredentialServedMeanwhile
  <1>1. CredentialInv => CredentialServedMeanwhile
    <2> SUFFICES ASSUME CredentialInv, NEW r \in Requests, req[r].pc = "sent"
                 PROVE  \E i \in req[r].since..at[req[r].in.ref] :
                          LET creds == Usable(Version(req[r].in.ref, i))
                          IN  /\ creds # None /\ Required(req[r].in.auth) \subseteq DOMAIN creds
                              /\ req[r].sent.secret = Secret(req[r].in.auth, creds)
      BY DEF CredentialServedMeanwhile
    <2>1. PICK creds : Served(req[r], creds) /\ req[r].sent.secret = Secret(req[r].in.auth, creds)
      BY DEF CredentialInv, RequestInv, RequestOK
    <2>2. creds # None
      BY <2>1, NoneAssumption DEF Served
    <2> QED
      BY <2>1, <2>2 DEF Served
  <1> QED
    BY <1>1, CredentialInvariant, PTL

(* No token expires on the way to the provider, because the margin and the *)
(* lifetimes exceed the time of the way.                                   *)
THEOREM TokenOutlives == Spec => []TokenOutlivesRequest
  <1>1. CredentialInv => TokenOutlivesRequest
    <2> SUFFICES ASSUME CredentialInv, NEW r \in Requests,
                        req[r].pc = "sent", req[r].in.auth = "oauth2"
                 PROVE  req[r].sent.left > 0
      BY DEF TokenOutlivesRequest
    <2>1. /\ req[r].sent.left \in Nat /\ req[r].sent.age \in Nat /\ req[r].sent.age <= MaxTransit
          /\ req[r].sent.left + req[r].sent.age > MaxTransit
      BY DEF CredentialInv, RequestInv, RequestOK, SentType
    <2> QED
      BY <2>1, TimesAssumption
  <1> QED
    BY <1>1, CredentialInvariant, PTL
=============================================================================
