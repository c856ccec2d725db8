# Verification of ai-gateway-payload-processing

TLA+ models of the payload processor's controllers and of its request plugins, checked with TLC on
small instances and, where the prover can, proved with TLAPS for all of them. `PROJECT.json` gives, for every definition, the
source lines it stands for, and lists the runs, mutants, findings, hazards and theorems.

## The system

The payload processor (IPP) runs beside an Envoy gateway. Users create `ExternalProvider`s (endpoint and
credential) and `ExternalModel`s (a client-facing name and weighted references to providers). Controllers
turn them into network objects, a plugin chain handles the requests. Another operator, the AI Gateway
Controller (AGC, also AIGC), may take over objects by adding a finalizer.

| Component | State | Operations | What makes it correct |
|---|---|---|---|
| Resolver store (`pkg/plugins/model-provider-resolver`: `store.go`, two reconcilers) | providers and name-to-model mappings in memory, two work queues | reconcile of a provider, of a model, restore of displaced names, provider-to-model mapping | credentials stay within the tenant, withdrawn models leave the store, changes arrive |
| Resolver plugin (`plugin.go`), headers guard (`maas-headers-guard`) | CycleState and headers of a request | capture and strip, loop check, PROPOSE, select, restore or mark the origin | loops end, nothing else is rejected, the cluster name stays inside |
| ExternalProvider controller (`pkg/controller/externalprovider`) | none of its own; Service, ServiceEntry, DestinationRule, status | validate, apply three objects, clean up after a claim, write status | no fight with AIGC, no plaintext, convergence |
| ExternalModel controller (`pkg/controller/externalmodel`) | none of its own; HTTPRoute, status | resolve references, apply or withdraw the route, write status | no fight with AGC, last good route kept, convergence |
| API key injection (`apikey-injection`) | Secrets in memory behind a label-filtered informer, OAuth2 token cache and its lock | reconcile a Secret, look up and inject a credential, fetch a token | a request gets one version of its own credential, tokens last, the lock blocks nobody |
| External metering (`external-metering`) | per request: customer, chunk buffer, last usage | balance check, take a chunk, report usage or an error | every complete answer is reported once, however it was cut |
| NeMo guardrails (`nemo`) | none | extract texts, call the service, read its verdict | what the service blocks passes neither way, where the guards look |
| API translation (`api-translation`), passthrough picker, stream usage enforcer | none of their own; CycleState | choose a profile and a translator, rewrite requests and answers | the client gets its own API's format, a conversation survives both translations |
| Legacy migration controller (`pkg/controller/legacymigration`) | none of its own | copy a legacy model into a provider and a model | user changes are kept, no plaintext, convergence |
| Dynamic metadata server, process setup (`cmd`) | none | wire-level injection, registration | |

Interaction. The store's reconcilers, the two controllers and AGC run concurrently on the same objects and
see them through informers that lag. Provider events enqueue models and model events enqueue providers.
Requests read the store under its lock and are then routed by Envoy with the HTTPRoute the model controller
wrote. The plugins of one request share its CycleState; the credential store and the token cache are shared
by all requests. What is hard is there: reads from a cache used for later writes, two controllers or two
plugins that must agree, one step of several failing, a header that travels through several clusters, an
answer cut into chunks anywhere, a conversation that is translated again with every request. `hazards` in
`PROJECT.json` lists each at its line.

## Modules

| Module | Models | Instances and proofs |
|---|---|---|
| `InfoStore` | the store, both reconcilers, queues, restarts, List errors | `MCInfoStore`, `InfoStore_proofs` |
| `OriginLoop` | one request between clusters, standard and hub chains | `MCOriginLoop`, `OriginLoop_proofs` |
| `ProviderControl` | the ExternalProvider controller for one provider | `MCProviderControl`, `ProviderControl_proofs` |
| `ModelRoute` | the ExternalModel controller for one model | `MCModelRoute`, `ModelRoute_proofs` |
| `Gateway` | extends `ModelRoute` with the store's mapping: destination against credential | `MCGateway` (extends `MCModelRoute`), `ModelRoute_proofs` |
| `SecretMirror` | abstract: what the Secret store promises | implemented by `Credentials` |
| `Credentials` | Secret informer, reconciler and store, credential generators, token cache, requests | `MCCredentials`, `Credentials_proofs` |
| `Guardrails` | what the NeMo guards submit and how they read a verdict | used by `Pipeline` |
| `StreamUsage` | usage and errors in text that arrives in chunks | used by `Pipeline` |
| `WeightedChoice` | `selectByWeight` | used by `Pipeline` |
| `Pipeline` | one request through guard, resolver, picker, enforcer, metering, guardrails and translation, and back | `MCPipeline`, `Pipeline_proofs` |
| `ChatMessages` | messages, tools and limits of the chat API | used by the translators |
| `AnthropicTranslator`, `VertexTranslator` | both directions of the translators | used by `Conversation` |
| `Conversation` | a client, the translators and a provider over several turns | `MCConversation`, `Conversation_proofs` |
| `Migration` | the legacy migration controller for one legacy object | `MCMigration`, `Migration_proofs` |

### InfoStore

`provider` and `model` objects exist on the API server; `queue`d keys are reconciled by one worker per
controller, and each reconcile is split where another actor can act: the Get, each reference's lookup in the
provider half of the store, the store write. An excluded model's names are deleted and then restored from a
List, which is a snapshot. `Faults` enables List errors, deletions and restarts (a restart empties the store
and enqueues everything). The worker's queue is FIFO and coalesces, hence strong fairness per key in
`FairSpec`. A Get that fails is retried and is a stutter. A path's `{key}` placeholders matter by whether
they resolve; their texts are opaque.

### OriginLoop

A standard cluster runs guard then resolver in one chain with one CycleState. A hub runs the resolver before
and after the endpoint picker, without the guard, as `deploy/examples/hub-mode` does, and the destination
header decides which half runs. The store may hold any subset of the references at any moment. `Trim` and
`Fold` are `strings.TrimSpace` and the classes of `strings.EqualFold`. `NamesAssumption`: no two clusters
have the same `CLUSTER_NAME`. The ghosts `senders`, `marker`, `lost`, `again`, `early`, `client` record what
the properties speak of. No code removes the destination header from a request that leaves a cluster, so the
next one may see it (`early`).

### ProviderControl and ModelRoute

Every API call is a step. Typed reads come from informer caches (the manager's default client); unstructured
reads, that is the Istio kinds, are live. `current` flags stand for resourceVersion: a copy's flag is cleared
when the object is written, and a write with a cleared flag conflicts. In `ModelRoute` a second flag stands
for the UID. The registered controllers (`cmd/controllers.go`) watch providers and models only, so a change
of a created object enqueues nothing. `Faults` names the calls that may fail. AIGC creates or relabels
objects while it has claimed a provider and releases the provider after removing what it labelled; this is
the assumption behind `Release`. A no-op status update does not change the version.

In `ModelRoute` a reference is abstracted to the conditions `reconcileHTTPRoute` tests (namespace, existence,
phase, path keys, annotations), a route to its rules in order, its label and its owner. The two rules per
provider and the two fallback rules are determined by that sequence. The route informer may be late for any Get,
so a reconcile may see no route, or an older one. A write then conflicts and is retried; but when the outdated
copy already looks as wanted, or shows nothing to withdraw, the reconcile ends in good order with the route
wrong. The ghost `misled` says that the last reconcile to look at the route left it alone on an outdated copy,
and the properties that speak of the route's content except this case. The fault `relabel` lets another
controller take the route over; nothing watches routes, so a resting model leaves it there until its next
event, and `RouteConverges` excepts a route taken over.

### Gateway

The store's `mapping` is the set of providers it maps the model to. It changes in one step, `StoreModel`, when
its reconcilers have handled some version of the objects (`InfoStore` has their interleavings). `Destination` is Envoy's choice: a rule that matches
`x-ipp-selected-provider`, else the fallback to the first resolved reference.

### SecretMirror and Credentials

`log` has every version of a Secret; the informer's cache is a position in it, seen through the label
selector, and the reconciler reads that same cache, as `plugin.go:78-83` demands. `Deliver` may skip versions
(a relist). A malformed Secret loses its entry and is retried. `Restart` empties store and token cache and
enqueues what the informer lists.

`SecretMirror` says what all this amounts to: an entry is the usable data of one version, the store only moves
on to later versions, a restart forgets. `Credentials` implements it with `at`, the version the store last
took, as the only ghost (`MirrorsSecrets`, checked by TLC and proved).

A request reads its CycleState, looks its Secret up, and for OAuth2 waits for the token cache's lock, which is
held during the fetch. Time runs backwards in `left`; `Margin` is the five minutes of `isTokenValid` and
`MaxTransit` the time a request takes to the provider. `LifetimeAssumption` (the margin covers that time, and
tokens are issued for longer) is what the margin is for. The SigV4 signature is not computed; its inputs are
followed, without the optional session token, the body and the path.

### Pipeline, Guardrails, StreamUsage, WeightedChoice

`client` is what came in, `out` what the plugins made of it; the other variables are CycleState keys. The chart's
default values have the headers guard, the resolver, the enforcer, translation and key injection. Metering, the
two NeMo guards and the picker are optional: metering stands where `deploy/examples/external-metering` puts it,
after the resolver; `examples/nemo` fixes no place for the guards, and they are taken to run before a request
is translated and after an answer is translated back. The headers guard may be absent (both are initial
states). The resolver's loop check and its hub branch are in `OriginLoop`. `RefLists`
are the references the store may return at that moment. The answer is either passed in chunks (passthrough
profile, only metering sees it) or buffered and processed by metering, translation and the response guard.

A body has a section for each field the plugins look at, any of them present at once, with the Messages API's
`system` and `content`, which no guard reads. A section may have the wrong JSON type, and so may each of its
items: text that the guard can read, blocks it does not know (read as empty), another type (an error in a
message's content, read as empty in a tool call's arguments or result), or no object at all (an error). The
texts the guards submit are a set: order and repetition do not matter to a verdict. An answer's text is a
sequence of fragments:
a line's `data: ` prefix in two parts, the head and the tail of its payload. Every cut of this sequence into
chunks, with empty chunks and an empty final one, is explored; a cut elsewhere in a line is equivalent to one
of these for `splitSSELines` and `json.Unmarshal`. A compressed answer does not parse. The framework's
buffering of a stream for a profile that needs a body is not in this repository, so there only documents are
considered. `AnswerAssumption` says what the providers' answers are like: only a stream has several lines, and
usage is in JSON. An error may come anywhere in a stream, also after usage.

`BlockedStaysOut` says of every item of a body that blocked text gets through only where the guard does not
look, and `Unread` and `Unheard` list these places. For requests: fields other than `messages`, `jsonrpc`,
`input` and `instructions` (Anthropic's `system` among them); of these, the ones after the first that is there;
instructions without an input; arguments, instructions, and a tool call's arguments or result that are no string;
input items of another type or without one; blocks of kinds the guard does not know. For buffered answers:
fields other than `choices`, `jsonrpc` and `output`, so the `content` of a Messages answer
(`docs/design-multi-provider-passthrough.md:184` says so of passthrough); fields after the first; tool calls;
in `output`, messages of other roles and unknown blocks. Answers in the passthrough profile are not reviewed.

### ChatMessages, AnthropicTranslator, VertexTranslator, Conversation

The translators keep no state, so the history the client sends is the state. Text is a sequence of words, so
that joining, emptiness and order matter and wording does not. JSON arguments are opaque, with the cases that
do not parse or are null. `Conversation` lets a provider answer with text and parallel calls, the client
return results in any order, by role `tool` or `function`, with instructions in between, and send everything
again. `turns` keeps what the provider really said.

The loops over messages, blocks and parts are recursive functions with one step per element (`TakeMessage`,
`TakeContent`) and `Keep`, which filters a sequence. `CallIds` are the ids `call_0`, `call_1`, ... that the
Gemini translator invents; they start again with every answer.

### Migration

As in the other controllers, every call is a step and copies carry a flag for their resourceVersion. The
legacy object is unstructured and read live, provider and model come from the cache. Users edit, delete, take
over (remove the label) or create objects at any moment, calls fail, answers to successful writes are lost,
the garbage collector removes what a deleted legacy object owned.

## Runs

| Run | Result | Shows |
|---|---|---|
| `store_safety` | pass | `TenantConfinement`, `ProviderStoreCurrent`, `WithdrawnUnlessPending` |
| `store_live` | pass | `EventuallyWithdrawn`, `EventuallyServed` |
| `origin_loop` | pass | `MarkerSendsOnce`, `OnlyLoopsRejected`, `OriginKeptFromProviders`, `ReturningRequestEnds` |
| `control` | pass | `NoPlaintextTransport`, `NoStatusWhenClaimed`, `OnlyOwnLabelDeleted`, `IstioConverges` |
| `gateway_safety` | pass | `NoStatusWhenServed`, `LastGoodRouteKept`, `SettledConsistent` |
| `gateway_live` | pass | `RouteConverges`, `StatusConverges` |
| `credentials` | pass | `MirrorsSecrets` (refinement), `StoreFollowsCache`, `StoreConverges`, `CredentialServedMeanwhile`, `TokenOutlivesRequest`, `RequestsAnswered` |
| `pipeline` | pass | `AnswerMeteredOnce`, `FailureReportedOnce`, `BlockedStaysOut`, `AnsweredInClientFormat`, `DrawsMatchWeights` |
| `conversation` | pass | `ToolResultsPaired`, `TurnsPreserved`, `ResponsesNamed`, `RequestAcceptable` |
| `migration` | pass | `UserChangesKept`, `MigratedOverTLS`, `ProviderFirst`, `FollowsLegacy` |
| `store_stale` | violation | a provider change may never reach the mappings (`ChangesPropagate`) |
| `gateway_fallback` | violation | the credential of a provider that is not Ready goes to another provider (`DestinationMatchesCredential`) |

Each violation is a finding in `PROJECT.json`, with the comment or document it contradicts. Every property of
a passing run has a mutant of the code's definition that TLC refutes. The type invariants of
all modules are theorems; those of `InfoStore`, `Pipeline` and `Conversation` are also checked by
`store_safety`, `pipeline` and `conversation`.

Other disagreements and limits met while modelling, without a run of their own. Controllers and store:

- `cacheModel` (`external_model_reconciler.go:143`) adds a renamed model's new name and leaves the former one,
  so clients go on using a name the model no longer has; `externalmodel_types.go:29-30` says that the name is
  `spec.modelName` or `metadata.name`.
- An excluded model's names are deleted before `restoreModelNames` lists the models. When the List fails
  (`external_model_reconciler.go:103`), the retry finds nothing to restore, against lines 94-95.
- A status update that fails is logged and not retried (`externalprovider/reconciler.go:325`, the same in
  `externalmodel/reconciler.go:264`): the phase stays as it was until an unrelated event.
- A provider reconcile older than AIGC's claim updates the object AIGC has created meanwhile, with labels and
  owner (`externalprovider/reconciler.go:358`); the cleanup finds IPP's label and deletes it, against the
  comment at lines 264-267.
- A model-level auth override of type `simple` is stored as it is (`external_model_reconciler.go:172`), where
  the provider's own type goes through `mapCRDAuthType`; no generator accepts it.
- A hub injects `X-Origin-Cluster` for every reference (`plugin.go:334`), while
  `docs/providers/remote-maas.md:229` says that it is never sent to third-party providers.
- `docs/external-provider-model.md:100-102` recommends `oauth2` over plain HTTP; `ValidateConnectionSecurity`
  refuses plaintext for every auth type. Line 64 lists an auth type `none`, which the CRD's enum rejects.
- The Service and the HTTPRoute are read from caches that may miss the controller's own last write, and neither
  is watched. A claim or takeover handled that early finds nothing to remove and leaves IPP's object behind,
  where `externalmodel/reconciler.go:105-106` says "Withdraw any HTTPRoute this controller still owns from a
  previous reconciliation"; an edit and its reversal in a row may leave the edited form. For the route, `misled`
  marks these states: without it, TLC refutes `RouteConverges` and `SettledConsistent`.
- `deleteOwnedHTTPRoute` gives the UID as its only precondition, so a route that another controller relabelled
  after the cached read is deleted; the provider controller also gives the resourceVersion.
- `status.observedGeneration` is never set by either controller.
- Migration: a stale cached read that equals what is wanted makes a write look needless, and nothing repeats
  it (a legacy object edited from A to B and back may leave B's form; `late` marks this case in
  `FollowsLegacy`). After a legacy object is deleted and created again, the migrated objects keep the old
  owner UID and are collected; nothing creates them again. The same collection takes objects whose label a
  user removed. Only legacy objects are watched, so user deletions and edits are not repaired.

Request plugins:

- After a failed balance check with fail-open (`external-metering/plugin.go:165-167`) the accept-encoding
  header stays, and a compressed answer is not metered. `AnswerMeteredOnce` leaves out exactly the requests
  that had the header while fail-open is configured.
- Anthropic streams carry usage twice, in `message_start` and `message_delta`. When the latter is split over
  chunks, or both are in one chunk, the earlier usage is the one reported.
- Buffered error answers are not reported, nor is an error after usage or after a first line that parses
  (`FailureReportedOnce` allows both), nor a stream that breaks off (there is no final chunk). A report that fails is logged and lost. Requests that pass the balance
  check together may overdraw the budget.
- NeMo's "modified" verdict lets the content pass as it is (a TODO in the code). `extractMessages` ignores the
  input format: in a Responses request with both `messages` and `input` the input is not inspected, where
  `extractor.go:35` says "When inputFormat is OpenAIResponses, the OpenResponses path is used." (one of
  `MCClients`). It rejects an embeddings request whose `input` is a list of strings. Where else the guards do
  not look is said above.
- The token cache never evicts an account, and one account's slow fetch delays the others by up to
  `tokenFetchTimeout`.
- Translation: Gemini's calls come with finish reason `stop`; `tool_choice: none` is left out for Anthropic;
  an answer cut off inside a tool call loses the call and may leave an empty assistant message; pictures given
  as links are dropped; `response_format` is passed to Anthropic unchanged; Gemini gets a `toolConfig` also
  without tools. The Gemini translator is not registered in `NewAPITranslationPlugin`, nor are the ones for
  Azure, Bedrock and OpenAI on Vertex.

**Bounds.** `MaxEnv` bounds the steps of users, AGC and faults, 2 or 3 in the larger runs: two suffice for
every race between a reconcile and a change followed by a second change or a failure, and the controllers'
own steps are not bounded. Two tenants, two providers and two models are what a name collision, a
cross-tenant restore and a partly resolvable model need. Three clusters, of which one hub and one unnamed,
have every kind of hop. In `credentials`, two writes are a rotation and a change during it, two requests
compete for the lock, lifetime 2 and margin 1 have a valid, a nearly expired and an expired token. In
`pipeline`, streams have up to three lines, enough for usage before, after and twice around other lines.
In `conversation`, two answers with two calls each and five client messages have repeated ids, reordered
results and a turn after them. `MaxSteps` = 4 in `migration` allows two edits, a takeover and a failure in one
behaviour. A loop that does not pass its origin (A to B to C to B) is documented as undetected
(`docs/providers/remote-maas.md:251-254`), and a client's own header value is kept as the origin: this is why
`ReturningRequestEnds` speaks of requests that keep returning to the cluster that marked them, which between
two clusters is every request that circulates. The violated properties use the smallest instance that shows
the trace.

`store_live` leaves out deletions (a displaced model is not restored when the displacing one is deleted, which
no text promises) and List errors (above). `gateway_live` leaves out failing status updates (above). Informers
resync after hours, which would bound those violations in time; the model has no resync. Deadlock is not checked: with the
environment's bound used up and the queues empty, the system rests.

**Fairness.** Weak fairness of the informers (they deliver what changed) and of the single reconcile worker
(it always has an enabled step while the queue is not empty); per key strong fairness in the store, whose
queue is FIFO; weak fairness of the request's next step in `OriginLoop`. In `Credentials`, strong fairness per
key for the same reason and per request, since a Go mutex hands itself to a waiter that starves and a fetch
ends by its timeout. In `Migration`, weak fairness of the worker and of the cache. Users, AGC, time, restarts
and faults have none.

## Theorems

All are for any value of the constants under the named assumptions, by an inductive invariant.

- `InfoStore_proofs`: `TypeCorrect`, `CredentialsConfined`, `MappingsWithdrawn`, `ProvidersCurrent`. The
  copies a reconcile holds must be related to the queues: a mapping that should not exist is covered by a
  pending key or by the reconcile in progress.
- `OriginLoop_proofs`: `LoopTypes`, `LoopsStopAtOrigin`, `RejectionsAreLoops`, `OriginStaysInside`. While the marker's
  header is not lost, the origin read by each plugin is the marker's name, be it in the header or captured.
- `ProviderControl_proofs`: `ControlTyped`, `TransportIsTLS`, `ClaimedStatusKept`, `HandoffKeepsForeign`. A
  copy whose flag is still set agrees with the API server, and a writing step is reached only with a copy
  that was validated and not claimed.
- `ModelRoute_proofs`: `RouteTyped`, `ServedStatusKept`, `RouteKept`. The same argument for the model's copy;
  the route is looked up without rules only to withdraw it. `SettledHolds`, for `Gateway`: with no key queued,
  the rules collected so far are those of the good references before the one at hand, a copy of the route whose
  flag is still set is the route there is, and at rest, unless `misled`, the route names exactly the providers
  that resolve in what the reconciler has seen (`WorksOnSeen`, `Collected`, `RouteRead`, `Applied`).
- `Credentials_proofs`: `Types`, `StoreFollows`, `StoreMirrors` (the refinement of `SecretMirror`),
  `CredentialServed`, `TokenOutlives`. The positions of the store, the worker and the cache in the log are
  ordered, and the worker and the store hold the data of their positions; a waiting request's credentials are
  those of a version between its beginning and the store's position; a cached token's account is the one its
  key was made from; time left plus age exceeds `MaxTransit` for a token under way.
- `Migration_proofs`: `Types`, `KeepsUserChanges`, `WritesTLS`, `ProviderComesFirst`. A copy whose flag is set
  equals the object, a reconcile under way works for a migratable legacy object, and the model's turn comes
  only once a provider exists, unless someone else changed them.
- `Pipeline_proofs`: `TypesKept`, `ClientFormatKept`, `DrawsKept`, `MeteredOnce`, `ErrorReportedOnce`,
  `BlockedOut`. At every stage the outgoing and then the answer's format is determined by the input and output
  formats and the profile, and the picker sends past the translator only pairs the translator leaves alone.
  The draws for a reference are the interval between two running sums of the weights. For the metering,
  what any stretch of the text yields is usage of the answer, and the whole text yields some; `MeteringInv`
  says that until usage was found the buffer is all the text received so far, that a metered answer is
  readable and has usage, and what has been reported at every stage. Of each item of a body, what
  the guard does not skip is among the texts it submits (`FirstFields`, `InputFields`, `ResponseRead`), so past a
  guard blocked text stands only where it does not look (`Withheld`, `Delivered`), whatever the later plugins do.
- `Conversation_proofs`: `MessagesTyped`, `RequestsAcceptable`, `NamesFound`, `AnswersPreserved`,
  `ResultsPaired`. One message more in the history is one step more of the translator's loop, so an invariant
  speaks of the loop's result for the history there is, while the client still adds to it. `SentInv`: a request
  is what the loop makes of the history. `NamedInv`: for each outstanding call the loop last remembered its
  function's name. `ClaudeKept`, `GeminiKept`: the assistant's turns in the result are the answers given.
  `PairInv`: every message with calls but the last is followed by its results, and the last one by those that
  are not outstanding.

Assumptions are the named `ASSUME`s of the modules: types of the constants, distinct cluster names,
`AnswerAssumption` above, in `ConversationAssumption` that ids and function names are not empty and that the
invented ids differ and suffice for an answer, and for `TokenOutlives` the `LifetimeAssumption` above.

The loops of `WeightedChoice`, `StreamUsage` and the translators need induction over numbers and sequences.
The library's induction theorems take an operator, which the provers cannot instantiate; `Induction` and
`SeqInduction` are stated for a set instead, and follow from the least element a set of numbers has (`WFMin`).

Every invariant and every safety action property of the passing runs is a theorem. Only model-checked are the
liveness properties (`EventuallyWithdrawn`, `EventuallyServed`, `ReturningRequestEnds`, `IstioConverges`,
`RouteConverges`, `StatusConverges`, `StoreConverges`, `RequestsAnswered`, `FollowsLegacy`), since the prover
has neither ENABLED nor fairness, and the two findings.

## Not modelled

- The dynamic metadata server rewrites one response without state: it moves a header into a field. Hub mode is
  followed as far as the origin header goes.
- Process setup (`cmd/runner.go`, `main.go`, `grpcmaxrecv.go`): flags, registration and servers. Its effect,
  which controllers watch what and the order of the plugins, is in the modules; restarts are actions.
- Of the translators: usage and generation-config mapping, stop sequences, the response field stripper, and the
  translators for OpenAI-compatible APIs that are not registered. They copy fields one by one.
- SigV4 arithmetic, JSON and protobuf encoding, metrics, logs, generated deep-copy code.
- A request in flight across a change of route and store at once: `Gateway` compares the two, `Credentials`
  follows the Secret, but no module composes all three.

Next, in this order: compose `InfoStore` and `Credentials` into the credential a request gets end to end; an
abstract store that `InfoStore` implements and `Gateway` uses.
