# The model validation operator in TLA+

This directory specifies the model-validation-operator: the operator process
that injects, tracks and reports pods, its telemetry configuration, and the
validation agent it puts into them. It is meant to be read next to the code. Every
definition that stands for code names the lines it stands for in
`PROJECT.json` (`map`).

- [The system](#the-system)
- [Modules](#modules)
- [Properties and runs](#properties-and-runs)
- [Where code and documentation disagree](#where-code-and-documentation-disagree)
- [Proofs](#proofs)
- [Abstractions, bounds and fairness](#abstractions-bounds-and-fairness)
- [Not modelled](#not-modelled)
- [Plan](#plan)

## The system

A user labels a pod with the name of a `ModelValidation`. The pod webhook adds
an init container that validates the model before the pod's own containers
start, a finalizer, and annotations that say under which configuration it did
so. The operator watches both kinds of objects and publishes in the status of
each ModelValidation which pods were injected, which were not, and which were
injected under a configuration that is no longer current.

| component | state | operations | interacts with |
|---|---|---|---|
| Debounced queue (`internal/tracker/debounced_queue.go`) | timers by key, WaitGroup, a client-go workqueue, `stopCh`, gauge | Add, AddWithRetry, Get, Done, ShutDown, WaitForUpdates, WaitForCompletion | called by controllers, seeding goroutines and the update worker; timer callbacks run in goroutines of their own |
| ModelValidation info (`model_validation_info.go`) | three pod tables, configuration, generation | AddInjectedPod, AddUninjectedPod, RemovePod, UpdateConfig | used by the tracker under its lock |
| Pod mapping (`pod_mapping.go`) | name to UID and back | AddPod, RemovePodsByName, RemovePodByName | used by the tracker under its lock |
| Status tracker (`status_tracker.go`) | tracked ModelValidations, namespace counters, pod mapping | AddModelValidation, RemoveModelValidation, ProcessPodEvent, RemovePodEvent, RemovePodByName, seeding, doUpdateStatus, Stop | both controllers call it; it calls the queue and the API server; `st.mu` guards the tables, API calls are made without it |
| Controllers (`internal/controller`) | none | Reconcile of ModelValidations and of pods | triggered by informers, which they also read; call the tracker; remove the finalizer |
| Pod webhook (`internal/webhooks/pod_webhook.go`) | none | Handle | reads ModelValidations from the cache; sees the operator's own pod updates too |
| Validation agent (`cmd/validation-agent`, `internal/validation`) | readiness, signal context, ticker | initial and periodic validation, health server, shutdown | started, probed and ended by the kubelet |
| TelemetryConfig controller (`telemetryconfig_controller.go`) | status | Reconcile | watches three kinds of objects, one of which it writes |
| TelemetryConfig selection (`webhooks/telemetry.go`) | none | choose the configuration for a pod | called by the webhook, reads what the controller watches |
| API types (`api/v1alpha1`) | none | GetConfigHash, GetAuthMethod | called by the webhook and the tracker, which compares their answers |
| Start-up, metrics, tracing, network policy, service monitor | configuration | create or update objects once | |

What is hard here, and hard to test:

- *Timers.* `time.Timer.Reset` on a timer that has fired arms it again while
  its callback runs. Callbacks of one key overlap, and the code that counts
  them (`debounceWg`) and the map of timers see only the last.
- *Unlocked API calls.* `doUpdateStatus` and the seeding goroutine read the
  cluster without `st.mu` and act on the answer after other handlers ran.
- *Stale caches.* Controllers, webhook and worker all read informer caches;
  events are coalesced, names of pods and ModelValidations are used again.
- *Retries.* A status write that conflicts is added with back-off, beside the
  updates that are debounced and the ones in processing.
- *Self-triggering.* The status write of the operator is an event for its own
  controller, and its removal of the finalizer a request to its own webhook.
- *Restarts.* The tracker starts empty, while finalizers and statuses remain.
- *Coming back later.* The webhook is called again for every update of a pod,
  and the tracker compares what it did then with what it would do now.
- *Two readers of one list.* The arguments of an agent are written by the
  webhook from users' texts and read by `flag.Parse` and by `ParseArgs`.
- *Containers.* Signals, ticks, validations and probes of the agent race, and
  what the kubelet waits for differs between init containers and sidecars.

`PROJECT.json` (`hazards`) lists these one by one, with the line where each
bites and the properties that would notice.

What makes each component correct:

- queue: an added key reaches the worker after the last addition, no key is
  with two workers, additions die out, Stop returns;
- info and mapping: a pod is in one category, the one its annotations say, and
  the two directions of the name mapping agree;
- tracker: no change of what a status shows is left without a pending update,
  and the namespace counter covers what is tracked;
- operator: once everything has been observed the published status is the true
  one, what exists is tracked, no deleted pod is listed, and after the last
  edit the operator comes to rest;
- telemetry: a wrong count is never left alone, counting ends, and which
  configuration a pod gets is determined by the configurations alone;
- injection: an agent verifies what was asked for, on the files the workload
  reads, and a pod that does not is known to have drifted;
- agent: nothing is called ready, and nothing behind a one-shot container is
  started, before a validation has succeeded; agents become ready and end.

## Modules

| module | models | built on |
|---|---|---|
| `Maps` | a Go map: assignment and `delete` | |
| `UpdateQueue` | *abstract*: what the tracker relies on in its queue: a set of pending keys, an active one, closed or not | |
| `DebouncedQueue` | the queue in detail, its worker, Stop and WaitForCompletion; refines `UpdateQueue` | `UpdateQueue` by INSTANCE |
| `DebouncedQueueProofs` | theorems about `DebouncedQueue` | `DebouncedQueue`, TLAPS |
| `ModelValidationInfo`, `PodMapping` | the tracker's two data types, as operators from value to value | `Maps` |
| `StatusTracker` | the tracker: handlers, seeding, worker, in an open environment | the above and `UpdateQueue` |
| `MCStatusTracker` | its instance for TLC | `StatusTracker` |
| `StatusTrackerProofs` | theorems about `StatusTracker` | `StatusTracker`, TLAPS |
| `PodWebhook` | the verdict of the webhook on a pod | |
| `Operator` | the cluster: API server, caches, both controllers, webhook, tracker, restarts; refines `StatusTracker` | `StatusTracker`, `PodWebhook` |
| `MCOperator` | its instances for TLC | `Operator` |
| `OperatorProofs` | theorems about `Operator`: types, the refinement, publication, which ModelValidations are tracked | `Operator`, `StatusTrackerProofs` |
| `PodTrackingProofs` | theorems about the finalizer and the untracking of pods | `OperatorProofs` |
| `PodCategoryProofs` | theorems about the seeding and the categories of pods | `PodTrackingProofs` |
| `AgentArguments` | from a spec and annotations to arguments, and from arguments to a verifier's options | |
| `VolumeMounts` | which mounts of a pod its agents get | `AgentArguments` |
| `Injection` | what the webhook adds to the pods of a ModelValidation, over time; the drift hash; native sidecar detection | `VolumeMounts`, `Maps` |
| `MCInjection` | its instance for TLC | `Injection` |
| `InjectionProofs` | theorems about `Injection` | `Injection`, TLAPS |
| `TelemetrySelection` | selectors, candidates and their order | `Maps` |
| `TelemetryConfig` | the controller, the API server and the caches around it | `TelemetrySelection` |
| `MCTelemetryConfig` | its instance for TLC | `TelemetryConfig` |
| `TelemetryConfigProofs` | theorems about `TelemetryConfig` | `TelemetryConfig`, TLAPS |
| `ValidationAgent` | the agent in the containers of one pod, and the kubelet | |
| `ValidationAgentProofs` | theorems about `ValidationAgent` | `ValidationAgent`, TLAPS |

**DebouncedQueue.** One action per stretch of code between two points at which
another goroutine can come in: a lock taken or released, a channel, a call of
the workqueue. `timer[k]` is the entry in `debounceTimers` (none, armed, or
fired and still there); `orphans` counts armed timers the map has lost;
`callbacks[k]` counts callback goroutines at each of their stages, so that any
number may overlap. `dirty`, `processing` and `delayed` are the client-go
workqueue's. The gauge is written in two steps (read the length, set it), as
`updateMetric` does. The refinement maps pending keys to those that are with a
timer, a callback, the workqueue or the back-off, and the active key to the
worker's. `owed` is a history variable: what a caller of a wait found pending.

**StatusTracker.** Each handler is one action, because it holds `st.mu`
throughout; `AddModelValidation`, which adds to the queue after unlocking, is
two (`adding` is the key in between). A seeding goroutine is a record that
walks from its list call through the pods of the list. The worker is a record
(`update`) that goes through the read, the comparison and the write. In this
module the environment may show any pod and answer any call with anything, so
that what is proved does not depend on the cluster.

**Operator.** The cluster the tracker really runs in. A cached object lags
behind and at some time jumps to the current version, which queues its key.
Reconcile is split at its API calls. A write succeeds only from an up-to-date
copy. `Restart` forgets everything but the API server's objects.
`ImplementsTracker` is the statement that every step is one that StatusTracker
allows.

**Injection.** `Handle` is one action per request: creation, or any later
update (`AnnotatePod`), which passes the webhook too. A pod remembers in
`admitted` what it was admitted under, a history variable for the properties;
`hash` and `auth` are its annotations. `spec` is edited and the operator started
again on another version of the cluster (`native`) at any time. The functions
of `AgentArguments` and `VolumeMounts` are the code's, in its order:
`mergeModelWithAnnotations`, `validationConfigToArgs`, `collectNeededPaths`,
`filterVolumeMounts` on one side, `flag.Parse`, `ParseArgs` and `Validate` on the
other. `Asked` and `Sees` are the reference definitions they are checked
against, written from what the documentation and the kubelet mean.

**TelemetryConfig.** The worker is a record that walks through Reconcile: the
copy it took (`Take`), the list of namespaces, the list of ModelValidations, the
status write. Caches lag and catch up per object or per kind; an event of one of
the two other kinds is `undelivered` until the map function has queued every
TelemetryConfig in the cache (`Deliver`). A write that finds a newer object is
refused and retried. `later` in `StatusUpdate` says whether the clock shows
another second than the last write: only then does the write change the object
if the counts are the same, and cause an event.

**ValidationAgent.** `main` as a program counter per container, with its
health server, signal context and ticker (one buffered tick). The webhook
decides which containers exist (`Injected`) and their flags (`Interval`,
`SkipInitial`). The kubelet starts them, restarts them on failure, goes on to
the workload, kills and terminates. Files change up to `MaxChanges` times.

## Properties and runs

Each run is a `.cfg` of the same name as its module, with a suffix.

| run | instance | shows |
|---|---|---|
| `queue_safety` | 2 keys, 2 Adds, 1 retry, Stop | `QTypeOK`; `MetricSettles`: when nothing is queued and nobody is about to set the gauge, it is zero; `KeepsPromise`: the queue implements `UpdateQueue` |
| `queue_live` | 1 key, 2 Adds, 1 retry, Stop, WaitForCompletion | `PendingIsProcessed`, `Drains`, `StopReturns`, `CompletionReturns` |
| `tracker` | 2 ModelValidations, 2 UIDs of one name | `TypeOK`, `CountsTracked`, `NamesLeadBack`, `ChangesArePublished` |
| `operator_pods` | 2 pods of their own names, one there at the start; creation and deletion | `ClusterTypeOK`, `FinalizerHolds`, `ListsNoOtherGhosts`, `TrackedPodsMapped` |
| `operator_config` | 2 configurations; a spec edit, relabelling, deletion of the ModelValidation, admission with and without injection | `TracksExisting`, `PodsCategorised`, `OneCategory`, `InjectedMatch` |
| `operator_restart` | API faults and one restart at any point | `StatusPublished`, `ImplementsTracker` |
| `operator_live` | 2 configurations, 2 edits | `Settles`, `TerminatingPodsGo`, `SpecChangesDetected` |
| `agent` | all three modes, 2 changes of the files, 1 failing validation, 2 crashes | `AgentTypeOK`, `OneShotBlocks`, `ReadyAfterValidation`, `BecomesReady`, `AgentsEnd` |
| `telemetry` | 2 TelemetryConfigs of one namespace, 3 specs, 2 namespaces, 1 ModelValidation; one edit and one fault or restart anywhere | `TCTypeOK`, `NothingForgotten`, `Rests`, `OneWinner`, `OthersUndisturbed` |
| `injection` | 9 specs, 21 pods (7 sets of mounts, 3 of annotations), 4 versions of the API server | `InjectionTypeOK`, `ValidatesAsAsked`, `SeesWhatWorkloadSees`, `DriftDetected` |

and, expected to be violated, `queue_waitgroup` and `agent_native`; see the next
section.

Notes on the less obvious properties:

- `ChangesArePublished` is an action property: a step that changes what a
  status would show leaves the key pending, or about to be added. With `StatusPublished` in the cluster it says
  that no update is lost.
- `KeepsPromise` is what justifies the abstract queue in all other modules.
- `FinalizerHolds` is why there is a finalizer: an injected pod leaves the API
  server only after the tracker has let go of it. It is about pods that keep their
  label. From a pod that has lost it, PodReconciler takes the finalizer first
  and untracks the pod in the next step (`pod_controller.go:75-89`), and in
  between the pod can be deleted and gone.
- `Quiescent`, the premise of several properties of `Operator`, holds when
  caches are current, queues empty and all goroutines idle; `Settles` shows
  that this state is reached and kept.
- `raced` exempts, in `FinalizerHolds`, `PodsCategorised` and
  `ListsNoOtherGhosts`, the pods a seeding goroutine held in an old list when
  they were untracked. What happens to those is a disagreement, below.
- `NothingForgotten` allows a wrong count only while something is under way that
  ends in another reconcile: a queued key, a reconcile, an event, a cache that
  is behind. It holds although the two counts are taken at different times.
- `Rests` is about the loop of the status write with its own event. It holds
  only because LastApplied is written in seconds (`StatusUpdate_AlwaysLater`
  breaks it); one whose selector cannot be converted is retried for ever, and
  is exempt.
- `OneWinner` says that the sort, which is not stable, and the order of the list
  do not matter; `OthersUndisturbed` that a configuration that is broken or
  removed gives its pods up and takes no others along.
- `ValidatesAsAsked` closes the circle: what `ParseArgs` makes of the arguments
  is what the spec and the annotations asked for, for paths to ignore that
  look like flags too; and the agents revalidate as often as asked for, in containers the
  kubelet does not wait for. `Asked` does not use the functions it checks.
- `SeesWhatWorkloadSees` says nothing where containers disagree about a path:
  then no choice is right. It relates two views of a mount: the webhook compares
  texts (`Covers`, with the slash at the end of a mount's path as in
  `pod_webhook.go:514-519`; `/data` and `/data/` are two mounts for it), the
  kubelet mounts at places (`Place`). Mounts and paths with a slash at the end are
  in the run, and `Comparable` says where the two views agree. It leaves out one
  case that the code gets wrong, a mount just at the needed path with a slash at
  the end that the path has not (`MCInjection_slash` in the next section), and two
  that were not looked into, relative paths and doubled slashes.
- `DriftDetected` is about credentials, schedule and what GetConfigHash means to
  cover of the resources; what it leaves out is in the next section. Of a signer
  it compares the identity with the issuer behind it (`Trusted`): an edit of one
  of them is told, text moved from one to the other is not
  (`MCInjection_boundary`, where `CredentialDriftDetected` compares each).

Every property has a mutant in `PROJECT.json`: a plausible bug in a modelled
definition that the run finds. The mutated forms stand before the definitions
they replace and are named `<definition>_<what is wrong>`.

## Where code and documentation disagree

Runs that TLC refutes, each by a short behaviour of the code:

- `queue_waitgroup` (`WaitGroupCoversPending`): Add resets a fired timer
  without counting, its callback runs twice on one count. The WaitGroup is zero
  with an update still debounced ("WaitForUpdates waits for all pending
  debounced updates", `debounced_queue.go:38`), then negative, which panics.
- `agent_native` (`WorkloadAfterValidation`): a native sidecar has no startup
  probe, so the workload starts before the first validation has ended and even
  if all fail, while `README.md:7` promises validation before use. With
  one-shot init containers the promise holds (`OneShotBlocks`).

Met on the way, and left as configurations to be run by hand (each checks the
one property it names and is violated):

| configuration | property | disagreement |
|---|---|---|
| `MCOperator_untracked` | `TracksExisting` | the worker reads "not found", the ModelValidation is created again and added, and then the worker drops it (`status_tracker.go:172`) |
| `MCOperator_stuck` | `TerminatingPodsGo` | the webhook refuses the update that removes the finalizer once the ModelValidation is gone, and the pod stays (`pod_webhook.go:107`) |
| `MCOperator_seed` | `ListsExistingPods` | a seeding goroutine tracks a pod again that was just untracked (`status_tracker.go:440` against `:522`); it is listed for good |
| `MCOperator_reuse` | `ListsNoOtherGhosts` | a name used again makes the mapping forget the first UID (`pod_mapping.go:25`) and with it the tracked pod |
| `MCOperator_relabel` | `ListsNoOtherGhosts` | a pod that moves to another ModelValidation stays listed in the first (`status_tracker.go:484`) |
| `MCOperator_count` | `CountsExactly` | the worker untracks without counting down (`status_tracker.go:172` against `:30`) |
| `MCOperator_orphan` | `OrphansDrifted` | UpdateConfig never moves an orphaned pod back when the old configuration returns (`model_validation_info.go:126` against `:34`); a later event of the pod does |
| `MCOperator_samegen` | `SpecChangesDetected` | a recreated ModelValidation has generation 1 again and its new spec is taken for the old (`status_tracker.go:321`) |
| `DebouncedQueue_completion` | `CompletionMeansProcessed` | WaitForCompletion returns while an item is in processing (`debounced_queue.go:191` against `:41-42`) |
| `DebouncedQueue_hang` | `ShutDownEndsWait` | ShutDown stops timers whose count nobody takes back, so a wait never ends (`:205`, `debounced_queue_test.go:232`) |
| `DebouncedQueue_metric` | `MetricZeroAfterShutDown` | a callback sets the gauge after ShutDown reset it (`:218` against `:217`) |
| `MCInjection_slash` | `SeesWhateverTheSlash` | a workload mounts the model at `/data/model/` and the ModelValidation says `/data/model`: the texts are compared (`pod_webhook.go:514-519`), the mount is not copied, and the agent sees what a mount above shows there, or nothing, although it "needs access" (`:485`) and `pod_webhook_test.go:994` expects a mount just at a needed path; nothing keeps a slash from the end of either text |
| `MCInjection_boundary` | `CredentialDriftDetected` | the issuer is written directly behind the identity (`modelvalidation_types.go:297-298`), neither of which has a pattern, so two configurations that differ in where one ends have one hash, "for drift detection" (`:291`); it takes an issuer that does not begin with a scheme, as issuers do |
| `DebouncedQueue_stop` | `StopWaitsForUpdates` | Stop waits for timers only, not for queued updates (`status_tracker.go:110` against `:109`) |

Read in the code while writing `Injection` and visible in its definitions:

- A legacy sidecar gets no telemetry environment (`buildLegacySidecarContainer`
  leaves `telemetry` alone; `telemetryconfig_types.go:88-89` speaks of the
  configuration "that the operator injects into validation agent containers").
- An edit of `spec.model`, and of resources other than CPU and memory, does not
  change the hash (`modelvalidation_types.go:248-289`): pods that verify the old
  path do not count as drifted. `DriftDetected` leaves both out.
- Only mounts at or above a needed path are copied (`pod_webhook.go:514`). What a
  workload mounts *below* the model's path the agent does not see;
  `SeesWhatWorkloadSees` is about the path itself.

## Proofs

TLAPS proves, for any sets of keys, pods, names and configurations and any
value of the bounds, of every behaviour of `StatusTracker`
(`StatusTrackerProofs`):

- `TypesCorrect`. `TypeOK` is not inductive: a retry adds `active` to the
  pending keys, so one must know that a busy worker holds a key. `TypeInv` adds
  that (`WorkerHoldsKey`). One lemma per group of actions, over lemmas that say
  what each operation on infos, maps and the mapping returns.
- `OneCategoryAlways` and `InjectedMatchAlways`. `InfoSteps` describes what any
  step can do to an info (one of five operations); each operation keeps a pod
  in one category and the annotations in accordance. No strengthening beyond
  `TypeInv` is needed because the operations remove before they add.
- `CountsTrackedAlways`: `CountSteps` splits the steps into those that count up,
  count down after untracking, or only untrack; the inequality needs finite
  cardinalities.
- `NamesLeadBackAlways`: the step that maps a pod displaces other UIDs; the
  induction needs `NamesSeen`, that mapped UIDs are of pods of that name, and
  the assumption `UIDsUnique`.
- `ChangesPublished`, an action property: `StepsPublish` compares what would be
  published before and after each step. It needs that the queue is open, which
  only Stop ends, and Stop is not in this module.

and of every behaviour of `ValidationAgent` (`ValidationAgentProofs`):
`AgentTypesCorrect`, `OneShotAlwaysBlocks` and `ReadyIsValidated`. The latter
two are not inductive: that a sidecar is ready without having validated rests on
how it was started. `NothingClaimed` says, for a pod that was never validated,
that no agent is ready, no one-shot agent is past its validation and no sidecar
has been started. `Moves` is what the steps of all containers have in common:
each action is shown to be such a move, and one lemma (`MoveKeeps`) that moves
keep the invariant.

and of every behaviour of `TelemetryConfig`, liveness aside, for any number of
TelemetryConfigs, namespaces and ModelValidations and any bounds
(`TelemetryConfigProofs`):

- `TelemetryTypes` and `NoCountForgotten`. `NothingForgotten` speaks of the
  objects, but the controller sees caches, and a status is computed from a copy
  and two lists. The invariant adds four parts: copies are never ahead of the
  object (`Older`); a write that will be accepted is based on what the cache
  still holds (`CopyCached`); its counts are those of the caches or the key is
  queued again (`CountsFresh`); and a status that does not tell what the caches
  hold is pending (`ToldOrPending`), which together with "the caches lag"
  gives the property. One lemma per action; the ones about users' edits and
  about writes rest on lemmas about one key, the others being left the same.
- `PodsGetOneConfig`: the order of candidates is total because the last of its
  three criteria is one-to-one (`Rank`), for finite selectors.
- `ConfigsKeepTheirPods`, an action property, from a lemma on two lists that
  differ in one configuration. It needs no invariant but the types.

and of every behaviour of `Injection`, for any specs, paths, annotations and
containers (`InjectionProofs`):

- `InjectionTypes` and `AgentsSeeTheWorkload`. The invariant (`IInv`) says that
  every pod has the mounts the webhook chose when it was admitted, because
  `Handle` leaves a pod alone that has an agent (`HandleAgain`). The rest is
  about the choice: a mount in whose place a needed path is, and that is
  `Comparable` with it, passes the webhook's comparison of texts
  (`ComparableCovers`), so the deepest wanted one is the deepest of the container
  it is taken from (`OwnSees`); and the agent's own mount at `TufPath` is never
  the deepest, since whatever else is above a path below it is longer
  (`TufHidesNothing`). The condition stands in the property: the theorem says
  nothing of a mount at a needed path that has a slash at the end which the
  path has not.
- `ValidatesAsAskedAlways`: what the agent reads back is what was asked for, for
  any texts and any number of paths to ignore. `ParseArgs` and `AllBut`, by which `Named` drops empty
  paths, are recursive functions; `Upwards` gives induction over them
  from the least element of a set of naturals, and
  `ParseArgsIs` and `AllButIs` say what they compute. The arguments are a row
  of segments (`VerifyArgsSpan`), each read into one part of the configuration
  and leaving the others (`ParsesVerifyArgs`, `ReadsBack`). The agent's own flags
  come before `verify` and are none of the configuration's (`BeforeVerify`,
  `InjectedAsAsked`). The premise, `ReadsAsPath`, is that no path of a model is
  empty or reads as a flag: it is the one argument without a flag before it, so
  `ParseArgs` would take a model called `--public_key` for the flag
  (`parse.go`). The pattern of the CRD, a slash or a scheme at the beginning
  (`modelvalidation_types.go:33`), keeps it. Paths to ignore need no such premise.
- `DriftDetectedAlways`: the hash covers whom an agent trusts, how often it
  revalidates, when its image is pulled and the amounts it may use. Given
  `ValidatesAsAskedAlways`, and that a pod keeps the hash of the spec it was admitted
  under, two specs of the same hash have to agree in these. `GetConfigHash`
  concatenates, so the texts are cut again: where a word stands that no text before it
  has (`CutAtWord`), and amount by amount, since each begins with a word of its
  own (`SameAmount`). Identity and issuer are not cut: the theorem is about the
  two together (`SignerOf`, `SameCredentials`), for any of them.
  The premise, `HashReadsBack`, says what the code relies on: no interval
  contains "resources" (the CRD wants a duration), and "clienttrust" is not a
  part of an identity, an issuer or the path of a key, which nothing in the code
  enforces. That the hash is of fixed length and has no collisions is the
  abstraction of the module ("the hash of a text is the text").

and of every behaviour of `DebouncedQueue`, liveness aside (`DebouncedQueueProofs`):

- `QueueTypes` and `MetricSettlesAlways`. The gauge is written by callbacks, by
  retries and by the worker, each in two steps (read the length, set the gauge)
  under `metricMu`. The invariant (`QueueInv`) says that the mutex is held by
  exactly one that is between the two (`OneSizer`), that the worker has a key from
  Get to Done, how far ShutDown has come, and that an update that comes late has
  read no other length than zero when nothing is queued (`GaugeFollows`).
- `PromiseKept`, the refinement of `UpdateQueue`: each step adds to the pending
  keys, moves one to the worker, closes the queue, or leaves both as they are. It
  is what lets `StatusTracker` use the abstract queue.

and of every behaviour of `Operator`, liveness aside, for any numbers of edits,
faults and restarts:

- `ClusterTypes`, `TrackerImplemented`, `TrackerInCluster`, `PublishedInCluster`
  (`OperatorProofs`). Each step of the cluster hands the tracker only what
  `StatusTracker` allows, which takes the types of everything in between
  (`ClusterInv`). So `OneCategory`, `InjectedMatch`, `CountsTracked`,
  `NamesLeadBack`, `TrackedPodsMapped` and `ChangesArePublished` hold in the cluster,
  by their theorems. `TrackedPodsMapped` says nothing of a pod that may move to
  another ModelValidation; with several of them in a cluster every pod may.
- `StatusPublishedAlways` (`OperatorProofs`): no status update is lost. The
  property speaks of the moment of rest; the invariant (`PublicationInv`) of every
  other: while the published status differs from the tracker's, `UnderWay` holds, that
  is, an event of the key is due, the key is pending, or the worker is at a
  step from which it will write this status or try again. The subtle case is the worker
  that finds its copy equal to what it computes and does not write: its copy
  is then current, or an event is due (`CopyCached`, `CopiesBehind`).
- `TracksNoDeleted`, `OnlyForgettingLoses`, `TracksExistingAlways`. At rest, what
  is tracked exists. The converse is not a theorem (`MCOperator_untracked`), and
  `OnlyForgettingLoses` says that this race is its only cause: in behaviours in which
  the worker drops no entry of a ModelValidation that is in the cache again,
  exactly those that exist are tracked. `TracksExistingAlways` is a case in which
  the premise is met, by `"createMV" \notin Edits`.
- `FinalizerHoldsAlways` (`PodTrackingProofs`), for pods that keep their label
  (`"relabel" \notin Edits`; see the note on the property). What is tracked, seeded,
  cached or read by PodReconciler is an earlier version of the pod; if that was
  not being deleted and has the finalizer, the pod still has it, which it loses
  only after it has been untracked (`FinalizerInv`).
- `ListsNoOtherGhostsAlways` (`PodTrackingProofs`): `GhostInv` accounts for each
  pod that is known and should not be: an event is due, its name is queued, or
  PodReconciler is about to untrack it. Both hypotheses are needed. Without
  `"relabel" \notin Edits` a pod that moves stays listed (`MCOperator_relabel`), without
  `UniqueNames` one whose name is used again (`MCOperator_reuse`).
- `SeedingCategorises` and `PodsCategorisedAlways` (`PodCategoryProofs`): at rest
  every labelled pod of a tracked ModelValidation is in its category, whatever is
  edited, relabelled, used again or restarted while goroutines seed from old lists.
  `CategoryInv` has three layers. What is known of a pod is a version it had:
  versions ascend from PodReconciler to cache to cluster (`VersionsAscend`), the
  annotations never change (`AllFaithful`), and a pod without its finalizer is
  nowhere taken for one with it unless it is about to be untracked
  (`FinalizersSeen`, `UntrackDue`). PodReconciler works on the cached version or has
  to look again (`ReadCurrent`). And every pod is `Covered`: in its category, or an
  event, PodReconciler or a seeding goroutine will come to it. The hypothesis
  `ListsSucceed` is needed: `seedExistingPods` gives up when its list fails
  (`status_tracker.go:413`), and nothing else brings back pods whose events were
  handled before. Without failing API calls (`~Faults`) it holds.

Preparing the last proof showed that the model had been too generous: it let
PodReconciler remove the finalizer from a copy of a pod that had been relabelled
and labelled again, which the API server refuses, because it compares the
`resourceVersion` and not the contents. Pods therefore have a `version`.
ModelValidations need none: a change of their spec counts up `generation`, and the
only other writer of a status is the worker itself.

The assumptions are the named ASSUMEs of the modules: finite `Key`, `NoKey`
outside it, typed constants, unique UIDs (`TrackerAssumption` and the ones it
extends), typed initial objects (`OperatorAssumption`), natural bounds
(`QueueAssumption`, `AgentAssumption`), names that are ordered
(`SelectionAssumption`), typed objects (`TelemetryAssumption`), well-formed inputs (`InjectionAssumption`) and that
the words written in `Injection` are strings (`WordsAssumption`). TLC evaluates them in the runs.

Every invariant and action property of the passing runs is stated by a theorem, some
under the premises named above. Only model-checked: liveness, since fairness and
ENABLED are outside the prover's reach. The library's induction theorems take an
operator as a parameter and cannot be used; where the proofs need induction (the
recursive functions of `AgentArguments`) they take the least counterexample.

## Abstractions, bounds and fairness

*Data.* A configuration is a pair (hash, authentication method). A pod carries
a name, a UID, a label, whether it has the finalizer, and the configuration in
its annotations. Annotations are written with the container, so they also say
whether a pod was injected. Status lists are sets of UIDs; counts and names
follow. Times, log messages and most metrics are left out. A label names a
ModelValidation of the pod's own namespace, so one namespace is enough in the
runs, except for the counter, which is per namespace in the module and proof.

*Texts.* A text is a sequence of strings; a path is what stands between its
slashes, with "/" for what is empty, so that slashes at the end or doubled are
kept as they are written; an argument `--flag=text` is the flag followed by the
text. No part of a path is `.` or `..`. A container may mount something at `/`,
which the webhook leaves out on purpose and the properties do not count.
Annotations are given as they read after splitting and trimming. `MethodHash`
concatenates identity and issuer as the code does. Selectors do not repeat an expression. Amounts of resources are compared
as they are written.

*API server.* A write succeeds when the copy equals the object. So that this
means what a `resourceVersion` means, pods have a `version` that every write
counts up, beside their UID; ModelValidations carry the number of the edit that
created them, and `generation`. Caches
jump to the current version: this is what an informer shows after coalescing,
and the intermediate versions it may show differ from it only in being older.
An update to which the webhook would add a container is refused, as the API
server does for existing pods.

*Bounds.* `MaxAdds`, `MaxErrors`: calls of Add and failing updates. Two Adds
suffice for a reset of a fired timer and for a key that is added while it is
processed; the retry is a third way into the queue. `Seeder`: seeding goroutines
at a time (one per run; they share only the lock and the tables). `MaxCount`
stops the namespace counter, which in `StatusTracker`'s open environment can
grow. `Edits`, `MaxEdits`: which edits users make and how many. Two or three
suffice because each property is about one object that changes, is replaced or
changes twice. `MaxRestarts`: one; a second start begins from a state the first
can begin from. `MaxChanges`, `MaxErrors`, `MaxCrashes` in the agent: two changes
make the files bad and good again, one error fails an intact model, two crashes
hit both containers or one twice. `Pods` and `Statuses` are inputs of the open
environment, restricted in the instances to the pods of the names in use.

`telemetry` has one edit and one fault: each property is about what one edit
does to reconciles under way, and the two lists, the cached objects and the
writes already interleave in every order around it; more edits are covered by
the proofs. `injection` has one pod, since pods share only the spec, and no
bound on its edits: its state is finite. Its inputs were chosen so that every
method, switch, precedence and kind of nesting occurs, and so that texts occur
that look like flags, paths and mounts that end in a slash, and two signers
whose texts are the same one behind the other.

*Fairness.* Goroutines that can run do (WF), the kubelet, informers and
controllers as well. Users, faults, crashes and restarts are never forced. Strong
fairness: in `Operator`, a key that is handed out again and
again is at some time handed out for the last time (`WorkerTakeLast`), which is
`Drains` of `DebouncedQueue`; in `ValidationAgent`, the two cases of the loop's
select, since Go chooses among ready cases at random; in `TelemetryConfig`,
`Take`, because the queue is first in, first out, and `StatusUpdate(FALSE)`,
which says that a status write's event now and then comes back within the second
of the write. It usually takes milliseconds; an operator for which it never does
would reconcile each TelemetryConfig once a second for ever.

*Deadlock* is not checked in systems that may rightly stop: the queue after Stop,
the operator and its telemetry when nobody edits, the agent when the pod has
ended.

*Panics.* A negative WaitGroup ends the process. The liveness properties of the
queue are conditional on `alive`; `queue_waitgroup` shows that it matters.

*Restart policy.* The pod of `ValidationAgent` restarts failed containers; a pod
that does not has fewer behaviours and is not covered by `BecomesReady`.

## Not modelled

- A validation itself is one step with a result; the library decides.
- Start-up flags, TLS and tracing: configuration that is read once.
- Network policy and service monitor: each is one CreateOrUpdate of an object
  with constant contents at start-up. There is no state to relate and nothing to
  interleave with; a model would repeat the constants.
- The environment variables that carry a TelemetryConfig into an agent, probes,
  security contexts and images: constants and wording.
- A webhook whose cache of the spec is behind: it does what it would have done
  before the edit, which is a behaviour of `Injection` in another order.
- Metrics, except the queue gauge, which is written from three goroutines.
- Several replicas of the operator: with --leader-elect one is active, and the
  webhook, which all run, has no state.
- Several namespaces in the operator's runs (see above).
- Starvation of a key that is added for ever within the debounce duration,
  which needs real time.
- Generated code and test helpers.

## Plan

Order, with the most important behaviour first; all items are done.

1. `DebouncedQueue` and `UpdateQueue`, and the refinement between them.
2. `ModelValidationInfo`, `PodMapping`, `StatusTracker` in an open environment.
3. `StatusTrackerProofs`.
4. `PodWebhook` and `Operator`, which closes the environment.
5. `ValidationAgent`.
6. `ValidationAgentProofs`.
7. `TelemetrySelection`, `TelemetryConfig` and `TelemetryConfigProofs`.
8. `AgentArguments`, `VolumeMounts` and `Injection`.
9. `InjectionProofs`.
10. `OperatorProofs`: the refinement, which carries the tracker's theorems over to
    the operator, publication, and which ModelValidations are tracked.
11. `DebouncedQueueProofs`: the refinement of `UpdateQueue`.
12. `PodTrackingProofs` and `PodCategoryProofs`.
