# Verification of the registry Secret controller

TLA+ models, TLC configurations and TLAPS proofs for the controller in `src/`:
a Kubernetes controller that obtains temporary ACR registry credentials and
keeps one pull Secret per target Namespace and the `imagePullSecrets` of the
target ServiceAccounts up to date.

## The system

| Component | State it keeps | Operations | Talks to |
| --- | --- | --- | --- |
| Configuration controller (`internal/controller/configuration_reconciler.go`) | last rejection, pending fan-out | `Reconcile` of the one ConfigMap, on every replica | store, kube client tuning, scheduler (notification), event publisher |
| Configuration store (`internal/config/store.go`) | last valid snapshot, validity of the latest ConfigMap | `Apply`, `MarkInvalid`, `Load`, `Loaded`, `MatchesServiceAccount` | read by everybody |
| Configuration parser (`internal/config/parser.go`, `runtime.go`) | none | `Parse` | configuration controller, start-up |
| Event publisher (`internal/controller/resource_events.go`) | two channels of capacity 1024 | `PublishAllNamespaces`, `PublishAllServiceAccounts` | resource controllers' queues |
| Credential scheduler (`internal/credential/scheduler.go`, `store.go`) | known registries, delaying and rate-limited queue, published and forced revisions, credentials | `Start`, `reconcileConfiguration`, `refresh`, `publishCredential`; leader only | configuration store, token provider, publisher |
| Token provider (`internal/credential/acr_provider.go`) | none | `GetAuthorizationToken` | ACR |
| Namespace Secret controller (`internal/registrysecret`, `namespace_*.go`) | reported ownership conflicts | `SyncNamespaceSecret`, `Build`, inspection; leader only | API server through a cache |
| ServiceAccount controller (`internal/serviceaccount`, `serviceaccount_*.go`, `setup.go`) | dependency backoff | `SyncServiceAccount`; leader only | API server through a cache |
| Kubernetes client tuning (`internal/kubeclient`) | fallback, current and desired settings, limiter | `Bootstrap`, `Apply` | business client |
| Process (`cmd/controller/main.go`) | none beyond the above | start, leader election, end | all of them |
| Performance driver (`cmd/perf-driver`) | stage of the run, convergence tracker, injected resources, worker pool | `runBenchmark`, clean-up, informer handlers, `runConcurrentMutation`, `runParallel` | API server, the controller under test, its mock provider and clock (`cmd/e2e-controller`) |
| Observability | metrics | read only | |

What is hard here: three kinds of goroutines share the two stores without a
common lock and each reads them at its own moment; a provider request takes up
to 15 seconds, during which the configuration may change twice; notifications
are coalesced; the work queue lets a key be queued while it is processed;
publishing a fan-out may fail or block half way; and refresh times are computed
from a clock value that is stale when it is used. The two resource controllers
read from caches that lag behind the API server, share their objects with users
who edit them at any time, and lose all memory but the Secret at a restart. The
performance driver decides from watch events of four informers, in any order and
while its own goroutines create and fail, whether a run succeeded, and has to stop
and clean up whatever the controller does. The hazards, each with its line and the
properties that guard it, are in `PROJECT.json`.

## Modules

`CredentialScheduler` models `internal/credential`.

* `registries`, `notifying`, `notified` are the configuration store and the
  two statements of the configuration controller that follow `Store.Apply`.
* `mainPc`, `known`, `snapshot`, `todo`, `scanned` are `Start` and
  `reconcileConfiguration`; removing a registry is four critical sections in
  the code and four actions here (`RemoveCredential` .. `RemoveFailures`),
  marking a forced refresh and queueing it are two.
* `dirty`, `processing`, `timer`, `backoff`, `shutdown` are client-go's queue
  (external): `Add` deduplicates, a key being processed is queued by its
  `Done`, `AddAfter` keeps the earlier deadline, `ShutDown` drains. The failure
  count of a key is represented by the delay it stands for.
* `store`, `published`, `force` are the credential store and the two maps under
  `stateMu`.
* `pc`, `job` are the workers: one action for every read or write of shared
  state in `runWorker`, `refresh` and `publishCredential`. Steps are merged only
  where no other goroutine can tell (the comment at the action says why).

Time is relative: timers and lifetimes count down in `Tick`, so there is no
clock that would have to be bounded. Only a request (at most `RequestTimeout`)
and a publication (at most `PublishTime`) take time. Revisions are compared for
equality only, so three values per key are enough and `NextRevision` picks one
that is not in use.

`ConfigurationController` models the configuration controller, `Store.Apply`
and `MarkInvalid`, the publisher with its channels, and as much of the receivers
as the fan-out needs: the scheduler's load and, per Namespace and
ServiceAccount, the configuration it is and was last reconciled with. The
`ConfigMap` versions are inputs (valid, rejected, missing); reads may fail. The
client tuning of `internal/kubeclient` is part of it: `Bootstrap`, `Resolve` and
`Retuned` are operators on the settings in force, the desired ones and the rate of
the limiter (`tuning`), `ApplyRuntime` the call of `RuntimeUpdater.Apply` that
precedes `Store.Apply`. `Restart` ends the process at any point and starts it again
(`run` in `cmd/controller`): tuning from the ConfigMap, everything else empty, and
the first lists of the informers on the queues.

`ConfigParser` is `Parse`: names and selectors, the registry list with its merges
and contradictions, Domains and the tuning overrides, each with the ways to be
rejected. An override is absent, a whole number, or `NotANumber`: one marker for
every text that `ParseFloat`, `Atoi` or `ValidateQPS` refuses before the number is
compared (empty, unparsable, NaN, infinite, beyond float32 or too small for it); a
fractional QPS is not told from a whole one. Other text is reduced to what remains of it after trimming, lower-casing and
cutting a trailing dot, and to how it was written, because that is what the checks
of the code tell apart.

`SecretBuilder` is the pure part of `internal/registrysecret`: `Build` with the
retention of pending registries, `applyContent`, `secretMatches` and the
inspection behind the metrics. A token stands for user name and password, an
envelope (Docker document, state annotation) is absent, unreadable or a map whose
entries decode or fail one by one, and the state hash is the tuple of what it is
computed from. `MCParserAndBuilder` enumerates the parser's inputs, takes the
configurations it makes of some of them as the builder's, and follows each with
the write the syncer makes and later acquisitions.

`NamespaceSecretSync` puts it to work in one Namespace: `SyncNamespaceSecret` in
five stages (`Begin`, `GetNamespace`, `GetSecret`, the decision, the call), each
reading what the code reads there; the API server with resource versions and UIDs
(`Put`, `Remove`, external); the watch and the cache behind it; users; and the
configuration controller and scheduler reduced to what the syncer sees of them:
a store changes, later all Namespaces are published. A call may fail without
effect (`CallFails`) or take effect and lose its answer (`lost`).

`ServiceAccountSync` does the same for the accounts of a Namespace: `Reconcile`
with its dependency back-off (`failures`, `waiting`), `SyncServiceAccount` up to
the optimistically locked patch, the predicate and the mapping of Secret events
and the fan-out. Of the Secret it keeps whether it is missing, foreign,
incomplete or usable.

The performance driver is three modules. `ParallelBatch` is the abstract
specification of a batch: items are completed while the call runs, none after it
returned, and a return without error means that all are. `RunParallel` is
`runParallel`: feeder, workers, the unbuffered job channel, the error channel of
capacity one and the context, and `Batch == INSTANCE ParallelBatch WITH ...` maps
its state to that specification (`BatchImplemented`). `PerformanceRun` extends it with one run of
`runBenchmark`: `stage` and `ending` say where the main goroutine and its deferred
clean-up are; `phase`, `phaseDone`, `baseline`, `recorded`, `patched`, `mutation` are
the tracker, changed by the informer handlers as versions in `pending` arrive;
`injector`, `accountMaker`, `namespaceMaker` are the goroutines of
`runConcurrentMutation`; the remaining variables are the cluster and the controller
under test as the driver sees them, with the generation of a token for the
fingerprint of a Secret. The worker pool deletes and creates the dataset in it, so
the refinement is also checked in its place of use. The refinement is one of safety;
that the pool does not block is part of `RunReturns`. A request that fails may have
taken effect, but no later than its error: a server that carries out a request after
the client gave it up is not modelled, so `NothingLeftBehind` says nothing about a
create that arrives after the clean-up has listed.

The modules named `...Proofs` hold the theorems; the `MC` modules declare the model values, inputs and symmetry sets TLC uses.
Definitions introduced by a comment `Mutant:` are the deliberately wrong
variants that `PROJECT.json` lists; nothing uses them in the specification.

## Runs

| Run | Instance | Shows |
| --- | --- | --- |
| `scheduler_safety` | 1 registry, 2 AK/SK pairs, 2 workers, 3 changes, tokens of 0, 1 or 5 ticks, publication of 0 or 1 tick | `CredentialProvenance`, `NoLostAcquisition`, `PublishedOrPending`, `ForceHasWork`, `RefreshScheduled`, `SingleFlight`, `TypeOK` |
| `scheduler_liveness` | 1 registry, 2 pairs, 1 worker, 2 changes, usable and unusable tokens | `Converges`, `RemovedCredentialLeaves`, `ShutdownTerminates` |
| `scheduler_lost_acquisition` (violation) | 1 registry, 1 pair that may be configured again | finding 1 |
| `configuration` | 2 business configurations, one of them with and without overrides, 1 Namespace, 1 ServiceAccount, channels of capacity 1, 2 versions, 1 fault (failing call or restart) | `FanoutRemembered`, `SchedulerInformed`, `TuningInStep`, `OneRestartSuffices`, `WarnedOnce`, `ValidConfigServed` |
| `configuration_stranded_fanout` (violation) | 1 configuration, 2 versions, 1 fault | finding 2 |
| `parser_and_builder` | the parser: up to 3 entries, 2 registries, 2 names, every way of writing them, every override from absent, `NotANumber`, -1, 0 and 1; the builder: 2 registries, 2 Domains, 2 AK/SK pairs, 3 tokens and every kind of damage | `AcceptedIsFaithful`, `OrderIrrelevant`, `Isolation`, `Healed`, `SyncedIsCurrent` |
| `secret_sync` | 1 registry whose AK/SK and Domains change, a Namespace that may leave the selection, 2 edits of 6 kinds, 1 error, 1 restart | `QuietIsConverged`, `ForeignUntouched`, `NoBlindWrite` |
| `secret_sync_retention` | 2 registries, one rotates its AK/SK, 1 damaging edit, 1 restart, 2 tokens, no failing call | `PullAccessKept`, `Delivered` |
| `secret_sync_moved_domain` (violation) | a Domain changes its registry | finding 3 |
| `account_sync` | 1 account, 2 lists of references, 2 changes of the Secret, 1 edit, 1 error, 1 restart | `OthersKept`, `NoLeakedBackoff`, `QuietIsSettled`, `Injected` |
| `account_sync_stable` | 1 account always selected, 4 changes of the Secret, no foreign one, 2 edits, 1 error, 1 dropped event, 1 restart | `ReferenceKept`, `QuietIsSettled` |
| `performance_run` | 2 prepared and 1 injected Namespace, 2 workers, injection at 25 %, 6 command lines, 3 sets of leftovers, 1 crash of the controller in four of the command lines | `RootCause`, `BatchImplemented`, `NoMissedCompletion`, `SuccessIsEarned`, `RefreshFollowsAdvance`, `LabellingKeepsReference`, `NothingLeftBehind`, `RunReturns` |

Bounds. `MaxChanges` of three in the scheduler is the shortest history in which a
registry goes away and comes back while a change arrives during each stage of
handling another. For the ConfigMap two versions are the least for one to arrive
during each stage of handling another and after each kind of it, with one fault
anywhere; that longer histories do no harm to the invariants is what
`ConfigurationControllerProofs` shows. `Lifetimes` has one token inside the
refresh window, one at its edge and one outside it whose refresh time is beyond the
longest retry delay, so that a refresh timer and a retry timer can be told apart. One key
suffices for races between the main loop and the workers because every shared
map is indexed by key and the scan treats each key alone; that keys do not mix is
what the theorems prove for any number of them. Symmetry is
used only in runs without temporal properties.

In the passing runs `Reverts` is FALSE: an AK/SK pair that was replaced or
removed is not configured again for the same key. `scheduler_lost_acquisition`
drops exactly this assumption.

For the Secret, two edits are enough to take it away from the controller and give
it back, or to replace it, between a read and the write; one change, one error
and one restart each meet every stage of a reconciliation. Two registries and two
Domains are the least for damage, a change of AK/SK or a move of one registry to
show in another. For an account, two changes of the Secret make it usable and
then foreign, and the lists have the fixed name absent, present and duplicated
around a user's reference.

A performance run over two prepared Namespaces and one injected has a batch larger
than one item, a phase that is half complete when the injection starts, and an
account of each kind. Leftovers are none, one prepared Namespace, or one and the injected
one. The two largest command lines run without a crash of the controller, and the
others with one.

Fairness. Every goroutine that can take a step takes one (Go's scheduler), the
clock moves, timers fire, and the queue is first in, first out (strong fairness
of taking each key). About the environment: a provider that is asked again and
again at last returns a usable token, and publishing at last succeeds. In the
configuration model faults are finite in number (`MaxFaults`) and a leader is
elected at last. In the performance run fairness has two parts. `DriverProgress`:
the driver's goroutines and timers go on, and a request ends whose context has a
deadline or is cancelled (all of `cleanupRun` and of the deferred clean-up, the
observers, the injection, the pool after an error). `RequestsAnswered` is assumed of
the environment: every other request is answered in the end, with success or an
error. The code does not bound these requests: the context of `runBenchmark` and
`cleanupOnly` ends with a signal only (`main.go:145`), the client has no `Timeout`
(`main.go:267-274`), and the timers of `waitForControllerPods` and `waitForPhase` are
looked at between requests. So `RunReturns` holds whatever the answers are and if the
controller never starts or nothing converges, but an API server, or a controller
behind `POST /advance` (`main.go:847-856`), that accepts a request and never answers
holds the run until it is interrupted; without the assumption TLC shows exactly this
(no interrupt is assumed). The two resource models are fair to the worker, to the
watches, to timers and to the fan-out, not to users or failures, which are bounded
in number. Deadlock checking is off for all runs but those of the scheduler: with
no further event every controller rightly waits.

No property rests on the informers' periodic resync (about every ten hours by
controller-runtime's default): it only adds requests and is left out.

## Findings

1. `NoLostAcquisition` fails when a registry is removed and configured again with
   the same AK/SK before the main loop has looked, while a worker has seen it
   missing: the worker drops the credential, the comparison finds no difference.
2. `PendingFanoutCompletes` fails: a fan-out that failed is not retried while the
   ConfigMap is missing or invalid (the mark stays, and Namespaces see the applied
   configuration only through events of their own or a resync). `ValidConfigServed` is what holds.
3. `OneTokenPerRegistry` fails: what is retained for a pending registry is found by
   Domain only, so a Domain that moves to a registry whose AK/SK changes in the same
   edit keeps the token of its former registry beside the registry's own.

Two smaller deviations from `docs/design.md` (lines 177 and 753) have no run of
their own: the refresh
delay is computed before the Namespaces are published, so a wake-up may be later
than `expiresAt - RefreshBefore` by the time publishing took (`RefreshScheduled`
states this bound); and the mapping of a Secret event drops the event if its list
fails. The list reads a synced cache, so `account_sync` takes it not to fail
(`MaxMapErrors = 0`); `account_sync_stable` lets it fail and shows that the waits
make up for it unless the Secret changes hands.

## Proofs

The theorems of `CredentialSchedulerProofs` hold for every set of registries,
pairs and workers and for all option values that `SchedulerOptions.validate`
accepts (`OptionsAssumption`, `EnvironmentAssumption`).

* `TypeCorrect`: `TypeOK` with `ControlOK`. `TypeOK` alone is not inductive: that
  `dirty` only holds registry keys, or that an installed entry has an AK/SK pair,
  depends on what the program counters say of the locals, which `ControlOK` states.
* `ProvenanceCorrect`: `CredentialProvenance`. `Install` is the only step that
  writes a credential, and `ControlOK` has at `install` that the pair read by the
  recheck is the pair the token was requested with.
* `SingleFlightCorrect`: `SingleFlight` is inductive together with `TypeCorrect`;
  `SameKeyStep` is the common argument for all steps inside `refresh`.

`SchedulerPendingProofs` goes on from there: the scheduler loses no work. Each of
its invariants says of every key that the work is done, or in the queue, with a worker
or on a timer, or that the main loop will still queue it; and of every worker what it has
found out so far about its key, unless the key is queued again, so that a worker
that ends well leaves the work done. `MainCorrect` (`MainOK`) says what the main loop
knows of the configuration and its own removals at each of its program counters.

* `ForceHasWorkCorrect`: `ForceOK`, with `SingleFlight`, since only the worker of a
  key may clear the mark it has read.
* `PublishedOrPendingCorrect`, `RefreshScheduledCorrect`: `AnnouncedCorrect`, that is
  `ClockOK` (what the time a publication takes may add up to) and `AnnouncedOK`. The
  second theorem gives the bound on the wake-up for every `RefreshBefore`, token life
  and `PublishTime` that the options admit.
* `NoLostAcquisitionCorrect`: `SeenOK` and `AcquiredOK`, under `~Reverts`. The
  hypothesis leaves out the histories in which a registry gets an AK/SK pair again
  that it once had; the run `scheduler_lost_acquisition` shows that the statement fails
  in one of those, and the theorem that it fails in no other.

The theorems of `NamespaceSecretSyncProofs` hold for any configurations, kinds of
edits and bounds (`ConfigurationsAssumption`: a configuration is not `None`). The
first three hold whatever `Build`, `SecretMatches` and `ApplyContent` return, since their
definitions are not expanded.

* `VersionsCorrect`: `VersionsOK`, the inductive invariant. Every version in the
  cache, under way in the watch or observed by the reconciliation was given out by
  the server, and is the present Secret if it has its resource version; an update
  or delete is only under way for a managed Secret, a create for none.
* `NoBlindWriteCorrect` and `ForeignUntouchedCorrect` follow through
  `WritesObserved`: the resource version sent with the call identifies the Secret
  with what was observed, which the invariant says is managed.
* `QuietIsConvergedCorrect`: `RestOK` says that the Secret is right unless something is
  `Unsettled`, which lists every place where the reason for another reconciliation can
  be; `CacheOK` says that the cache lags behind the Secret only by events still under way.
  Of `Build` it takes only that credentials of other AK/SK pairs make no difference
  (`BuildIgnoresStale`).
* `PullAccessKeptCorrect`: the lemma `BuildServes` says that `Build` keeps every auth
  that serves a configured Domain, for any configuration, store and Secret, and
  `CallServes` carries that from the read to the call. `ShapesOK` and `CredentialsOK` give
  the shapes of Secrets and credentials. `MarkersApart`, the hypothesis, says that the
  markers of damage are no maps, records or tuples, which model values never are.

The theorems of `ServiceAccountSyncProofs` hold for any accounts, names in their lists,
selections and bounds (`AccountsAssumption`).

* `ReconcileReferencesCorrect`: what `ReconcileReferences` makes of a list of any
  length. The proof is by induction over the list: the library's induction theorems
  cannot be instantiated, but the least counterexample can be taken from the
  well-foundedness of `<` (`Least`, `UpTo`).
* `NoLeakedBackoffCorrect`: `BackoffOK`, with the domains of the maps.
* `OthersKeptCorrect`: `SyncCorrect` identifies the account that a patch meets with the
  version observed (`AccountOK`, `LocalOK`), and the theorem on lists does the rest.
* `ReferenceKeptCorrect`: `KeepsWanting`, with `SecretCorrect` on what the watch of the
  Secret can still bring. Both this and the last take `RecordsApart`, that `None` is not
  a record.
* `QuietIsSettledCorrect`: `RestOK`, as for the Secret. The hypothesis (no list of a
  mapping fails, or no Secret changes hands) is needed: a failed mapping drops the only
  event that tells of a Secret that became foreign.

The theorems of `ConfigurationControllerProofs` hold for any configurations, sets
of objects, channel capacity, settings of the command line and bounds
(`ControllerAssumption`).

* `ControllerTypeCorrect`: `TypeOK` with `StageOK`, which knows what the list in hand
  can hold at each stage and so that a channel only gets objects of its kind.
* `SchedulerInformedCorrect`: `SchedulerInformed` is inductive as it stands.
* `TuningInStepCorrect`: `TuningInv` adds that between `RuntimeUpdater.Apply` and
  `Store.Apply` the tuning is that of the version in hand.
* `OneRestartSufficesCorrect`, `WarnedOnceCorrect`: `VersionInv`. Versions grow, the
  one in hand is the ConfigMap unless that is newer (`VersionsOK`), and a reported
  version that can be reconciled again is the rejection remembered (`ReportedOK`).
* `FanoutRememberedCorrect`: `FanoutInv` says how far a fan-out has come. While it
  sends, each cached object of the kinds listed so far is still to be sent or
  `Told`; the receivers never drop one that is told (`ToldKept`), and one that appears
  after its list is queued by its own event. So all are told when the mark goes.

The theorems of `RunParallelProofs` hold for any items and workers
(`PoolAssumption`).

* `PoolTypeCorrect`, `RootCauseCorrect` and `RunParallelImplementsBatch`, a
  refinement: every step of the pool is a step of `ParallelBatch` or changes nothing of
  it. All rest on `PoolInv`: no two workers hold an item (`HeldApart`), every item is
  unsent, held, done or failed (`NothingLost`), the feeder and the workers stop early
  only for a reason that the return will see (`StopHasReason`), and a cancellation
  among the errors came from outside (`CancellationIsOuter`). The return without
  error is the step that needs all of it.

The theorems of `PerformanceRunProofs` hold for any Namespaces, accounts, workers,
options and number of crashes (`RunAssumption`).

* `RunCallsRunParallel`: every step of the run is one of its pool or leaves it alone, so
  that `RunRootCauseCorrect` and `RunBatchCorrect` carry over.
* `RunTypeCorrect`: `Shapes`, with `TokenOK` for the number of tokens the mock provider
  can give out: one per start of the controller and one per advance of the clock.
* `NothingLeftBehindCorrect`: `PlacesOK`, which relates the stage of the run, its
  injecting goroutine and what exists in the cluster.
* `NoMissedCompletionCorrect`: inductive with `PlacesOK`, in two parts.
* `LabellingKeepsReferenceCorrect`: `AccountsOK`, which relates what the labelling
  goroutine has read to the account's resource version.
* `SuccessIsEarnedCorrect`: `DatasetOK` (which of the prepared Namespaces the pool has
  dealt with), `VersionsOK` (what can arrive at the tracker is a version the cluster had, and
  those of earlier controllers are below the baseline) and `SuccessOK`.
* `RefreshFollowsAdvanceCorrect`: `RefreshOK` on top of `VersionsOK`: which generations
  can exist at each stage as long as nothing crashed.

The theorems of `ParserAndBuilderProofs` are about the parser and the builder for lists,
configurations, stores and Secrets of any size; where the property is about a state they
say what they take of it, and `RunCorrect` that every case of the run has it. All take
`MarkersApart`, as above, with the parser's error among the markers.

* `OrderIrrelevantCorrect`, `AcceptedIsFaithfulCorrect`, `ParsedDomainsApart`: the loop of
  `ParseRegistries` makes of a list what its entries stand for as a set
  (`ParseRegistriesMerges`, by induction over the list from `AddRegistryMerges`, one round
  of the loop). `Registries` says this without a loop: the entries agree, or are rejected,
  and are merged by key.
* `IsolationCorrect`, `SyncedIsCurrentCorrect`: `BuildDescribed` says what `Build` makes of
  each registry, given that no two registries share a Domain (`DomainsApart`), which
  `ParsedDomainsApart` says of the parser's output; without it the owner of a Domain
  would be arbitrary.
* `RebuildFindsNothing`, `HealedCorrect`: what `Build` emits is complete and usable
  (`BuildSound`), so that reading it back finds everything again and nothing wrong.

Only model-checked: the liveness properties (the prover has no support for fairness and
ENABLED). Every safety property that a passing run checks is stated by a theorem. The
`TypeOK` of `NamespaceSecretSync` and `ServiceAccountSync` is there for the reader; no
run lists it, and the shapes the proofs need are conjuncts of their own invariants.

## Not modelled, and the plan

What is left to do is a composed module: configuration change to Secret and
ServiceAccount, with an abstract specification of a registry's credential life cycle
that the scheduler refines.

Left out for good: metrics, logging and HTTP (they change no state the program acts
on), flag parsing and the construction of clients, and the ACR SDK call itself. Of
the performance driver: the recording of resources, profiles, CSV files and
statistics, which are output only, and the counting of accounts that were not
expected. The key text `region + "/" + instance` is taken to identify a registry.
The Secret is of the docker-config type (Kubernetes makes the type immutable), has
no finalizers, and queue priorities, which only order work, are left out, as is the
cancellation of the context at shutdown in the two resource reconcilers (it drops
the request with the process). How the token bucket of the business client spends
its rate is `golang.org/x/time`; only its parameters are modelled.
