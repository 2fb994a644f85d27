# Formal specification of Spotalis

Spotalis is a Kubernetes operator that spreads the replicas of Deployments and
StatefulSets over spot and on-demand nodes. This directory holds TLA+ models of
its placement and rebalancing logic and of the services around it, TLC
configurations that check them on small instances, and TLAPS proofs for every
instance. Paths below are relative to the repository.

## 1. The system

| Part | State | Operations | Interacts with | What is hard |
|---|---|---|---|---|
| Allocation engine (`pkg/apis/policy.go`, `replica_state.go`) | none | validate, allocate, desired distribution | called by webhook and controllers | rounding against a floor that may exceed the replicas |
| Mutating webhook (`pkg/webhook/mutate.go`) | none of its own; one goroutine per request | read policy, observe, decide, patch | informer cache, tracker, API server's timeout | requests of one burst decide on the same cache |
| Admission tracker (`pkg/webhook/admission_state.go`) | map from workload to pending counts, generation, times | get, increment, select-and-reserve, staleness, reset, cleanup | called by the webhook under its own lock | expiry against slow Pods, generation changes, leaks |
| Observation (`pkg/observation/workload.go`) | none | snapshot, counts, eviction candidates | informer cache, node classifier | partial and failing classification |
| Deployment reconciler (`pkg/controllers/deployment_controller.go`, `eviction.go`) | time of the last eviction per workload | gate, cooldown, stability, measure, window, select, evict | cache, eviction API, PDBs; the webhook decides where the replacement goes | two snapshots, lag, lost answers, restart, livelock with the webhook |
| StatefulSet reconciler (`statefulset_controller.go`) | the same | as above, by ordinal, then an update of the Pod template | as above; the StatefulSet controller restarts the set | evict and update are not atomic; names are reused |
| Parsers and disruption windows (`internal/annotations`, `pkg/apis/configuration.go`) | none | enabled, policy, validate, write back, window | both of the above | readers that must agree; cron boundaries; a hierarchy with errors |
| Node classifier (`internal/config/node_classifier.go`) | node cache, selectors, two locks | classify, refresh, look up, update | API server, observation | lock order, late stores |
| Namespace filter (`pkg/controllers/namespace_filter.go`) | configuration, patterns, cache of verdicts | allowed, refresh, update, stop | reconcilers | late stores, failed updates, a full cache |
| Leader election (`pkg/operator/leader_election.go`) | leader flag | start, callbacks, resign | client-go's elector, shutdown | callbacks out of order, resigning under a running elector |
| Shutdown (`pkg/operator/shutdown.go`, `internal/server/health.go`) | phase, component states, probe flags | phases with timeouts, forced stop | leader election, probes | a deadline in any phase |
| Rate limiter and breaker (`pkg/utils/rate_limiter.go`) | limiters, breaker state | wait, allow, reserve, record, update | every API call | half-open races, stragglers |
| Cluster access (`pkg/operator/kubernetes.go`) | none | ensure RBAC, validate | API server | replicas that start together, lost answers |
| Configuration and wiring (`internal/config/loader.go`, `pkg/config`, `pkg/di`, `pkg/operator/operator.go`, `pkg/controllers/manager.go`) | the loader's configuration, what is wired | load, validate, save, construct | everything | reuse after failure, order of variables, settings that are not passed on |

The webhook and the reconcilers never talk to each other: they share only the
cluster, which both see through an informer cache that lags. A reconciler
evicts one Pod; the cluster's controllers create another; the webhook decides
where it goes from what the cache shows at that moment.

What makes the parts correct: the engine gives spot the largest share that
percentage and floor permit; a decision of the webhook never takes a workload
over its spot target, alone or in a burst; reservations are neither lost while
they matter nor kept for ever; a reconciler evicts at most one Pod per
cooldown, never below the on-demand floor, after finding the window open; the two
together reach the desired distribution. Of the services: caches forget what is
no longer true within a known time, one replica leads, a shutdown ends and says
so, the breaker closes when the server is back, and what was loaded is what the
sources amount to.

## 2. Modules

| Module | Models | State and actions |
|---|---|---|
| `Allocation` | `policy.go`, `CalculateDesiredDistribution`, the floor-first rule | operators only |
| `Scaling` | the engine under scaling by one and policy edits | `replicas`, `policy` |
| `Workload` | one workload in the cluster: API server, informer cache, scheduler, kubelet (external), and `pkg/observation` as operators | `pods`, `view` (the cache's copy), `workload` |
| `Admission` | webhook and tracker; extends `Workload` | `pending` is `tracker.pending[key]`; `req[p]` holds the program counter and locals of the goroutine handling Pod `p`; `reserved` is a history variable |
| `Rebalance` | Deployment reconciler and eviction helpers; extends `Workload` | `rec` holds the locals of `Reconcile`; `lastDeletion` is the age of `lastDeletionTimes[key]`; `label`, `status`, `window` are what it reads; `lag`, `sinceEviction`, `memory` are bookkeeping |
| `Cooldown` | abstract: one eviction per period, as far as the process remembers | `since`, `known`; `Promise` |
| `StatefulSetRebalance` | StatefulSet reconciler; extends `Rebalance`, implements `Cooldown` | `outdated` Pods await the rollout, `update` is what `Reconcile` still has to write, `selected` records whether the victim's name changed hands, `disturbed` counts the disturbances up to their bound |
| `Annotations` | both parsers, the validation and the writer of the policy annotations | `object`; a text is a number, a percentage, garbled or absent |
| `DisruptionWindow` | the three levels of windows and `IsWithinWindow` | `clock`, `levels`, `nsReadable`; a schedule is the set of instants at which it fires |
| `NodeClassifier` | classification, cache, `n.mutex` and `cache.mutex` | `nodeTypes`, `cacheLock`, `updater`, `lookup[t]` |
| `NamespaceFilter` | `performFiltering`, cache, ticker, `UpdateConfig` | `filterConfig`, `patterns`, `compiled`, `verdicts`, `asker[t]` |
| `LeaderElection` | callbacks, `Resign`, client-go's elector (external) | `lease`, `elector[r]`, `callback[r]`, `isLeader[r]`; `deposed[r]` is history: the Lease was deleted under the elector |
| `Shutdown` | the shutdown phases and the probes; extends `LeaderElection` | `phase`, `phases` (component states), probe flags, `cancelled` |
| `RateLimiter` | breaker and limiters | `breaker`, `limiter`, `call[c]`; `updating` are the updates under way, `crossed` is history: two of them overlapped |
| `ClusterAccess` | `EnsureRBAC`, `ValidatePermissions` | `objects`, `install[r]` |
| `Configuration` | both loaders, `operator.Config`, `setupControllers`, the controller manager's set-up | `config`, `load`, `pending`, `running` |
| `MCAdmission`, `MCRebalance`, `MCStatefulSet`, `MCConfiguration` | values of the constants for TLC; `MCRebalance` also counts disturbances and states the fairness of the reconciler's cluster | |
| `MCUnclassified` | `MCAdmission` with a history of what each snapshot left unclassified | `unclassified[p]` |
| `MCParts` | the parts of the `parts` run, one at a time | `subject` |
| `*_proofs` | theorems and proofs | |

**Granularity.** A handler is cut into steps where it gives up a lock, reads
the cache or calls the API server, and nowhere else. `Admission` has one action
per critical section of `tracker.mu` (`SelectAndReserve` is one;
`ChooseFromCounts` and `ReserveChoice` of the older path are two, as in the
code). `Rebalance` has one action per read or call of `Reconcile`; early returns
that change nothing are stuttering steps. `CanExecute` of the breaker is two
steps when it opens half, because it swaps its read lock for the write lock in
the middle.

**Time** is kept as ages, which stop growing past the limits the code compares
them with. A `Tick` advances all of them. Delays that the code takes for granted
are explicit constants: `RequestTimeout` (API server), `VisibleWithin` (from a
decision to the Pod showing on its node in the cache), `SyncWithin` (lag of the
cache), `LookupTime` and `AskTime` (one call of the classifier and the filter).
A Pod's watch events arrive in any order relative to other Pods', which is more
than an informer allows.

**Wiring** is a constant too. `Observer`/`AdmissionTracker` are both set in no
place of the repository at this commit: `pkg/operator/operator.go` wires the
Observer alone and `pkg/di/registry.go` the tracker alone. All three
combinations are checked. `ConfigWired` says whether the reconciler was given
the global configuration; nothing sets it, as `configuration_wiring` shows.

**Abstractions.** One workload at a time (the tracker and the cooldown map are
keyed by workload, and no operation touches two keys); capacity types instead
of label values and patches; a policy is a record; a PDB is its `minAvailable`;
a label is one of the spellings the code tells apart; a pattern of the namespace
filter is the set of its matches; a configuration value is default, good, bad,
flipped or garbled, and a setting stands for those that are checked alike. A
namespace that is not allowed has the same effect on `Reconcile` as a label
that is not set. Terminal Pods count nowhere and are left out. The reconcilers'
branches without Observer are never built by the repository's own wiring and
are not modelled.

## 3. Runs

Passing runs:

| Run | Checks | Shows |
|---|---|---|
| `admission_tracked` | `SpotWithinTarget`, `SpotContract` | the tracker prevents over-allocation for a fixed workload of three Pods (a surge), two requests at a time, with deletions and drops |
| `admission_faults` | `TypeOK`, `ReservationsCounted`, `ReservationsExpire` | the tracker's bookkeeping on the path with two critical sections, two requests at a time, when everything goes wrong at once |
| `rebalance` | `TypeOK`, `PromiseKept` (refinement of `Cooldown`), `FloorKept`, `Converges` | the reconciler and the webhook's placements, from every placement and under a budget, against lag and a reclaim, failing or lost call, restart or change of leader, edit of the policy, or a Deployment that goes and comes back |
| `statefulset` | `SetTypeOK`, `PromiseKept`, `SetFloorKept`, `SetConverges` | the same for a reconciler whose own update restarts the set, with conflicts, lost answers, restarts, relabelling and a window that opens and closes |
| `parts` | `LargestSafeSpot`; `VerdictsCurrent`; `ClosedBelowThreshold`, `SharedLimiter`, `LimitersCurrent`, `RecoversWithServer`; `AccessComplete`; `ReadersAgree`, `RewriteKeepsPolicy`; `AllowedInWindowsOnly`; `LoadAgrees`, `RunsUsable`; `AnswersCurrent`, `LookupsReturn`; `OneLeader`, `CompletionReported`, `LeavesInOrder`, `ShutdownEnds` | engine; namespace filter; limiter and breaker; cluster access; annotations; disruption windows; configuration; node classifier; leader election and shutdown |

Runs in which the code violates what the documentation says of it (the documents
are quoted under "findings" of `PROJECT.json`):

| Run | Property | Disagreement |
|---|---|---|
| `admission_untracked_race` | `SpotWithinTarget` | as the operator wires it, a burst passes the spot target |
| `admission_legacy` | `SpotContract` | without Observer, deciding and reserving are not atomic: two requests take the last spot place |
| `admission_unclassified` | `UnknownIsConservative` | a Pod on a Node that is missing or cannot be classified is left out of the counts without an error, and spot may be chosen |
| `rebalance_unannotated` | `Converges` | with the label alone, evicted Pods come back on spot for ever: the webhook does not place them |
| `statefulset_rollout` | `DisruptionsSpaced` | the update after an eviction restarts the other Pods inside the cooldown |
| `leader` | `SingleLeader` | a leader that shuts down deletes its Lease and goes on leading, beside the one that acquires it |
| `configuration_wiring` | `RunsAsDocumented` | read-only mode, workers, cooldown and global window are loaded and dropped; an interval of zero is accepted and used |

One more disagreement needs no run of its own: `LargestSafeSpot` passes in
`parts` with the percentage rounded down, as `AllocateReplicaDistribution`,
`docs/reference/labels-and-annotations.md:44` and
`docs/explanation/replica-distribution-strategy.md` have it, and so refutes the
`ceil` in the formula of `docs/explanation/design-choices.md:38` and
`docs/reference/glossary.md:24` (three replicas at 50% have one on spot, not two).

**Several components in one run.** In `parts` a behaviour belongs to one
component, `subject`, while the others rest in an initial state. They share no
variable and no property relates two of them, so nothing is lost; `Shutdown`,
which does interact with `LeaderElection`, is composed with it. Limiters and
breaker, which meet only in a caller, are two subjects, the breaker without
updates and the limiters with a server that is up; the theorems about them make
no such cut.

**What the statements except.** The cooldown lives in memory: `PromiseKept`
excuses an eviction whose predecessor the process does not know of
(`memory = "lost"`), because of a restart or a change of leader, because the
eviction's answer was lost, or because the workload was absent for a while.
`FloorKept` has the same exception: the cooldown is what gives the cache the
time to catch up. `SetFloorKept` also excepts a victim whose name was taken by
another Pod since the reconciliation looked: the eviction carries no UID, and
without `selected = "same"` the property fails. `OneLeader` says which
two events can make two replicas answer `IsLeader`: a `Resign`, which deletes the
Lease, whoever holds it, while that one's elector goes on (`deposed`), and an
`onStartedLeading` that runs after `onStoppedLeading`; that the first happens is what
the run `leader` shows. `LookupsReturn` excepts the embrace of `RefreshCache` and
`UpdateConfig`, which take the two locks in opposite orders; it is a real
deadlock, although at this commit `UpdateConfig` has no caller.
`CompletionReported` excepts a deadline during the wait for load balancers,
which leaves `http-server` in state `started` for ever. `LimitersCurrent`
excepts updates that overlapped (`crossed`): each writes `rl.config` without a
lock and the limiters, from its own parameter, under one, so that the two may end
up with different configurations. `RunsUsable` promises a positive port, not
one that exists: `SpotalisConfig.Validate` accepts 70000. `SpotContract` is
about the Pods that the handler's snapshot classified; those it did not
are the subject of `UnknownIsConservative`.

**Bounds.** Three Pods for two replicas are the smallest surge: the race needs
two concurrent requests when one spot place is left. Two Pods suffice for the
tracker's bookkeeping, where the interesting actors are two requests with
different generations, and for a StatefulSet, where one is evicted and the
other restarted. `TTL = VisibleWithin = 1`, `PodListMaxAge = 0` is the
tight case of the tracker's real-time argument (30s, 5s and typical scheduling
in the code): with `TTL = 0` `SpotWithinTarget` fails, which the mutant
`Cleanup_early_bug` shows. `SyncWithin < CooldownPeriod` is needed for
`FloorKept` and `Converges` and is tight: with equality the reconciler acts
on counts from before its previous eviction and both fail. `CooldownPeriod = 2`
is the least for which an eviction too early can be told from one in time
(the two violation runs about reconcilers do not need that and use 1).
`MaxDisturbances` bounds reclaims, restarts, edits, and the calls whose failure
ends a reconciliation that would have gone on: in `rebalance` one, at any time of
any behaviour; in `statefulset` two, so that a fault can hit the recovery from
another. Safety is proved without that bound.
`MaxPending`, `MaxInFlight`, `MaxUpdates`, `MaxSelectorUpdates`,
`MaxFilterUpdates`, `MaxRewrites`, `MaxEdits` bound counters, requests and
reconfigurations. Two goroutines suffice for a late store over a newer one, two
callers for limiters created twice, stale half-openings and stragglers;
the size of the filter's cache is 1, 2 or 0, of which 0 still stores one
verdict, and an update replaces it at once, even one whose patterns do not
compile. Two replicas are enough for two leaders; with three, one that is wrong
about itself can resign for another while a third takes over, and
`AlwaysOneLeader` covers any number.
`MaxInFile` and `MaxInEnvironment` allow a variable over a setting of the file.
The numbers for `Annotations` are both ends of every range with a step beyond each, 32 bits scaled down to 300. The schedules for
`DisruptionWindow` never fire, overlap, or leave gaps; durations reach from
negative to longer than the gaps. Pods are interchangeable, so safety runs of
`Admission` use symmetry; runs with liveness do not.

`SpotWithinTarget` is stated for a workload whose spec and policy do not change
(after an edit no placement is right at once; `SpotContract` covers that case).
In `Admission_faults.cfg` the older path is checked because its bookkeeping has
the more interleavings; its safety is proved for both paths, and `SpotContract`,
with the Observer, under all disturbances.
`FloorKept` is about what the reconciler's own eviction does: on-demand Pods
removed by others while it runs would take Pods below any number, so `Interrupt`
reclaims spot nodes only. `Converges` supposes that users leave the policy alone
from some time on and leave the label set. In `StatefulSetRebalance` the webhook
may place a Pod on a cache that lags, which counts as a disturbance, the update
is answered within a cooldown, and a restart or a new label finds a status that is true
(`observedGeneration` is not checked by the code). An eviction that finds the
Pod gone starts a cooldown and updates the template like any other.

**Fairness.** `Admission`: a handler's goroutine runs on, the API server stores
or refuses an answered Pod, scheduler and informer make progress, the cleanup
ticker fires, time passes. `MCRebalance` and `StatefulSetRebalance`: every return
of `Reconcile` for an enabled workload asks to be queued again, so
reconciliation steps are weakly fair; so are the cluster's controllers,
informers and time. `NodeClassifier`: a goroutine that waits for a lock that
becomes free again and again gets it (strong fairness; `sync.Mutex` hands itself
over to a waiter that starves). `RateLimiter`: some goroutine or other keeps
asking (not each one), some waiter is admitted by the token bucket again and
again, calls return, time passes.
`Shutdown`: its goroutine and its timers run. Nothing is assumed of users,
faults or servers.

Each property of a passing run is shown able to fail by a seeded defect
(`*_bug`) in a definition that models code.

## 4. Proofs

* `Scaling_proofs`. `AllocationSound` is the arithmetic core: for a natural
  replica count and a valid policy the engine's result is the largest permitted
  one. `AlwaysLargestSafeSpot` and `AlwaysOneTargetMoves` follow from type
  correctness; no bound on replicas or percentages is used.
* `Admission_proofs`. `TypeCorrect`; then the inductive invariant
  `ReservationInv`, which adds to `ReservationsCounted` what makes it inductive:
  a missing entry stands for no reservation (for `UpdatePodListMetadata` creates
  one with both counters at zero), and a request that is about to reserve has
  read a real generation and, on the older path, made a real choice.
  `ReservationsAlwaysCounted` follows.
  `SpotContractHolds` uses it: in the critical section the choice was made from
  counts that bound the reserved Pods, hence their union with the observed ones
  plus the new Pod stays within the target. It assumes the Observer (without
  it the statement fails for two requests at a time) and nothing about
  timing, faults or the number of requests.
  `SpotAlwaysWithinTarget` is the real-time argument. It holds for `Steady`
  constants: both collaborators wired, a workload that stays as it is, nodes
  that can be classified, no restart (which empties the tracker), and
  `VisibleWithin + PodListMaxAge <= TTL`, `RequestTimeout <= TTL`; with the
  code's 30s, 5s and 10s a Pod has 25s to show on its node. Its invariant
  `SpotInv` adds to `ReservationInv` that requests and entry agree on the
  workload (`FixedInv`), that a Pod placed on spot is seen nowhere else
  (`SeenWhereItIs`), and `CoverInv`: a placed Pod that the cache does not show
  holds a reservation no older than its decision (`Held`), and one that a usable
  snapshot does not show holds one for as long as that snapshot can be used
  (`Covers`); a listed request has an entry refreshed since it began
  (`Timely`). So cleanup never meets an entry that anybody counts on,
  and when `SelectAndReserve` chooses spot, the placed Pods are among those it
  saw and those it holds reserved, which `SelectWithinTarget` bounds.
* `Rebalance_proofs`. `SpacedInv` is the inductive invariant behind the
  refinement below: while the memory is kept, the age of the stored time never
  exceeds that of the last eviction, and a reconciliation past the gate found
  the cooldown over and only sees time pass. No fault is excluded.
  `AlwaysTypeOK`. `FloorAlwaysKept` supposes `SyncWithin < CooldownPeriod`
  (with equality TLC refutes it). Its invariant `FloorInv`: what the cache shows
  as ready is that Pod, the same Pod terminating, or nothing (`ViewLags`); one
  shown ready on demand that is not was evicted no longer ago than the cache has
  been behind on it (`EvictedLately`), hence, with the spacing, before the
  cooldown that let this reconciliation begin; so the counts are true, and a
  victim taken from them is one too many until it is evicted (`VictimSpare`).
* `DisruptionWindow_proofs`. `FirstFiringDecides` is the point of
  `IsWithinWindow`: the first firing after now minus the duration is the only
  one that needs to be looked at, since a later one that is open now implies
  that this one is, and the cron library's zero time, for none, is long over.
  With type correctness `AlwaysAllowedInWindowsOnly` follows for every set of
  schedules, negative and zero durations included. The library's `Next` is
  assumed to return the least later instant (`WindowAssumption`).
* `Rebalance_proofs` and `StatefulSetRebalance_proofs`, the refinement.
  `PromiseStep` maps every step of the Deployment reconciler, from the same
  invariant as the spacing, to an eviction, an acknowledgement, a loss of memory
  or the passing of time in `Cooldown`, or to nothing, and `EvictStep` an
  eviction that takes effect to an eviction, never to nothing, which an age of
  zero would hide; `DeploymentKeepsPromise` follows. `SetStepKinds` shows that a
  step of the StatefulSet reconciler is one of those, or chooses a Pod by
  ordinal, or leaves the cooldown alone, which carries both the invariant and
  the refinement over: `StatefulSetKeepsPromise`. `SetAlwaysTypeOK` rests on
  `HighestOrdinalExists`, which derives the greatest element of a finite set
  from the well-foundedness of strict inclusion. `SetFloorAlwaysKept` uses the
  argument of `FloorAlwaysKept`, under the same assumption, together with
  `NamesInv` (only the names below `replicas` are in use, so that a full set has
  nothing else) and `RolloutInv` (a rollout is the reconciler's own, begins
  within the cooldown and is over when the next reconciliation begins): a Pod
  that the rollout restarts looks to the cache like one evicted.
* `RateLimiter_proofs`. `AlwaysClosedBelowThreshold` needs, besides types, that
  a half-open breaker has seen fewer successes than close it. `LimiterInv` is
  behind `AlwaysSharedLimiter` and `AlwaysLimitersCurrent`: a limiter exists
  exactly when somebody created it, whoever waits on one found it there, and
  creation under the write lock looks again. Any number of goroutines,
  resources and updates, which may run at the same time.
* `Components_proofs`. `VerdictsAlwaysCurrent`: a decision on its way to the
  cache that is not the present one was overtaken on its way (`AskersLag`), so a
  wrong verdict is no older than the last refresh and one call (`VerdictsLag`).
  `AccessAlwaysComplete`: a replica has seen or made every object before the
  step it is at. `ReadersAlwaysAgree` and `RewriteAlwaysKeepsPolicy` hold for
  all integers that a text can spell; they need only that a percentage fits into
  the integers (`MaxInt32 >= 100`).
* `Services_proofs`. `AlwaysOneLeader`, with any number of replicas: an elector
  that leads and was not deposed holds the Lease, which is no older than the
  elector knows (`Holds`), and a replica that takes itself for the leader leads
  unless its callback came late (`Honest`). `CompletionAlwaysReported` and
  `AlwaysLeavesInOrder` follow from `PhaseInv`, what each phase of the shutdown
  finds done. `AlwaysLoadAgrees`: at every point of a load the configuration is
  a function of the sources and the variables still pending (`LoadInv`).
  `AlwaysRunsUsable` from what validation and defaults leave possible
  (`UsableInv`). `AnswersAlwaysCurrent`: what a lookup knows wrongly changed
  while it was under way (`LookupsLag`), what the cache holds wrongly is no
  older than the refresh and one lookup (`CacheLags`), and a lookup about to
  read found the cache fresh (`ReadsLag`).

Every safety property of the passing runs is proved. Only model-checked:
liveness (`ReservationsExpire`, `Converges`, `SetConverges`, `LookupsReturn`,
`RecoversWithServer`, `ShutdownEnds`), which is beyond the prover. The inductive invariants were
checked with TLC on small instances before they were proved; that is how it came
out that with three replicas a stale leader can resign for another, which two
replicas do not show. `OneTargetMoves` is proved only: `LargestSafeSpot` determines the
targets, so a run would add nothing.

## 5. Observations

What modelling brought up besides the findings of `PROJECT.json`:

* *Annotations.* The gate lower-cases the label (`parser.go:177`) and the parser
  of the policy does not (`parser.go:92`): a workload labelled `True` is managed
  with policy zero, where `docs/reference/labels-and-annotations.md:16,41` say
  that it is ignored. A workload with annotations and without the label is pinned
  to on-demand nodes by the webhook, which asks for annotations only.
  `ParseFromAnnotations` knows no `MaxMinOnDemand`, and `ToAnnotations` writes
  zeros for a policy of which nothing was given.
* *Windows.* The Namespace level is read from labels, whose values cannot hold a
  cron schedule: it can only be absent or an error, which defers disruptions.
  A reconciler looks at the window before it lists the Pods again and evicts
  (`deployment_controller.go:275`), so that an eviction may follow the end of a
  window, of which `pkg/controllers/doc.go:73` says "Rebalancing only occurs within
  the scheduled window". The model has this behaviour, and no property that
  forgives it would say more than the guard does, so none is stated.
* *Admission.* A reservation whose Pod is observed already is counted twice, so
  spot can be chosen while the on-demand target is not reached
  (`docs/explanation/replica-distribution-strategy.md:62-64` speaks of
  unobserved reservations).
* *Classifier and filter.* The default selectors match any `instance-type`. The
  filter never looks at `RequiredAnnotations`, keeps more verdicts than the new
  size after an update that shrinks the cache and does not compile, allows (and caches) a namespace it
  cannot read, and after an update that does not compile panics on its nil
  patterns; a second `Stop` of the ticker blocks.
* *Breaker.* Half-open admits any number of concurrent requests, since only
  successes count against the limit; a straggler's failure cuts a recovery short.
  `UpdateConfig` leaves the rate of resources that the new configuration does not
  name, and writes `rl.config` without a lock.
* *Leadership and shutdown.* `Resign` deletes the Lease by name: a replica whose
  flag is stale takes it from whoever holds it, and two others may then lead. The
  elector runs once and there is no second
  campaign. `IsCompleted` is true of a shutdown that has started and has not
  reached its first phase. Nothing receives `shutdownContext`.
* *Access.* Any error of a `Get` leads to `Create`, and `AlreadyExists` ends the
  start. The cluster role has neither `pods/eviction` nor
  PodDisruptionBudgets, ReplicaSets or updates of StatefulSets.
* *Configuration.* The lenient validation accepts ports above 65535; neither
  validation relates the durations of the leader election. `RegisterAll` skips
  controllers and servers, the registry enables no kind of controller, and the
  operator's leader-election manager stays nil, so that `IsLeader` is true.
* *No callers at this commit:* `LeaderElectionManager.Start`, `ShutdownManager`,
  `RateLimiter`, `KubernetesClientManager`, `AdmissionController`,
  `ParseFromAnnotations`, `ToAnnotations`, `ValidateAnnotations`,
  `NodeClassifierService.UpdateConfig`. They are modelled as what they promise a
  caller.

## 6. Not modelled, and the plan

1. `Cluster`: `Admission` and `Rebalance` composed, with the real webhook steps
   in place of `Replace`; convergence with and without the tracker.
2. Proofs of the properties of `Cluster`.

Left out for good: the admission controller's certificates and registration,
building clients, HTTP servers, logging and metrics (I/O in sequence that no
decision depends on), the dependency-injection container (a library), starting
and stopping the controller-runtime manager (the same), and types without a
caller (`disruption_policy.go`, `controller_config.go`, `runtime_state.go`,
`leadership_state.go`, `node_classification.go` in `pkg/apis`).
