# TLA+ models of the kubecluster controller

kubecluster is a Kubernetes operator. A `KubeCluster` object describes an HPC
cluster (slurm or PBS Pro) as a set of *replica types*; the controller keeps the
pods, services and config map of the cluster in step with that description and
reports on it in the object's status. This directory models the controller in
TLA+, checks the models with TLC and proves the main safety properties with
TLAPS. Paths below are relative to the repository.

## 1. Inventory

### Parts of the system

| Part | Code | Here |
|---|---|---|
| Replica control: pods and services of one replica type | `pkg/controller/ctrlcommon/service.go`, `pod.go`, `pkg/core/pod.go`, `service.go`, `pkg/controller/control/pod_control.go`, `service_control.go` | `ReplicaControl` |
| Life cycle: the branches of a reconcile pass, clean-up, status write | `pkg/controller/ctrlcommon/controller.go`, `pkg/controller/cluster_controller.go` | `ClusterLifecycle`, implementing `ClusterPromise` |
| Condition list | `pkg/util/status.go` | `ClusterConditions` |
| Limits: backoff, deadline, TTL, clean-up policy | `pkg/core/cluster.go`, `controller.go` | `ClusterLifecycle` |
| Schemas' status rules: slurm, PBS Pro | `pkg/controller/cluster_schema/*/*_schema.go` | `ClusterLifecycle` |
| Config map: creation, filling and deletion | `ctrlcommon/configmap.go`, `control/configmap_control.go` | `ClusterLifecycle`, in detail `ClusterConfig` |
| slurm.conf: ports and node lines | `slurm_schema/configmap.go`, `util.go` | `ClusterConfig` |
| Expectations and the handlers that count them down | `pkg/controller/expectation/`, `pkg/common/util/reconciler.go` | `Expectations` |
| Controller reference manager | `control/controller_ref_manager.go` | `ControllerRefs`, implementing `Ownership` |
| Gang scheduling | `ctrlcommon/scheduling.go`, `control/podgroup_control.go`, `pkg/common/util/reconcile_generic.go` | `GangLaunch` |
| Minimum resources of a gang | `ctrlcommon/util.go` | `GangResources` |
| Arithmetic on resource lists | `pkg/util/quota/resources.go` | `ResourceLists` |
| Stub work queue | `pkg/common/util/fake_workqueue.go` | in the passes' actions |
| Schema registration, API defaults and validation | `register_cluster_schema.go`, `apis/` | only the fields the branches read |
| Generated clients, metrics, logging, flags | `pkg/client/`, `pkg/metrics/`, `cmd/` | not modelled |

### State and operations

The state lives in four places, and they disagree most of the time:

* the **API server** holds the objects: the cluster with its spec and status,
  pods, services, the config map, the PodGroup;
* the **informer cache** lags the API server by the watch events that have not
  been delivered. Cluster, pod and service events also enqueue the cluster's
  key. Config maps are not watched. Of a PodGroup's events only updates enqueue;
* a **pass** (`Reconcile`) works on the copies it read from the cache when it
  began, and makes its API calls one after the other;
* the **work queue** holds the key or not; an error in a pass puts it back.
  The controller's own `WorkQueue` field is a stub: `AddAfter` does nothing and
  `NumRequeues` is always 0.

Beside these, the process keeps the **expectations**, counters that passes raise
and informer goroutines lower.

Operations: users change `spec.replicas` and `spec.runPolicy.suspend`; kubelets
start, fail and remove pods; the gang scheduler lets PodGroups in; a pass takes
one of four branches, *finished*, *suspended*, *over a limit* or *normal*. In the
normal branch it syncs the PodGroup and may wait for it, creates and fills the
config map, goes through every replica type's pods and services, and writes the
status. The controller process stops and starts again at any point.

### What makes it hard

Decisions on stale copies; writes guarded by resource versions; calls that fail
after they took effect; creations whose time-out counts as success; two branches
that call the same clean-up for different reasons; conditions set in different
orders by different passes; waiting for an event that may be filtered out or
never sent; counters shared by goroutines; a restart between any two calls.
`PROJECT.json` lists each hazard at its line with the properties that cover it.

## 2. Modules

| Module | Contents |
|---|---|
| `ReplicaControl` | one replica type with any number of replicas |
| `ReplicaControlProofs` | types, `BoundedFootprint` and `HealthyPodKept` |
| `ClusterConditions` | the condition list as operators on sets |
| `ClusterLifecycle` | one cluster: a head and worker types with one replica each |
| `ClusterPromise` | the abstract specification of what a cluster's status tells |
| `LifecyclePromise` | the mapping of `ClusterLifecycle` to it, and the invariant the refinement needs |
| `ClusterLifecycleInvariants` | the inductive invariants and the theorems that follow from them at once |
| `ClusterLifecycleProofs` | the refinement of `ClusterPromise`, and `NoEarlyBackoff` |
| `Expectations` | the store of counters, a pass and two informers |
| `ExpectationsProofs` | types and `CountsCovered` |
| `Ownership` | the abstract specification of who owns an object |
| `ControllerRefs` | controllers that claim, adopt and release from old lists |
| `ControllerRefsProofs` | the refinement of `Ownership` |
| `GangLaunch` | the PodGroup and the pods that wait for it |
| `GangResources` | `CalcPGMinResources` and what it should give |
| `GangLaunchProofs` | types, `PodsJoinTheirGroup`, and what `CalcPGMinResources` gives |
| `ClusterConfig` | the slurm config map and the pods made from it |
| `ClusterConfigProofs` | types, `ConfWrittenOnce`, `PodsAgreeWithConf` and `NodesOfferWhatIsReserved` |
| `ResourceLists` | sums, maxima and differences of resource lists |
| `DataProofs` | their laws, and induction and folds over finite sets |
| `MC...` | entry points of the runs, with values of constants |

The models divide the pass between them, and each keeps what the others take
for granted. `ReplicaControl` keeps the loop over indices and leaves out what
decides whether the loop runs. `ClusterLifecycle` keeps the decisions, every API
call and the status, and gives each type one replica. `GangLaunch` keeps the
PodGroup block and takes the pods together. `ClusterConfig` keeps the content
of the config map. All of them keep the views apart: `pods` is in the API
server, `cPods` in the cache, and the pass has copies (`wPods`, or fields of
`w`).

### How actions correspond to the code

* `StartPass` is everything a pass does before its first API call: `Get`, the
  lists and the decision on the branch (`ReconcileKubeCluster`,
  `controller.go:213-326`). Reading several kinds from the cache at one instant
  loses nothing, since the kinds lag independently.
* One action per API call, each with a disjunct for success, for an error
  without effect and for an error after the effect where the code can tell them
  apart or a retry would. An error ends the pass and requeues the key (`Abort`,
  `Fail`). What the code computes between two calls belongs to the action before
  it.
* `UpdateClusterStatus` takes one replica type per step, in any order, as the
  code ranges over a map.
* `WriteStatus` succeeds only when the copy of the cluster is the latest
  version. In `ClusterLifecycle` the flag `wCurrent` stands for the resource
  version: a cached cluster is current exactly when no cluster event is under
  way, and a write or a user's change in between clears the flag.
* `Observe...` and `Deliver...` are the informer's deliveries with the
  predicates and handlers of `SetupWithManager`; `Resync` is the periodic update
  event for the cluster.
* `Restart` and `Crash` drop the pass, the queue and the cache and start from a
  relist.
* In `Expectations` an informer first looks the counters up (`Deliver`) and then
  decrements them (`Observe`), because `SetExpectations` puts a new struct into
  the store and a handler may still hold the old one. The raise before a
  creation and the raise after a deletion are steps of their own.
* In `ControllerRefs` a manager has the list as it was in the cache, and one step
  per object of it. The patches name the UID. `CanAdopt` runs once per manager:
  without a `CanAdoptFunc` it always answers yes (`Checked` has the controllers
  that pass one), with one the answer is the caller's and may be an error. Nothing
  in the repository makes a manager, so a claim may start at any time, or never.
* In `GangLaunch` the PodGroup of Volcano is read from the API server and that of
  the scheduler plugins from the cache, as the two `GetPodGroup` do.
  `LastReconcileTime` has whole seconds, so a status write may change nothing and
  send no event. Any call of a pass may fail, with or without effect; an error of
  `SyncPodGroup` is logged and ends the pass like a wait, without a requeue
  (`controller.go:417`). A size of the cluster is its replica specs and its
  `minAvailable`; a user changes the size or the suspension, one at a time. A pass
  takes `minMember` and the minimum resources of its size (`pgSpecFill`), where
  every order that the unstable sort of `CalcPGMinResources` may leave gives a list.
  `PriorityClassLister` finds no class, because the informer factory behind it is
  never started (`cluster_controller.go:86`), so every priority is 0. Minimum
  resources that a user sets are copied by the code and not modelled.
* In `ClusterConfig` the config map is `[uid, owned, conf]`; `conf` has the ports
  and one node line per worker. The controller and the workers have templates of
  their own. `genSlurmPorts` takes the ports of any type whose template names both
  (the code ranges over a map), and draws two different ones if there is none; a
  pod has the ports of slurm.conf in its environment and those of its template, with
  the missing ones filled in, on its container. A creation of the map that times
  out may find the map there, not yet in the cache. `Accepts` is the optimistic concurrency of the
  API server: an update without resource version is always taken. The update
  clears the UID of the pass's copy of the cluster (`cluster_controller.go:195`),
  so that the pods of that pass are refused.
* Outside `src/`, and modelled from how the code uses them: the API server's
  writes, kubelets, evictions, users, the gang scheduler, the clock and the
  resync.

A creation that times out counts as success for pods (`pod.go:141`) and for the
config map (`configmap.go:72`); for services the same branch is never taken,
because `createServices` wraps the error.

## 3. Runs

`tlc -config <cfg> <MC module>` with the cfg of the same name. Every bound is a
constant of the model: `MaxToggles`, `MaxScales`, `MaxEdits`, `MaxFailures`,
`MaxEvictions`, `MaxErrors`, `MaxTimeouts`, `MaxCrashes`, `MaxRestarts`,
`MaxSeconds` and `MaxTime` count events of the environment over the whole
behaviour; `MaxTrouble`, `MaxFaults` and `MaxEvents` bound several kinds of them
together; `MaxLag` and `MaxPending` bound the undelivered events of one kind;
`MaxReplicas` and `MaxObjects` the objects (in `GangLaunch`, `Sizes`); `MaxGroups`, `MaxMaps` and
`MaxCreations` the incarnations of one name; `MaxOps` the calls of one pass.

### Runs that pass

| Run | Shows |
|---|---|
| `ReplicaControl_converge` | two indices and any three of: a scaling, a failure, an eviction, an error, a timed-out creation, a restart, with two events of lag. The controller does not overshoot (`BoundedFootprint`) or delete a healthy pod that the spec it read asks for (`HealthyPodKept`). Watch events and requeues are enough to get in step unless a creation timed out (`EventsSuffice`), and the resync is enough always (`Converges`) |
| `ClusterLifecycle_faults` | a slurm head with a TTL, one toggle, failure, eviction, error or time-out and restart: well-formed conditions, final failure, no child for a cluster born suspended, deletion only when due |
| `ClusterLifecycle_pbspro` | a PBS Pro server and a worker, one pod failure and one container restart under a backoff limit of 2: they do not add up to a failure (`NoEarlyBackoff`), Running means launched, and status writes implement `ClusterPromise` |
| `ClusterLifecycle_suspend` | two toggles and an error: `SuspendTakesEffect`, `ResumeTakesEffect`; the status changes as if every pass wrote it in one step on the live cluster (`ImplementsPromise`), and Running excludes Suspended, Restarting and Failed (`StatusExclusive`) |
| `ClusterLifecycle_failed` | a deadline and a backoff limit of 0: `FailedCleansUp`, `DeadlineEnforced` |
| `Expectations_counts` | two keys (pods and services), one object each, two calls per pass, one fault. No counter exceeds what will still count it down (`CountsCovered`), and the counters drain (`Drains`) |
| `ControllerRefs_claims` | two controllers, one with a `CanAdoptFunc`, and one object with two incarnations and two disturbances: the claims implement `Ownership`, and if the callers claim again and again every object ends with the controller that its labels match (`Settles`) |
| `GangLaunch_launch` | both schedulers, two sizes (all pods together, two of three), two edits, two incarnations of the PodGroup, two events of lag, and a failed call or a restart: pods are created only for a PodGroup that is there with the right members and resources and, with Volcano, let in (`PodsJoinTheirGroup`); it follows the spec, goes when the cluster is suspended, and is not written for ever where all pods start together (`GroupSettles`); a Volcano cluster gets its pods |
| `ClusterConfig_conf` | up to two replicas, two edits, two incarnations of the map and two faults, time-outs among them, with five pairs of templates (ports named by nobody, by one type, by both; requests, limits only, init containers, overhead): a filled map of the cluster is never written again, pods agree with it, its node lines offer no more than is reserved, and the cluster settles |

The bounds are small, but each run has at least one event of every kind its
property is about at every point of a pass: one edit in the middle of a pass is
what makes a copy stale, one error is what separates an effect from its report,
two events of lag let a cache miss a whole pass, and two incarnations of a name
are what confuses a reader of an old list. `Desired` leaves out 0, since a count
of 0 never comes to rest (below). One head without workers is enough where a
property does not relate two types; the run on the status rules has a worker too.
The two sizes of `GangLaunch_launch` have containers with requests, with limits
only, with an empty map of requests and with neither.

### Runs that show a disagreement

Each checks one property that states what a comment of the repository says, and
TLC finds a behaviour of the code that violates it.

| Run | Behaviour |
|---|---|
| `ClusterLifecycle_headrestart` | a slurm head that is to be restarted fails the cluster: Running is set first and displaces Restarting |
| `GangLaunch_stuck` | with the scheduler plugins, a quick suspension and resumption: the cached PodGroup is gone, its update is refused, and the status write that should trigger the next pass falls into the same second and changes nothing. Only the ten-hour resync, to which the model owes no fairness, would help |
| `ClusterConfig_timeout` | a config map creation times out after it took effect: the update that follows removes the owner reference, and every later pass refuses the map |

The models contain more behaviours of this kind, which other constants or a
stronger property bring out and which the properties above are worded around:

* with 0 replicas the pod of index 0 is created and deleted for ever, as the
  slices start at index 0 (`pkg/core/pod.go:65`);
* suspend and resume at once: the terminating head counts as failed and may fail
  the cluster (`pkg/core/status.go:41`), so `ResumeTakesEffect` says "or fails";
* with a TTL, the deadline never fails the cluster and a suspension never shows
  in the status: `CleanupCluster` wants a completion time first
  (`controller.go:549`); the runs of these properties leave the TTL unset;
* a backoff failure is forgotten when its status write conflicts, the pods being
  deleted first (`controller.go:329`);
* pod failures are counted by the stub `NumRequeues` (`fake_workqueue.go:53`), so
  with a backoff limit of 1 they never exhaust it;
* for slurm, `RunningMeansLaunched` fails in the first pass
  (`slurm_schema.go:82`): its run is about PBS Pro;
* `FailedCleansUp` does not speak of services: one whose pod is gone before the
  clean-up stays (`controller.go:598`);
* a hole below an out-of-range pod is filled again before that pod is deleted
  (`service.go:137`), so `BoundedFootprint` is stated with the largest count so
  far and not with the current one;
* `expectation.go:56` says "A controller isn't synced till its expectations are
  either fulfilled, or expire", and `controller.go:223` that "we expect that
  previous expectations are all satisfied" when a pass resets them. No gate sees to
  it: `SetPreSatisfiedExpectations` has an empty body (`expectation.go:189`), so
  `PreSatisfiedExpectations` is false, `needReconcile` true, and a pass starts and
  resets the counters while they are above zero. What holds without the gate is in
  `BoundedFootprint`, `HealthyPodKept` and `EventsSuffice`, whose passes run on
  lists that miss what the pass before did, and in `CountsCovered`;
* a deletion that found nothing, or a creation that timed out without effect,
  raises a counter that no event lowers (`service.go:157`, `pod.go:141`). The
  next pass resets it. `Drains` excepts these (`phantom`);
* after scaling, slurm.conf keeps the old node lines, and after a quick
  resumption pods may get the ports of a deleted map: no code rewrites the map.
  `PodsAgreeWithConf` speaks of the first map of a cluster, or of one pair of ports
  in the spec, and of nodes only while the spec was not edited;
* a pod whose template names one port, or other ports than another type, keeps
  them on its container, whatever slurm.conf says (`PortsAreClear`);
* after a creation of the config map that timed out, the pass may write over a map
  that is filled and in use, with new ports and without an owner; so
  `ConfWrittenOnce` speaks of maps that stay the cluster's;
* a worker that requests less than one CPU gets a node line with 0 CPUs, and one
  that has only limits gets the defaults of 8 CPUs and 32 GiB, whatever its limits
  (`slurm_schema/util.go:75`);
* with a `minAvailable` below the number of pods, the resources of the PodGroup
  depend on the order of a Go map. If the types ask for different resources, two
  passes on one spec may write different lists, every write that changes something
  sends an update event, and the event makes another pass: the PodGroup need not
  come to rest. `GroupSettles` is about clusters whose pods all start together;
* after a call of `SyncPodGroup` failed, the same second in the status may again
  leave no event, so `GroupFollowsSpec` and `VolcanoLaunches` take it that in this
  case something queues the key, in the end the resync (`PassesCome`).

### Fairness

Every `FairSpec` assumes weak fairness of the steps of a pass (the worker taking
a queued key among them), of the informers' deliveries and of the kubelet ending
terminating pods. controller-runtime's worker loop takes the key as long as it is
queued, a pass is sequential code whose calls return, watches are re-established
after a failure. Nothing is assumed of users, failures, evictions, errors and
restarts beyond their bounds, so liveness is about what happens after the last of
them. Beyond that:

* `ClusterLifecycle` and `ClusterConfig` assume the resync, whose period is
  finite, and `ClusterLifecycle` the clock and the kubelet starting pods;
* `ReplicaControl` has the resync as a premise of `Converges` instead, so that
  `EventsSuffice` shows where it is not needed;
* `GangLaunch` has a resync without fairness: `SuspendEndsGroup` and
  `GroupSettles` hold by events alone, and so do `VolcanoLaunches` and
  `GroupFollowsSpec` as long as no call failed (`PassesCome`); `WaitingTriggersPass`
  is about events. It assumes that the gang scheduler lets PodGroups in;
* `Expectations` assumes fairness per informer, and nothing of the expiry clock:
  `Drains` does not need it;
* `ControllerRefs` assumes that a call that was made goes on to its end, and
  nothing of how often it is made: that every controller claims both kinds
  infinitely often is a premise of `Settles`.

The deadlock check is off where the system may really come to rest: where there
is no resync that must come, or where the cluster may be deleted (`ClusterLifecycle_faults`).

## 4. Proofs

`tlapm <module>` checks each of them. They hold for any number of replicas,
types, controllers or objects, any policies, templates and resource lists, and
any bounds. What is assumed of the constants is in the named `ASSUME`s of the
models, which TLC evaluates in every run: bounds are natural numbers
(`BoundsAssumption`, `BoundsAreNaturals`, and parts of the `ConstantsAssumption`s
and of `RefConstants`), policies and schemas have the values the API knows,
worker types are finitely many, `None` and `Unset` are no values of the sets
they stand beside, quantities in templates are not negative
(`TemplatesAssumption`: the API server refuses others), and the sizes of a cluster
have the form of the API type (`SizesAssumption`). With these, every invariant,
action property and refinement that a passing run checks is also a theorem; for
`RunningMeansLaunched` and `NoEarlyBackoff` it has the hypotheses named below.

**ReplicaControlProofs.** `TypeCorrect`, `FootprintBounded`,
`HealthyPodsAreKept`. `BoundedFootprint` is not inductive: a pass creates at the
indices of slices computed from its copies. `FootprintInv` adds that the largest
count so far bounds every count and every pod or service in the cache, the pass
and the undelivered events, and that a pass is at one of its slices.
`HealthyPodKept` is about a deletion by name: a stale copy of a failed pod must
not cost its replacement. `KeepInv` follows one index through the views. Whoever
has yet to learn of a failure or a deletion shows an older pod, a removal is the
last event and the cache still shows that pod (`CacheChain`); a failed pod in a
slice that the pass has not reached has not been replaced yet (`PassChain`). Its
hypothesis, that only the controller deletes pods, is part of the property.

**ClusterLifecycleInvariants.** `LifecycleTypes`, and `LifecycleInductive`, which
proves `TypeOK /\ LifecycleInv`. The parts of `LifecycleInv`: which branch each
stage belongs to (`StagesOfModes`); the cache is the live version once every
event is delivered, up to the Created condition (`CacheFollows`); a pass that may
still write has not missed a failure (`WritersSeeFailure`); a copy that says
Failed, in the cache, an event or a pass, is the live status (`FailedCopies`);
every copy is well formed (`CopiesWellFormed`); and no version of a cluster
created suspended is anything else before someone resumes it
(`SuspendedFromBirth`). From it follow `FailedForever` (a stale pass cannot
overwrite a failure, because it cannot write), `DeletionIsDue` (the cached status
on which the deletion is decided says Failed, so it is the live one),
`ConditionsAreWellFormed` and `SuspendedHasNoChildren`.
`RunningIsTrue` is for PBS Pro, as slurm's update says Running in the first pass
whatever the head does (§3). Its invariant `LaunchInv` speaks of all copies of
the status and of the head's pod: none of them is running, or counts the head as
active, before the pod has run.

**ClusterLifecycleProofs.** `PromiseImplemented`: every step of the controller is
a step of `ClusterPromise` on the live cluster or leaves what it tells alone.
`ClusterPromise` has no cache and no pass: it shows Suspended only for a cluster
that is asked to be suspended at that moment, Running, Restarting and Failed only
for one that is not, and keeps the status of a failed one. `PromiseInv`
(in `LifecyclePromise`) is what makes a write many steps after the decision a
single step: as long as the pass may still write (`wCurrent`), the live spec is
the one it decided on, and its copy of the status differs from the live one by
exactly what its branch has done so far. `ExclusiveStatus` is proved of
`ClusterPromise` and carried over.
`FailsByBackoffOnly` proves `NoEarlyBackoff` for PBS Pro while no pod was evicted
and no one toggled the cluster; both are needed. Slurm's Running displaces the
Restarting that keeps a failed head from failing the cluster
(`ClusterLifecycle_headrestart`), and the head that a suspension or an eviction
deletes counts as failed, as a terminating pod does. The invariant has two
halves. `BackoffInv` says that until a limit excuses it no copy of the status has
failed and no pass is in another branch (`NoneFailed`, `Undisturbed`), because
the pass sees what happens to a pod in order: only failed pods are deleted, a
deletion follows a failure that the cache has seen, and a pod seen failed has not
come back while the pass has not handled it (`PodOrder`, `PassOrder`); so a pass
that counts a failed head has also set Restarting (`HeadCounted`).
`RestartsCounted` assigns each container restart to one type, such that no copy
of a pod has more than its type was assigned: the sum that
`PastBackoffLimit` compares, of copies from different moments, never exceeds the
restarts that happened.

**ExpectationsProofs.** `ExpectationTypes` and `CountsAreCovered`.
`CountsCovered` needs that a call in progress has a key and that the handler of a
kind holds only events of that kind; with these and the types it is inductive.

**ControllerRefsProofs.** `ClaimsImplementOwnership`, for any set of controllers
with a `CanAdoptFunc`. Step simulation needs that what a manager or the cache shows
of an incarnation that still exists is something it once was: its label is among
those it wore, and an incarnation is never newer than the counter of its name. The
adoption then maps to `Adopt`, and a release to `Release` since the object wore a
label that does not match.

**GangLaunchProofs.** `TypeCorrect`, `PromiseKept` and `PodsHaveTheirGroup`.
`PromiseKept` is about `CalcPGMinResources` alone: for any replica specs, priority
classes, number of members and order that the unstable sort may leave, the list is
what some foremost pods need, and it is one list where the order should not matter.
The proof unrolls the loops over types, pods and containers. `Prefix` is the
invariant of the outer one: the pods counted after k types are as many as `podCnt`
and need what the list says; they are all pods of these types if more are wanted;
and there is none of a type unless all of the types before it are there.
`TotalStep`, `PodTotal` and `PodsTotal` relate the sums of `Needs`, taken in no
order, to one more container, pod and type.
`PodsHaveTheirGroup` joins this to the pass. `GangInv` says what the pass knows of
its PodGroup at each stage, in particular that between the delay and the launch the
PodGroup that it updated or created is the one in the API server, with the members
and resources it wrote and, with Volcano, let in, whichever calls failed before:
only the pass itself deletes it. `FillsAreForemost` turns what it wrote into the
resources of the foremost pods.

**ClusterConfigProofs.** `TypeCorrect`, `FilledOnce`, `PodsAndConfAgree`,
`NodesOfferReserved`. `ConfInv` says that a pass about to fill a map works with an
empty copy (`FillsEmpty`): an update that is accepted fills an empty map, or has no
resource version and takes the owner away. For `PodsAgreeWithConf` the invariant
`Agree` adds that every filled copy has ports that the spec allows (`FineConfs`)
and every pod has, on its container, its template's completed by those of its
environment (`FinePods`); that while there was one map only and it is the
cluster's, every filled copy and every pod has the ports of the live map, and there
is no pod before it is filled (`SameMap`, `NothingYet`); and that without edits
every copy of the spec is the present one (`Generations`). For
`NodesOfferWhatIsReserved`, every node line is that of the template, the fold over
its containers is compared with the sum and the maximum that the scheduler
reserves, and completing the requests from the limits only adds to them
(`RequestsAreReserved`).

**DataProofs.** The sum of lists is commutative and associative, the maximum is
the least bound, `Equals` decides equality, and what the two differences give.

**Induction over data.** The library's induction theorems take an operator, which
the provers cannot instantiate. `DataProofs` proves first-order forms of them:
`NatSetInduction` and `SubsetInduction` speak of a *set* that is closed under the
step, and `FoldExists` gives the recursive function that a community fold
computes. This is how the folds of `getResourceRequestList`,
`CalcPGMinResources` and `PastBackoffLimit` are unrolled. `GangResources` defines
`FoldLeft` itself, from the same `MapThenFoldSet` as `SequencesExt` does: each
proof step carries all definitions in scope, and those of `SequencesExt` would
more than double the time of that module.

Only model-checked: liveness, as fairness and `ENABLED` are out of the prover's
reach. That is `EventsSuffice`, `Converges`, `SuspendTakesEffect`,
`ResumeTakesEffect`, `FailedCleansUp`, `DeadlineEnforced`, `Drains`,
`Settles`, `GroupFollowsSpec`, `SuspendEndsGroup`, `VolcanoLaunches`,
`GroupSettles` and `ConfigSettles`. The proofs take 20 seconds (`DataProofs`) to 18 minutes
(`GangLaunchProofs`) per module.

## 5. Not modelled

* `SyncPdb` and `DeletePdb` (`scheduling.go`), `CalculateUsage` and the helpers
  on lists of names (`quota/resources.go`) and `DeleteExpectations`: nothing in
  the repository calls them. The controller reference manager is not called
  either, but it has a protocol of its own and is modelled.
* The update of the config map at the end of a pass (`controller.go:468`) and
  slurm's `UpdateConfigMap`: the status is written in every pass, as
  `controller.go:464` compares a value with a pointer, and the function returns
  there.
* Host networking: the config map is then never marked ready, and the code that
  would do so is the unreachable update.
* The text of slurm.conf beyond ports and node lines, of the PBS Pro
  configuration and of the scripts; volumes, init containers, environment,
  scheduler names and annotations of pod templates. They are constant text or
  data that no property tells apart.
* Two generations of a cluster of the same name, and the garbage collection after
  a deletion, which the API server does.
* Defaulting (slurm's only changes the case of type names), validation, flags,
  leader election, metrics, logging and generated clients: no state that a pass
  reads.
* Timestamps and messages of conditions, so a condition that is set again with a
  new message is the same condition here; the real seconds of
  `LastReconcileTime` are kept.

## 6. Plan

1. Two generations of a cluster, with the services of the older one listed by
   label (`cluster_controller.go:401`).
2. A property of when a deadline is noticed, which would tell the stub `AddAfter`
   from a working queue (`fake_workqueue.go:44`).
