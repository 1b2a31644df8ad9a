--------------------------- MODULE ReplicaControl ---------------------------
(***************************************************************************)
(* How the controller keeps the pods and services of ONE replica type in   *)
(* step with spec.replicas: ReconcilePods and ReconcileServices, driven by *)
(* watch events through the informer cache and the work queue.             *)
(*                                                                         *)
(* Three views of the same objects exist at once: the objects in the API   *)
(* server (replicas, pods, svcs), the informer cache (cReplicas, cPods,    *)
(* cSvcs), which lags it by the watch events not yet delivered (the        *)
(* feeds), and the copies a running pass listed when it began (wReplicas,  *)
(* wPods, wSvcs), which lag the cache.  A pass decides from its copies and *)
(* acts on the API server, one call per step, so every other actor can     *)
(* move between two calls.                                                 *)
(*                                                                         *)
(* Covered: scaling, failing pods, graceful termination, pods deleted by   *)
(* others, API calls that fail before or after taking effect, create       *)
(* time-outs, controller restarts, the periodic resync.  The pod and       *)
(* service of index i have a fixed name, so the API server holds at most   *)
(* one of each per index.  The expectations store is left out: nothing in  *)
(* a pass depends on it, because needReconcile always answers true.        *)
(***************************************************************************)
EXTENDS Naturals, Sequences

CONSTANTS
  MaxReplicas,    \* replica counts, and so indices, stay below this bound
  Desired,        \* replica counts users ask for
  RestartPolicy,  \* of the replica type: Never, Always, OnFailure or ExitCode
  MaxScales,      \* bound: changes of spec.replicas
  MaxFailures,    \* bound: containers that fail
  MaxEvictions,   \* bound: pods deleted by someone else
  MaxErrors,      \* bound: API calls that return an error
  MaxTimeouts,    \* bound: pod creations that time out
  MaxCrashes,     \* bound: restarts of the controller
  MaxTrouble,     \* bound: those six together
  MaxLag,         \* bound: watch events of one kind not yet delivered
  Resyncs         \* whether the informer's periodic resync is modelled

ASSUME ConstantsAssumption ==
  /\ MaxReplicas \in Nat \ {0}
  /\ Desired \subseteq 0..MaxReplicas
  /\ RestartPolicy \in {"Never", "Always", "OnFailure", "ExitCode"}
  /\ MaxScales \in Nat /\ MaxFailures \in Nat /\ MaxEvictions \in Nat
  /\ MaxErrors \in Nat /\ MaxTimeouts \in Nat /\ MaxCrashes \in Nat
  /\ MaxTrouble \in Nat /\ MaxLag \in Nat \ {0}
  /\ Resyncs \in BOOLEAN

Indices == 0..(MaxReplicas - 1)

(***************************************************************************)
(* A pod as far as the pass tells pods apart.  "Up" stands for Pending,    *)
(* Running and Succeeded; a Failed pod is "Retryable" when its container's *)
(* exit code is at least 128 or unknown, "Permanent" otherwise.  del is    *)
(* the deletion timestamp.                                                 *)
(***************************************************************************)
Absent == [phase |-> "None", del |-> FALSE]
NewPod == [phase |-> "Up", del |-> FALSE]
FailedPhases == {"Retryable", "Permanent"}
PodValues == {Absent} \cup [phase : {"Up"} \cup FailedPhases, del : BOOLEAN]

VARIABLES
  replicas,   \* spec.replicas in the API server
  pods,       \* the API server's pods, by index
  svcs,       \* the indices that have a service in the API server
  cReplicas, cPods, cSvcs,   \* the informer cache's view of the three
  clusterFeed, podFeed, svcFeed,  \* watch events on their way to the cache
  queued,     \* whether the cluster's key waits in the work queue
  pc,         \* "idle", or what the running pass is at: "pods", "services", "status"
  pos,        \* the slice index the pass is at
  wReplicas, wPods, wSvcs,   \* the running pass's copies
  peak,       \* history: the largest spec.replicas so far
  scales, failures, evictions, errors, timeouts, crashes  \* what happened so far

apiVars   == <<replicas, pods, svcs>>
feedVars  == <<clusterFeed, podFeed, svcFeed>>
cacheVars == <<cReplicas, cPods, cSvcs>>
passVars  == <<pc, pos, wReplicas, wPods, wSvcs>>
countVars == <<scales, failures, evictions, errors, timeouts, crashes>>
vars == <<apiVars, feedVars, cacheVars, queued, passVars, peak, countVars>>

Present(view) == {i \in Indices : view[i] # Absent}
PodEvents == [index : Indices, pod : PodValues]
SvcEvents == [index : Indices, exists : BOOLEAN]
NoPods == [i \in Indices |-> Absent]

(* Every view of the cluster keeps its form, and the slice a pass is at is *)
(* one of an existing index: ReconcilePods and ReconcileServices stop      *)
(* after the last slice.                                                   *)
TypeOK ==
  /\ replicas \in 0..MaxReplicas /\ cReplicas \in 0..MaxReplicas
  /\ wReplicas \in 0..MaxReplicas /\ peak \in 0..MaxReplicas
  /\ pods \in [Indices -> PodValues] /\ cPods \in [Indices -> PodValues]
  /\ wPods \in [Indices -> PodValues]
  /\ svcs \subseteq Indices /\ cSvcs \subseteq Indices /\ wSvcs \subseteq Indices
  /\ clusterFeed \in Seq(0..MaxReplicas)
  /\ podFeed \in Seq(PodEvents) /\ svcFeed \in Seq(SvcEvents)
  /\ queued \in BOOLEAN
  /\ pc \in {"idle", "pods", "services", "status"}
  /\ pos \in Indices
  /\ scales \in 0..MaxScales /\ failures \in 0..MaxFailures
  /\ evictions \in 0..MaxEvictions /\ errors \in 0..MaxErrors
  /\ timeouts \in 0..MaxTimeouts /\ crashes \in 0..MaxCrashes

(* A new cluster: nothing created yet, its create event already enqueued. *)
Init ==
  /\ replicas \in Desired /\ cReplicas = replicas /\ peak = replicas
  /\ pods = NoPods /\ cPods = NoPods
  /\ svcs = {} /\ cSvcs = {}
  /\ clusterFeed = <<>> /\ podFeed = <<>> /\ svcFeed = <<>>
  /\ queued = TRUE
  /\ pc = "idle" /\ pos = 0 /\ wReplicas = 0 /\ wPods = NoPods /\ wSvcs = {}
  /\ scales = 0 /\ failures = 0 /\ evictions = 0
  /\ errors = 0 /\ timeouts = 0 /\ crashes = 0

(* Whether something out of the ordinary may still happen. *)
InBudget == scales + failures + evictions + errors + timeouts + crashes < MaxTrouble

-----------------------------------------------------------------------------
(* Writes to the API server.  Each one is announced to the watchers.       *)

SetPod(i, pod) ==
  /\ Len(podFeed) < MaxLag
  /\ pods' = [pods EXCEPT ![i] = pod]
  /\ podFeed' = Append(podFeed, [index |-> i, pod |-> pod])

SetService(i, exists) ==
  /\ Len(svcFeed) < MaxLag
  /\ svcs' = IF exists THEN svcs \cup {i} ELSE svcs \ {i}
  /\ svcFeed' = Append(svcFeed, [index |-> i, exists |-> exists])

KeepPods == UNCHANGED <<pods, podFeed>>
KeepServices == UNCHANGED <<svcs, svcFeed>>

-----------------------------------------------------------------------------
(* The environment: users, containers, node eviction, kubelets.            *)

Scale(n) ==
  /\ scales < MaxScales /\ InBudget /\ n # replicas /\ Len(clusterFeed) < MaxLag
  /\ replicas' = n /\ clusterFeed' = Append(clusterFeed, n)
  /\ peak' = IF n > peak THEN n ELSE peak
  /\ scales' = scales + 1
  /\ KeepPods /\ KeepServices
  /\ UNCHANGED <<cacheVars, queued, passVars,
                 failures, evictions, errors, timeouts, crashes>>

ContainerFails(i, phase) ==
  /\ failures < MaxFailures /\ InBudget /\ pods[i].phase = "Up"
  /\ SetPod(i, [pods[i] EXCEPT !.phase = phase])
  /\ failures' = failures + 1
  /\ KeepServices
  /\ UNCHANGED <<replicas, clusterFeed, cacheVars, queued, passVars, peak,
                 scales, evictions, errors, timeouts, crashes>>

Evict(i) ==
  /\ evictions < MaxEvictions /\ InBudget /\ pods[i] # Absent /\ ~pods[i].del
  /\ SetPod(i, [pods[i] EXCEPT !.del = TRUE])
  /\ evictions' = evictions + 1
  /\ KeepServices
  /\ UNCHANGED <<replicas, clusterFeed, cacheVars, queued, passVars, peak,
                 scales, failures, errors, timeouts, crashes>>

(* The kubelet finishes a graceful termination and the object goes away. *)
PodGone(i) ==
  /\ pods[i].del
  /\ SetPod(i, Absent)
  /\ KeepServices
  /\ UNCHANGED <<replicas, clusterFeed, cacheVars, queued, passVars, peak, countVars>>

-----------------------------------------------------------------------------
(* The informer: an event reaches the cache, passes the predicates of      *)
(* SetupWithManager and enqueues the owning cluster.                       *)

ObserveCluster ==
  /\ clusterFeed # <<>>
  /\ cReplicas' = Head(clusterFeed) /\ clusterFeed' = Tail(clusterFeed)
  /\ queued' = TRUE
  /\ UNCHANGED <<apiVars, podFeed, svcFeed, cPods, cSvcs, passVars, peak, countVars>>

ObservePod ==
  /\ podFeed # <<>>
  /\ cPods' = [cPods EXCEPT ![Head(podFeed).index] = Head(podFeed).pod]
  /\ podFeed' = Tail(podFeed)
  /\ queued' = TRUE
  /\ UNCHANGED <<apiVars, clusterFeed, svcFeed, cReplicas, cSvcs, passVars, peak, countVars>>

ObserveService ==
  /\ svcFeed # <<>>
  /\ cSvcs' = IF Head(svcFeed).exists THEN cSvcs \cup {Head(svcFeed).index}
                                      ELSE cSvcs \ {Head(svcFeed).index}
  /\ svcFeed' = Tail(svcFeed)
  /\ queued' = TRUE
  /\ UNCHANGED <<apiVars, clusterFeed, podFeed, cReplicas, cPods, passVars, peak, countVars>>

(* Mutant of Resync: filtered out, as the predicates do for pods. *)
ResyncFiltered ==
  /\ Resyncs /\ ~queued
  /\ UNCHANGED vars

(* The informer's periodic resync sends an update event for the cluster;   *)
(* the watch on clusters has no update predicate, so the key is enqueued.  *)
Resync ==
  /\ Resyncs /\ ~queued
  /\ queued' = TRUE
  /\ UNCHANGED <<apiVars, feedVars, cacheVars, passVars, peak, countVars>>

-----------------------------------------------------------------------------
(* A reconcile pass.                                                       *)

(* Mutant of SliceIndices: one slice more than replicas. *)
SliceIndicesOneMore(present, n) ==
  {i \in Indices : i <= n \/ \E j \in present : i <= j}

(* The indices of the slices a pass goes through: GetPodSlices and         *)
(* GetServiceSlices make max(1 + highest index present, replicas) slices,  *)
(* and never fewer than one.                                               *)
SliceIndices(present, n) ==
  {i \in Indices : i = 0 \/ i < n \/ \E j \in present : i <= j}

(* ReconcilePods' restart condition on a pod it listed. *)
IsRestartable(pod) ==
  /\ pod.phase \in FailedPhases
  /\ \/ RestartPolicy \in {"OnFailure", "Always"}
     \/ RestartPolicy = "ExitCode" /\ pod.phase = "Retryable"

ShouldDelete(i) == i >= wReplicas \/ IsRestartable(wPods[i])

(* Get and the two Lists at the head of a pass read the cache.  The kinds  *)
(* lag independently, so reading the three at one instant loses nothing.   *)
StartPass ==
  /\ pc = "idle" /\ queued
  /\ queued' = FALSE
  /\ pc' = "pods" /\ pos' = 0
  /\ wReplicas' = cReplicas /\ wPods' = cPods /\ wSvcs' = cSvcs
  /\ UNCHANGED <<apiVars, feedVars, cacheVars, peak, countVars>>

(* Mutant of Advance: the loop does not stop after the last slice. *)
AdvancePastEnd(slices, next) ==
  /\ IF pos \in slices THEN pos' = pos + 1 /\ pc' = pc
                       ELSE pos' = 0 /\ pc' = next
  /\ UNCHANGED <<wReplicas, wPods, wSvcs, queued>>

(* On to the next slice, or to the next phase after the last one. *)
Advance(slices, next) ==
  /\ IF pos + 1 \in slices THEN pos' = pos + 1 /\ pc' = pc
                           ELSE pos' = 0 /\ pc' = next
  /\ UNCHANGED <<wReplicas, wPods, wSvcs, queued>>

AdvancePod == Advance(SliceIndices(Present(wPods), wReplicas), "services")
AdvanceService == Advance(SliceIndices(wSvcs, wReplicas), "status")

(* The pass is over and its copies are garbage. *)
EndPass ==
  /\ pc' = "idle" /\ pos' = 0
  /\ wReplicas' = 0 /\ wPods' = NoPods /\ wSvcs' = {}

(* Mutant of Abort: the error is swallowed and the key not requeued. *)
AbortSilently == EndPass /\ UNCHANGED queued

(* The pass returns an error: the key is requeued. *)
Abort == EndPass /\ queued' = TRUE

AtPod == pc = "pods" /\ UNCHANGED <<replicas, clusterFeed, cacheVars, peak>>
AtService == pc = "services" /\ UNCHANGED <<replicas, clusterFeed, cacheVars, peak>>

NoFault == UNCHANGED countVars
CallFails ==
  /\ errors < MaxErrors /\ InBudget /\ errors' = errors + 1
  /\ UNCHANGED <<scales, failures, evictions, timeouts, crashes>>
CallTimesOut ==
  /\ timeouts < MaxTimeouts /\ InBudget /\ timeouts' = timeouts + 1
  /\ UNCHANGED <<scales, failures, evictions, errors, crashes>>

(* An empty slice: CreateNewPod.  The name may be taken already (a pod the *)
(* copies do not show), the call may fail before or after it took effect,  *)
(* and a time-out, with or without an effect, counts as success.           *)
CreateNewPod ==
  /\ AtPod /\ wPods[pos] = Absent /\ KeepServices
  /\ \/ pods[pos] = Absent /\ SetPod(pos, NewPod) /\ AdvancePod /\ NoFault
     \/ pods[pos] # Absent /\ KeepPods /\ Abort /\ NoFault
     \/ KeepPods /\ Abort /\ CallFails
     \/ pods[pos] = Absent /\ SetPod(pos, NewPod) /\ Abort /\ CallFails
     \/ pods[pos] = Absent /\ KeepPods /\ AdvancePod /\ CallTimesOut
     \/ pods[pos] = Absent /\ SetPod(pos, NewPod) /\ AdvancePod /\ CallTimesOut

(* Mutant of DeletePod: a pod found gone is replaced in the same pass. *)
DeleteOrReplacePod ==
  /\ AtPod /\ wPods[pos] # Absent /\ ShouldDelete(pos) /\ KeepServices
  /\ \/ pods[pos] = Absent /\ SetPod(pos, NewPod) /\ AdvancePod /\ NoFault
     \/ pods[pos].del /\ KeepPods /\ AdvancePod /\ NoFault
     \/ /\ pods[pos] # Absent /\ ~pods[pos].del
        /\ SetPod(pos, [pods[pos] EXCEPT !.del = TRUE]) /\ AdvancePod /\ NoFault

(* DeletePod reads the pod of that name from the API server, not from the  *)
(* copies, and deletes it unless it is gone or terminating already.        *)
DeletePod ==
  /\ AtPod /\ wPods[pos] # Absent /\ ShouldDelete(pos) /\ KeepServices
  /\ LET gone == pods[pos] = Absent \/ pods[pos].del
         terminated == [pods[pos] EXCEPT !.del = TRUE]
     IN \/ gone /\ KeepPods /\ AdvancePod /\ NoFault
        \/ ~gone /\ SetPod(pos, terminated) /\ AdvancePod /\ NoFault
        \/ KeepPods /\ Abort /\ CallFails
        \/ ~gone /\ SetPod(pos, terminated) /\ Abort /\ CallFails

KeepPod ==
  /\ AtPod /\ wPods[pos] # Absent /\ ~ShouldDelete(pos)
  /\ KeepPods /\ KeepServices /\ AdvancePod /\ NoFault

(* An empty service slice: CreateNewService.  Its branch for time-outs is  *)
(* never taken, as createServices wraps the error: they fail the pass.     *)
CreateNewService ==
  /\ AtService /\ pos \notin wSvcs /\ KeepPods
  /\ \/ pos \notin svcs /\ SetService(pos, TRUE) /\ AdvanceService /\ NoFault
     \/ pos \in svcs /\ KeepServices /\ Abort /\ NoFault
     \/ KeepServices /\ Abort /\ CallFails
     \/ pos \notin svcs /\ SetService(pos, TRUE) /\ Abort /\ CallFails

DeleteService ==
  /\ AtService /\ pos \in wSvcs /\ pos >= wReplicas /\ KeepPods
  /\ \/ pos \notin svcs /\ KeepServices /\ AdvanceService /\ NoFault
     \/ pos \in svcs /\ SetService(pos, FALSE) /\ AdvanceService /\ NoFault
     \/ KeepServices /\ Abort /\ CallFails
     \/ pos \in svcs /\ SetService(pos, FALSE) /\ Abort /\ CallFails

KeepService ==
  /\ AtService /\ pos \in wSvcs /\ pos < wReplicas
  /\ KeepPods /\ KeepServices /\ AdvanceService /\ NoFault

(* The status write that ends every pass.  Against a spec that has moved   *)
(* on it conflicts and the key is requeued; when it goes through, the      *)
(* update it causes may enqueue the cluster again.                         *)
UpdateStatus ==
  /\ pc = "status" /\ EndPass
  /\ queued' \in {TRUE} \cup (IF wReplicas = replicas THEN {queued} ELSE {})
  /\ UNCHANGED <<apiVars, feedVars, cacheVars, peak, countVars>>

(* The controller restarts: the pass is lost, the new process lists every  *)
(* object before its workers start, and every cluster is enqueued.         *)
Restart ==
  /\ crashes < MaxCrashes /\ InBudget /\ crashes' = crashes + 1
  /\ Abort
  /\ cReplicas' = replicas /\ cPods' = pods /\ cSvcs' = svcs
  /\ clusterFeed' = <<>> /\ podFeed' = <<>> /\ svcFeed' = <<>>
  /\ UNCHANGED <<apiVars, peak, scales, failures, evictions, errors, timeouts>>

-----------------------------------------------------------------------------
PassStep ==
  \/ CreateNewPod \/ DeletePod \/ KeepPod
  \/ CreateNewService \/ DeleteService \/ KeepService
  \/ UpdateStatus

Informer == ObserveCluster \/ ObservePod \/ ObserveService

Environment ==
  \/ \E n \in Desired : Scale(n)
  \/ \E i \in Indices :
       \/ \E phase \in FailedPhases : ContainerFails(i, phase)
       \/ Evict(i)
       \/ PodGone(i)

Next == Environment \/ Informer \/ Resync \/ StartPass \/ PassStep \/ Restart

(* Watch streams keep delivering, terminating pods go away, a worker takes *)
(* queued keys and a pass goes on; faults are bounded by their counters.   *)
(* Whether a property also needs the resync, it says itself.               *)
Fairness ==
  /\ WF_vars(ObserveCluster) /\ WF_vars(ObservePod) /\ WF_vars(ObserveService)
  /\ WF_vars(StartPass) /\ WF_vars(PassStep)
  /\ \A i \in Indices : WF_vars(PodGone(i))

Spec == Init /\ [][Next]_vars
FairSpec == Spec /\ Fairness

-----------------------------------------------------------------------------
(* No pod and no service ever exists at an index that no spec.replicas so  *)
(* far covered, index 0 apart: stale copies, holes in the slices and       *)
(* retries never make ReconcilePods or ReconcileServices overshoot.        *)
BoundedFootprint ==
  \A i \in Indices : pods[i] # Absent \/ i \in svcs => i = 0 \/ i < peak

(* The inductive strengthening of BoundedFootprint: the peak also bounds   *)
(* what the cache, the copies of the pass and the undelivered events show. *)
Covered(i) == i = 0 \/ i < peak
CountsBounded ==
  /\ replicas <= peak /\ cReplicas <= peak /\ wReplicas <= peak
  /\ \A k \in 1..Len(clusterFeed) : clusterFeed[k] <= peak
PodsBounded ==
  /\ \A i \in Indices : pods[i] # Absent => Covered(i)
  /\ \A k \in 1..Len(podFeed) : podFeed[k].pod # Absent => Covered(podFeed[k].index)
PodViewsBounded ==
  \A i \in Indices : cPods[i] # Absent \/ wPods[i] # Absent => Covered(i)
SvcsBounded ==
  /\ \A i \in svcs : Covered(i)
  /\ \A k \in 1..Len(svcFeed) : svcFeed[k].exists => Covered(svcFeed[k].index)
SvcViewsBounded == \A i \in cSvcs \cup wSvcs : Covered(i)
AtSlice ==
  /\ pc = "pods" => pos \in SliceIndices(Present(wPods), wReplicas)
  /\ pc = "services" => pos \in SliceIndices(wSvcs, wReplicas)
FootprintInv ==
  /\ CountsBounded /\ PodsBounded /\ PodViewsBounded
  /\ SvcsBounded /\ SvcViewsBounded /\ AtSlice

(* As long as only the controller deletes pods, a healthy pod the spec     *)
(* still asks for is deleted only by a pass that read an older, smaller    *)
(* spec.replicas: DeletePod acts on a name, and a stale copy of a failed   *)
(* predecessor never costs its healthy replacement.                        *)
HealthyPodKept ==
  [][\A i \in Indices :
       /\ evictions' = 0 /\ i < replicas
       /\ pods[i] = NewPod /\ pods'[i].del
       => wReplicas <= i]_vars

InStep ==
  /\ Present(pods) = {i \in Indices : i < replicas} /\ svcs = Present(pods)
  /\ \A i \in Present(pods) : ~pods[i].del /\ ~IsRestartable(pods[i])

(* Once the environment leaves the cluster alone, the pods and services    *)
(* become, and stay, exactly those spec.replicas asks for, with no         *)
(* restartable pod among them.  Watch events and the requeues of failed    *)
(* passes are enough for that, unless a creation timed out.                *)
EventsSuffice == <>[](InStep \/ timeouts > 0)

(* Also after creations that timed out, which CreateNewPod takes for       *)
(* success, if the periodic resync keeps coming.                           *)
Converges == WF_vars(Resync) => <>[]InStep

=============================================================================
