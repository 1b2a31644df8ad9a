-------------------------- MODULE ClusterLifecycle --------------------------
(***************************************************************************)
(* The life of one KubeCluster: ReconcileKubeCluster from the decision it  *)
(* takes on the cached cluster (finished, suspended, over a limit, or      *)
(* normal) through the API calls of that branch to the status write.       *)
(*                                                                         *)
(* One replica type is the head (slurm's Controller, PBS Pro's Server),    *)
(* the others are workers; each type has one replica, scaling is the       *)
(* subject of ReplicaControl.  As there, the API server's objects, the     *)
(* informer cache that lags it by undelivered events, and the copies of a  *)
(* running pass are kept apart, and a pass makes one API call per step.    *)
(* Status writes are guarded by the resource version: the cached cluster   *)
(* is current exactly when no cluster event is under way.                  *)
(*                                                                         *)
(* Gang scheduling is off (its default).  Config maps are created and      *)
(* filled but their content is abstracted to whether the keys are there.   *)
(* The clock is a counter; a pass reads it wherever the code does.         *)
(***************************************************************************)
EXTENDS ClusterConditions, Naturals, Sequences, FiniteSets, FiniteSetsExt

CONSTANTS
  Workers,        \* worker replica types; the head is "Head"
  Schema,         \* "slurm" or "pbspro"
  RestartPolicy,  \* of every replica type: "Never" or "OnFailure"
  CleanPolicy,    \* CleanKubeNodePolicy: "All", "Running" or "None"
  BackoffLimit,   \* a number, or Unset
  Deadline,       \* activeDeadlineSeconds: a number of ticks, or Unset
  TTL,            \* ttlSecondsAfterFinished: a number of ticks, or Unset
  Unset,          \* a policy or a time that is nil
  MaxToggles,     \* bound: changes of spec.runPolicy.suspend
  MaxFailures,    \* bound: pods that fail
  MaxEvictions,   \* bound: pods deleted by someone else
  MaxErrors,      \* bound: API calls that return an error
  Timeouts,       \* whether such an error may be a time-out
  MaxCrashes,     \* bound: restarts of the controller
  MaxRestarts,    \* bound: restarts of containers in place
  MaxTime,        \* bound: ticks of the clock
  MaxLag          \* bound: events of one kind not yet delivered

Types == {"Head"} \cup Workers

ASSUME ConstantsAssumption ==
  /\ "Head" \notin Workers /\ IsFiniteSet(Workers)
  /\ Schema \in {"slurm", "pbspro"}
  /\ RestartPolicy \in {"Never", "OnFailure"}
  /\ CleanPolicy \in {"All", "Running", "None"}
  /\ Unset \notin Nat
  /\ BackoffLimit \in Nat \cup {Unset} /\ Deadline \in Nat \cup {Unset}
  /\ TTL \in Nat \cup {Unset}
  /\ MaxToggles \in Nat /\ MaxFailures \in Nat /\ MaxEvictions \in Nat
  /\ MaxErrors \in Nat /\ MaxCrashes \in Nat /\ MaxRestarts \in Nat
  /\ Timeouts \in BOOLEAN /\ MaxTime \in Nat /\ MaxLag \in Nat \ {0}

(* A pod: its phase, its deletion timestamp, its containers' restarts. *)
Absent == [phase |-> "None", del |-> FALSE, restarts |-> 0]
NewPod == [phase |-> "Pending", del |-> FALSE, restarts |-> 0]
PodValues ==
  {Absent} \cup [phase : {"Pending", "Running", "Failed"}, del : BOOLEAN, restarts : Nat]
NoPods == [r \in Types |-> Absent]
Present(view) == {r \in Types : view[r] # Absent}

Times == 0..MaxTime
NoReplicas == [r \in Types |-> [active |-> 0, failed |-> 0]]
NewStatus == [conds |-> {}, start |-> Unset, completion |-> Unset, replicas |-> NoReplicas]
StatusValues ==
  [conds : SUBSET Conditions, start : Times \cup {Unset}, completion : Times \cup {Unset},
   replicas : [Types -> [active : 0..1, failed : 0..1]]]
Versions == [suspend : BOOLEAN, status : StatusValues]

VARIABLES
  exists,     \* whether the cluster object exists
  suspend,    \* spec.runPolicy.suspend
  status,     \* the status in the API server
  pods,       \* the pod of each replica type
  svcs,       \* the replica types that have a service
  cm,         \* the config map: missing, created, filled in, or filled in but not owned
  clusterFeed, podFeed, svcFeed, cmFeed,  \* watch events not yet delivered
  cSuspend, cStatus, cPods, cSvcs, cCm,   \* the informer cache
  queued,     \* whether the cluster's key waits in the work queue
  pc,         \* "idle", or what the running pass does next
  mode,       \* the branch of the running pass
  todo,       \* the replica types the loop of the pass has yet to handle
  cur,        \* the replica type whose service comes next
  noUid,      \* the pass has cleared the UID of its copy of the cluster
  wCurrent,   \* the pass's copy of the cluster is the API server's version
  wStatus, wPods, wSvcs,  \* the pass's copies
  now,        \* the clock
  active,     \* history: the cluster has not always been suspended
  launched,   \* history: the types whose pod has reached phase Running
  toggles, failures, restarts, evictions, errors, crashes  \* what happened so far

clusterVars == <<exists, suspend, status, clusterFeed>>
childVars   == <<pods, svcs, cm, podFeed, svcFeed, cmFeed>>
cacheVars   == <<cSuspend, cStatus, cPods, cSvcs, cCm>>
passVars    == <<pc, mode, todo, cur, noUid, wCurrent, wStatus, wPods, wSvcs>>
historyVars == <<active, launched>>
countVars   == <<toggles, failures, restarts, evictions, errors, crashes>>
vars == <<clusterVars, childVars, cacheVars, queued, passVars, now, historyVars, countVars>>

Stages == {"idle", "teardown", "teardownService", "deleteConfigMap", "cleanup",
           "configMap", "fillConfigMap", "fillUnowned", "pod", "service", "update", "write"}
Modes == {"none", "finished", "suspended", "limit", "normal"}
CmValues == {"None", "Empty", "Filled", "Unowned"}

ClusterType ==
  /\ exists \in BOOLEAN /\ suspend \in BOOLEAN /\ status \in StatusValues
  /\ clusterFeed \in Seq(Versions)
ChildType ==
  /\ pods \in [Types -> PodValues] /\ svcs \subseteq Types /\ cm \in CmValues
  /\ podFeed \in Seq([type : Types, pod : PodValues])
  /\ svcFeed \in Seq([type : Types, exists : BOOLEAN])
  /\ cmFeed \in Seq(CmValues)
CacheType ==
  /\ cSuspend \in BOOLEAN /\ cStatus \in StatusValues
  /\ cPods \in [Types -> PodValues] /\ cSvcs \subseteq Types /\ cCm \in CmValues
PassType ==
  /\ queued \in BOOLEAN /\ pc \in Stages /\ mode \in Modes
  /\ todo \subseteq Types /\ cur \in Types /\ noUid \in BOOLEAN /\ wCurrent \in BOOLEAN
  /\ wStatus \in StatusValues /\ wPods \in [Types -> PodValues] /\ wSvcs \subseteq Types
CountType ==
  /\ now \in Times /\ active \in BOOLEAN /\ launched \subseteq Types
  /\ toggles \in 0..MaxToggles /\ failures \in 0..MaxFailures /\ restarts \in 0..MaxRestarts
  /\ evictions \in 0..MaxEvictions /\ errors \in 0..MaxErrors /\ crashes \in 0..MaxCrashes

(* Every variable keeps its type; in particular a replica type with one    *)
(* pod never counts more than one active or failed replica                 *)
(* (updateClusterReplicaStatuses on freshly initialized counts).           *)
TypeOK == ClusterType /\ ChildType /\ CacheType /\ PassType /\ CountType

(* onOwnerCreateFunc puts the Created condition on the object in the cache. *)
onOwnerCreate(st) ==
  [st EXCEPT !.conds = UpdateClusterConditions(@, "Created", TRUE, "Created")]

Init ==
  /\ exists = TRUE /\ suspend \in BOOLEAN /\ status = NewStatus
  /\ pods = NoPods /\ svcs = {} /\ cm = "None"
  /\ clusterFeed = <<>> /\ podFeed = <<>> /\ svcFeed = <<>> /\ cmFeed = <<>>
  /\ cSuspend = suspend /\ cStatus = onOwnerCreate(status)
  /\ cPods = pods /\ cSvcs = svcs /\ cCm = cm
  /\ queued = TRUE
  /\ pc = "idle" /\ mode = "none" /\ todo = {} /\ cur = "Head" /\ noUid = FALSE
  /\ wCurrent = FALSE /\ wStatus = NewStatus /\ wPods = NoPods /\ wSvcs = {}
  /\ now = 0 /\ active = ~suspend /\ launched = {}
  /\ toggles = 0 /\ failures = 0 /\ restarts = 0 /\ evictions = 0 /\ errors = 0 /\ crashes = 0

-----------------------------------------------------------------------------
(* Writes to the API server, each announced to the watchers.               *)

SetCluster(s, st) ==
  /\ Len(clusterFeed) < MaxLag
  /\ suspend' = s /\ status' = st
  /\ clusterFeed' = Append(clusterFeed, [suspend |-> s, status |-> st])
  /\ UNCHANGED exists

SetPod(r, pod) ==
  /\ Len(podFeed) < MaxLag
  /\ pods' = [pods EXCEPT ![r] = pod]
  /\ podFeed' = Append(podFeed, [type |-> r, pod |-> pod])
  /\ UNCHANGED <<svcs, cm, svcFeed, cmFeed>>

SetService(r, e) ==
  /\ Len(svcFeed) < MaxLag
  /\ svcs' = IF e THEN svcs \cup {r} ELSE svcs \ {r}
  /\ svcFeed' = Append(svcFeed, [type |-> r, exists |-> e])
  /\ UNCHANGED <<pods, cm, podFeed, cmFeed>>

SetConfigMap(v) ==
  /\ Len(cmFeed) < MaxLag
  /\ cm' = v /\ cmFeed' = Append(cmFeed, v)
  /\ UNCHANGED <<pods, svcs, podFeed, svcFeed>>

-----------------------------------------------------------------------------
(* The environment: users, kubelets, containers, node eviction, the clock. *)

ToggleSuspend ==
  /\ exists /\ toggles < MaxToggles /\ toggles' = toggles + 1
  /\ SetCluster(~suspend, status)
  /\ wCurrent' = FALSE /\ active' = TRUE
  /\ UNCHANGED <<childVars, cacheVars, queued, pc, mode, todo, cur, noUid, wStatus, wPods,
                 wSvcs, now, launched, failures, restarts, evictions, errors, crashes>>

(* A change of a pod the controller has no part in. *)
PodEvent(r, pod) ==
  /\ exists /\ SetPod(r, pod)
  /\ UNCHANGED <<clusterVars, cacheVars, queued, passVars, now, active,
                 toggles, errors, crashes>>

(* The pod mounts the config map, so it waits for it to be filled. *)
PodStarts(r) ==
  /\ pods[r].phase = "Pending" /\ ~pods[r].del /\ cm \in {"Filled", "Unowned"}
  /\ PodEvent(r, [pods[r] EXCEPT !.phase = "Running"])
  /\ launched' = launched \cup {r}
  /\ UNCHANGED <<failures, restarts, evictions>>

PodFails(r) ==
  /\ failures < MaxFailures /\ failures' = failures + 1
  /\ pods[r].phase \in {"Pending", "Running"}
  /\ PodEvent(r, [pods[r] EXCEPT !.phase = "Failed"])
  /\ UNCHANGED <<launched, restarts, evictions>>

ContainerRestarts(r) ==
  /\ pods[r].phase = "Running" /\ restarts < MaxRestarts /\ restarts' = restarts + 1
  /\ PodEvent(r, [pods[r] EXCEPT !.restarts = @ + 1])
  /\ UNCHANGED <<launched, failures, evictions>>

Evict(r) ==
  /\ evictions < MaxEvictions /\ evictions' = evictions + 1
  /\ pods[r] # Absent /\ ~pods[r].del
  /\ PodEvent(r, [pods[r] EXCEPT !.del = TRUE])
  /\ UNCHANGED <<launched, failures, restarts>>

PodGone(r) ==
  /\ pods[r].del
  /\ PodEvent(r, Absent)
  /\ UNCHANGED <<launched, failures, restarts, evictions>>

Tick ==
  /\ now < MaxTime /\ now' = now + 1
  /\ UNCHANGED <<clusterVars, childVars, cacheVars, queued, passVars, historyVars, countVars>>

-----------------------------------------------------------------------------
(* The informer.  Cluster, pod and service events enqueue the cluster; the *)
(* controller does not watch config maps, their cache is only read.        *)

Delivered == UNCHANGED <<exists, suspend, status, pods, svcs, cm, passVars, now,
                         historyVars, countVars>>

ObserveCluster ==
  /\ clusterFeed # <<>> /\ clusterFeed' = Tail(clusterFeed)
  /\ cSuspend' = Head(clusterFeed).suspend /\ cStatus' = Head(clusterFeed).status
  /\ queued' = TRUE
  /\ Delivered /\ UNCHANGED <<podFeed, svcFeed, cmFeed, cPods, cSvcs, cCm>>

ObservePod ==
  /\ podFeed # <<>> /\ podFeed' = Tail(podFeed)
  /\ cPods' = [cPods EXCEPT ![Head(podFeed).type] = Head(podFeed).pod]
  /\ queued' = TRUE
  /\ Delivered /\ UNCHANGED <<clusterFeed, svcFeed, cmFeed, cSuspend, cStatus, cSvcs, cCm>>

ObserveService ==
  /\ svcFeed # <<>> /\ svcFeed' = Tail(svcFeed)
  /\ cSvcs' = IF Head(svcFeed).exists THEN cSvcs \cup {Head(svcFeed).type}
                                      ELSE cSvcs \ {Head(svcFeed).type}
  /\ queued' = TRUE
  /\ Delivered /\ UNCHANGED <<clusterFeed, podFeed, cmFeed, cSuspend, cStatus, cPods, cCm>>

ObserveConfigMap ==
  /\ cmFeed # <<>> /\ cmFeed' = Tail(cmFeed)
  /\ cCm' = Head(cmFeed)
  /\ Delivered /\ UNCHANGED <<clusterFeed, podFeed, svcFeed, cSuspend, cStatus, cPods, cSvcs,
                              queued>>

Resync ==
  /\ exists /\ ~queued /\ queued' = TRUE
  /\ UNCHANGED <<clusterVars, childVars, cacheVars, passVars, now, historyVars, countVars>>

-----------------------------------------------------------------------------
(* What a pass decides from its copies.                                    *)

(* Mutant of Resumed: the start time is reset, the condition stays. *)
ResumedOnlyStart(st) == IF IsSuspended(st.conds) THEN [st EXCEPT !.start = now] ELSE st

(* A suspended cluster that is no longer asked to be: it starts anew. *)
Resumed(st) ==
  IF IsSuspended(st.conds)
    THEN [st EXCEPT !.conds = UpdateClusterConditions(@, "Suspended", FALSE, "Suspended"),
                    !.start = now]
    ELSE st

IsPodActive(pod) == pod.phase \in {"Pending", "Running"} /\ ~pod.del
RestartCount(view) ==
  MapThenSumSet(LAMBDA r : view[r].restarts, {r \in Types : view[r].phase = "Running"})

(* Mutant of PastBackoffLimit: off by one below the limit. *)
PastBackoffLimitEarly(view) ==
  RestartPolicy # "Never" /\ RestartCount(view) + 1 >= BackoffLimit

PastBackoffLimit(view) ==
  /\ RestartPolicy # "Never"
  /\ IF BackoffLimit = 0 THEN RestartCount(view) > 0 ELSE RestartCount(view) >= BackoffLimit

(* Failures the status does not count yet.  The work queue of the          *)
(* controller is a stub whose NumRequeues is always 0.                     *)
ExceedsBackoffLimit(st, view) ==
  /\ Cardinality({r \in Types : view[r].phase = "Failed"})
       > Cardinality({r \in Types : st.replicas[r].failed > 0})
  /\ \E r \in Types : ~IsPodActive(view[r])
  /\ 0 + 1 > BackoffLimit

(* Mutant of PastActiveDeadline: the deadline itself is not yet past. *)
PastActiveDeadlineLate(st) ==
  Deadline # Unset /\ st.start # Unset /\ now > st.start + Deadline

PastActiveDeadline(st) ==
  Deadline # Unset /\ st.start # Unset /\ now >= st.start + Deadline

ExceedsLimit(st, view) ==
  \/ BackoffLimit # Unset /\ (ExceedsBackoffLimit(st, view) \/ PastBackoffLimit(view))
  \/ PastActiveDeadline(st)

(* Mutant of Branch: suspension only matters to a cluster that runs. *)
BranchSuspendRunning ==
  CASE IsFinished(cStatus.conds) -> "finished"
    [] ~IsFinished(cStatus.conds) /\ cSuspend /\ IsRunning(cStatus.conds) -> "suspended"
    [] OTHER -> "normal"

Branch ==
  CASE IsFinished(cStatus.conds) -> "finished"
    [] ~IsFinished(cStatus.conds) /\ cSuspend -> "suspended"
    [] ~IsFinished(cStatus.conds) /\ ~cSuspend /\ ExceedsLimit(Resumed(cStatus), cPods) -> "limit"
    [] OTHER -> "normal"

(* Mutant of ToTearDown: pods that do not run are kept whatever the policy. *)
ToTearDownRunning(m, view) ==
  {r \in Present(view) : m = "finished" => view[r].phase \in {"Running", "Pending"}}

(* The pods DeletePodAndServices goes through. *)
ToTearDown(m, view) ==
  {r \in Present(view) :
     m = "finished" => \/ CleanPolicy = "All"
                       \/ CleanPolicy = "Running" /\ view[r].phase \in {"Running", "Pending"}}

AfterTeardown(m, left) ==
  IF left # {} THEN "teardown" ELSE IF m = "limit" THEN "cleanup" ELSE "deleteConfigMap"

StartPass ==
  /\ exists /\ pc = "idle" /\ queued /\ queued' = FALSE
  /\ mode' = Branch
  /\ wPods' = cPods /\ wSvcs' = cSvcs /\ wCurrent' = (clusterFeed = <<>>)
  /\ IF Branch = "normal"
       THEN todo' = Types /\ pc' = "configMap"
       ELSE todo' = ToTearDown(Branch, cPods) /\ pc' = AfterTeardown(Branch, todo')
  /\ wStatus' = IF Branch \in {"finished", "suspended"} THEN cStatus ELSE Resumed(cStatus)
  /\ UNCHANGED <<clusterVars, childVars, cacheVars, cur, noUid, now, historyVars, countVars>>

-----------------------------------------------------------------------------
(* How a step of the pass ends: the next stage, the end of the pass, or an *)
(* error, which requeues the key.                                          *)

EndPass ==
  /\ pc' = "idle" /\ mode' = "none" /\ todo' = {} /\ cur' = "Head" /\ noUid' = FALSE
  /\ wCurrent' = FALSE /\ wStatus' = NewStatus /\ wPods' = NoPods /\ wSvcs' = {}
Return == EndPass /\ UNCHANGED queued
Abort == EndPass /\ queued' = TRUE

InPass(stage) ==
  exists /\ pc = stage /\ UNCHANGED <<cacheVars, now, historyVars, toggles, failures,
                                      restarts, evictions, crashes>>
ToStage(stage) ==
  pc' = stage /\ UNCHANGED <<mode, todo, cur, noUid, wCurrent, wStatus, wPods, wSvcs, queued>>

NoFault == UNCHANGED errors
CallFails == errors < MaxErrors /\ errors' = errors + 1
CallTimesOut == Timeouts /\ CallFails

(* An API call: it does what it should, or returns an error with or        *)
(* without having had its effect.                                          *)
Call(effect, then) ==
  \/ effect /\ then /\ NoFault
  \/ effect /\ Abort /\ CallFails
  \/ UNCHANGED childVars /\ Abort /\ CallFails

DeletePod(r) ==
  IF pods[r] = Absent \/ pods[r].del THEN UNCHANGED childVars
                                     ELSE SetPod(r, [pods[r] EXCEPT !.del = TRUE])
DeleteService(r) ==
  IF r \in svcs THEN SetService(r, FALSE) ELSE UNCHANGED childVars
DeleteConfigMap ==
  IF cm = "None" THEN UNCHANGED childVars ELSE SetConfigMap("None")

(* DeletePodAndServices, one pod and its service after the other.  The     *)
(* second DeletePod of its loop finds the pod deleted already; if it fails *)
(* the pass ends as if the call before it had.                             *)
TearDownPod ==
  /\ InPass("teardown") /\ UNCHANGED clusterVars
  /\ \E r \in todo :
       Call(DeletePod(r),
            /\ pc' = "teardownService" /\ cur' = r
            /\ UNCHANGED <<mode, todo, noUid, wCurrent, wStatus, wPods, wSvcs, queued>>)

TearDownService ==
  /\ InPass("teardownService") /\ UNCHANGED clusterVars
  /\ Call(DeleteService(cur),
          /\ todo' = todo \ {cur} /\ pc' = AfterTeardown(mode, todo') /\ cur' = "Head"
          /\ UNCHANGED <<mode, noUid, wCurrent, wStatus, wPods, wSvcs, queued>>)

RemoveConfigMap ==
  /\ InPass("deleteConfigMap") /\ UNCHANGED clusterVars
  /\ Call(DeleteConfigMap, ToStage("cleanup"))

(* Mutant of SuspendedStatus: a cluster that did not run gets no condition. *)
SuspendedStatusRunning(st) ==
  IF IsRunning(st.conds)
    THEN [st EXCEPT !.conds = UpdateClusterConditions(
                                UpdateClusterConditions(@, "Running", FALSE, "Suspended"),
                                "Suspended", TRUE, "Suspended")]
    ELSE st

(* The status of a cluster that has been suspended, or has exceeded a limit. *)
SuspendedStatus(st) ==
  LET stopped == IF IsRunning(st.conds)
                   THEN UpdateClusterConditions(st.conds, "Running", FALSE, "Suspended")
                   ELSE st.conds
  IN [st EXCEPT !.replicas = [r \in Types |-> [@[r] EXCEPT !.active = 0]],
                !.conds = IF IsSuspended(stopped) THEN stopped
                          ELSE UpdateClusterConditions(stopped, "Suspended", TRUE, "Suspended")]
FailedStatus(st) ==
  [st EXCEPT !.conds = UpdateClusterConditions(@, "Failed", TRUE, "Failed")]

(* What follows CleanupCluster in each branch. *)
AfterCleanup ==
  IF \/ mode = "finished"
     \/ mode = "suspended" /\ SuspendedStatus(wStatus) = wStatus
    THEN Return
    ELSE /\ wStatus' = IF mode = "suspended" THEN SuspendedStatus(wStatus)
                                             ELSE FailedStatus(wStatus)
         /\ pc' = "write"
         /\ UNCHANGED <<mode, todo, cur, noUid, wCurrent, wPods, wSvcs, queued>>

(* Mutant of TTLExpired: one tick early. *)
TTLExpiredEarly == now >= wStatus.completion + TTL

TTLExpired == now > wStatus.completion + TTL

(* CleanupCluster: nothing without a TTL, an error without a completion    *)
(* time, and otherwise the cluster is deleted once the TTL has passed.     *)
CleanupCluster ==
  /\ InPass("cleanup") /\ UNCHANGED childVars
  /\ \/ TTL = Unset /\ AfterCleanup /\ NoFault /\ UNCHANGED clusterVars
     \/ TTL # Unset /\ wStatus.completion = Unset /\ Abort /\ NoFault /\ UNCHANGED clusterVars
     \/ /\ TTL # Unset /\ wStatus.completion # Unset /\ ~TTLExpired
        /\ AfterCleanup /\ NoFault /\ UNCHANGED clusterVars
     \/ /\ TTL # Unset /\ wStatus.completion # Unset /\ TTLExpired
        /\ exists' = FALSE /\ UNCHANGED <<suspend, status, clusterFeed>>
        /\ Return /\ NoFault
     \/ /\ TTL # Unset /\ wStatus.completion # Unset /\ TTLExpired
        /\ UNCHANGED clusterVars /\ Abort /\ CallFails

-----------------------------------------------------------------------------
(* The normal branch.                                                      *)

(* UpdateConfigMapInApiServer also clears the UID of the pass's copy of    *)
(* the cluster.                                                            *)
ConfigMapUpdated ==
  /\ pc' = "pod" /\ noUid' = TRUE
  /\ UNCHANGED <<mode, todo, cur, wCurrent, wStatus, wPods, wSvcs, queued>>

(* ReconcileConfigMap on a cached config map: create it when there is      *)
(* none, fill in missing keys, which the API server refuses if the cached  *)
(* copy is not the latest, leave a complete one alone, and give up on one  *)
(* that the cluster does not own.  A creation that times out counts as     *)
(* success, whether it had an effect or not, and also if there is a config *)
(* map that the cache does not show; but what the pass goes on with is the *)
(* bare template.                                                          *)
ReconcileConfigMap ==
  /\ InPass("configMap") /\ UNCHANGED clusterVars
  /\ \/ cCm = "None" /\ cm = "None" /\ Call(SetConfigMap("Empty"), ToStage("fillConfigMap"))
     \/ /\ cCm = "None" /\ ToStage("fillUnowned") /\ CallTimesOut
        /\ (cm = "None" /\ SetConfigMap("Empty")) \/ UNCHANGED childVars
     \/ cCm = "None" /\ cm # "None" /\ UNCHANGED childVars /\ Abort /\ NoFault
     \/ cCm = "Empty" /\ cmFeed = <<>> /\ Call(SetConfigMap("Filled"), ConfigMapUpdated)
     \/ cCm = "Empty" /\ cmFeed # <<>> /\ UNCHANGED childVars /\ Abort /\ NoFault
     \/ cCm = "Filled" /\ UNCHANGED childVars /\ NoFault /\ ToStage("pod")
     \/ cCm = "Unowned" /\ UNCHANGED childVars /\ Abort /\ NoFault

(* The new config map is filled in the same pass.  The bare template has   *)
(* no resource version and no owner reference, and the update puts just    *)
(* that into the API server, unless there is nothing to update.            *)
FillConfigMap ==
  /\ InPass("fillConfigMap") /\ UNCHANGED clusterVars
  /\ Call(SetConfigMap("Filled"), ConfigMapUpdated)
FillTemplate ==
  /\ InPass("fillUnowned") /\ UNCHANGED clusterVars
  /\ \/ cm # "None" /\ Call(SetConfigMap("Unowned"), ConfigMapUpdated)
     \/ cm = "None" /\ UNCHANGED childVars /\ Abort /\ NoFault

(* Mutant of ReplicaStatus: a pod that is not yet running counts as active. *)
ReplicaStatusPending(pod) ==
  [active |-> IF pod.phase \in {"Pending", "Running"} /\ ~pod.del THEN 1 ELSE 0,
   failed |-> IF pod.phase = "Failed" \/ (pod.phase = "Running" /\ pod.del) THEN 1 ELSE 0]

(* updateClusterReplicaStatuses for the one pod of a type: a running pod   *)
(* that is being deleted counts as failed.                                 *)
ReplicaStatus(pod) ==
  [active |-> IF pod.phase = "Running" /\ ~pod.del THEN 1 ELSE 0,
   failed |-> IF pod.phase = "Failed" \/ (pod.phase = "Running" /\ pod.del) THEN 1 ELSE 0]

NeedsRestart(pod) == pod.phase = "Failed" /\ RestartPolicy = "OnFailure"

(* Mutant of AfterPod: the counts of the type are not reset first. *)
AfterPodNoReset(r, conds) ==
  /\ pc' = "service" /\ cur' = r
  /\ wStatus' = [wStatus EXCEPT !.conds = conds,
                   !.replicas[r] = [active |-> @.active + ReplicaStatus(wPods[r]).active,
                                    failed |-> @.failed + ReplicaStatus(wPods[r]).failed]]
  /\ UNCHANGED <<mode, todo, noUid, wCurrent, wPods, wSvcs, queued>>

AfterPod(r, conds) ==
  /\ pc' = "service" /\ cur' = r
  /\ wStatus' = [wStatus EXCEPT !.replicas[r] = ReplicaStatus(wPods[r]), !.conds = conds]
  /\ UNCHANGED <<mode, todo, noUid, wCurrent, wPods, wSvcs, queued>>

(* ReconcilePods for one replica type.  A pod whose owner reference has no *)
(* UID is refused by the API server.  A creation that times out counts as  *)
(* success even when it had no effect: then the pass goes on without pod.  *)
ReconcilePod ==
  /\ InPass("pod") /\ UNCHANGED clusterVars
  /\ \E r \in todo :
       \/ /\ wPods[r] = Absent /\ pods[r] = Absent /\ ~noUid
          /\ Call(SetPod(r, NewPod), AfterPod(r, wStatus.conds))
       \/ /\ wPods[r] = Absent /\ pods[r] = Absent /\ ~noUid
          /\ AfterPod(r, wStatus.conds) /\ UNCHANGED childVars /\ CallTimesOut
       \/ /\ wPods[r] = Absent /\ (pods[r] # Absent \/ noUid)
          /\ UNCHANGED childVars /\ Abort /\ NoFault
       \/ /\ wPods[r] # Absent /\ NeedsRestart(wPods[r])
          /\ Call(DeletePod(r),
                  AfterPod(r, UpdateClusterConditions(wStatus.conds, "Restarting", TRUE,
                                                      "Restarting")))
       \/ /\ wPods[r] # Absent /\ ~NeedsRestart(wPods[r])
          /\ AfterPod(r, wStatus.conds) /\ UNCHANGED childVars /\ NoFault

NextType ==
  /\ cur' = "Head"
  /\ IF todo = {cur} THEN todo' = Types /\ pc' = "update"
                     ELSE todo' = todo \ {cur} /\ pc' = "pod"
  /\ UNCHANGED <<mode, noUid, wCurrent, wStatus, wPods, wSvcs, queued>>

(* ReconcileServices for the same type. *)
ReconcileService ==
  /\ InPass("service") /\ UNCHANGED clusterVars
  /\ \/ cur \notin wSvcs /\ cur \notin svcs /\ ~noUid /\ Call(SetService(cur, TRUE), NextType)
     \/ /\ cur \notin wSvcs /\ (cur \in svcs \/ noUid)
        /\ UNCHANGED childVars /\ Abort /\ NoFault
     \/ cur \in wSvcs /\ NextType /\ UNCHANGED childVars /\ NoFault

(* When each schema's UpdateClusterStatus calls a cluster running: slurm   *)
(* whatever its Controller does, PBS Pro once its Server is up.  And when  *)
(* a failed replica that is not being restarted fails the cluster.         *)
slurmRuns(r) == r = "Head"
slurmFails(r, running) == r = "Head" /\ running = 0
pbsproRuns(r, running) == r = "Head" /\ running > 0
pbsproFails(r) == r = "Head"

(* The schema's UpdateClusterStatus for one replica type. *)
SchemaUpdate(st, r) ==
  LET running == st.replicas[r].active
      failed == st.replicas[r].failed
      runs == IF Schema = "slurm" THEN slurmRuns(r) ELSE pbsproRuns(r, running)
      fails == IF Schema = "slurm" THEN slurmFails(r, running) ELSE pbsproFails(r)
      conds == IF runs THEN UpdateClusterConditions(st.conds, "Running", TRUE, "Running")
                       ELSE st.conds
      restarting == HasCondition(conds, "Restarting")
  IN IF failed > 0 /\ ~restarting /\ fails
       THEN [st EXCEPT !.conds = UpdateClusterConditions(conds, "Failed", TRUE, "Failed"),
                       !.completion = IF @ = Unset THEN now ELSE @]
       ELSE [st EXCEPT !.conds =
               IF failed > 0 /\ restarting
                 THEN UpdateClusterConditions(conds, "Restarting", TRUE, "Restarting")
                 ELSE conds]

(* UpdateClusterStatus: the start time, then every replica type in the     *)
(* order in which the map happens to be ranged over.                       *)
UpdateClusterStatus ==
  /\ InPass("update") /\ UNCHANGED <<clusterVars, childVars>> /\ NoFault
  /\ \E r \in todo :
       /\ wStatus' = SchemaUpdate([wStatus EXCEPT !.start = IF @ = Unset THEN now ELSE @], r)
       /\ todo' = todo \ {r}
       /\ pc' = IF todo = {r} THEN "write" ELSE "update"
       /\ UNCHANGED <<mode, cur, noUid, wCurrent, wPods, wSvcs, queued>>

(* Mutant of WriteStatus: the write does not check the resource version. *)
WriteStatusAnyway ==
  /\ InPass("write") /\ UNCHANGED childVars
  /\ \/ wStatus = status /\ UNCHANGED clusterVars /\ Return /\ NoFault
     \/ wStatus # status /\ SetCluster(suspend, wStatus) /\ Return /\ NoFault

(* The status write: a conflict if the copy of the cluster is not current, *)
(* no new version if nothing changed.                                      *)
WriteStatus ==
  /\ InPass("write") /\ UNCHANGED childVars
  /\ \/ ~wCurrent /\ UNCHANGED clusterVars /\ Abort /\ NoFault
     \/ wCurrent /\ wStatus = status /\ UNCHANGED clusterVars /\ Return /\ NoFault
     \/ wCurrent /\ wStatus # status /\ SetCluster(suspend, wStatus) /\ Return /\ NoFault
     \/ wCurrent /\ wStatus # status /\ SetCluster(suspend, wStatus) /\ Abort /\ CallFails
     \/ UNCHANGED clusterVars /\ Abort /\ CallFails

(* The controller restarts: it lists everything anew, and the create event *)
(* it gets for the cluster puts the Created condition on the cached copy.  *)
Restart ==
  /\ exists /\ crashes < MaxCrashes /\ crashes' = crashes + 1
  /\ Abort
  /\ clusterFeed' = <<>> /\ podFeed' = <<>> /\ svcFeed' = <<>> /\ cmFeed' = <<>>
  /\ cSuspend' = suspend /\ cStatus' = onOwnerCreate(status)
  /\ cPods' = pods /\ cSvcs' = svcs /\ cCm' = cm
  /\ UNCHANGED <<exists, suspend, status, pods, svcs, cm, now, historyVars, toggles, failures,
                 restarts, evictions, errors>>

-----------------------------------------------------------------------------
PassStep ==
  \/ TearDownPod \/ TearDownService \/ RemoveConfigMap \/ CleanupCluster
  \/ ReconcileConfigMap \/ FillConfigMap \/ FillTemplate \/ ReconcilePod \/ ReconcileService
  \/ UpdateClusterStatus \/ WriteStatus

Environment ==
  \/ ToggleSuspend \/ Tick
  \/ \E r \in Types :
       PodStarts(r) \/ PodFails(r) \/ ContainerRestarts(r) \/ Evict(r) \/ PodGone(r)

Informer == ObserveCluster \/ ObservePod \/ ObserveService \/ ObserveConfigMap

Next == Environment \/ Informer \/ Resync \/ StartPass \/ PassStep \/ Restart

(* Watches deliver, the periodic resync comes, the worker takes queued     *)
(* keys and a pass goes on, kubelets start and finish pods, time passes.   *)
Fairness ==
  /\ WF_vars(ObserveCluster) /\ WF_vars(ObservePod) /\ WF_vars(ObserveService)
  /\ WF_vars(ObserveConfigMap) /\ WF_vars(Resync) /\ WF_vars(StartPass) /\ WF_vars(PassStep)
  /\ WF_vars(Tick)
  /\ \A r \in Types : WF_vars(PodStarts(r)) /\ WF_vars(PodGone(r))

Spec == Init /\ [][Next]_vars
FairSpec == Spec /\ Fairness

-----------------------------------------------------------------------------
(* Safety.                                                                 *)

SoundStatus(st) ==
  WellFormed(st.conds) /\ (st.completion # Unset => IsFailed(st.conds))

(* The conditions of every copy of the status are well formed, and a       *)
(* completion time is only recorded for a cluster that failed              *)
(* (setCondition and filterOutCondition, over any order of updates).       *)
ConditionsWellFormed == SoundStatus(status) /\ SoundStatus(cStatus) /\ SoundStatus(wStatus)

(* Once the API server holds the Failed condition the status never changes *)
(* again: no pass that started on an older copy can take it back.          *)
FailedIsFinal == [][IsFailed(status.conds) => status' = status]_vars

(* The controller deletes a cluster only when its live status has failed   *)
(* and the TTL has passed since its completion, though it decides on a     *)
(* cached status (CleanupCluster).                                         *)
DeletedOnlyWhenExpired ==
  [][exists /\ ~exists' =>
       /\ IsFailed(status.conds) /\ status.completion # Unset
       /\ now > status.completion + TTL]_vars

(* A cluster created suspended and never resumed has no pod, service or    *)
(* config map, whatever the controller's errors and restarts.              *)
BornSuspended ==
  ~active => Present(pods) = {} /\ svcs = {} /\ cm = "None"

(* The cluster runs only after its head has: the status does not claim     *)
(* Running before the head's pod was once running.                         *)
RunningMeansLaunched == IsRunning(status.conds) => "Head" \in launched

(* A cluster that is to restart its pods and has no deadline fails only by *)
(* its backoff limit, if any: not before as many containers restarted, in  *)
(* whatever pods and however the updates reach the controller, or with a   *)
(* limit of 0 before a pod failed.  In particular, a failed pod that is    *)
(* being restarted does not fail the cluster.                              *)
NoEarlyBackoff ==
  IsFailed(status.conds) /\ RestartPolicy = "OnFailure" /\ Deadline = Unset
    => \/ BackoffLimit # Unset /\ restarts >= BackoffLimit /\ restarts > 0
       \/ BackoffLimit = 0 /\ failures > 0

-----------------------------------------------------------------------------
(* Liveness.                                                               *)

Up == /\ \A r \in Types : pods[r].phase = "Running" /\ ~pods[r].del
      /\ svcs = Types /\ cm = "Filled"
Down == Present(pods) = {} /\ cm = "None"

(* A cluster that stays suspended loses its pods and its config map, and   *)
(* says so, unless it has failed.                                          *)
SuspendTakesEffect ==
  <>[]suspend => <>[](IsFailed(status.conds) \/ (Down /\ IsSuspended(status.conds)))

(* A cluster that stays resumed gets all its children and runs, or fails.  *)
ResumeTakesEffect ==
  <>[]~suspend =>
    <>[](IsFailed(status.conds) \/ (Up /\ IsRunning(status.conds) /\ ~IsSuspended(status.conds)))

(* A failed cluster loses its pods and its config map for good, also those *)
(* that a pass on an older copy still creates.                             *)
FailedCleansUp == [](IsFailed(status.conds) => <>[]Down)

(* A cluster past its deadline becomes Failed, or someone suspends it.     *)
DeadlineEnforced ==
  (status.start # Unset /\ now >= status.start + Deadline) ~> (IsFailed(status.conds) \/ suspend)

-----------------------------------------------------------------------------
(* The inductive strengthening of the safety properties.                   *)

TeardownStages == {"teardown", "teardownService", "deleteConfigMap", "cleanup"}

(* Which branch of a pass each stage belongs to. *)
StagesOfModes ==
  /\ pc = "idle" => mode = "none" /\ ~wCurrent
  /\ pc \in TeardownStages => mode \in {"finished", "suspended", "limit"}
  /\ pc \in {"configMap", "fillConfigMap", "fillUnowned", "pod", "service", "update"}
       => mode = "normal"
  /\ pc = "write" => mode \in {"suspended", "limit", "normal"}

(* The cache is the API server's version once every event is delivered, up *)
(* to the Created condition, and the last event under way is that version. *)
CacheFollows ==
  IF clusterFeed = <<>>
    THEN cSuspend = suspend /\ cStatus \in {status, onOwnerCreate(status)}
    ELSE clusterFeed[Len(clusterFeed)] = [suspend |-> suspend, status |-> status]

(* A pass that may still write its status has not missed that the cluster  *)
(* failed.                                                                 *)
WritersSeeFailure == wCurrent /\ mode # "finished" => ~IsFailed(status.conds)

(* A status that has failed is, in whatever copy, the live one; a teardown *)
(* of a cluster that is not finished holds one that has not.               *)
FailedCopies ==
  /\ IsFailed(cStatus.conds) => cStatus = status
  /\ \A k \in DOMAIN clusterFeed :
       IsFailed(clusterFeed[k].status.conds) => clusterFeed[k].status = status
  /\ mode = "finished" => wStatus = status /\ IsFailed(status.conds)
  /\ pc \in TeardownStages /\ mode # "finished" => ~IsFailed(wStatus.conds)

CopiesWellFormed ==
  /\ ConditionsWellFormed
  /\ \A k \in DOMAIN clusterFeed : SoundStatus(clusterFeed[k].status)

(* As long as no one has resumed it, no version and no pass of a cluster   *)
(* created suspended is anything but suspended.                            *)
SuspendedFromBirth ==
  ~active =>
    /\ suspend /\ cSuspend /\ \A k \in DOMAIN clusterFeed : clusterFeed[k].suspend
    /\ mode \notin {"normal", "limit"}
    /\ pods = NoPods /\ svcs = {} /\ cm = "None"

CopyInv == StagesOfModes /\ CacheFollows /\ WritersSeeFailure /\ FailedCopies /\ CopiesWellFormed
LifecycleInv == CopyInv /\ SuspendedFromBirth

=============================================================================
