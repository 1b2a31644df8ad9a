----------------------------- MODULE GangLaunch -----------------------------
(***************************************************************************)
(* Gang scheduling: the controller keeps one PodGroup per cluster, waits   *)
(* with the pods until the gang scheduler has let the PodGroup in, and     *)
(* deletes it when the cluster is suspended.                               *)
(*                                                                         *)
(* A pass goes through these API calls one at a time while users, the gang *)
(* scheduler, the kubelet and the informers go on.  Volcano's PodGroup is  *)
(* read from the API server; that of the scheduler plugins from a cache.   *)
(* The pods of the cluster are taken together (ReplicaControl has them one *)
(* by one), and so are the conditions (ClusterLifecycle) except for        *)
(* Suspended.  Of a PodGroup's spec there are the number of members and    *)
(* the resources, which GangResources computes (a list that the cluster's  *)
(* schedulingPolicy gives would be copied).                                *)
(***************************************************************************)
EXTENDS Naturals, Sequences, GangResources

CONSTANTS Sizes,        \* by name: [specs, minAvailable] that users ask for
          MaxEdits,     \* bound: changes of the spec by users
          MaxGroups,    \* bound: incarnations of the PodGroup
          MaxLag,       \* bound: PodGroup events on their way
          MaxSeconds,   \* bound: seconds in which a pass has to wait
          MaxFaults,    \* bound: restarts of the controller and failed calls
          Schedulers    \* the gang schedulers the controller may be run with

VARIABLES scheduler,  \* "volcano" or "plugins"; never changes
          spec,       \* [suspend, size, generation]
          status,     \* [suspended, lastReconcile], the latter 0 if not yet set
          cluster,    \* the cached copy of spec and status
          group,      \* the PodGroup in the API server, or None
          groups,     \* incarnations of the PodGroup so far
          feed,       \* states of the PodGroup not delivered yet
          cGroup,     \* the cached PodGroup, or None
          pods,       \* "none", "live" or "dying"
          cPods,      \* what the cache shows of them
          queued,     \* whether the cluster's key is in the work queue
          pc,         \* the next call of the pass
          w,          \* what the pass works with, or None
          crashes,    \* restarts of the controller so far
          failures    \* API calls that failed for no reason of this model's

vars == <<scheduler, spec, status, cluster, group, groups, feed, cGroup, pods,
          cPods, queued, pc, w, crashes, failures>>

(* The spec's minAvailable if it has one, else all its replicas.           *)
MinMember(size) ==
    IF size.minAvailable = None THEN GetTotalReplicas(size.specs) ELSE size.minAvailable

(* The factory of the priority class lister is never started, so a pass    *)
(* finds no class.                                                         *)
PriorityClassLister == [class \in {} |-> 0]

(* The specs that a pass may give its PodGroup for a size of the cluster.  *)
pgSpecFill ==
    [name \in DOMAIN Sizes |->
        LET size == Sizes[name]
        IN {[minMember |-> MinMember(size),
             minResources |-> CalcPGMinResources(MinMember(size), size.specs, order)] :
               order \in ReplicasPriority(size.specs, PriorityClassLister)}]

Phases == {"", "Pending", "Inqueue"}
PodStates == {"none", "live", "dying"}
Specs == [suspend : BOOLEAN, size : DOMAIN Sizes, generation : 0 .. MaxEdits]
Statuses == [suspended : BOOLEAN, lastReconcile : 0 .. MaxSeconds]
Clusters == [spec : Specs, status : Statuses]
GroupSpecs == UNION {pgSpecFill[name] : name \in DOMAIN Sizes}
Groups == [uid : 1 .. MaxGroups, spec : GroupSpecs, phase : Phases]
ASSUME BoundsAssumption ==
    /\ MaxEdits \in Nat /\ MaxGroups \in Nat
    /\ MaxLag \in Nat /\ MaxSeconds \in Nat /\ MaxFaults \in Nat
ASSUME SizesAssumption ==
    \A name \in DOMAIN Sizes :
        AreReplicaSpecs(Sizes[name].specs) /\ MinMember(Sizes[name]) \in Nat
ASSUME NoneIsNoGroup == None \notin Groups

Stages == {"idle", "get", "create", "update", "getCreated", "delay", "launch",
           "endPass", "deletePods", "deleteGroup", "suspended"}

TypeOK ==
    /\ scheduler \in Schedulers
    /\ spec \in Specs /\ status \in Statuses /\ cluster \in Clusters
    /\ group \in Groups \cup {None} /\ groups \in 0 .. MaxGroups
    /\ feed \in Seq(Groups \cup {None}) /\ Len(feed) <= MaxLag
    /\ cGroup \in Groups \cup {None}
    /\ pods \in PodStates /\ cPods \in PodStates
    /\ queued \in BOOLEAN /\ pc \in Stages
    /\ w \in {None} \cup
             [cluster : Clusters, pods : PodStates, group : Groups \cup {None}]
    /\ crashes \in 0 .. MaxFaults /\ failures \in 0 .. MaxFaults

(* A cluster that was just created; its event is in the work queue.        *)
Init ==
    /\ scheduler \in Schedulers
    /\ spec \in [suspend : {FALSE}, size : DOMAIN Sizes, generation : {0}]
    /\ status = [suspended |-> FALSE, lastReconcile |-> 0]
    /\ cluster = [spec |-> spec, status |-> status]
    /\ group = None /\ groups = 0 /\ feed = <<>> /\ cGroup = None
    /\ pods = "none" /\ cPods = "none"
    /\ queued = TRUE /\ pc = "idle"
    /\ w = None /\ crashes = 0 /\ failures = 0

-----------------------------------------------------------------------------
(* The pass.                                                               *)

To(stage) == pc' = stage /\ UNCHANGED <<w, queued>>
Finish == pc' = "idle" /\ w' = None /\ UNCHANGED queued
Fail == pc' = "idle" /\ w' = None /\ queued' = TRUE   \* rate-limited requeue

StartPass ==
    /\ pc = "idle" /\ queued
    /\ queued' = FALSE
    /\ w' = [cluster |-> cluster, pods |-> cPods, group |-> None]
    /\ pc' = IF cluster.spec.suspend THEN "deletePods" ELSE "get"
    /\ UNCHANGED <<scheduler, spec, status, cluster, group, groups, feed,
                   cGroup, pods, cPods, crashes, failures>>

(* An API call gets an error that nothing in this model explains.          *)
Error == crashes + failures < MaxFaults /\ failures' = failures + 1
NoError == UNCHANGED failures

(* The API server's PodGroup changes; the informer will hear of it.        *)
Put(g) == Len(feed) < MaxLag /\ group' = g /\ feed' = Append(feed, g)

GetPodGroup == IF scheduler = "volcano" THEN group ELSE cGroup

(* Mutant of DelayPodCreationDueToPodGroup: a new PodGroup has no phase. *)
DelayForPendingOnly(g) ==
    scheduler = "volcano" /\ (g = None \/ g.phase = "Pending")

DelayPodCreationDueToPodGroup(g) ==
    scheduler = "volcano" /\ (g = None \/ g.phase \in {"", "Pending"})

(* SyncPodGroup begins: is there a PodGroup to update, or none yet?  Like  *)
(* every error of SyncPodGroup, one of this read is logged and makes the   *)
(* pods wait.                                                              *)
SyncPodGroup ==
    /\ pc = "get"
    /\ \/ /\ w' = [w EXCEPT !.group = GetPodGroup]
          /\ pc' = IF GetPodGroup = None THEN "create" ELSE "update"
          /\ UNCHANGED queued /\ NoError
       \/ Error /\ To("delay")
    /\ UNCHANGED <<scheduler, spec, status, cluster, group, groups, feed,
                   cGroup, pods, cPods, crashes>>

(* Mutant of UpdatePodGroup: the PodGroup is kept as it is. *)
UpdatePodGroupNever ==
    /\ pc = "update"
    /\ To(IF DelayPodCreationDueToPodGroup(w.group) THEN "delay" ELSE "launch")
    /\ UNCHANGED <<scheduler, spec, status, cluster, group, groups, feed,
                   cGroup, pods, cPods, crashes, failures>>

(* It is updated whether or not its spec differs: the comparison is of a   *)
(* pointer to the interface with the interface.  The update is refused if  *)
(* the PodGroup has changed since it was read, and changes nothing if the  *)
(* spec is the same.  Other errors may come after it took effect.          *)
UpdatePodGroup ==
    /\ pc = "update"
    /\ \E fill \in pgSpecFill[w.cluster.spec.size] :
         LET g == [w.group EXCEPT !.spec = fill]
             Write == group = w.group
                      /\ IF g = group THEN UNCHANGED <<group, feed>> ELSE Put(g)
         IN \/ Write /\ NoError
               /\ To(IF DelayPodCreationDueToPodGroup(g) THEN "delay" ELSE "launch")
            \/ group # w.group /\ UNCHANGED <<group, feed>> /\ NoError /\ To("delay")
            \/ Error /\ (Write \/ UNCHANGED <<group, feed>>) /\ To("delay")
    /\ UNCHANGED <<scheduler, spec, status, cluster, groups, cGroup, pods,
                   cPods, crashes>>

(* Mutant of CreatePodGroup: the new PodGroup's spec is not filled in. *)
CreatePodGroupUnfilled ==
    /\ pc = "create"
    /\ IF group # None THEN To("delay") /\ UNCHANGED <<group, feed, groups>>
       ELSE /\ groups < MaxGroups /\ groups' = groups + 1
            /\ Put([uid |-> groups + 1, phase |-> "",
                    spec |-> [minMember |-> 0, minResources |-> [k \in {} |-> 0]]])
            /\ To("getCreated")
    /\ UNCHANGED <<scheduler, spec, status, cluster, cGroup, pods, cPods,
                   crashes, failures>>

(* The creation is refused if there is a PodGroup, which a cache may hide. *)
CreatePodGroup ==
    /\ pc = "create"
    /\ LET Write == /\ group = None
                    /\ groups < MaxGroups /\ groups' = groups + 1
                    /\ \E fill \in pgSpecFill[w.cluster.spec.size] :
                         Put([uid |-> groups + 1, spec |-> fill, phase |-> ""])
           Nothing == UNCHANGED <<group, groups, feed>>
       IN \/ Write /\ NoError /\ To("getCreated")
          \/ group # None /\ Nothing /\ NoError /\ To("delay")
          \/ Error /\ (Write \/ Nothing) /\ To("delay")
    /\ UNCHANGED <<scheduler, spec, status, cluster, cGroup, pods, cPods,
                   crashes>>

(* The PodGroup is read back; a cache may not have it yet.                 *)
GetCreatedPodGroup ==
    /\ pc = "getCreated"
    /\ \/ /\ To(IF GetPodGroup = None \/ DelayPodCreationDueToPodGroup(GetPodGroup)
                THEN "delay" ELSE "launch")
          /\ NoError
       \/ Error /\ To("delay")
    /\ UNCHANGED <<scheduler, spec, status, cluster, group, groups, feed,
                   cGroup, pods, cPods, crashes>>

(* A status write: refused if the cluster has changed since the cached     *)
(* copy, and without effect, or event, if the status is the same.          *)
UpdateClusterStatusInApiServer(st) ==
    LET current == w.cluster = [spec |-> spec, status |-> status]
    IN \/ current /\ status' = st /\ NoError /\ Finish
       \/ ~current /\ UNCHANGED status /\ NoError /\ Fail
       \/ Error /\ (UNCHANGED status \/ (current /\ status' = st)) /\ Fail

(* The seconds LastReconcileTime may be set to: it is stored without       *)
(* fractions, so this may be the second that it was last set in.           *)
Now == LET last == w.cluster.status.lastReconcile IN
       {last, last + 1} \cap 1 .. MaxSeconds

(* The pods have to wait.  The pass stamps the status with the time "to    *)
(* trigger a new reconciliation".                                          *)
DelayPods ==
    /\ pc = "delay"
    /\ \E now \in Now :
         UpdateClusterStatusInApiServer([suspended |-> FALSE, lastReconcile |-> now])
    /\ UNCHANGED <<scheduler, spec, cluster, group, groups, feed, cGroup, pods,
                   cPods, crashes>>

(* ReconcilePods creates what the cache does not show.  A name that is     *)
(* still in use, by a terminating pod too, makes the creation fail.  A     *)
(* creation that timed out counts as done.                                 *)
LaunchPods ==
    /\ pc = "launch"
    /\ LET Create == pods = "none" /\ pods' = "live"
       IN \/ w.pods # "none" /\ UNCHANGED pods /\ NoError /\ To("endPass")
          \/ w.pods = "none" /\ Create /\ NoError /\ To("endPass")
          \/ w.pods = "none" /\ pods # "none" /\ UNCHANGED pods /\ NoError /\ Fail
          \/ /\ w.pods = "none" /\ Error
             /\ Create \/ UNCHANGED pods
             /\ To("endPass") \/ Fail
    /\ UNCHANGED <<scheduler, spec, status, cluster, group, groups, feed,
                   cGroup, cPods, crashes>>

EndPass ==
    /\ pc = "endPass"
    /\ UpdateClusterStatusInApiServer([w.cluster.status EXCEPT !.suspended = FALSE])
    /\ UNCHANGED <<scheduler, spec, cluster, group, groups, feed, cGroup, pods,
                   cPods, crashes>>

(* CleanUpResources of a suspended cluster: the pods that the cache showed *)
(* when the pass began, then the PodGroup.                                 *)
DeletePods ==
    /\ pc = "deletePods"
    /\ LET Delete == pods' = IF w.pods # "none" /\ pods = "live" THEN "dying" ELSE pods
       IN \/ Delete /\ NoError /\ To("deleteGroup")
          \/ Error /\ (Delete \/ UNCHANGED pods) /\ Fail
    /\ UNCHANGED <<scheduler, spec, status, cluster, group, groups, feed,
                   cGroup, cPods, crashes>>

(* Mutant of DeletePodGroup: the PodGroup is left behind. *)
KeepPodGroup ==
    /\ pc = "deleteGroup"
    /\ To("suspended")
    /\ UNCHANGED <<scheduler, spec, status, cluster, group, groups, feed,
                   cGroup, pods, cPods, crashes, failures>>

(* Nothing to delete if no PodGroup is found.  A read that fails counts as *)
(* one that found it; an error of the deletion fails the pass.             *)
DeletePodGroup ==
    /\ pc = "deleteGroup"
    /\ LET Delete == group # None /\ Put(None)
           Nothing == UNCHANGED <<group, feed>>
       IN \/ GetPodGroup = None /\ Nothing /\ NoError /\ To("suspended")
          \/ GetPodGroup # None /\ Delete /\ NoError /\ To("suspended")
          \/ GetPodGroup # None /\ group = None /\ Nothing /\ NoError /\ Fail
          \/ Error /\ Delete /\ (To("suspended") \/ Fail)
          \/ Error /\ Nothing /\ Fail
    /\ UNCHANGED <<scheduler, spec, status, cluster, groups, cGroup, pods,
                   cPods, crashes>>

(* The status is written if this pass is the first to suspend the cluster. *)
Suspended ==
    /\ pc = "suspended"
    /\ IF w.cluster.status.suspended THEN UNCHANGED status /\ NoError /\ Finish
       ELSE UpdateClusterStatusInApiServer([w.cluster.status EXCEPT !.suspended = TRUE])
    /\ UNCHANGED <<scheduler, spec, cluster, group, groups, feed, cGroup, pods,
                   cPods, crashes>>

-----------------------------------------------------------------------------
(* Users, the gang scheduler, the kubelet, the informers.                  *)

(* A user suspends, resumes or resizes the cluster.  (To do two of these   *)
(* at once is like doing them with no step in between.)                    *)
Edit(suspend, size) ==
    /\ spec.generation < MaxEdits
    /\ (suspend = spec.suspend) # (size = spec.size)
    /\ spec' = [suspend |-> suspend, size |-> size,
                generation |-> spec.generation + 1]
    /\ UNCHANGED <<scheduler, status, cluster, group, groups, feed, cGroup,
                   pods, cPods, queued, pc, w, crashes, failures>>

(* The scheduler notices a new PodGroup, and lets it in.                   *)
Schedule ==
    /\ group # None /\ group.phase # "Inqueue"
    /\ Put([group EXCEPT !.phase = IF @ = "" THEN "Pending" ELSE "Inqueue"])
    /\ UNCHANGED <<scheduler, spec, status, cluster, groups, cGroup, pods,
                   cPods, queued, pc, w, crashes, failures>>

PodsGone ==
    /\ pods = "dying"
    /\ pods' = "none"
    /\ UNCHANGED <<scheduler, spec, status, cluster, group, groups, feed,
                   cGroup, cPods, queued, pc, w, crashes, failures>>

(* Every change of the cluster and of its pods puts the key in the queue.  *)
DeliverCluster ==
    /\ cluster # [spec |-> spec, status |-> status]
    /\ cluster' = [spec |-> spec, status |-> status] /\ queued' = TRUE
    /\ UNCHANGED <<scheduler, spec, status, group, groups, feed, cGroup, pods,
                   cPods, pc, w, crashes, failures>>

DeliverPods ==
    /\ cPods # pods
    /\ cPods' = pods /\ queued' = TRUE
    /\ UNCHANGED <<scheduler, spec, status, cluster, group, groups, feed,
                   cGroup, pods, pc, w, crashes, failures>>

(* Mutant of OnDependentUpdateFuncGeneric: it asks for the label, too. *)
OnDependentUpdateFuncGenericDropped(old, new) == FALSE

(* Of a PodGroup only updates do: it carries no cluster type label, which  *)
(* OnDependentCreateFuncGeneric and OnDependentDeleteFuncGeneric ask for.  *)
OnDependentUpdateFuncGeneric(old, new) == old # None /\ new # None

DeliverGroup ==
    /\ feed # <<>>
    /\ cGroup' = Head(feed) /\ feed' = Tail(feed)
    /\ queued' = (queued \/ OnDependentUpdateFuncGeneric(cGroup, Head(feed)))
    /\ UNCHANGED <<scheduler, spec, status, cluster, group, groups, pods,
                   cPods, pc, w, crashes, failures>>

(* The informer's periodic resync sends an update event for the cluster.   *)
Resync ==
    /\ ~queued
    /\ queued' = TRUE
    /\ UNCHANGED <<scheduler, spec, status, cluster, group, groups, feed,
                   cGroup, pods, cPods, pc, w, crashes, failures>>

(* The controller is restarted: it lists everything and handles it.        *)
Crash ==
    /\ crashes + failures < MaxFaults
    /\ crashes' = crashes + 1
    /\ cluster' = [spec |-> spec, status |-> status]
    /\ cGroup' = group /\ feed' = <<>> /\ cPods' = pods
    /\ queued' = TRUE /\ pc' = "idle"
    /\ w' = None
    /\ UNCHANGED <<scheduler, spec, status, group, groups, pods,
                   failures>>

PassStep ==
    \/ StartPass \/ SyncPodGroup \/ UpdatePodGroup \/ CreatePodGroup
    \/ GetCreatedPodGroup \/ DelayPods \/ LaunchPods \/ EndPass
    \/ DeletePods \/ DeletePodGroup \/ Suspended

Next ==
    \/ PassStep
    \/ \E suspend \in BOOLEAN, size \in DOMAIN Sizes : Edit(suspend, size)
    \/ Schedule \/ PodsGone
    \/ DeliverCluster \/ DeliverPods \/ DeliverGroup
    \/ Resync \/ Crash

Spec == Init /\ [][Next]_vars

(* The worker and the informers go on, the gang scheduler lets PodGroups   *)
(* in and the kubelet ends terminating pods.  Users, the resync, failing   *)
(* calls and crashes owe nothing.                                          *)
FairSpec ==
    /\ Spec
    /\ WF_vars(PassStep) /\ WF_vars(Schedule) /\ WF_vars(PodsGone)
    /\ WF_vars(DeliverCluster) /\ WF_vars(DeliverPods) /\ WF_vars(DeliverGroup)

-----------------------------------------------------------------------------
(* Properties.                                                             *)

(* The resources of the foremost pods, as many as have to start together.  *)
MinResources ==
    [name \in DOMAIN Sizes |->
        LET size == Sizes[name]
        IN {Needs(S, size.specs) :
              S \in Foremost(MinMember(size), size.specs, PriorityClassLister)}]

(* Pods are created only for a PodGroup that is in the API server, asks    *)
(* for as many members as the spec that the pass works with and for the    *)
(* resources of that many foremost pods, and, with Volcano, has been let   *)
(* in: the order of CalcPGMinResources, SyncPodGroup, the delay and        *)
(* ReconcilePods in ReconcileKubeCluster.                                  *)
PodsJoinTheirGroup ==
    [][pods = "none" /\ pods' = "live" =>
         /\ group # None
         /\ group.spec.minMember = MinMember(Sizes[w.cluster.spec.size])
         /\ group.spec.minResources \in MinResources[w.cluster.spec.size]
         /\ scheduler = "volcano" => group.phase = "Inqueue"]_vars

(* An error of SyncPodGroup is logged and the pass ends like one that has  *)
(* to wait, without a requeue.  So passes come by events alone if no call  *)
(* fails, and otherwise by the resync, which queues the key ever again.    *)
PassesCome == []<>(failures = 0 \/ queued)

(* A PodGroup ends up asking for the members and resources that the spec   *)
(* does, when users stop editing, also if they did so while a pass was     *)
(* under way: SyncPodGroup.                                                *)
GroupFollowsSpec ==
    PassesCome /\ <>[]~spec.suspend =>
        <>[](group # None => group.spec \in pgSpecFill[spec.size])

(* A cluster that stays suspended loses its PodGroup and its pods, also    *)
(* those the cache did not show when CleanUpResources ran.                 *)
SuspendEndsGroup == <>[]spec.suspend => <>[](group = None /\ pods = "none")

(* With Volcano, a cluster that stays unsuspended gets its pods once its   *)
(* PodGroup is let in, although the creation of the PodGroup makes no one  *)
(* reconcile.                                                              *)
VolcanoLaunches ==
    PassesCome /\ scheduler = "volcano" /\ <>[]~spec.suspend => <>[](pods = "live")

(* The sizes in which all pods have to start together. *)
AllTogether ==
    {name \in DOMAIN Sizes :
        MinMember(Sizes[name]) >= Cardinality(PodsOf(Sizes[name].specs))}

(* Every pass updates the PodGroup, and every update that changes it makes *)
(* for another pass.  If all pods have to start together this comes to an  *)
(* end: CalcPGMinResources then gives one list in whatever order.          *)
GroupSettles == <>[](spec.size \in AllTogether) => <>[][FALSE]_group

(* A pass that makes the pods wait is followed by another one, as the      *)
(* comment on its status write says: "Update cluster status here to        *)
(* trigger a new reconciliation".  (The informer's resync, which comes     *)
(* every ten hours, owes no step here: the comment is about the write.)    *)
WaitingTriggersPass == pc = "delay" ~> pc \in {"get", "deletePods"}
=============================================================================
