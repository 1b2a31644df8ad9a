-------------------------- MODULE GangLaunchProofs --------------------------
(***************************************************************************)
(* Pods are created for a PodGroup that is there and was let in, for every *)
(* number of edits, PodGroups, events on their way, failed calls and       *)
(* restarts, and with either gang scheduler; and the resources that it     *)
(* asks for are those of the foremost pods, for all replica specs.         *)
(***************************************************************************)
EXTENDS GangLaunch, DataProofs

(* The size of the cluster that the pass works with. *)
Size == w.cluster.spec.size

Shape ==
    /\ group \in Groups \cup {None} /\ groups \in Nat
    /\ spec.size \in DOMAIN Sizes /\ cluster.spec.size \in DOMAIN Sizes
    /\ pc # "idle" => /\ w = [cluster |-> w.cluster, pods |-> w.pods, group |-> w.group]
                      /\ Size \in DOMAIN Sizes

(* While the pass is between its PodGroup calls and the creation of pods,  *)
(* the PodGroup it has made or updated is in the API server.  Nobody but   *)
(* the pass deletes it or changes its spec, and the scheduler does not     *)
(* take back that it let the PodGroup in.                                  *)
Held ==
    /\ pc = "update" => w.group # None
    /\ pc \in {"getCreated", "launch"} => group # None /\ group.spec \in pgSpecFill[Size]
    /\ pc = "launch" /\ scheduler = "volcano" => group.phase = "Inqueue"

GangInv == Shape /\ Held

(* What a pass fills in is the spec of a PodGroup. *)
LEMMA FillsAreSpecs ==
    \A name \in DOMAIN Sizes : \A fill \in pgSpecFill[name] : fill \in GroupSpecs
BY Zenon DEF GroupSpecs

LEMMA InitGang == Init => GangInv
<1> SUFFICES ASSUME Init PROVE GangInv
  BY Zenon
<1>1. spec.size \in DOMAIN Sizes
  BY Zenon DEF Init
<1> QED
  BY Zenon, <1>1 DEF Init, GangInv, Shape, Held

(* Steps of the pass that leave the PodGroup alone. *)
LEMMA PassGang ==
    ASSUME GangInv, UNCHANGED <<scheduler, spec, cluster, group, groups>>,
           pc' \notin {"update", "getCreated", "launch"},
           pc' = "idle" \/ (pc # "idle" /\ w' = w)
    PROVE  GangInv'
BY Zenon DEF GangInv, Shape, Held, Size

LEMMA StartGang == GangInv /\ StartPass => GangInv'
<1> SUFFICES ASSUME GangInv, StartPass PROVE GangInv'
  BY Zenon
<1>1. w' = [cluster |-> cluster, pods |-> cPods, group |-> None]
  BY Zenon DEF StartPass
<1>2. w'.cluster = cluster
  BY Zenon, <1>1
<1> QED
  BY Zenon, <1>1, <1>2 DEF StartPass, GangInv, Shape, Held, Size

LEMMA SyncGang == GangInv /\ SyncPodGroup => GangInv'
<1> SUFFICES ASSUME GangInv, SyncPodGroup PROVE GangInv'
  BY Zenon
<1>1. UNCHANGED <<scheduler, spec, cluster, group, groups>> /\ pc = "get"
  BY Zenon DEF SyncPodGroup
<1>2. CASE To("delay")
  BY Zenon, <1>1, <1>2, PassGang DEF To
<1>3. CASE /\ w' = [w EXCEPT !.group = GetPodGroup]
           /\ pc' = IF GetPodGroup = None THEN "create" ELSE "update"
  <2>1. w' = [cluster |-> w.cluster, pods |-> w.pods, group |-> GetPodGroup]
    BY Zenon, <1>1, <1>3 DEF GangInv, Shape
  <2>2. w'.cluster = w.cluster /\ w'.group = GetPodGroup
    BY Zenon, <2>1
  <2> QED
    BY Zenon, <1>1, <1>3, <2>1, <2>2 DEF GangInv, Shape, Held, Size
<1> QED
  BY Zenon, <1>2, <1>3 DEF SyncPodGroup

LEMMA UpdateGang == GangInv /\ UpdatePodGroup => GangInv'
<1> SUFFICES ASSUME GangInv, UpdatePodGroup PROVE GangInv'
  BY Zenon
<1>1. UNCHANGED <<scheduler, spec, cluster, groups, w>> /\ pc = "update"
  BY Zenon DEF UpdatePodGroup, To
<1>2. PICK fill \in pgSpecFill[Size] :
         LET g == [w.group EXCEPT !.spec = fill]
         IN \/ /\ group = w.group /\ group' \in {g, group}
               /\ g = group => group' = g
               /\ pc' = "delay" \/ (group' = g /\ pc' = IF DelayPodCreationDueToPodGroup(g)
                                                        THEN "delay" ELSE "launch")
            \/ UNCHANGED group /\ pc' = "delay"
  BY Zenon DEF UpdatePodGroup, Put, To, Size
<1> DEFINE g == [w.group EXCEPT !.spec = fill]
<1>3. CASE UNCHANGED group /\ pc' = "delay"
  BY Zenon, <1>1, <1>3, PassGang
<1>4. CASE group = w.group /\ group' \in {g, group}
           /\ (pc' = "delay" \/ (group' = g /\ pc' = IF DelayPodCreationDueToPodGroup(g)
                                                     THEN "delay" ELSE "launch"))
  <2>1. group \in Groups
    BY Zenon, <1>1, <1>4 DEF GangInv, Shape, Held
  <2>2. fill \in GroupSpecs
    BY Zenon, <1>1, <1>2, FillsAreSpecs DEF GangInv, Shape
  <2>3. g \in Groups /\ g.spec = fill
    BY Zenon, <1>4, <2>1, <2>2 DEF Groups
  <2>4. pc' = "launch" /\ scheduler = "volcano" => g.phase = "Inqueue"
    BY Zenon, <1>4, <2>3 DEF DelayPodCreationDueToPodGroup, Groups, Phases
  <2> HIDE DEF g
  <2> QED
    BY Zenon, <1>1, <1>2, <1>4, <2>1, <2>3, <2>4, NoneIsNoGroup DEF GangInv, Shape, Held, Size
<1> QED
  BY Zenon, <1>2, <1>3, <1>4

LEMMA CreateGang == GangInv /\ CreatePodGroup => GangInv'
<1> SUFFICES ASSUME GangInv, CreatePodGroup PROVE GangInv'
  BY Zenon
<1>1. UNCHANGED <<scheduler, spec, cluster, w>> /\ pc = "create"
  BY Zenon DEF CreatePodGroup, To
<1>2. CASE UNCHANGED <<group, groups>> /\ pc' = "delay"
  BY Zenon, <1>1, <1>2, PassGang
<1>3. CASE /\ groups < MaxGroups /\ groups' = groups + 1 /\ pc' \in {"getCreated", "delay"}
           /\ \E fill \in pgSpecFill[Size] :
                group' = [uid |-> groups + 1, spec |-> fill, phase |-> ""]
  <2>1. PICK fill \in pgSpecFill[Size] :
               group' = [uid |-> groups + 1, spec |-> fill, phase |-> ""]
    BY Zenon, <1>3
  <2>2. groups + 1 \in 1 .. MaxGroups /\ groups' \in Nat
    <3>1. groups \in Nat /\ groups < MaxGroups /\ groups' = groups + 1
      BY Zenon, <1>3 DEF GangInv, Shape
    <3> QED
      BY <3>1, BoundsAssumption
  <2>3. fill \in GroupSpecs
    BY Zenon, <1>1, <2>1, FillsAreSpecs DEF GangInv, Shape
  <2>4. group' \in Groups /\ group'.spec = fill
    BY Zenon, <2>1, <2>2, <2>3 DEF Groups, Phases
  <2> QED
    BY Zenon, <1>1, <1>3, <2>1, <2>2, <2>4, NoneIsNoGroup DEF GangInv, Shape, Held, Size
<1> QED
  BY Zenon, <1>2, <1>3 DEF CreatePodGroup, Put, To, Size

LEMMA GetCreatedGang == GangInv /\ GetCreatedPodGroup => GangInv'
<1> SUFFICES ASSUME GangInv, GetCreatedPodGroup PROVE GangInv'
  BY Zenon
<1>1. UNCHANGED <<scheduler, spec, cluster, group, groups, w>> /\ pc = "getCreated"
  BY Zenon DEF GetCreatedPodGroup, To
<1>2. pc' \in {"delay", "launch"}
  BY Zenon DEF GetCreatedPodGroup, To
<1>3. group \in Groups /\ group.spec \in pgSpecFill[Size]
  BY Zenon, <1>1 DEF GangInv, Shape, Held
<1>4. pc' = "launch" /\ scheduler = "volcano" => group.phase = "Inqueue"
  BY Zenon, <1>3 DEF GetCreatedPodGroup, To, GetPodGroup, DelayPodCreationDueToPodGroup,
              Groups, Phases
<1> QED
  BY Zenon, <1>1, <1>2, <1>3, <1>4, NoneIsNoGroup DEF GangInv, Shape, Held, Size

LEMMA DeleteGang == GangInv /\ DeletePodGroup => GangInv'
<1> SUFFICES ASSUME GangInv, DeletePodGroup PROVE GangInv'
  BY Zenon
<1>1. /\ UNCHANGED <<scheduler, spec, cluster, groups>> /\ group' \in {group, None}
      /\ pc = "deleteGroup" /\ (pc' = "idle" \/ (pc' = "suspended" /\ w' = w))
  BY Zenon DEF DeletePodGroup, Put, To, Fail
<1> QED
  BY Zenon, <1>1 DEF GangInv, Shape, Held, Size

LEMMA ScheduleGang == GangInv /\ Schedule => GangInv'
<1> SUFFICES ASSUME GangInv, Schedule PROVE GangInv'
  BY Zenon
<1>1. UNCHANGED <<scheduler, spec, cluster, groups, pc, w>>
      /\ group \in Groups /\ group.phase # "Inqueue"
  BY Zenon DEF Schedule, GangInv, Shape
<1>2. PICK p \in Phases : group' = [group EXCEPT !.phase = p]
  BY Zenon DEF Schedule, Put, Phases
<1>3. group' \in Groups /\ group'.spec = group.spec
  BY Zenon, <1>1, <1>2 DEF Groups
<1> QED
  BY Zenon, <1>1, <1>3, NoneIsNoGroup DEF GangInv, Shape, Held, Size

(* Every step keeps the invariant. *)
LEMMA NextGang == GangInv /\ [Next]_vars => GangInv'
<1> SUFFICES ASSUME GangInv, [Next]_vars PROVE GangInv'
  BY Zenon
<1>1. CASE DelayPods \/ EndPass \/ Suspended
  BY Zenon, <1>1, PassGang DEF DelayPods, EndPass, Suspended, UpdateClusterStatusInApiServer,
                        Finish, Fail
<1>2. CASE LaunchPods \/ DeletePods
  BY Zenon, <1>2, PassGang DEF LaunchPods, DeletePods, To, Fail
<1>3. CASE \E suspend \in BOOLEAN, size \in DOMAIN Sizes : Edit(suspend, size)
  <2>1. spec'.size \in DOMAIN Sizes
    BY <1>3 DEF Edit
  <2> QED
    BY Zenon, <1>3, <2>1 DEF Edit, GangInv, Shape, Held, Size
<1>4. CASE PodsGone \/ DeliverPods \/ DeliverGroup \/ Resync \/ UNCHANGED vars
  BY Zenon, <1>4 DEF PodsGone, DeliverPods, DeliverGroup, Resync, vars, GangInv, Shape, Held, Size
<1>5. CASE DeliverCluster \/ Crash
  <2>1. cluster'.spec = spec
    BY <1>5 DEF DeliverCluster, Crash
  <2> QED
    BY Zenon, <1>5, <2>1 DEF DeliverCluster, Crash, GangInv, Shape, Held, Size
<1> QED
  BY Zenon, <1>1, <1>2, <1>3, <1>4, <1>5, StartGang, SyncGang, UpdateGang, CreateGang,
     GetCreatedGang, DeleteGang, ScheduleGang DEF Next, PassStep

-----------------------------------------------------------------------------
(* The inductive form of TypeOK: a pass that is under way has its copies.  *)
Passes == [cluster : Clusters, pods : PodStates, group : Groups \cup {None}]
Typed == TypeOK /\ (pc # "idle" => w \in Passes)

(* A write of the PodGroup keeps it and its events well typed. *)
LEMMA PutType ==
    ASSUME Typed, NEW g \in Groups \cup {None}, Put(g)
    PROVE  group' \in Groups \cup {None} /\ feed' \in Seq(Groups \cup {None})
           /\ Len(feed') <= MaxLag
BY BoundsAssumption DEF Typed, TypeOK, Put

(* The pass goes on with its copies, or ends without them. *)
LEMMA ToType ==
    ASSUME Typed, pc # "idle", NEW stage \in Stages, To(stage)
    PROVE  pc' \in Stages /\ w' \in Passes /\ queued' \in BOOLEAN
BY Zenon DEF Typed, TypeOK, To

LEMMA EndType ==
    ASSUME Typed, Finish \/ Fail
    PROVE  pc' = "idle" /\ w' = None /\ queued' \in BOOLEAN
BY Zenon DEF Typed, TypeOK, Finish, Fail

(* The status write ends the pass. *)
LEMMA StatusType ==
    ASSUME Typed, NEW st \in Statuses, UpdateClusterStatusInApiServer(st)
    PROVE  /\ status' \in Statuses /\ pc' = "idle" /\ w' = None /\ queued' \in BOOLEAN
           /\ Error \/ NoError
BY Zenon, EndType DEF Typed, TypeOK, UpdateClusterStatusInApiServer

(* Failed calls are counted. *)
LEMMA ErrorType == Typed /\ (Error \/ NoError) => failures' \in 0 .. MaxFaults
<1> SUFFICES ASSUME Typed, Error \/ NoError PROVE failures' \in 0 .. MaxFaults
  BY Zenon
<1>1. /\ failures \in 0 .. MaxFaults /\ crashes \in 0 .. MaxFaults /\ MaxFaults \in Nat
      /\ (crashes + failures < MaxFaults /\ failures' = failures + 1) \/ failures' = failures
  BY Zenon, BoundsAssumption DEF Typed, TypeOK, Error, NoError
<1> QED
  BY <1>1

(* GangLaunch is type correct: no pass works with a copy it does not have, *)
(* and every PodGroup it makes or updates is one.                          *)
THEOREM TypeCorrect == Spec => []TypeOK
<1>1. Init => Typed
  <2> SUFFICES ASSUME Init PROVE Typed
    BY Zenon
  <2>1. spec \in Specs /\ status \in Statuses
    <3>1. 0 \in 0 .. MaxEdits /\ 0 \in 0 .. MaxSeconds
      BY BoundsAssumption
    <3> QED
      BY Zenon, <3>1 DEF Init, Specs, Statuses
  <2>2. cluster \in Clusters
    BY Zenon, <2>1 DEF Init, Clusters
  <2> QED
    BY SMTT(30), <2>1, <2>2, BoundsAssumption DEF Init, Typed, TypeOK, PodStates, Stages
<1>2. Typed /\ GangInv /\ [Next]_vars => Typed'
  <2> SUFFICES ASSUME Typed, GangInv, [Next]_vars PROVE Typed'
    BY Zenon
  <2> DEFINE Kept == /\ UNCHANGED <<scheduler, spec, cluster, groups, cGroup, cPods, crashes>>
                     /\ failures' \in 0 .. MaxFaults
             KeptGroup == UNCHANGED <<group, feed>>
             Group == group' \in Groups \cup {None} /\ feed' \in Seq(Groups \cup {None})
                      /\ Len(feed') <= MaxLag
             Pass == pc' \in Stages /\ queued' \in BOOLEAN /\ w' \in {None} \cup Passes
                     /\ (pc' # "idle" => w' \in Passes)
  <2>0. Error \/ NoError \/ UNCHANGED failures => failures' \in 0 .. MaxFaults
    BY Zenon, ErrorType DEF NoError
  <2>1. KeptGroup => Group
    BY Zenon DEF Typed, TypeOK
  <2>2. pc # "idle" => w \in Passes
    BY Zenon DEF Typed
  <2>3. Finish \/ Fail => Pass
    BY Zenon, EndType DEF Stages
  <2>4. ASSUME pc # "idle", NEW stage \in Stages, To(stage) PROVE Pass
    BY Zenon, <2>4, ToType
  <2>5. ASSUME Kept, Group, Pass, status' \in Statuses, pods' \in PodStates PROVE Typed'
    BY Zenon, <2>5 DEF Typed, TypeOK, Passes
  <2>6. status \in Statuses /\ pods \in PodStates /\ cPods \in PodStates
        /\ GetPodGroup \in Groups \cup {None}
    BY Zenon DEF Typed, TypeOK, GetPodGroup
  <2>7. CASE StartPass
    <3>1. w' \in Passes
      BY Zenon, <2>7 DEF StartPass, Passes, Typed, TypeOK
    <3> QED
      BY Zenon, <2>0, <2>1, <2>5, <2>6, <2>7, <3>1 DEF StartPass, Stages
  <2>8. CASE SyncPodGroup
    <3>1. Pass
      <4>1. CASE To("delay")
        BY Zenon, <2>4, <2>8, <4>1 DEF SyncPodGroup, Stages
      <4>2. CASE w' = [w EXCEPT !.group = GetPodGroup]
                 /\ pc' = (IF GetPodGroup = None THEN "create" ELSE "update") /\ UNCHANGED queued
        <5>1. w' \in Passes
          BY Zenon, <2>2, <2>6, <2>8, <4>2 DEF SyncPodGroup, Passes
        <5> QED
          BY Zenon, <4>2, <5>1 DEF Stages, Typed, TypeOK
      <4> QED
        BY Zenon, <2>8, <4>1, <4>2 DEF SyncPodGroup
    <3>2. Kept
      BY Zenon, <2>0, <2>8 DEF SyncPodGroup
    <3> QED
      BY Zenon, <2>1, <2>5, <2>6, <2>8, <3>1, <3>2 DEF SyncPodGroup
  <2>9. CASE UpdatePodGroup
    <3>1. Pass /\ Kept /\ UNCHANGED <<status, pods>>
      BY Zenon, <2>0, <2>4, <2>9 DEF UpdatePodGroup, Stages
    <3>2. PICK fill \in pgSpecFill[Size] :
             KeptGroup \/ (group = w.group /\ Put([w.group EXCEPT !.spec = fill]))
      BY Zenon, <2>9 DEF UpdatePodGroup, Size
    <3>3. CASE Put([w.group EXCEPT !.spec = fill])
      <4> DEFINE g == [w.group EXCEPT !.spec = fill]
      <4>1. w \in Passes /\ w.group # None /\ fill \in GroupSpecs
        BY Zenon, <2>2, <2>9, <3>2, FillsAreSpecs DEF UpdatePodGroup, GangInv, Held, Shape
      <4>2. w.group \in Groups
        BY Zenon, <4>1 DEF Passes
      <4>3. g \in Groups
        BY Zenon, <4>1, <4>2 DEF Groups
      <4> HIDE DEF g
      <4>4. Put(g)
        BY Zenon, <3>3 DEF g
      <4> QED
        BY Zenon, <2>5, <2>6, <3>1, <4>3, <4>4, PutType
    <3> QED
      BY Zenon, <2>1, <2>5, <2>6, <3>1, <3>2, <3>3
  <2>10. CASE CreatePodGroup
    <3>1. /\ Pass /\ UNCHANGED <<scheduler, spec, cluster, cGroup, cPods, crashes, status, pods>>
          /\ failures' \in 0 .. MaxFaults
      BY Zenon, <2>0, <2>4, <2>10 DEF CreatePodGroup, Stages
    <3>2. CASE UNCHANGED <<group, groups, feed>>
      BY Zenon, <2>1, <2>5, <2>6, <3>1, <3>2
    <3>3. CASE /\ groups < MaxGroups /\ groups' = groups + 1
               /\ \E fill \in pgSpecFill[Size] :
                    Put([uid |-> groups + 1, spec |-> fill, phase |-> ""])
      <4>1. PICK fill \in pgSpecFill[Size] :
                   Put([uid |-> groups + 1, spec |-> fill, phase |-> ""])
        BY Zenon, <3>3
      <4> DEFINE g == [uid |-> groups + 1, spec |-> fill, phase |-> ""]
      <4>2. groups' \in 0 .. MaxGroups /\ groups + 1 \in 1 .. MaxGroups
        <5>1. groups \in 0 .. MaxGroups /\ MaxGroups \in Nat
          BY Zenon, BoundsAssumption DEF Typed, TypeOK
        <5>2. groups < MaxGroups /\ groups' = groups + 1
          BY Zenon, <3>3
        <5> QED
          BY <5>1, <5>2
      <4>3. fill \in GroupSpecs
        BY Zenon, <2>10, <4>1, FillsAreSpecs DEF CreatePodGroup, GangInv, Shape
      <4>4. g \in Groups
        BY Zenon, <4>2, <4>3 DEF Groups, Phases
      <4>5. Group
        BY Zenon, <4>1, <4>4, PutType
      <4> QED
        BY Zenon, <3>1, <4>2, <4>5 DEF Typed, TypeOK, Passes
    <3> QED
      BY Zenon, <2>10, <3>2, <3>3 DEF CreatePodGroup, Size
  <2>11. CASE GetCreatedPodGroup
    <3>1. Pass /\ Kept
      BY Zenon, <2>0, <2>4, <2>11 DEF GetCreatedPodGroup, Stages
    <3> QED
      BY Zenon, <2>1, <2>5, <2>6, <2>11, <3>1 DEF GetCreatedPodGroup
  <2>12. CASE DelayPods \/ EndPass \/ Suspended
    <3>1. /\ w \in Passes /\ KeptGroup /\ UNCHANGED pods
          /\ UNCHANGED <<scheduler, spec, cluster, groups, cGroup, cPods, crashes>>
      BY Zenon, <2>2, <2>12 DEF DelayPods, EndPass, Suspended
    <3>2. w.cluster.status \in Statuses
      BY Zenon, <3>1 DEF Passes, Clusters
    <3>3. \A b \in BOOLEAN : [w.cluster.status EXCEPT !.suspended = b] \in Statuses
      BY Zenon, <3>2 DEF Statuses
    <3>4. \A now \in Now : [suspended |-> FALSE, lastReconcile |-> now] \in Statuses
      BY BoundsAssumption DEF Now, Statuses
    <3>5. status' \in Statuses /\ Pass /\ failures' \in 0 .. MaxFaults
      <4>1. ASSUME NEW st \in Statuses, UpdateClusterStatusInApiServer(st)
            PROVE  status' \in Statuses /\ Pass /\ failures' \in 0 .. MaxFaults
        BY Zenon, <2>0, <4>1, StatusType DEF Stages
      <4>2. CASE UNCHANGED status /\ NoError /\ Finish
        BY Zenon, <2>0, <2>3, <2>6, <4>2
      <4> QED
        BY Zenon, <2>12, <3>3, <3>4, <4>1, <4>2 DEF DelayPods, EndPass, Suspended
    <3> QED
      BY Zenon, <2>1, <2>5, <2>6, <3>1, <3>5
  <2>13. CASE LaunchPods \/ DeletePods
    <3>1. Pass /\ pods' \in PodStates /\ Kept
      BY Zenon, <2>0, <2>3, <2>4, <2>6, <2>13 DEF LaunchPods, DeletePods, Stages, PodStates
    <3> QED
      BY Zenon, <2>1, <2>5, <2>6, <2>13, <3>1 DEF LaunchPods, DeletePods
  <2>14. CASE DeletePodGroup
    <3>1. Pass /\ Kept
      BY Zenon, <2>0, <2>3, <2>4, <2>14 DEF DeletePodGroup, Stages
    <3>2. Group
      BY Zenon, <2>1, <2>14, PutType DEF DeletePodGroup
    <3> QED
      BY Zenon, <2>5, <2>6, <2>14, <3>1, <3>2 DEF DeletePodGroup
  <2>15. CASE \E suspend \in BOOLEAN, size \in DOMAIN Sizes : Edit(suspend, size)
    <3>1. spec'.suspend \in BOOLEAN /\ spec' \in Specs
      <4>1. spec.generation < MaxEdits /\ spec.generation \in 0 .. MaxEdits
        BY Zenon, <2>15 DEF Edit, Typed, TypeOK, Specs
      <4>2. spec.generation + 1 \in 0 .. MaxEdits
        BY <4>1, BoundsAssumption
      <4> QED
        BY <2>15, <4>2 DEF Edit, Specs
    <3> QED
      BY Zenon, <2>15, <3>1 DEF Edit, Typed, TypeOK, Passes
  <2>16. CASE Schedule
    <3>1. PICK p \in Phases : Put([group EXCEPT !.phase = p])
      BY Zenon, <2>16 DEF Schedule, Phases
    <3>2. group \in Groups
      BY Zenon, <2>16 DEF Schedule, Typed, TypeOK
    <3>3. [group EXCEPT !.phase = p] \in Groups
      BY Zenon, <3>2 DEF Groups
    <3>4. Group
      BY Zenon, <3>1, <3>3, PutType
    <3> QED
      BY Zenon, <2>16, <3>4 DEF Schedule, Typed, TypeOK, Passes
  <2>17. CASE PodsGone \/ DeliverPods \/ Resync \/ UNCHANGED vars
    BY Zenon, <2>17 DEF PodsGone, DeliverPods, Resync, vars, Typed, TypeOK, PodStates, Passes
  <2>18. CASE DeliverCluster \/ Crash
    <3>1. [spec |-> spec, status |-> status] \in Clusters
      BY Zenon DEF Typed, TypeOK, Clusters
    <3>2. Crash => crashes' \in 0 .. MaxFaults
      <4> SUFFICES ASSUME Crash PROVE crashes' \in 0 .. MaxFaults
        BY Zenon
      <4>1. /\ crashes \in 0 .. MaxFaults /\ failures \in 0 .. MaxFaults /\ MaxFaults \in Nat
            /\ crashes + failures < MaxFaults /\ crashes' = crashes + 1
        BY Zenon, BoundsAssumption DEF Crash, Typed, TypeOK
      <4> QED
        BY <4>1
    <3>3. CASE DeliverCluster
      BY Zenon, <3>1, <3>3 DEF DeliverCluster, Typed, TypeOK, Passes
    <3>4. CASE Crash
      <4>1. <<>> \in Seq(Groups \cup {None}) /\ Len(<<>>) <= MaxLag
        BY BoundsAssumption
      <4> QED
        BY Zenon, <3>1, <3>2, <3>4, <4>1 DEF Crash, Typed, TypeOK, Stages
    <3> QED
      BY Zenon, <2>18, <3>3, <3>4
  <2>19. CASE DeliverGroup
    <3>1. cGroup' \in Groups \cup {None} /\ feed' \in Seq(Groups \cup {None})
          /\ Len(feed') <= MaxLag
      BY <2>19, BoundsAssumption DEF DeliverGroup, Typed, TypeOK
    <3>2. queued' \in BOOLEAN
      BY Zenon, <2>19 DEF DeliverGroup, Typed, TypeOK
    <3> QED
      BY Zenon, <2>19, <3>1, <3>2 DEF DeliverGroup, Typed, TypeOK, Passes
  <2> QED
    BY Zenon, <2>7, <2>8, <2>9, <2>10, <2>11, <2>12, <2>13, <2>14, <2>15, <2>16, <2>17, <2>18,
       <2>19 DEF Next, PassStep
<1>3. Typed => TypeOK
  BY Zenon DEF Typed
<1> QED
  BY <1>1, <1>2, <1>3, InitGang, NextGang, PTL DEF Spec

-----------------------------------------------------------------------------
(* Sums over finite sets.                                                  *)

(* The sums of q over the subsets of S, as the library adds them up. *)
AreSums(h, q, S) ==
    \A s \in SUBSET S : h[s] = IF s = {} THEN 0 ELSE q[Some(s)] + h[s \ {Some(s)}]

(* They are what SumFunctionOnSet computes. *)
LEMMA SumFold ==
    ASSUME NEW D, NEW q \in [D -> Int], NEW S \in SUBSET D, IsFiniteSet(S)
    PROVE  \E h : AreSums(h, q, S) /\ SumFunctionOnSet(q, S) = h[S]
<1> DEFINE top == [s \in SUBSET S |-> Some(s)]
           F == [p \in (SUBSET S) \X Int |-> IF p[1] = {} THEN 0 ELSE q[Some(p[1])] + p[2]]
           h == CHOOSE iter : iter = [s \in SUBSET S |->
                    IF s = {} THEN 0 ELSE q[Some(s)] + iter[s \ {Some(s)}]]
<1>1. \A s \in SUBSET S : s # {} => Some(s) \in s
  BY Zenon DEF Some
<1>2. F \in [(SUBSET S) \X Int -> Int]
  <2>1. ASSUME NEW p \in (SUBSET S) \X Int, p[1] # {}
        PROVE  q[Some(p[1])] \in Int /\ p[2] \in Int
    BY Zenon, <1>1, <2>1
  <2>2. ASSUME NEW p \in (SUBSET S) \X Int
        PROVE  (IF p[1] = {} THEN 0 ELSE q[Some(p[1])] + p[2]) \in Int
    BY <2>1
  <2> QED
    BY Zenon, <2>2
<1>3. CanFold(S, top, Int, 0, F)
  <2>1. 0 \in Int
    OBVIOUS
  <2> QED
    BY Zenon, <1>1, <1>2, <2>1 DEF CanFold
<1>4. PICK g : IsFold(g, S, top, Int, 0, F)
  <2> HIDE DEF top, F
  <2> QED
    BY Zenon, <1>3, FoldExists
<1>5. g = [s \in SUBSET S |-> IF s = {} THEN 0 ELSE q[Some(s)] + g[s \ {Some(s)}]]
  <2>1. ASSUME NEW s \in SUBSET S, s # {}
        PROVE  F[<<s, g[s \ {top[s]}]>>] = q[Some(s)] + g[s \ {Some(s)}]
    BY Zenon, <1>4, <2>1 DEF IsFold
  <2> HIDE DEF F, top
  <2> QED
    BY Zenon, <1>4, <2>1 DEF IsFold
<1>6. h = [s \in SUBSET S |-> IF s = {} THEN 0 ELSE q[Some(s)] + h[s \ {Some(s)}]]
  BY Zenon, <1>5
<1>7. SumFunctionOnSet(q, S) = h[S]
  BY Zenon DEF SumFunctionOnSet, FoldFunctionOnSet, MapThenFoldSet, Some
<1> HIDE DEF h
<1> QED
  BY Zenon, <1>6, <1>7 DEF AreSums

(* Each of them is an integer. *)
LEMMA SumsAreIntegers ==
    ASSUME NEW D, NEW q \in [D -> Int], NEW S \in SUBSET D, IsFiniteSet(S),
           NEW h, AreSums(h, q, S)
    PROVE  \A s \in SUBSET S : h[s] \in Int
<1> DEFINE G == {s \in SUBSET S : h[s] \in Int}
<1>1. {} \in G
  <2>1. h[{}] = 0
    BY Zenon DEF AreSums
  <2>2. 0 \in Int
    OBVIOUS
  <2> QED
    BY Zenon, <2>1, <2>2
<1>2. ASSUME NEW s \in SUBSET S, s # {}, \A x \in s : s \ {x} \in G
      PROVE  s \in G
  <2>1. Some(s) \in s /\ h[s] = q[Some(s)] + h[s \ {Some(s)}]
    BY Zenon, <1>2 DEF AreSums, Some
  <2>2. h[s \ {Some(s)}] \in Int /\ q[Some(s)] \in Int
    BY Zenon, <1>2, <2>1
  <2>3. h[s] \in Int
    BY <2>1, <2>2
  <2> QED
    BY Zenon, <2>3
<1>3. \A s \in SUBSET S : s \in G
  <2> HIDE DEF G
  <2> QED
    BY Zenon, <1>1, <1>2, SubsetInduction
<1> QED
  BY Zenon, <1>3

(* Two such folds agree where both are defined. *)
LEMMA SumFoldUnique ==
    ASSUME NEW S, NEW T \in SUBSET S, IsFiniteSet(T), NEW q, NEW h, NEW g,
           AreSums(h, q, S), AreSums(g, q, T)
    PROVE  g[T] = h[T]
<1>0. /\ \A s \in SUBSET S : h[s] = IF s = {} THEN 0 ELSE q[Some(s)] + h[s \ {Some(s)}]
      /\ \A s \in SUBSET T : g[s] = IF s = {} THEN 0 ELSE q[Some(s)] + g[s \ {Some(s)}]
  BY Zenon DEF AreSums
<1> DEFINE G == {s \in SUBSET T : g[s] = h[s]}
<1>1. {} \in G
  BY Zenon, <1>0
<1>2. ASSUME NEW s \in SUBSET T, s # {}, \A x \in s : s \ {x} \in G
      PROVE  s \in G
  <2>1. Some(s) \in s
    BY Zenon, <1>2 DEF Some
  <2>2. g[s \ {Some(s)}] = h[s \ {Some(s)}]
    BY Zenon, <1>2, <2>1
  <2>3. g[s] = q[Some(s)] + g[s \ {Some(s)}]
    BY Zenon, <1>0, <1>2
  <2>4. h[s] = q[Some(s)] + h[s \ {Some(s)}]
    BY Zenon, <1>0, <1>2
  <2> QED
    BY Zenon, <2>2, <2>3, <2>4
<1>3. \A s \in SUBSET T : s \in G
  <2> HIDE DEF G
  <2> QED
    BY Zenon, <1>1, <1>2, SubsetInduction
<1> QED
  BY Zenon, <1>3

(* A sum is the sum without one of its terms and that term, whichever. *)
LEMMA SumStep ==
    ASSUME NEW D, NEW q \in [D -> Int], NEW S \in SUBSET D, IsFiniteSet(S)
    PROVE  /\ SumFunctionOnSet(q, {}) = 0
           /\ SumFunctionOnSet(q, S) \in Int
           /\ \A x \in S : SumFunctionOnSet(q, S) = q[x] + SumFunctionOnSet(q, S \ {x})
<1>1. PICK h : AreSums(h, q, S) /\ SumFunctionOnSet(q, S) = h[S]
  BY Zenon, SumFold
<1>0. /\ \A s \in SUBSET S : h[s] \in Int
      /\ \A s \in SUBSET S : h[s] = IF s = {} THEN 0 ELSE q[Some(s)] + h[s \ {Some(s)}]
  <2>1. \A s \in SUBSET S : h[s] \in Int
    BY Zenon, <1>1, SumsAreIntegers
  <2> QED
    BY Zenon, <1>1, <2>1 DEF AreSums
<1>2. ASSUME NEW s \in SUBSET S PROVE SumFunctionOnSet(q, s) = h[s]
  <2>1. IsFiniteSet(s) /\ s \in SUBSET D
    BY Zenon, FS_Subset
  <2>2. PICK g : AreSums(g, q, s) /\ SumFunctionOnSet(q, s) = g[s]
    BY Zenon, <2>1, SumFold
  <2>3. g[s] = h[s]
    BY SMT, <1>1, <2>1, <2>2, SumFoldUnique
  <2> QED
    BY Zenon, <2>2, <2>3
<1> DEFINE G == {s \in SUBSET S : \A x \in s : h[s] = q[x] + h[s \ {x}]}
<1>3. {} \in G
  BY Zenon
<1>4. ASSUME NEW s \in SUBSET S, s # {}, \A x \in s : s \ {x} \in G
      PROVE  s \in G
  <2> SUFFICES ASSUME NEW x \in s PROVE h[s] = q[x] + h[s \ {x}]
    BY Zenon
  <2> DEFINE y == Some(s)
  <2>1. y \in s /\ h[s] = q[y] + h[s \ {y}]
    BY Zenon, <1>0, <1>4 DEF Some
  <2> HIDE DEF y
  <2>2. CASE x = y
    BY Zenon, <2>1, <2>2
  <2>3. CASE x # y
    <3>1. x \in s \ {y} /\ y \in s \ {x} /\ (s \ {y}) \ {x} = (s \ {x}) \ {y}
      BY Zenon, <2>1, <2>3
    <3>2. h[s \ {y}] = q[x] + h[(s \ {y}) \ {x}]
      BY Zenon, <1>4, <2>1, <3>1
    <3>3. h[s \ {x}] = q[y] + h[(s \ {x}) \ {y}]
      BY Zenon, <1>4, <3>1
    <3>4. q[x] \in Int /\ q[y] \in Int /\ h[(s \ {x}) \ {y}] \in Int
      <4>1. (s \ {x}) \ {y} \in SUBSET S
        BY Zenon
      <4> QED
        BY Zenon, <1>0, <2>1, <4>1
    <3> DEFINE a == q[x]
               b == q[y]
               r == h[(s \ {x}) \ {y}]
    <3>5. h[s] = b + (a + r) /\ h[s \ {x}] = b + r /\ a \in Int /\ b \in Int /\ r \in Int
      BY Zenon, <2>1, <3>1, <3>2, <3>3, <3>4
    <3> HIDE DEF a, b, r
    <3>6. h[s] = a + h[s \ {x}]
      BY <3>5
    <3> QED
      BY Zenon, <3>6 DEF a
  <2> QED
    BY Zenon, <2>2, <2>3
<1>5. S \in G
  <2> HIDE DEF G
  <2>1. \A s \in SUBSET S : s \in G
    BY Zenon, <1>3, <1>4, SubsetInduction
  <2> QED
    BY Zenon, <2>1
<1>6. {} \in SUBSET S /\ h[{}] = 0 /\ h[S] \in Int
  BY Zenon, <1>0
<1>7. ASSUME NEW x \in S PROVE SumFunctionOnSet(q, S) = q[x] + SumFunctionOnSet(q, S \ {x})
  <2>1. h[S] = q[x] + h[S \ {x}]
    BY Zenon, <1>5
  <2>2. S \ {x} \in SUBSET S
    BY Zenon
  <2> QED
    BY Zenon, <1>1, <1>2, <2>1, <2>2
<1>8. SumFunctionOnSet(q, {}) = 0 /\ SumFunctionOnSet(q, S) \in Int
  BY Zenon, <1>1, <1>2, <1>6
<1> QED
  BY Zenon, <1>7, <1>8

(* A sum of zeros. *)
LEMMA SumOfZeros ==
    ASSUME NEW D, NEW q \in [D -> Int], NEW S \in SUBSET D, IsFiniteSet(S),
           \A x \in S : q[x] = 0
    PROVE  SumFunctionOnSet(q, S) = 0
<1> DEFINE G == {s \in SUBSET S : SumFunctionOnSet(q, s) = 0}
<1>1. {} \in G
  BY Zenon, SumStep
<1>2. ASSUME NEW s \in SUBSET S, s # {}, \A x \in s : s \ {x} \in G
      PROVE  s \in G
  <2>1. PICK x \in s : TRUE
    BY Zenon, <1>2
  <2>2. IsFiniteSet(s) /\ s \in SUBSET D
    BY Zenon, FS_Subset
  <2>3. SumFunctionOnSet(q, s) = q[x] + SumFunctionOnSet(q, s \ {x})
    BY SMT, <2>1, <2>2, SumStep
  <2>4. q[x] = 0 /\ SumFunctionOnSet(q, s \ {x}) = 0
    BY Zenon, <1>2
  <2>5. SumFunctionOnSet(q, s) = 0
    BY <2>3, <2>4
  <2> QED
    BY Zenon, <2>5
<1>3. \A s \in SUBSET S : s \in G
  <2> HIDE DEF G
  <2> QED
    BY Zenon, <1>1, <1>2, SubsetInduction
<1> QED
  BY Zenon, <1>3
-----------------------------------------------------------------------------
(* Folds over sequences.                                                   *)

(* Max of a finite, nonempty set of numbers is its greatest element. *)
LEMMA MaxElement ==
    ASSUME NEW n \in Nat, NEW s \in SUBSET (1 .. n), s # {}
    PROVE  Max(s) \in s /\ \A y \in s : Max(s) >= y
<1> DEFINE G == {m \in Nat : \A r \in SUBSET (1 .. m) :
                    r # {} => \E x \in r : \A y \in r : x >= y}
<1>1. 0 \in G
  <2>1. 0 \in Nat /\ 1 .. 0 = {}
    OBVIOUS
  <2> QED
    BY Zenon, <2>1
<1>2. ASSUME NEW m \in Nat, m \in G PROVE m + 1 \in G
  <2>0. m + 1 \in Nat
    OBVIOUS
  <2> SUFFICES ASSUME NEW r \in SUBSET (1 .. m + 1), r # {}
               PROVE  \E x \in r : \A y \in r : x >= y
    BY Zenon, <2>0
  <2>1. CASE m + 1 \in r
    <3>1. \A y \in r : m + 1 >= y
      BY <1>2
    <3> QED
      BY Zenon, <2>1, <3>1
  <2>2. CASE m + 1 \notin r
    <3>1. r \in SUBSET (1 .. m)
      BY <1>2, <2>2
    <3> QED
      BY Zenon, <1>2, <3>1
  <2> QED
    BY Zenon, <2>1, <2>2
<1>3. n \in G
  <2> HIDE DEF G
  <2> QED
    BY Zenon, <1>1, <1>2, NatSetInduction
<1>4. \E x \in s : \A y \in s : x >= y
  BY Zenon, <1>3
<1> QED
  BY Zenon, <1>4 DEF Max

(* A fold from the first index to the last, as the library defines it. *)
IsMaxFold(g, n, b, F) ==
    \A s \in SUBSET (1 .. n) :
        g[s] = IF s = {} THEN b ELSE F[<<Max(s), g[s \ {Max(s)}]>>]

(* There is one, with all its values in V. *)
LEMMA FoldByIndex ==
    ASSUME NEW n \in Nat, NEW V, NEW b \in V, NEW F \in [(1 .. n) \X V -> V]
    PROVE  \E g : g \in [SUBSET (1 .. n) -> V] /\ IsMaxFold(g, n, b, F)
<1> DEFINE S == 1 .. n
           top == [s \in SUBSET S |-> Max(s)]
           H == [p \in (SUBSET S) \X V |-> IF p[1] = {} THEN b ELSE F[<<Max(p[1]), p[2]>>]]
<1>1. IsFiniteSet(S)
  BY FS_Interval
<1>2. \A s \in SUBSET S : s # {} => Max(s) \in s
  BY Zenon, MaxElement
<1>3. H \in [(SUBSET S) \X V -> V]
  <2> HIDE DEF S
  <2>0. F \in [S \X V -> V]
    BY Zenon DEF S
  <2>1. ASSUME NEW p \in (SUBSET S) \X V, p[1] # {}
        PROVE  F[<<Max(p[1]), p[2]>>] \in V
    <3>1. Max(p[1]) \in S /\ p[2] \in V
      BY Zenon, <1>2, <2>1
    <3> QED
      BY Zenon, <2>0, <3>1
  <2> QED
    BY Zenon, <2>1
<1> HIDE DEF S
<1>4. CanFold(S, top, V, b, H)
  BY Zenon, <1>1, <1>2, <1>3 DEF CanFold
<1>5. PICK g : IsFold(g, S, top, V, b, H)
  <2> HIDE DEF top, H
  <2> QED
    BY Zenon, <1>4, FoldExists
<1>6. g \in [SUBSET S -> V]
  BY Zenon, <1>5 DEF IsFold
<1>7. ASSUME NEW s \in SUBSET S
      PROVE  g[s] = IF s = {} THEN b ELSE F[<<Max(s), g[s \ {Max(s)}]>>]
  <2>1. g[s] = IF s = {} THEN b ELSE H[<<s, g[s \ {top[s]}]>>]
    BY Zenon, <1>5 DEF IsFold
  <2>2. s \ {top[s]} \in SUBSET S
    BY Zenon
  <2>3. <<s, g[s \ {top[s]}]>> \in (SUBSET S) \X V
    BY Zenon, <1>6, <2>2
  <2> QED
    BY Zenon, <2>1, <2>3
<1> QED
  BY Zenon, <1>6, <1>7 DEF IsMaxFold, S

(* The indices that FoldLeft takes away one by one. *)
LEMMA MaxOfPrefix ==
    ASSUME NEW n \in Nat, NEW k \in 1 .. n
    PROVE  /\ Max(1 .. k) = k /\ (1 .. k) \ {k} = 1 .. (k - 1)
           /\ 1 .. k \in SUBSET (1 .. n) /\ 1 .. k # {}
<1>1. 1 .. k \in SUBSET (1 .. n) /\ 1 .. k # {} /\ k \in 1 .. k
  OBVIOUS
<1>2. Max(1 .. k) \in 1 .. k /\ \A y \in 1 .. k : Max(1 .. k) >= y
  BY Zenon, <1>1, MaxElement
<1>3. Max(1 .. k) = k
  BY <1>1, <1>2
<1> QED
  BY <1>1, <1>3

-----------------------------------------------------------------------------
(* What containers, pods and types add to the resources of a gang.         *)

AddContainer(l, c) == AddResourceList(l, c.requests, c.limits)
AddPod(l, task) == FoldLeft(AddContainer, l, task.containers)

(* A container adds what it asks for. *)
LEMMA AddContainerIsAdd ==
    ASSUME NEW N, NEW l \in Quota!ListsOver(N), NEW c, Asked(c) \in Quota!ListsOver(N)
    PROVE  /\ AddContainer(l, c) = Quota!Add(l, Asked(c))
           /\ AddContainer(l, c) \in Quota!ListsOver(N)
<1>1. l \in Lists!ListsOver(N) /\ Asked(c) \in Lists!ListsOver(N)
  BY Zenon DEF Quota!ListsOver, Lists!ListsOver
<1>2. Quota!Add(l, Asked(c)) = Lists!Add(l, Asked(c))
  BY Zenon DEF Quota!Add, Lists!Add
<1>3. Quota!Add(l, Asked(c)) \in Quota!ListsOver(N)
  <2>1. Lists!Add(l, Asked(c)) \in Lists!ListsOver(N)
    BY Zenon, <1>1, ListsAreClosed
  <2> QED
    BY Zenon, <1>2, <2>1 DEF Quota!ListsOver, Lists!ListsOver
<1>4. CASE c.requests = None /\ c.limits = None
  <2>1. AddContainer(l, c) = l /\ Asked(c) = [k \in {} |-> 0]
    BY Zenon, <1>4 DEF AddContainer, AddResourceList, Asked
  <2>2. DOMAIN l \cup DOMAIN [k \in {} |-> 0] = DOMAIN l
    BY Zenon
  <2>3. l = [k \in DOMAIN l |-> l[k]]
    BY Zenon, <1>1, ListShape
  <2>4. Quota!Add(l, [k \in {} |-> 0]) = l
    BY Zenon, <2>2, <2>3 DEF Quota!Add
  <2> QED
    BY Zenon, <2>1, <2>4
<1>5. CASE c.requests # None \/ c.limits # None
  <2>1. AddContainer(l, c) = Quota!Add(l, Asked(c))
    BY Zenon, <1>5 DEF AddContainer, AddResourceList, Asked
  <2> QED
    BY Zenon, <1>3, <2>1
<1> QED
  BY Zenon, <1>4, <1>5

(* The fold over the containers of a pod, one by one. *)
ContainersAdded(f, l, cs, n) ==
    f[0] = l /\ \A k \in 1 .. n : f[k] = AddContainer(f[k - 1], cs[k])

(* FoldLeft gives the last of them. *)
LEMMA ContainerFold ==
    ASSUME NEW N, NEW l \in Quota!ListsOver(N), NEW n \in Nat,
           NEW cs, DOMAIN cs = 1 .. n, \A k \in 1 .. n : Asked(cs[k]) \in Quota!ListsOver(N)
    PROVE  \E f : ContainersAdded(f, l, cs, n) /\ FoldLeft(AddContainer, l, cs) = f[n]
<1> DEFINE V == Quota!ListsOver(N)
           S == 1 .. n
           F == [p \in S \X V |-> AddContainer(p[2], cs[p[1]])]
           h == CHOOSE iter : iter = [s \in SUBSET S |->
                    IF s = {} THEN l ELSE AddContainer(iter[s \ {Max(s)}], cs[Max(s)])]
           f == [k \in 0 .. n |-> h[1 .. k]]
<1> HIDE DEF V, S
<1>1. \A v \in V, k \in S : AddContainer(v, cs[k]) \in V
  BY Zenon, AddContainerIsAdd DEF V, S
<1>2. F \in [S \X V -> V]
  BY Zenon, <1>1
<1>3. PICK g : g \in [SUBSET S -> V] /\ IsMaxFold(g, n, l, F)
  <2> HIDE DEF F
  <2> QED
    BY Zenon, <1>2, FoldByIndex DEF S, V
<1>4. g = [s \in SUBSET S |->
             IF s = {} THEN l ELSE AddContainer(g[s \ {Max(s)}], cs[Max(s)])]
  <2>1. ASSUME NEW s \in SUBSET S, s # {}
        PROVE  g[s] = AddContainer(g[s \ {Max(s)}], cs[Max(s)])
    <3>1. Max(s) \in S /\ s \ {Max(s)} \in SUBSET S
      BY Zenon, <2>1, MaxElement DEF S
    <3>2. <<Max(s), g[s \ {Max(s)}]>> \in S \X V
      BY Zenon, <1>3, <3>1
    <3>3. g[s] = F[<<Max(s), g[s \ {Max(s)}]>>]
      BY Zenon, <1>3, <2>1 DEF IsMaxFold, S
    <3> QED
      BY Zenon, <3>2, <3>3
  <2>2. g[{}] = l
    BY Zenon, <1>3 DEF IsMaxFold, S
  <2> QED
    BY Zenon, <1>3, <2>1, <2>2
<1>5. h = [s \in SUBSET S |->
             IF s = {} THEN l ELSE AddContainer(h[s \ {Max(s)}], cs[Max(s)])]
  BY Zenon, <1>4
<1>6. FoldLeft(AddContainer, l, cs) = h[S]
  BY Zenon DEF FoldLeft, MapThenFoldSet, S
<1> HIDE DEF h
<1>7. \A k \in S : f[k] = AddContainer(f[k - 1], cs[k])
  <2> SUFFICES ASSUME NEW k \in S PROVE f[k] = AddContainer(f[k - 1], cs[k])
    BY Zenon
  <2>1. k \in 0 .. n /\ k - 1 \in 0 .. n
    BY DEF S
  <2>2. /\ Max(1 .. k) = k /\ (1 .. k) \ {k} = 1 .. (k - 1)
        /\ 1 .. k \in SUBSET S /\ 1 .. k # {}
    BY Zenon, MaxOfPrefix DEF S
  <2>3. h[1 .. k] = AddContainer(h[1 .. (k - 1)], cs[k])
    BY Zenon, <1>5, <2>2
  <2> QED
    BY Zenon, <2>1, <2>3
<1>8. f[0] = l /\ f[n] = h[S]
  <2>1. 0 \in 0 .. n /\ n \in 0 .. n /\ 1 .. 0 = {}
    OBVIOUS
  <2>2. h[{}] = l
    BY Zenon, <1>5
  <2> QED
    BY Zenon, <2>1, <2>2 DEF S
<1> QED
  BY Zenon, <1>6, <1>7, <1>8 DEF S, ContainersAdded

(* A replica spec whose containers ask for resources named in N. *)
TaskOver(task, N) ==
    /\ \E n \in Nat : DOMAIN task.containers = 1 .. n
    /\ \A k \in DOMAIN task.containers : Asked(task.containers[k]) \in Quota!ListsOver(N)

(* A pod adds names of N only. *)
LEMMA AddPodType ==
    ASSUME NEW N, NEW l \in Quota!ListsOver(N), NEW task, TaskOver(task, N)
    PROVE  AddPod(l, task) \in Quota!ListsOver(N)
<1> DEFINE cs == task.containers
<1>1. PICK n \in Nat : DOMAIN cs = 1 .. n
  BY Zenon DEF TaskOver
<1>2. \A k \in 1 .. n : Asked(cs[k]) \in Quota!ListsOver(N)
  BY Zenon, <1>1 DEF TaskOver
<1> HIDE DEF cs
<1>3. PICK f : ContainersAdded(f, l, cs, n) /\ FoldLeft(AddContainer, l, cs) = f[n]
  BY ZenonT(30), <1>1, <1>2, ContainerFold
<1>0. f[0] = l /\ \A k \in 1 .. n : f[k] = AddContainer(f[k - 1], cs[k])
  BY Zenon, <1>3 DEF ContainersAdded
<1> DEFINE G == {k \in Nat : k <= n => f[k] \in Quota!ListsOver(N)}
<1>4. 0 \in G
  BY <1>0
<1>5. ASSUME NEW k \in Nat, k \in G PROVE k + 1 \in G
  <2>1. CASE k + 1 <= n
    <3>1. k <= n /\ k + 1 \in 1 .. n /\ (k + 1) - 1 = k /\ k + 1 \in Nat
      BY <2>1
    <3>2. f[k] \in Quota!ListsOver(N) /\ f[k + 1] = AddContainer(f[k], cs[k + 1])
      BY Zenon, <1>0, <1>5, <3>1
    <3>3. f[k + 1] \in Quota!ListsOver(N)
      BY Zenon, <1>2, <3>1, <3>2, AddContainerIsAdd
    <3> QED
      BY Zenon, <3>1, <3>3
  <2>2. CASE ~(k + 1 <= n)
    BY <2>2
  <2> QED
    BY Zenon, <2>1, <2>2
<1>6. n \in G /\ n <= n
  <2>1. n <= n
    OBVIOUS
  <2> HIDE DEF G
  <2> QED
    BY Zenon, <1>4, <1>5, <2>1, NatSetInduction
<1> QED
  BY Zenon, <1>3, <1>6 DEF AddPod, cs

(* The fold over the pods of a type, one by one. *)
PodsAdded(f, l, task, n) ==
    f[0] = l /\ \A k \in 1 .. n : f[k] = AddPod(f[k - 1], task)

(* AddPods, pod by pod. *)
LEMMA PodFold ==
    ASSUME NEW N, NEW l \in Quota!ListsOver(N), NEW n \in Nat, NEW task, TaskOver(task, N)
    PROVE  \E f : PodsAdded(f, l, task, n) /\ AddPods(l, task, n) = f[n]
<1> DEFINE V == Quota!ListsOver(N)
           S == 1 .. n
           F == [p \in S \X V |-> AddPod(p[2], task)]
           h == CHOOSE iter : iter = [s \in SUBSET S |->
                    IF s = {} THEN l ELSE AddPod(iter[s \ {Max(s)}], task)]
           f == [k \in 0 .. n |-> h[1 .. k]]
<1> HIDE DEF V, S
<1>1. \A v \in V : AddPod(v, task) \in V
  BY Zenon, AddPodType DEF V
<1>2. F \in [S \X V -> V]
  BY Zenon, <1>1
<1>3. PICK g : g \in [SUBSET S -> V] /\ IsMaxFold(g, n, l, F)
  <2> HIDE DEF F
  <2> QED
    BY Zenon, <1>2, FoldByIndex DEF S, V
<1>4. g = [s \in SUBSET S |-> IF s = {} THEN l ELSE AddPod(g[s \ {Max(s)}], task)]
  <2>1. ASSUME NEW s \in SUBSET S, s # {}
        PROVE  g[s] = AddPod(g[s \ {Max(s)}], task)
    <3>1. Max(s) \in S /\ s \ {Max(s)} \in SUBSET S
      BY Zenon, <2>1, MaxElement DEF S
    <3>2. <<Max(s), g[s \ {Max(s)}]>> \in S \X V
      BY Zenon, <1>3, <3>1
    <3>3. g[s] = F[<<Max(s), g[s \ {Max(s)}]>>]
      BY Zenon, <1>3, <2>1 DEF IsMaxFold, S
    <3> QED
      BY Zenon, <3>2, <3>3
  <2>2. g[{}] = l
    BY Zenon, <1>3 DEF IsMaxFold, S
  <2> QED
    BY Zenon, <1>3, <2>1, <2>2
<1>5. h = [s \in SUBSET S |-> IF s = {} THEN l ELSE AddPod(h[s \ {Max(s)}], task)]
  BY Zenon, <1>4
<1>6. AddPods(l, task, n) = h[S]
  <2>1. DOMAIN Times(n) = S
    BY Zenon DEF Times, S
  <2> QED
    BY Zenon, <2>1 DEF AddPods, AddPod, AddContainer, FoldLeft, MapThenFoldSet
<1> HIDE DEF h
<1>7. \A k \in S : f[k] = AddPod(f[k - 1], task)
  <2> SUFFICES ASSUME NEW k \in S PROVE f[k] = AddPod(f[k - 1], task)
    BY Zenon
  <2>1. k \in 0 .. n /\ k - 1 \in 0 .. n
    BY DEF S
  <2>2. /\ Max(1 .. k) = k /\ (1 .. k) \ {k} = 1 .. (k - 1)
        /\ 1 .. k \in SUBSET S /\ 1 .. k # {}
    BY Zenon, MaxOfPrefix DEF S
  <2>3. h[1 .. k] = AddPod(h[1 .. (k - 1)], task)
    BY Zenon, <1>5, <2>2
  <2> QED
    BY Zenon, <2>1, <2>3
<1>8. f[0] = l /\ f[n] = h[S]
  <2>1. 0 \in 0 .. n /\ n \in 0 .. n /\ 1 .. 0 = {}
    OBVIOUS
  <2>2. h[{}] = l
    BY Zenon, <1>5
  <2> QED
    BY Zenon, <2>1, <2>2 DEF S
<1> QED
  BY Zenon, <1>6, <1>7, <1>8 DEF S, PodsAdded

(* So do n pods. *)
LEMMA AddPodsType ==
    ASSUME NEW N, NEW l \in Quota!ListsOver(N), NEW n \in Nat, NEW task, TaskOver(task, N)
    PROVE  AddPods(l, task, n) \in Quota!ListsOver(N)
<1>0. PICK f : PodsAdded(f, l, task, n) /\ AddPods(l, task, n) = f[n]
  BY Zenon, PodFold
<1>1. f[0] = l /\ \A k \in 1 .. n : f[k] = AddPod(f[k - 1], task)
  BY Zenon, <1>0 DEF PodsAdded
<1> DEFINE G == {k \in Nat : k <= n => f[k] \in Quota!ListsOver(N)}
<1>2. 0 \in G
  BY <1>1
<1>3. ASSUME NEW k \in Nat, k \in G PROVE k + 1 \in G
  <2>1. CASE k + 1 <= n
    <3>1. k <= n /\ k + 1 \in 1 .. n /\ (k + 1) - 1 = k /\ k + 1 \in Nat
      BY <2>1
    <3>2. f[k] \in Quota!ListsOver(N) /\ f[k + 1] = AddPod(f[k], task)
      BY Zenon, <1>1, <1>3, <3>1
    <3>3. f[k + 1] \in Quota!ListsOver(N)
      BY Zenon, <3>2, AddPodType
    <3> QED
      BY Zenon, <3>1, <3>3
  <2>2. CASE ~(k + 1 <= n)
    BY <2>2
  <2> QED
    BY Zenon, <2>1, <2>2
<1>4. n \in G /\ n <= n
  <2>1. n <= n
    OBVIOUS
  <2> HIDE DEF G
  <2> QED
    BY Zenon, <1>2, <1>3, <2>1, NatSetInduction
<1> QED
  BY Zenon, <1>0, <1>4

(* How many pods of a type CalcPGMinResources counts. *)
Granted(task, m, podCnt) ==
    IF task.replicas = None THEN 0 ELSE Max({0, Min({task.replicas, m - podCnt})})
ReplicasOf(task) ==
    IF task.replicas = None \/ task.replicas < 0 THEN 0 ELSE task.replicas

(* How many pods of a type are counted: no more than there are or are      *)
(* wanted, and all unless that many are.                                   *)
LEMMA GrantedValue ==
    ASSUME NEW task, task.replicas = None \/ task.replicas \in Int, NEW m \in Nat, NEW c \in Nat
    PROVE  /\ ReplicasOf(task) \in Nat /\ Granted(task, m, c) \in Nat
           /\ Granted(task, m, c) <= ReplicasOf(task)
           /\ c <= m => c + Granted(task, m, c) <= m
           /\ Granted(task, m, c) > 0 => c < m
           /\ c + Granted(task, m, c) < m => Granted(task, m, c) = ReplicasOf(task)
<1>1. CASE task.replicas = None
  <2>1. Granted(task, m, c) = 0 /\ ReplicasOf(task) = 0
    BY Zenon, <1>1 DEF Granted, ReplicasOf
  <2> QED
    BY <2>1
<1>2. CASE task.replicas # None
  <2> DEFINE r == task.replicas
             a == Min({r, m - c})
             b == Max({0, a})
  <2>1. r \in Int
    BY Zenon, <1>2
  <2> HIDE DEF r
  <2>2. a = IF r <= m - c THEN r ELSE m - c
    <3>1. \E x \in {r, m - c} : \A y \in {r, m - c} : x =< y
      BY <2>1
    <3>2. a \in {r, m - c} /\ \A y \in {r, m - c} : a =< y
      BY Zenon, <3>1 DEF Min
    <3> HIDE DEF a
    <3> QED
      BY <2>1, <3>2
  <2>3. a \in Int
    BY <2>1, <2>2
  <2> HIDE DEF a
  <2>4. b = IF a <= 0 THEN 0 ELSE a
    <3>1. \E x \in {0, a} : \A y \in {0, a} : x >= y
      BY <2>3
    <3>2. b \in {0, a} /\ \A y \in {0, a} : b >= y
      BY Zenon, <3>1 DEF Max
    <3> HIDE DEF b
    <3> QED
      BY <2>3, <3>2
  <2>5. Granted(task, m, c) = b
    BY Zenon, <1>2 DEF Granted, a, r
  <2>6. ReplicasOf(task) = IF r < 0 THEN 0 ELSE r
    BY Zenon, <1>2 DEF ReplicasOf, r
  <2> HIDE DEF b
  <2> QED
    BY <2>1, <2>2, <2>3, <2>4, <2>5, <2>6
<1> QED
  BY Zenon, <1>1, <1>2

(* The fold over the types in an order, one by one. *)
NoTasks == [podCnt |-> 0, list |-> [k \in {} |-> 0]]
AddTask(acc, task, m) ==
    [podCnt |-> acc.podCnt + Granted(task, m, acc.podCnt),
     list |-> AddPods(acc.list, task, Granted(task, m, acc.podCnt))]
TasksAdded(f, specs, m, order, n) ==
    f[0] = NoTasks /\ \A k \in 1 .. n : f[k] = AddTask(f[k - 1], specs[order[k]], m)

(* The replica specs that the code may be given: with some numbers of      *)
(* replicas and containers that ask for resources named in N.              *)
SpecsOver(specs, N) ==
    /\ IsFiniteSet(DOMAIN specs)
    /\ \A t \in DOMAIN specs :
         /\ specs[t].replicas = None \/ specs[t].replicas \in Int
         /\ TaskOver(specs[t], N)

(* CalcPGMinResources, type by type. *)
LEMMA TaskFold ==
    ASSUME NEW N, NEW specs, SpecsOver(specs, N), NEW m \in Nat, NEW n \in Nat,
           NEW order \in [1 .. n -> DOMAIN specs]
    PROVE  \E f : /\ TasksAdded(f, specs, m, order, n)
                  /\ CalcPGMinResources(m, specs, order) = f[n].list
<1> DEFINE V == [podCnt : Nat, list : Quota!ListsOver(N)]
           S == 1 .. n
           F == [p \in S \X V |-> AddTask(p[2], specs[order[p[1]]], m)]
           h == CHOOSE iter : iter = [s \in SUBSET S |->
                    IF s = {} THEN NoTasks
                    ELSE AddTask(iter[s \ {Max(s)}], specs[order[Max(s)]], m)]
           f == [k \in 0 .. n |-> h[1 .. k]]
<1>0. NoTasks \in V
  <2>1. [k \in {} |-> 0] \in [{} -> Int] /\ 0 \in Nat
    OBVIOUS
  <2>2. [{} -> Int] \in {[names -> Int] : names \in SUBSET N}
    BY Zenon
  <2>3. [k \in {} |-> 0] \in Quota!ListsOver(N)
    BY Zenon, <2>1, <2>2 DEF Quota!ListsOver
  <2> QED
    BY Zenon, <2>1, <2>3 DEF NoTasks
<1>1. \A v \in V, k \in S : AddTask(v, specs[order[k]], m) \in V
  <2> SUFFICES ASSUME NEW v \in V, NEW k \in S PROVE AddTask(v, specs[order[k]], m) \in V
    BY Zenon
  <2> DEFINE task == specs[order[k]]
             c == Granted(task, m, v.podCnt)
  <2>1. TaskOver(task, N) /\ (task.replicas = None \/ task.replicas \in Int)
    BY Zenon DEF SpecsOver
  <2>2. v.podCnt \in Nat /\ v.list \in Quota!ListsOver(N)
    BY Zenon
  <2> HIDE DEF task
  <2>3. c \in Nat
    BY Zenon, <2>1, <2>2, GrantedValue
  <2> HIDE DEF c
  <2>4. AddPods(v.list, task, c) \in Quota!ListsOver(N)
    BY Zenon, <2>1, <2>2, <2>3, AddPodsType
  <2>5. v.podCnt + c \in Nat
    BY <2>2, <2>3
  <2> QED
    BY Zenon, <2>4, <2>5 DEF AddTask, c, task
<1> HIDE DEF V, S
<1>2. F \in [S \X V -> V]
  BY Zenon, <1>1
<1>3. PICK g : g \in [SUBSET S -> V] /\ IsMaxFold(g, n, NoTasks, F)
  <2> HIDE DEF F
  <2> QED
    BY Zenon, <1>0, <1>2, FoldByIndex DEF S
<1>4. g = [s \in SUBSET S |->
             IF s = {} THEN NoTasks ELSE AddTask(g[s \ {Max(s)}], specs[order[Max(s)]], m)]
  <2>1. ASSUME NEW s \in SUBSET S, s # {}
        PROVE  g[s] = AddTask(g[s \ {Max(s)}], specs[order[Max(s)]], m)
    <3>1. Max(s) \in S /\ s \ {Max(s)} \in SUBSET S
      BY Zenon, <2>1, MaxElement DEF S
    <3>2. <<Max(s), g[s \ {Max(s)}]>> \in S \X V
      BY Zenon, <1>3, <3>1
    <3>3. g[s] = F[<<Max(s), g[s \ {Max(s)}]>>]
      BY Zenon, <1>3, <2>1 DEF IsMaxFold, S
    <3> QED
      BY Zenon, <3>2, <3>3
  <2>2. g[{}] = NoTasks
    BY Zenon, <1>3 DEF IsMaxFold, S
  <2> QED
    BY Zenon, <1>3, <2>1, <2>2
<1>5. h = [s \in SUBSET S |->
             IF s = {} THEN NoTasks ELSE AddTask(h[s \ {Max(s)}], specs[order[Max(s)]], m)]
  BY Zenon, <1>4
<1>6. CalcPGMinResources(m, specs, order) = h[S].list
  <2>1. DOMAIN order = S
    BY Zenon DEF S
  <2> QED
    BY Zenon, <2>1 DEF CalcPGMinResources, AddTask, Granted, NoTasks, FoldLeft, MapThenFoldSet
<1> HIDE DEF h
<1>7. \A k \in S : f[k] = AddTask(f[k - 1], specs[order[k]], m)
  <2> SUFFICES ASSUME NEW k \in S PROVE f[k] = AddTask(f[k - 1], specs[order[k]], m)
    BY Zenon
  <2>1. k \in 0 .. n /\ k - 1 \in 0 .. n
    BY DEF S
  <2>2. /\ Max(1 .. k) = k /\ (1 .. k) \ {k} = 1 .. (k - 1)
        /\ 1 .. k \in SUBSET S /\ 1 .. k # {}
    BY Zenon, MaxOfPrefix DEF S
  <2>3. h[1 .. k] = AddTask(h[1 .. (k - 1)], specs[order[k]], m)
    BY Zenon, <1>5, <2>2
  <2> QED
    BY Zenon, <2>1, <2>3
<1>8. f[0] = NoTasks /\ f[n] = h[S]
  <2>1. 0 \in 0 .. n /\ n \in 0 .. n /\ 1 .. 0 = {}
    OBVIOUS
  <2>2. h[{}] = NoTasks
    BY Zenon, <1>5
  <2> QED
    BY Zenon, <2>1, <2>2 DEF S
<1> QED
  BY Zenon, <1>6, <1>7, <1>8 DEF S, TasksAdded

-----------------------------------------------------------------------------
(* The resources of a set of pods, whatever the order.                     *)

(* The containers of a set of pods, what each asks for, and how much of    *)
(* each name the containers in X ask for, all of them being in U.          *)
ContainersOf(S, specs) == UNION {{<<p, i>> : i \in DOMAIN specs[p[1]].containers} : p \in S}
Of(x, specs) == Asked(specs[x[1][1]].containers[x[2]])
Quantities(name, U, specs) ==
    [x \in U |-> IF name \in DOMAIN Of(x, specs) THEN Of(x, specs)[name] ELSE 0]
NamesOf(X, specs) == UNION {DOMAIN Of(x, specs) : x \in X}
Total(X, U, specs) ==
    [name \in NamesOf(X, specs) |-> SumFunctionOnSet(Quantities(name, U, specs), X)]

(* The quantities of one resource are integers. *)
LEMMA QuantitiesType ==
    ASSUME NEW N, NEW specs, NEW U, \A x \in U : Of(x, specs) \in Quota!ListsOver(N), NEW name
    PROVE  Quantities(name, U, specs) \in [U -> Int]
<1>1. ASSUME NEW x \in U
      PROVE  (IF name \in DOMAIN Of(x, specs) THEN Of(x, specs)[name] ELSE 0) \in Int
  <2>1. PICK M \in SUBSET N : Of(x, specs) \in [M -> Int]
    BY Zenon DEF Quota!ListsOver
  <2>2. 0 \in Int
    OBVIOUS
  <2> QED
    BY Zenon, <2>1, <2>2
<1> QED
  BY Zenon, <1>1 DEF Quantities

(* Needs is such a total. *)
LEMMA NeedsIsTotal ==
    ASSUME NEW N, NEW specs, NEW U, \A x \in U : Of(x, specs) \in Quota!ListsOver(N),
           NEW S, ContainersOf(S, specs) \in SUBSET U, IsFiniteSet(ContainersOf(S, specs))
    PROVE  Needs(S, specs) = Total(ContainersOf(S, specs), U, specs)
<1> DEFINE X == ContainersOf(S, specs)
           Amount(x, name) == IF name \in DOMAIN Of(x, specs) THEN Of(x, specs)[name] ELSE 0
           sum(name) == MapThenSumSet(LAMBDA x : Amount(x, name), X)
<1>1. ASSUME NEW name PROVE sum(name) = SumFunctionOnSet(Quantities(name, U, specs), X)
  <2> DEFINE q == Quantities(name, U, specs)
             h == CHOOSE iter : iter = [s \in SUBSET X |->
                    IF s = {} THEN 0 ELSE Amount(Some(s), name) + iter[s \ {Some(s)}]]
  <2>1. q \in [U -> Int] /\ \A x \in X : q[x] = Amount(x, name)
    <3>1. q \in [U -> Int]
      BY Zenon, QuantitiesType
    <3> QED
      BY Zenon, <3>1 DEF Quantities
  <2>2. \A s \in SUBSET X : s # {} => Some(s) \in X
    BY Zenon DEF Some
  <2> HIDE DEF q, X, Amount
  <2>3. PICK g : AreSums(g, q, X) /\ SumFunctionOnSet(q, X) = g[X]
    <3>1. X \in SUBSET U /\ IsFiniteSet(X)
      BY Zenon DEF X
    <3> QED
      BY Zenon, <2>1, <3>1, SumFold
  <2> DEFINE e == [s \in SUBSET X |-> g[s]]
  <2>4. e = [s \in SUBSET X |-> IF s = {} THEN 0 ELSE Amount(Some(s), name) + e[s \ {Some(s)}]]
    <3>1. ASSUME NEW s \in SUBSET X
          PROVE  g[s] = IF s = {} THEN 0 ELSE Amount(Some(s), name) + e[s \ {Some(s)}]
      <4>1. g[s] = IF s = {} THEN 0 ELSE q[Some(s)] + g[s \ {Some(s)}]
        BY Zenon, <2>3 DEF AreSums
      <4>2. s \ {Some(s)} \in SUBSET X
        BY Zenon
      <4> QED
        BY Zenon, <2>1, <2>2, <4>1, <4>2
    <3> QED
      BY Zenon, <3>1
  <2>5. h = [s \in SUBSET X |-> IF s = {} THEN 0 ELSE Amount(Some(s), name) + h[s \ {Some(s)}]]
    BY Zenon, <2>4
  <2>6. sum(name) = h[X]
    BY Zenon DEF MapThenSumSet, MapThenFoldSet, Some
  <2> HIDE DEF h
  <2>7. AreSums(h, q, X)
    <3>1. ASSUME NEW s \in SUBSET X
          PROVE  h[s] = IF s = {} THEN 0 ELSE q[Some(s)] + h[s \ {Some(s)}]
      <4>1. h[s] = IF s = {} THEN 0 ELSE Amount(Some(s), name) + h[s \ {Some(s)}]
        BY Zenon, <2>5
      <4> QED
        BY Zenon, <2>1, <2>2, <4>1
    <3> QED
      BY Zenon, <3>1 DEF AreSums
  <2>8. h[X] = g[X]
    <3>1. X \in SUBSET X /\ IsFiniteSet(X)
      BY Zenon DEF X
    <3> QED
      BY SMT, <2>3, <2>7, <3>1, SumFoldUnique
  <2> QED
    BY Zenon, <2>3, <2>6, <2>8 DEF q
<1>2. Needs(S, specs) = [name \in NamesOf(X, specs) |-> sum(name)]
  BY Zenon DEF Needs, NamesOf, ContainersOf, Of
<1> QED
  BY Zenon, <1>1, <1>2 DEF Total

(* The total is a list. *)
LEMMA TotalType ==
    ASSUME NEW N, NEW specs, NEW U, \A x \in U : Of(x, specs) \in Quota!ListsOver(N),
           NEW X \in SUBSET U, IsFiniteSet(X)
    PROVE  /\ Total(X, U, specs) \in Quota!ListsOver(N)
           /\ Total(X, U, specs) \in [NamesOf(X, specs) -> Int]
<1>1. \A name : Quantities(name, U, specs) \in [U -> Int]
  BY Zenon, QuantitiesType
<1>2. NamesOf(X, specs) \subseteq N
  <2>1. ASSUME NEW x \in X PROVE DOMAIN Of(x, specs) \subseteq N
    <3>1. PICK M \in SUBSET N : Of(x, specs) \in [M -> Int]
      BY Zenon DEF Quota!ListsOver
    <3> QED
      BY Zenon, <3>1
  <2> QED
    BY Zenon, <2>1 DEF NamesOf
<1>3. \A name : SumFunctionOnSet(Quantities(name, U, specs), X) \in Int
  BY Zenon, <1>1, SumStep
<1>4. Total(X, U, specs) \in [NamesOf(X, specs) -> Int]
  BY Zenon, <1>3 DEF Total
<1>5. Total(X, U, specs) \in Quota!ListsOver(N)
  BY Zenon, <1>2, <1>4 DEF Quota!ListsOver
<1> QED
  BY Zenon, <1>4, <1>5

(* One more container. *)
LEMMA TotalStep ==
    ASSUME NEW N, NEW specs, NEW U, \A x \in U : Of(x, specs) \in Quota!ListsOver(N),
           NEW X \in SUBSET U, IsFiniteSet(X), NEW x \in U, x \notin X
    PROVE  Total(X \cup {x}, U, specs) = Quota!Add(Total(X, U, specs), Of(x, specs))
<1> DEFINE l == Total(X, U, specs)
           o == Of(x, specs)
           q(name) == Quantities(name, U, specs)
<1>1. \A name : /\ q(name) \in [U -> Int]
                /\ \A y \in U : q(name)[y] = IF name \in DOMAIN Of(y, specs)
                                             THEN Of(y, specs)[name] ELSE 0
  <2>1. \A name : q(name) \in [U -> Int]
    BY Zenon, QuantitiesType
  <2> QED
    BY Zenon, <2>1 DEF Quantities
<1>2. PICK M \in SUBSET N : o \in [M -> Int]
  BY Zenon DEF Quota!ListsOver
<1>4. \A name : SumFunctionOnSet(q(name), X) \in Int
  <2> HIDE DEF q
  <2> QED
    BY Zenon, <1>1, SumStep
<1>5. l \in [NamesOf(X, specs) -> Int]
  BY Zenon, TotalType
<1>7. NamesOf(X \cup {x}, specs) = DOMAIN l \cup DOMAIN o
  BY Zenon, <1>5 DEF NamesOf
<1>8. ASSUME NEW name \in DOMAIN l \cup DOMAIN o
      PROVE  SumFunctionOnSet(q(name), X \cup {x})
               = IF name \notin DOMAIN l THEN o[name]
                 ELSE IF name \in DOMAIN o THEN l[name] + o[name] ELSE l[name]
  <2> DEFINE r == SumFunctionOnSet(q(name), X)
             a == q(name)[x]
  <2>1. SumFunctionOnSet(q(name), X \cup {x}) = a + r
    <3>1. X \cup {x} \in SUBSET U /\ IsFiniteSet(X \cup {x}) /\ (X \cup {x}) \ {x} = X
      <4>1. IsFiniteSet(X \cup {x})
        BY Zenon, FS_AddElement
      <4>2. X \cup {x} \in SUBSET U /\ (X \cup {x}) \ {x} = X
        BY Zenon
      <4> QED
        BY Zenon, <4>1, <4>2
    <3>2. q(name) \in [U -> Int]
      BY Zenon, <1>1
    <3>3. x \in X \cup {x}
      BY Zenon
    <3> HIDE DEF q
    <3>4. SumFunctionOnSet(q(name), X \cup {x})
            = q(name)[x] + SumFunctionOnSet(q(name), (X \cup {x}) \ {x})
      BY SMTT(30), <3>1, <3>2, <3>3, SumStep
    <3> QED
      BY Zenon, <3>1, <3>4
  <2>2. a = IF name \in DOMAIN o THEN o[name] ELSE 0
    BY Zenon, <1>1
  <2>3. name \in DOMAIN l => l[name] = r
    BY Zenon, <1>5 DEF Total
  <2>4. name \notin DOMAIN l => r = 0
    <3> SUFFICES ASSUME name \notin DOMAIN l PROVE r = 0
      BY Zenon
    <3>1. \A y \in X : q(name)[y] = 0
      <4>1. \A y \in X : name \notin DOMAIN Of(y, specs)
        BY Zenon, <1>5 DEF NamesOf
      <4> QED
        BY Zenon, <1>1, <4>1
    <3>2. q(name) \in [U -> Int]
      BY Zenon, <1>1
    <3> HIDE DEF q
    <3> QED
      BY Zenon, <3>1, <3>2, SumOfZeros
  <2>5. r \in Int /\ (name \in DOMAIN o => o[name] \in Int)
    BY Zenon, <1>2, <1>4
  <2>6. name \in DOMAIN l \/ name \in DOMAIN o
    BY Zenon
  <2> HIDE DEF r, a, q, l, o
  <2> QED
    BY SMTT(30), <2>1, <2>2, <2>3, <2>4, <2>5, <2>6
<1>9. Total(X \cup {x}, U, specs) = Quota!Add(l, o)
  <2>1. Total(X \cup {x}, U, specs)
          = [name \in DOMAIN l \cup DOMAIN o |-> SumFunctionOnSet(q(name), X \cup {x})]
    BY Zenon, <1>7 DEF Total
  <2> HIDE DEF l, o, q
  <2> QED
    BY Zenon, <1>8, <2>1 DEF Quota!Add
<1> QED
  BY Zenon, <1>9

(* One more pod. *)
LEMMA PodTotal ==
    ASSUME NEW N, NEW specs, NEW U, \A x \in U : Of(x, specs) \in Quota!ListsOver(N),
           NEW p, TaskOver(specs[p[1]], N), ContainersOf({p}, specs) \in SUBSET U,
           NEW X \in SUBSET U, IsFiniteSet(X), \A i : <<p, i>> \notin X
    PROVE  /\ AddPod(Total(X, U, specs), specs[p[1]])
                = Total(X \cup ContainersOf({p}, specs), U, specs)
           /\ IsFiniteSet(X \cup ContainersOf({p}, specs))
<1> DEFINE cs == specs[p[1]].containers
           l == Total(X, U, specs)
           P(k) == {<<p, i>> : i \in 1 .. k}
<1>1. PICK n \in Nat : DOMAIN cs = 1 .. n
  BY Zenon DEF TaskOver
<1>2. \A k \in 1 .. n : Asked(cs[k]) \in Quota!ListsOver(N)
  BY Zenon, <1>1 DEF TaskOver
<1>3. ContainersOf({p}, specs) = P(n)
  BY Zenon, <1>1 DEF ContainersOf
<1>4. \A k \in 1 .. n : <<p, k>> \in U /\ Of(<<p, k>>, specs) = Asked(cs[k])
  <2>1. \A k : <<p, k>>[1] = p /\ <<p, k>>[2] = k
    BY Zenon
  <2> QED
    BY Zenon, <1>3, <2>1 DEF Of
<1>5. l \in Quota!ListsOver(N)
  BY Zenon, TotalType
<1> HIDE DEF cs, l
<1>6. PICK f : ContainersAdded(f, l, cs, n) /\ FoldLeft(AddContainer, l, cs) = f[n]
  BY SMTT(30), <1>1, <1>2, <1>5, ContainerFold
<1>7. f[0] = l /\ \A k \in 1 .. n : f[k] = AddContainer(f[k - 1], cs[k])
  BY Zenon, <1>6 DEF ContainersAdded
<1> DEFINE G == {k \in Nat : k <= n => /\ f[k] = Total(X \cup P(k), U, specs)
                                       /\ IsFiniteSet(X \cup P(k))}
<1>8. 0 \in G
  <2>1. 0 \in Nat /\ P(0) = {}
    OBVIOUS
  <2>2. X \cup P(0) = X
    BY Zenon, <2>1
  <2> QED
    BY Zenon, <1>7, <2>1, <2>2 DEF l
<1>9. ASSUME NEW k \in Nat, k \in G PROVE k + 1 \in G
  <2>0. k + 1 \in Nat
    OBVIOUS
  <2>1. CASE k + 1 <= n
    <3> DEFINE x == <<p, k + 1>>
    <3>1. k <= n /\ k + 1 \in 1 .. n /\ (k + 1) - 1 = k
      BY <2>1
    <3>2. f[k] = Total(X \cup P(k), U, specs) /\ IsFiniteSet(X \cup P(k))
      BY Zenon, <1>9, <3>1
    <3>3. 1 .. (k + 1) = (1 .. k) \cup {k + 1} /\ k + 1 \notin 1 .. k /\ 1 .. k \subseteq 1 .. n
      BY <3>1
    <3>4. P(k + 1) = P(k) \cup {x} /\ x \notin P(k)
      BY Zenon, <3>3
    <3>5. x \notin X \cup P(k) /\ X \cup P(k) \in SUBSET U /\ x \in U
      BY Zenon, <1>4, <3>1, <3>3, <3>4
    <3>6. X \cup P(k + 1) = (X \cup P(k)) \cup {x}
      BY Zenon, <3>4
    <3> DEFINE Y == X \cup P(k)
    <3>7. Of(x, specs) = Asked(cs[k + 1]) /\ f[k + 1] = AddContainer(f[k], cs[k + 1])
      BY Zenon, <1>4, <1>7, <3>1
    <3> HIDE DEF x, P, Y
    <3>8. Total(Y \cup {x}, U, specs) = Quota!Add(Total(Y, U, specs), Of(x, specs))
      BY SMTT(30), <3>2, <3>5, TotalStep DEF Y
    <3>9. Total(Y, U, specs) \in Quota!ListsOver(N)
      BY Zenon, <3>2, <3>5, TotalType DEF Y
    <3>10. AddContainer(f[k], cs[k + 1]) = Quota!Add(f[k], Asked(cs[k + 1]))
      BY Zenon, <1>2, <3>1, <3>2, <3>9, AddContainerIsAdd DEF Y
    <3>11. f[k + 1] = Total(X \cup P(k + 1), U, specs)
      BY Zenon, <3>2, <3>6, <3>7, <3>8, <3>10 DEF Y
    <3>12. IsFiniteSet(X \cup P(k + 1))
      BY Zenon, <3>2, <3>6, FS_AddElement
    <3> QED
      BY Zenon, <2>0, <3>11, <3>12
  <2>2. CASE ~(k + 1 <= n)
    BY Zenon, <2>0, <2>2
  <2> QED
    BY Zenon, <2>1, <2>2
<1>10. n \in G /\ n <= n
  <2>1. n <= n
    OBVIOUS
  <2> HIDE DEF G
  <2> QED
    BY Zenon, <1>8, <1>9, <2>1, NatSetInduction
<1>11. f[n] = Total(X \cup P(n), U, specs) /\ IsFiniteSet(X \cup P(n))
  BY Zenon, <1>10
<1> QED
  BY Zenon, <1>3, <1>6, <1>11 DEF AddPod, cs, l

(* The pods of some specs, and those of one type. *)
PodsOfType(t, n) == {<<t, i>> : i \in 1 .. n}

(* The pods, type by type. A type without a number of replicas, or with a  *)
(* negative one, has none.                                                 *)
LEMMA PodsOfShape ==
    ASSUME NEW N, NEW specs, SpecsOver(specs, N)
    PROVE  /\ PodsOf(specs) = UNION {PodsOfType(t, ReplicasOf(specs[t])) : t \in DOMAIN specs}
           /\ \A t \in DOMAIN specs :
                \A i \in 1 .. ReplicasOf(specs[t]) : <<t, i>> \in PodsOf(specs)
           /\ \A p \in PodsOf(specs) : /\ p[1] \in DOMAIN specs
                                       /\ p[2] \in 1 .. ReplicasOf(specs[p[1]])
                                       /\ p = <<p[1], p[2]>>
<1> DEFINE R(t) == IF specs[t].replicas = None THEN 0 ELSE specs[t].replicas
<1>1. ASSUME NEW t \in DOMAIN specs PROVE 1 .. R(t) = 1 .. ReplicasOf(specs[t])
  <2>1. CASE specs[t].replicas = None
    BY Zenon, <2>1 DEF ReplicasOf
  <2>2. CASE specs[t].replicas # None
    <3>1. specs[t].replicas \in Int
      BY Zenon, <2>2 DEF SpecsOver
    <3>2. CASE specs[t].replicas < 0
      <4>1. 1 .. specs[t].replicas = {} /\ 1 .. 0 = {}
        BY <3>1, <3>2
      <4>2. ReplicasOf(specs[t]) = 0 /\ R(t) = specs[t].replicas
        BY Zenon, <2>2, <3>2 DEF ReplicasOf
      <4> QED
        BY Zenon, <4>1, <4>2
    <3>3. CASE ~(specs[t].replicas < 0)
      BY Zenon, <2>2, <3>3 DEF ReplicasOf
    <3> QED
      BY Zenon, <3>2, <3>3
  <2> QED
    BY Zenon, <2>1, <2>2
<1>2. \A t \in DOMAIN specs : {<<t, i>> : i \in 1 .. R(t)} = PodsOfType(t, ReplicasOf(specs[t]))
  BY Zenon, <1>1 DEF PodsOfType
<1>3. PodsOf(specs) = UNION {PodsOfType(t, ReplicasOf(specs[t])) : t \in DOMAIN specs}
  <2>1. PodsOf(specs) = UNION {{<<t, i>> : i \in 1 .. R(t)} : t \in DOMAIN specs}
    BY Zenon DEF PodsOf
  <2> DEFINE A(t) == {<<t, i>> : i \in 1 .. R(t)}
             B(t) == PodsOfType(t, ReplicasOf(specs[t]))
  <2>2. \A t \in DOMAIN specs : A(t) = B(t)
    BY Zenon, <1>2
  <2>3. PodsOf(specs) = UNION {A(t) : t \in DOMAIN specs}
    BY Zenon, <2>1
  <2> HIDE DEF A, B
  <2>4. UNION {A(t) : t \in DOMAIN specs} = UNION {B(t) : t \in DOMAIN specs}
    BY SMT, <2>2
  <2> QED
    BY Zenon, <2>3, <2>4 DEF B
<1>4. \A p : p \in UNION {PodsOfType(t, ReplicasOf(specs[t])) : t \in DOMAIN specs}
              <=> \E t \in DOMAIN specs : \E i \in 1 .. ReplicasOf(specs[t]) : p = <<t, i>>
  BY SMT DEF PodsOfType
<1>5. \A p : p \in PodsOf(specs) <=>
               \E t \in DOMAIN specs : \E i \in 1 .. ReplicasOf(specs[t]) : p = <<t, i>>
  BY Zenon, <1>3, <1>4
<1>6. ASSUME NEW p \in PodsOf(specs)
      PROVE  p[1] \in DOMAIN specs /\ p[2] \in 1 .. ReplicasOf(specs[p[1]]) /\ p = <<p[1], p[2]>>
  <2>1. PICK t \in DOMAIN specs : \E i \in 1 .. ReplicasOf(specs[t]) : p = <<t, i>>
    BY Zenon, <1>5
  <2>2. PICK i \in 1 .. ReplicasOf(specs[t]) : p = <<t, i>>
    BY Zenon, <2>1
  <2>3. p[1] = t /\ p[2] = i
    BY Zenon, <2>2
  <2> QED
    BY Zenon, <2>2, <2>3
<1> QED
  BY Zenon, <1>3, <1>5, <1>6

(* All containers there are. *)
AllContainers(specs) == ContainersOf(PodsOf(specs), specs)

(* The containers of a set of pods, which grow with it. *)
LEMMA ContainersShape ==
    ASSUME NEW specs, NEW S, NEW T
    PROVE  /\ ContainersOf(S \cup T, specs) = ContainersOf(S, specs) \cup ContainersOf(T, specs)
           /\ S \subseteq T => ContainersOf(S, specs) \subseteq ContainersOf(T, specs)
           /\ \A p, i : <<p, i>> \in ContainersOf(S, specs) => p \in S
<1>1. \A p, i : <<p, i>> \in ContainersOf(S, specs) => p \in S
  BY SMT DEF ContainersOf
<1>2. ContainersOf(S \cup T, specs) = ContainersOf(S, specs) \cup ContainersOf(T, specs)
  BY SMT DEF ContainersOf
<1>3. S \subseteq T => ContainersOf(S, specs) \subseteq ContainersOf(T, specs)
  BY ZenonT(30) DEF ContainersOf
<1> QED
  BY Zenon, <1>1, <1>2, <1>3

(* All containers ask for resources named in N. *)
LEMMA ContainersTyped ==
    ASSUME NEW N, NEW specs, SpecsOver(specs, N)
    PROVE  \A x \in AllContainers(specs) : Of(x, specs) \in Quota!ListsOver(N)
<1> SUFFICES ASSUME NEW p \in PodsOf(specs), NEW i \in DOMAIN specs[p[1]].containers
             PROVE  Of(<<p, i>>, specs) \in Quota!ListsOver(N)
  BY Zenon DEF AllContainers, ContainersOf
<1>1. p[1] \in DOMAIN specs
  BY Zenon, PodsOfShape
<1>2. Asked(specs[p[1]].containers[i]) \in Quota!ListsOver(N)
  BY Zenon, <1>1 DEF SpecsOver, TaskOver
<1>3. <<p, i>>[1] = p /\ <<p, i>>[2] = i
  BY Zenon
<1> QED
  BY Zenon, <1>2, <1>3 DEF Of

(* Some more pods of one type. *)
LEMMA PodsTotal ==
    ASSUME NEW N, NEW specs, SpecsOver(specs, N), NEW t \in DOMAIN specs,
           NEW n \in Nat, n <= ReplicasOf(specs[t]), ReplicasOf(specs[t]) \in Nat,
           NEW S \in SUBSET PodsOf(specs), IsFiniteSet(ContainersOf(S, specs)),
           \A i : <<t, i>> \notin S
    PROVE  /\ AddPods(Total(ContainersOf(S, specs), AllContainers(specs), specs), specs[t], n)
                = Total(ContainersOf(S \cup PodsOfType(t, n), specs), AllContainers(specs), specs)
           /\ IsFiniteSet(ContainersOf(S \cup PodsOfType(t, n), specs))
<1> DEFINE U == AllContainers(specs)
           C(R) == ContainersOf(R, specs)
           P(k) == PodsOfType(t, k)
           l == Total(C(S), U, specs)
<1>1. TaskOver(specs[t], N)
  BY Zenon DEF SpecsOver
<1>2. \A x \in U : Of(x, specs) \in Quota!ListsOver(N)
  BY Zenon, ContainersTyped
<1>3. \A R \in SUBSET PodsOf(specs) : C(R) \in SUBSET U
  BY Zenon, ContainersShape DEF AllContainers
<1> HIDE DEF U
<1>4. l \in Quota!ListsOver(N)
  <2>1. C(S) \in SUBSET U /\ IsFiniteSet(C(S))
    BY Zenon, <1>3
  <2> HIDE DEF C
  <2> QED
    BY Zenon, <1>2, <2>1, TotalType
<1>5. PICK f : PodsAdded(f, l, specs[t], n) /\ AddPods(l, specs[t], n) = f[n]
  <2> HIDE DEF l
  <2> QED
    BY SMTT(30), <1>1, <1>4, PodFold
<1>6. f[0] = l /\ \A k \in 1 .. n : f[k] = AddPod(f[k - 1], specs[t])
  <2> HIDE DEF l
  <2> QED
    BY Zenon, <1>5 DEF PodsAdded
<1> DEFINE G == {k \in Nat : k <= n => /\ f[k] = Total(C(S \cup P(k)), U, specs)
                                       /\ IsFiniteSet(C(S \cup P(k)))}
<1>7. 0 \in G
  <2>1. 0 \in Nat /\ P(0) = {}
    BY DEF PodsOfType
  <2>2. S \cup P(0) = S
    BY Zenon, <2>1
  <2> QED
    BY Zenon, <1>6, <2>1, <2>2
<1>8. ASSUME NEW k \in Nat, k \in G PROVE k + 1 \in G
  <2>0. k + 1 \in Nat
    OBVIOUS
  <2>1. CASE k + 1 <= n
    <3> DEFINE p == <<t, k + 1>>
               T == S \cup P(k)
    <3>1. k <= n /\ k + 1 \in 1 .. n /\ (k + 1) - 1 = k /\ k + 1 \in 1 .. ReplicasOf(specs[t])
      BY <2>1
    <3>2. f[k] = Total(C(T), U, specs) /\ IsFiniteSet(C(T))
      BY Zenon, <1>8, <3>1
    <3>3. 1 .. (k + 1) = (1 .. k) \cup {k + 1} /\ k + 1 \notin 1 .. k
          /\ 1 .. k \subseteq 1 .. ReplicasOf(specs[t])
      BY <3>1
    <3>4. P(k + 1) = P(k) \cup {p} /\ p \notin P(k)
      BY Zenon, <3>3 DEF PodsOfType
    <3>5. p \in PodsOf(specs) /\ P(k) \subseteq PodsOf(specs)
      <4>1. \A i \in 1 .. ReplicasOf(specs[t]) : <<t, i>> \in PodsOf(specs)
        BY Zenon, PodsOfShape
      <4> QED
        BY Zenon, <3>1, <3>3, <4>1 DEF PodsOfType
    <3>6. p \notin T /\ T \in SUBSET PodsOf(specs) /\ {p} \in SUBSET PodsOf(specs)
      BY Zenon, <3>4, <3>5
    <3>7. S \cup P(k + 1) = T \cup {p}
      BY Zenon, <3>4
    <3>8. p[1] = t
      BY Zenon
    <3>9. f[k + 1] = AddPod(f[k], specs[p[1]])
      BY Zenon, <1>6, <3>1, <3>8
    <3> HIDE DEF p, T, l
    <3>10. \A i : <<p, i>> \notin C(T)
      BY Zenon, <3>6, ContainersShape
    <3>11. C(T \cup {p}) = C(T) \cup C({p}) /\ C(T) \in SUBSET U /\ C({p}) \in SUBSET U
      BY Zenon, <1>3, <3>6, ContainersShape
    <3>12. TaskOver(specs[p[1]], N)
      BY Zenon, <1>1, <3>8
    <3> DEFINE X == C(T)
    <3>13. /\ AddPod(Total(X, U, specs), specs[p[1]])
                 = Total(X \cup ContainersOf({p}, specs), U, specs)
           /\ IsFiniteSet(X \cup ContainersOf({p}, specs))
      <4>1. X \in SUBSET U /\ IsFiniteSet(X) /\ \A i : <<p, i>> \notin X
        BY Zenon, <3>2, <3>10, <3>11
      <4>2. ContainersOf({p}, specs) \in SUBSET U
        BY Zenon, <3>11
      <4> HIDE DEF X
      <4> QED
        BY Zenon, <1>2, <3>12, <4>1, <4>2, PodTotal
    <3>14. /\ f[k + 1] = Total(C(S \cup P(k + 1)), U, specs)
           /\ IsFiniteSet(C(S \cup P(k + 1)))
      BY Zenon, <3>2, <3>7, <3>9, <3>11, <3>13
    <3> QED
      BY Zenon, <2>0, <3>14
  <2>2. CASE ~(k + 1 <= n)
    BY Zenon, <2>0, <2>2
  <2> QED
    BY Zenon, <2>1, <2>2
<1>9. n \in G /\ n <= n
  <2>1. n <= n
    OBVIOUS
  <2> HIDE DEF G
  <2> QED
    BY Zenon, <1>7, <1>8, <2>1, NatSetInduction
<1>10. f[n] = Total(C(S \cup P(n)), U, specs) /\ IsFiniteSet(C(S \cup P(n)))
  BY Zenon, <1>9
<1> QED
  BY Zenon, <1>5, <1>10 DEF U

-----------------------------------------------------------------------------
(* The pods that CalcPGMinResources has counted after k types.             *)

(* As many pods as replicas. *)
LEMMA PodsOfTypeCount ==
    ASSUME NEW t, NEW n \in Nat
    PROVE  IsFiniteSet(PodsOfType(t, n)) /\ Cardinality(PodsOfType(t, n)) = n
<1> DEFINE f == [i \in 1 .. n |-> <<t, i>>]
<1>1. f \in Bijection(1 .. n, PodsOfType(t, n))
  BY SMT DEF Bijection, Injection, Surjection, IsInjective, PodsOfType
<1>2. ExistsBijection(1 .. n, PodsOfType(t, n))
  BY Zenon, <1>1 DEF ExistsBijection
<1>3. IsFiniteSet(1 .. n) /\ Cardinality(1 .. n) = n
  BY FS_Interval
<1> QED
  BY Zenon, <1>2, <1>3, FS_Bijection

Whole(t, S, specs) == PodsOfType(t, ReplicasOf(specs[t])) \subseteq S
HasPods(t, S) == \E p \in S : p[1] = t

(* S are the pods that the first k types have added to acc.                *)
(* They are as many as podCnt says and need what the list says; they are   *)
(* all pods of these types if more are wanted, and there is none of a type *)
(* unless there are all of the types before it.                            *)
Prefix(S, acc, k, specs, m, order) ==
    /\ S \in SUBSET PodsOf(specs) /\ IsFiniteSet(S) /\ IsFiniteSet(ContainersOf(S, specs))
    /\ acc.podCnt \in Nat /\ acc.podCnt = Cardinality(S) /\ acc.podCnt <= m
    /\ acc.list = Total(ContainersOf(S, specs), AllContainers(specs), specs)
    /\ \A p \in S : \E i \in 1 .. k : p[1] = order[i]
    /\ acc.podCnt < m => \A i \in 1 .. k : Whole(order[i], S, specs)
    /\ \A i \in 1 .. k : HasPods(order[i], S) => \A j \in 1 .. (i - 1) : Whole(order[j], S, specs)

(* Before the first type there are none. *)
LEMMA PrefixInit ==
    ASSUME NEW specs, NEW m \in Nat, NEW order
    PROVE  Prefix({}, NoTasks, 0, specs, m, order)
<1>1. ContainersOf({}, specs) = {} /\ NamesOf({}, specs) = {}
  BY Zenon DEF ContainersOf, NamesOf
<1>2. Total({}, AllContainers(specs), specs) = [k \in {} |-> 0]
  BY Zenon, <1>1 DEF Total
<1>3. 0 \in Nat /\ 0 <= m /\ 1 .. 0 = {}
  OBVIOUS
<1>4. IsFiniteSet({}) /\ Cardinality({}) = 0
  BY Zenon, FS_EmptySet
<1>5. NoTasks.podCnt = 0 /\ NoTasks.list = [k \in {} |-> 0]
  BY Zenon DEF NoTasks
<1> QED
  BY Zenon, <1>1, <1>2, <1>3, <1>4, <1>5 DEF Prefix

(* The next type adds the pods it is granted, and the types before it are  *)
(* then complete.                                                          *)
LEMMA PrefixStep ==
    ASSUME NEW N, NEW specs, SpecsOver(specs, N), NEW m \in Nat, NEW n \in Nat,
           NEW order \in [1 .. n -> DOMAIN specs],
           \A i, j \in 1 .. n : i # j => order[i] # order[j],
           NEW k \in Nat, k + 1 <= n, NEW S, NEW acc, Prefix(S, acc, k, specs, m, order)
    PROVE  Prefix(S \cup PodsOfType(order[k + 1], Granted(specs[order[k + 1]], m, acc.podCnt)),
                  AddTask(acc, specs[order[k + 1]], m), k + 1, specs, m, order)
<1> DEFINE t == order[k + 1]
           c == Granted(specs[t], m, acc.podCnt)
           P == PodsOfType(t, c)
           T == S \cup P
           new == AddTask(acc, specs[t], m)
<1>1. /\ S \in SUBSET PodsOf(specs) /\ IsFiniteSet(S) /\ IsFiniteSet(ContainersOf(S, specs))
      /\ acc.podCnt \in Nat /\ acc.podCnt = Cardinality(S) /\ acc.podCnt <= m
      /\ acc.list = Total(ContainersOf(S, specs), AllContainers(specs), specs)
      /\ \A p \in S : \E i \in 1 .. k : p[1] = order[i]
      /\ acc.podCnt < m => \A i \in 1 .. k : Whole(order[i], S, specs)
      /\ \A i \in 1 .. k : HasPods(order[i], S) => \A j \in 1 .. (i - 1) : Whole(order[j], S, specs)
  BY Zenon DEF Prefix
<1>2. /\ k + 1 \in 1 .. n /\ \A i \in 1 .. k : i \in 1 .. n /\ i # k + 1
      /\ 1 .. (k + 1) = (1 .. k) \cup {k + 1} /\ (k + 1) - 1 = k
  OBVIOUS
<1>3. t \in DOMAIN specs /\ (specs[t].replicas = None \/ specs[t].replicas \in Int)
  BY Zenon, <1>2 DEF SpecsOver
<1> HIDE DEF t
<1>4. /\ ReplicasOf(specs[t]) \in Nat /\ c \in Nat /\ c <= ReplicasOf(specs[t])
      /\ acc.podCnt + c <= m /\ (c > 0 => acc.podCnt < m)
      /\ acc.podCnt + c < m => c = ReplicasOf(specs[t])
  BY Zenon, <1>1, <1>3, GrantedValue
<1>5. new.podCnt = acc.podCnt + c /\ new.list = AddPods(acc.list, specs[t], c)
  BY Zenon DEF AddTask
<1> HIDE DEF c, new
<1>6. \A i \in 1 .. k : order[i] # t
  BY Zenon, <1>2 DEF t
<1>7. \A p \in S : p[1] # t
  BY Zenon, <1>1, <1>6
<1>8. \A p \in P : p[1] = t
  BY SMT DEF PodsOfType
<1>9. \A i : <<t, i>> \notin S
  <2>1. \A i : <<t, i>>[1] = t
    BY Zenon
  <2> QED
    BY Zenon, <1>7, <2>1
<1>10. T \in SUBSET PodsOf(specs)
  <2>1. \A i \in 1 .. ReplicasOf(specs[t]) : <<t, i>> \in PodsOf(specs)
    BY Zenon, <1>3, PodsOfShape
  <2>2. 1 .. c \subseteq 1 .. ReplicasOf(specs[t])
    BY SMTT(30), <1>4
  <2> QED
    BY Zenon, <1>1, <2>1, <2>2 DEF PodsOfType
<1>11. IsFiniteSet(T) /\ Cardinality(T) = new.podCnt
  <2>1. IsFiniteSet(P) /\ Cardinality(P) = c
    BY Zenon, <1>4, PodsOfTypeCount
  <2>2. S \cap P = {}
    BY Zenon, <1>7, <1>8
  <2>3. IsFiniteSet(T) /\ Cardinality(T) = Cardinality(S) + Cardinality(P) - Cardinality(S \cap P)
    <3> HIDE DEF P
    <3> QED
      BY Zenon, <1>1, <2>1, FS_Union
  <2>4. Cardinality(S \cap P) = 0
    BY Zenon, <2>2, FS_EmptySet
  <2> HIDE DEF T, P
  <2> QED
    BY SMTT(30), <1>1, <1>4, <1>5, <2>1, <2>3, <2>4
<1>12. /\ new.list = Total(ContainersOf(T, specs), AllContainers(specs), specs)
       /\ IsFiniteSet(ContainersOf(T, specs))
  <2>1. S \in SUBSET PodsOf(specs) /\ IsFiniteSet(ContainersOf(S, specs))
    BY Zenon, <1>1
  <2>2. c \in Nat /\ c <= ReplicasOf(specs[t]) /\ ReplicasOf(specs[t]) \in Nat
    BY Zenon, <1>4
  <2>3. /\ AddPods(Total(ContainersOf(S, specs), AllContainers(specs), specs), specs[t], c)
             = Total(ContainersOf(S \cup PodsOfType(t, c), specs), AllContainers(specs), specs)
        /\ IsFiniteSet(ContainersOf(S \cup PodsOfType(t, c), specs))
    BY ZenonT(30), <1>3, <1>9, <2>1, <2>2, PodsTotal
  <2> QED
    BY Zenon, <1>1, <1>5, <2>3
<1>13. new.podCnt \in Nat /\ new.podCnt <= m
  BY SMTT(30), <1>1, <1>4, <1>5
<1>14. \A p \in T : \E i \in 1 .. (k + 1) : p[1] = order[i]
  BY Zenon, <1>1, <1>2, <1>8 DEF t
<1>15. \A u : Whole(u, S, specs) => Whole(u, T, specs)
  BY Zenon DEF Whole
<1>16. new.podCnt < m => \A i \in 1 .. (k + 1) : Whole(order[i], T, specs)
  <2> SUFFICES ASSUME new.podCnt < m, NEW i \in 1 .. (k + 1) PROVE Whole(order[i], T, specs)
    BY Zenon
  <2>1. acc.podCnt < m /\ c = ReplicasOf(specs[t])
    BY SMTT(30), <1>1, <1>4, <1>5
  <2>2. Whole(t, T, specs)
    BY Zenon, <2>1 DEF Whole
  <2> QED
    BY ZenonT(30), <1>1, <1>2, <1>15, <2>1, <2>2 DEF t
<1>17. ASSUME NEW i \in 1 .. (k + 1), HasPods(order[i], T), NEW j \in 1 .. (i - 1)
       PROVE  Whole(order[j], T, specs)
  <2>1. CASE i \in 1 .. k
    <3>1. HasPods(order[i], S)
      BY Zenon, <1>6, <1>8, <1>17, <2>1 DEF HasPods
    <3> QED
      BY ZenonT(30), <1>1, <1>15, <1>17, <2>1, <3>1
  <2>2. CASE i = k + 1
    <3>1. PICK p \in T : p[1] = t
      BY Zenon, <1>17, <2>2 DEF HasPods, t
    <3>2. PICK x \in 1 .. c : TRUE
      BY Zenon, <1>7, <3>1 DEF PodsOfType
    <3>3. acc.podCnt < m
      <4>1. c > 0
        BY SMTT(30), <1>4, <3>2
      <4> QED
        BY Zenon, <1>4, <4>1
    <3>4. j \in 1 .. k
      BY SMTT(30), <1>2, <1>17, <2>2
    <3> QED
      BY ZenonT(30), <1>1, <1>15, <3>3, <3>4
  <2> QED
    BY Zenon, <1>2, <2>1, <2>2
<1>18. Prefix(T, new, k + 1, specs, m, order)
  <2> HIDE DEF T
  <2> QED
    BY ZenonT(30), <1>10, <1>11, <1>12, <1>13, <1>14, <1>16, <1>17 DEF Prefix
<1> QED
  BY Zenon, <1>18 DEF t, c, new

-----------------------------------------------------------------------------
(* The orders of the types.                                                *)

IsOrder(order, n, T, pr) ==
    /\ order \in [1 .. n -> T]
    /\ \A i, j \in 1 .. n : i # j => order[i] # order[j]
    /\ \A i, j \in 1 .. n : i < j => pr[order[i]] >= pr[order[j]]

(* The priority classes that are found, with their values. *)
AreClasses(classes) == \A c \in DOMAIN classes : classes[c] \in Int

Priorities(specs, classes) == [t \in DOMAIN specs |-> Priority(specs[t], classes)]

(* The orders the sort may end with, and that they miss no type. *)
LEMMA OrderShape ==
    ASSUME NEW N, NEW specs, SpecsOver(specs, N), NEW classes, AreClasses(classes), NEW order
    PROVE  /\ Cardinality(DOMAIN specs) \in Nat
           /\ Priorities(specs, classes) \in [DOMAIN specs -> Int]
           /\ order \in ReplicasPriority(specs, classes)
                <=> IsOrder(order, Cardinality(DOMAIN specs), DOMAIN specs, Priorities(specs, classes))
           /\ order \in ReplicasPriority(specs, classes)
                => \A t \in DOMAIN specs : \E i \in 1 .. Cardinality(DOMAIN specs) : order[i] = t
<1> DEFINE D == DOMAIN specs
           n == Cardinality(D)
           pr == Priorities(specs, classes)
<1>1. IsFiniteSet(D) /\ n \in Nat
  BY Zenon, FS_CardinalityType DEF SpecsOver
<1>2. pr \in [D -> Int] /\ \A t \in D : pr[t] = Priority(specs[t], classes)
  <2>1. 0 \in Int
    OBVIOUS
  <2>2. \A t \in D : Priority(specs[t], classes) \in Int
    BY Zenon, <2>1 DEF AreClasses, Priority
  <2> QED
    BY Zenon, <2>2 DEF Priorities
<1>3. order \in Injection(1 .. n, D) <=>
        order \in [1 .. n -> D] /\ \A i, j \in 1 .. n : i # j => order[i] # order[j]
  BY Zenon DEF Injection, IsInjective
<1>4. order \in ReplicasPriority(specs, classes) <=> IsOrder(order, n, D, pr)
  <2>1. order \in ReplicasPriority(specs, classes) <=>
          /\ order \in Injection(1 .. n, D)
          /\ \A i, j \in DOMAIN order :
               i < j => Priority(specs[order[i]], classes) >= Priority(specs[order[j]], classes)
    BY Zenon DEF ReplicasPriority
  <2>2. ASSUME order \in [1 .. n -> D]
        PROVE  DOMAIN order = 1 .. n /\ \A i \in 1 .. n : pr[order[i]] = Priority(specs[order[i]], classes)
    BY Zenon, <1>2, <2>2
  <2> HIDE DEF D, n, pr
  <2> QED
    BY Zenon, <1>3, <2>1, <2>2 DEF IsOrder
<1>5. ASSUME order \in ReplicasPriority(specs, classes)
      PROVE  \A t \in D : \E i \in 1 .. n : order[i] = t
  <2>1. order \in Injection(1 .. n, D)
    BY Zenon, <1>3, <1>4, <1>5 DEF IsOrder
  <2>2. IsFiniteSet(1 .. n) /\ Cardinality(1 .. n) = n
    BY <1>1, FS_Interval
  <2>3. order \in Surjection(1 .. n, D)
    BY Zenon, <1>1, <2>1, <2>2, FS_Injection
  <2> QED
    BY Zenon, <2>3 DEF Surjection
<1> QED
  BY Zenon, <1>1, <1>2, <1>4, <1>5

(* Finitely many types have one of least priority. *)
LEMMA LeastElement ==
    ASSUME NEW D, IsFiniteSet(D), NEW pr \in [D -> Int]
    PROVE  \A T \in SUBSET D : T # {} => \E x \in T : \A y \in T : pr[x] <= pr[y]
<1> DEFINE G == {T \in SUBSET D : T # {} => \E x \in T : \A y \in T : pr[x] <= pr[y]}
<1>1. {} \in G
  BY Zenon
<1>2. ASSUME NEW T \in SUBSET D, T # {}, \A x \in T : T \ {x} \in G
      PROVE  T \in G
  <2>1. PICK z \in T : TRUE
    BY Zenon, <1>2
  <2>2. \A y \in T : pr[y] \in Int
    BY Zenon
  <2>3. CASE T \ {z} = {}
    <3>1. \A y \in T : y = z
      BY Zenon, <2>3
    <3>2. \A y \in T : pr[z] <= pr[y]
      BY SMTT(30), <2>1, <2>2, <3>1
    <3> QED
      BY Zenon, <2>1, <3>2
  <2>4. CASE T \ {z} # {}
    <3>1. PICK x \in T \ {z} : \A y \in T \ {z} : pr[x] <= pr[y]
      BY Zenon, <1>2, <2>1, <2>4
    <3>2. CASE pr[x] <= pr[z]
      <4>1. \A y \in T : pr[x] <= pr[y]
        BY Zenon, <3>1, <3>2
      <4> QED
        BY Zenon, <3>1, <4>1
    <3>3. CASE ~(pr[x] <= pr[z])
      <4>1. pr[z] <= pr[x] /\ pr[z] <= pr[z]
        BY SMTT(30), <2>1, <2>2, <3>1, <3>3
      <4>2. \A y \in T \ {z} : pr[z] <= pr[y]
        BY SMTT(30), <2>1, <2>2, <3>1, <4>1
      <4>3. \A y \in T : pr[z] <= pr[y]
        BY Zenon, <4>1, <4>2
      <4> QED
        BY Zenon, <2>1, <4>3
    <3> QED
      BY Zenon, <3>2, <3>3
  <2> QED
    BY Zenon, <2>3, <2>4
<1>3. \A T \in SUBSET D : T \in G
  <2> HIDE DEF G
  <2> QED
    BY Zenon, <1>1, <1>2, SubsetInduction
<1> QED
  BY Zenon, <1>3

(* The sort has a result. *)
LEMMA OrderExists ==
    ASSUME NEW D, IsFiniteSet(D), NEW pr \in [D -> Int]
    PROVE  \E order : IsOrder(order, Cardinality(D), D, pr)
<1> DEFINE G == {T \in SUBSET D : \E order : IsOrder(order, Cardinality(T), T, pr)}
<1>1. {} \in G
  <2> DEFINE o == [i \in 1 .. 0 |-> i]
  <2>1. 1 .. 0 = {} /\ o \in [1 .. 0 -> {}]
    OBVIOUS
  <2>2. IsOrder(o, 0, {}, pr)
    BY Zenon, <2>1 DEF IsOrder
  <2>3. Cardinality({}) = 0
    BY Zenon, FS_EmptySet
  <2> QED
    BY Zenon, <2>2, <2>3
<1>2. ASSUME NEW T \in SUBSET D, T # {}, \A x \in T : T \ {x} \in G
      PROVE  T \in G
  <2>1. PICK x \in T : \A y \in T : pr[x] <= pr[y]
    BY Zenon, <1>2, LeastElement
  <2>2. IsFiniteSet(T) /\ Cardinality(T) \in Nat /\ Cardinality(T \ {x}) = Cardinality(T) - 1
    BY Zenon, <2>1, FS_Subset, FS_CardinalityType, FS_RemoveElement
  <2>3. Cardinality(T) # 0
    BY Zenon, <1>2, <2>2, FS_EmptySet
  <2> DEFINE n == Cardinality(T)
  <2>4. PICK o : IsOrder(o, n - 1, T \ {x}, pr)
    BY Zenon, <1>2, <2>2
  <2>5. /\ o \in [1 .. (n - 1) -> T \ {x}]
        /\ \A i, j \in 1 .. (n - 1) : i # j => o[i] # o[j]
        /\ \A i, j \in 1 .. (n - 1) : i < j => pr[o[i]] >= pr[o[j]]
    BY Zenon, <2>4 DEF IsOrder
  <2>6. n \in Nat \ {0}
    BY Zenon, <2>2, <2>3
  <2> HIDE DEF n
  <2> DEFINE e == [i \in 1 .. n |-> IF i = n THEN x ELSE o[i]]
  <2>7. \A i \in 1 .. n : i # n => i \in 1 .. (n - 1)
    BY <2>6
  <2>8. \A i \in 1 .. n : e[i] = (IF i = n THEN x ELSE o[i]) /\ (i # n => o[i] \in T \ {x})
    BY Zenon, <2>5, <2>7
  <2>9. e \in [1 .. n -> T]
    BY Zenon, <2>1, <2>8
  <2> HIDE DEF e
  <2>10. \A i, j \in 1 .. n : i # j => e[i] # e[j]
    BY Zenon, <2>5, <2>7, <2>8
  <2>11. ASSUME NEW i \in 1 .. n, NEW j \in 1 .. n, i < j PROVE pr[e[i]] >= pr[e[j]]
    <3>1. i # n
      BY <2>6, <2>11
    <3>2. CASE j = n
      <4>1. e[j] = x /\ e[i] \in T
        BY Zenon, <2>8, <2>9, <3>2
      <4>2. pr[x] <= pr[e[i]] /\ pr[x] \in Int /\ pr[e[i]] \in Int
        BY Zenon, <2>1, <4>1
      <4>3. pr[e[i]] >= pr[x]
        BY <4>2
      <4> QED
        BY Zenon, <4>1, <4>3
    <3>3. CASE j # n
      BY Zenon, <2>5, <2>7, <2>8, <2>11, <3>1, <3>3
    <3> QED
      BY Zenon, <3>2, <3>3
  <2>12. IsOrder(e, n, T, pr)
    BY Zenon, <2>9, <2>10, <2>11 DEF IsOrder
  <2> QED
    BY Zenon, <2>12 DEF n
<1>3. \A T \in SUBSET D : T \in G
  <2> HIDE DEF G
  <2> QED
    BY Zenon, <1>1, <1>2, SubsetInduction
<1> QED
  BY Zenon, <1>3

(* With distinct priorities it has only one. *)
LEMMA OrderUnique ==
    ASSUME NEW D, NEW n \in Nat, NEW pr \in [D -> Int],
           \A t, u \in D : t # u => pr[t] # pr[u],
           NEW a, NEW b, IsOrder(a, n, D, pr), IsOrder(b, n, D, pr),
           \A t \in D : \E i \in 1 .. n : a[i] = t,
           \A t \in D : \E i \in 1 .. n : b[i] = t
    PROVE  a = b
<1>1. /\ a \in [1 .. n -> D] /\ b \in [1 .. n -> D]
      /\ \A i, j \in 1 .. n : i # j => a[i] # a[j] /\ b[i] # b[j]
      /\ \A i, j \in 1 .. n : i < j => pr[a[i]] >= pr[a[j]] /\ pr[b[i]] >= pr[b[j]]
  BY Zenon DEF IsOrder
<1> DEFINE G == {k \in Nat : \A i \in 1 .. n : i <= k => a[i] = b[i]}
<1>2. 0 \in G
  OBVIOUS
<1>3. ASSUME NEW k \in Nat, k \in G PROVE k + 1 \in G
  <2>0. k + 1 \in Nat
    OBVIOUS
  <2>1. CASE k + 1 \in 1 .. n
    <3> DEFINE x == a[k + 1]
               y == b[k + 1]
    <3>1. x \in D /\ y \in D /\ pr[x] \in Int /\ pr[y] \in Int
      BY Zenon, <1>1, <2>1
    <3>2. PICK i \in 1 .. n : b[i] = x
      BY Zenon, <3>1
    <3>3. PICK j \in 1 .. n : a[j] = y
      BY Zenon, <3>1
    <3>4. ~(i <= k)
      <4>1. ASSUME i <= k PROVE FALSE
        <5>1. a[i] = x /\ i # k + 1
          <6>1. i # k + 1
            BY <4>1
          <6> QED
            BY Zenon, <1>3, <3>2, <4>1, <6>1
        <5> QED
          BY Zenon, <1>1, <2>1, <5>1
      <4> QED
        BY Zenon, <4>1
    <3>5. ~(j <= k)
      <4>1. ASSUME j <= k PROVE FALSE
        <5>1. b[j] = y /\ j # k + 1
          <6>1. j # k + 1
            BY <4>1
          <6> QED
            BY Zenon, <1>3, <3>3, <4>1, <6>1
        <5> QED
          BY Zenon, <1>1, <2>1, <5>1
      <4> QED
        BY Zenon, <4>1
    <3>6. i = k + 1 \/ pr[y] >= pr[x]
      <4>1. i = k + 1 \/ k + 1 < i
        BY <3>4
      <4> QED
        BY Zenon, <1>1, <2>1, <3>2, <4>1
    <3>7. j = k + 1 \/ pr[x] >= pr[y]
      <4>1. j = k + 1 \/ k + 1 < j
        BY <3>5
      <4> QED
        BY Zenon, <1>1, <2>1, <3>3, <4>1
    <3>8. x = y
      <4>1. CASE i = k + 1 \/ j = k + 1
        BY Zenon, <3>2, <3>3, <4>1
      <4>2. CASE i # k + 1 /\ j # k + 1
        <5>1. pr[x] = pr[y]
          <6> HIDE DEF x, y
          <6> QED
            BY SMTT(30), <3>1, <3>6, <3>7, <4>2
        <5> QED
          BY Zenon, <3>1, <5>1
      <4> QED
        BY Zenon, <4>1, <4>2
    <3>9. \A h \in 1 .. n : h <= k + 1 => h <= k \/ h = k + 1
      OBVIOUS
    <3> QED
      BY Zenon, <1>3, <2>0, <3>8, <3>9
  <2>2. CASE k + 1 \notin 1 .. n
    <3>1. \A h \in 1 .. n : h <= k
      BY <2>2
    <3> QED
      BY Zenon, <1>3, <2>0, <3>1
  <2> QED
    BY Zenon, <2>1, <2>2
<1>4. n \in G
  <2> HIDE DEF G
  <2> QED
    BY Zenon, <1>2, <1>3, NatSetInduction
<1>5. \A i \in 1 .. n : a[i] = b[i]
  <2>1. \A i \in 1 .. n : i <= n
    OBVIOUS
  <2> QED
    BY Zenon, <1>4, <2>1
<1> QED
  BY SMTT(30), <1>1, <1>5

-----------------------------------------------------------------------------
(* The promise.                                                            *)

(* There are finitely many pods. *)
LEMMA PodsFinite ==
    ASSUME NEW N, NEW specs, SpecsOver(specs, N)
    PROVE  IsFiniteSet(PodsOf(specs)) /\ Cardinality(PodsOf(specs)) \in Nat
<1> DEFINE D == DOMAIN specs
           f == [t \in D |-> PodsOfType(t, ReplicasOf(specs[t]))]
           R == {PodsOfType(t, ReplicasOf(specs[t])) : t \in D}
<1>1. IsFiniteSet(D)
  BY Zenon DEF SpecsOver
<1>2. f \in Surjection(D, R)
  BY Zenon DEF Surjection
<1>3. IsFiniteSet(R)
  <2> HIDE DEF f, R
  <2> QED
    BY Zenon, <1>1, <1>2, FS_Surjection
<1>4. \A P \in R : IsFiniteSet(P)
  <2>1. ASSUME NEW t \in D PROVE IsFiniteSet(PodsOfType(t, ReplicasOf(specs[t])))
    <3>1. specs[t].replicas = None \/ specs[t].replicas \in Int
      BY Zenon DEF SpecsOver
    <3>2. 0 \in Nat
      OBVIOUS
    <3>3. ReplicasOf(specs[t]) \in Nat
      BY Zenon, <3>1, <3>2, GrantedValue
    <3> QED
      BY Zenon, <3>3, PodsOfTypeCount
  <2> QED
    BY Zenon, <2>1
<1>5. PodsOf(specs) = UNION R
  BY Zenon, PodsOfShape
<1>6. IsFiniteSet(UNION R)
  <2> HIDE DEF R
  <2> QED
    BY Zenon, <1>3, <1>4, FS_UNION
<1> QED
  BY Zenon, <1>5, <1>6, FS_CardinalityType

(* After all types. *)
LEMMA PrefixExists ==
    ASSUME NEW N, NEW specs, SpecsOver(specs, N), NEW m \in Nat, NEW n \in Nat,
           NEW order \in [1 .. n -> DOMAIN specs],
           \A i, j \in 1 .. n : i # j => order[i] # order[j],
           NEW f, TasksAdded(f, specs, m, order, n)
    PROVE  \E S : Prefix(S, f[n], n, specs, m, order)
<1> DEFINE G == {k \in Nat : k <= n => \E S : Prefix(S, f[k], k, specs, m, order)}
<1>1. 0 \in G
  <2>1. 0 \in Nat
    OBVIOUS
  <2>2. f[0] = NoTasks
    BY Zenon DEF TasksAdded
  <2> QED
    BY Zenon, <2>1, <2>2, PrefixInit
<1>2. ASSUME NEW k \in Nat, k \in G PROVE k + 1 \in G
  <2>0. k + 1 \in Nat
    OBVIOUS
  <2>1. CASE k + 1 <= n
    <3>1. k <= n /\ k + 1 \in 1 .. n /\ (k + 1) - 1 = k
      BY <2>1
    <3>2. PICK S : Prefix(S, f[k], k, specs, m, order)
      BY Zenon, <1>2, <3>1
    <3>3. f[k + 1] = AddTask(f[k], specs[order[k + 1]], m)
      BY Zenon, <3>1 DEF TasksAdded
    <3> DEFINE acc == f[k]
               new == AddTask(acc, specs[order[k + 1]], m)
    <3>4. \E T : Prefix(T, new, k + 1, specs, m, order)
      <4> HIDE DEF acc
      <4>1. Prefix(S, acc, k, specs, m, order)
        BY Zenon, <3>2 DEF acc
      <4>2. Prefix(S \cup PodsOfType(order[k + 1], Granted(specs[order[k + 1]], m, acc.podCnt)),
                   AddTask(acc, specs[order[k + 1]], m), k + 1, specs, m, order)
        BY Zenon, <2>1, <4>1, PrefixStep
      <4> QED
        BY Zenon, <4>2
    <3> QED
      BY Zenon, <2>0, <3>3, <3>4
  <2>2. CASE ~(k + 1 <= n)
    BY Zenon, <2>0, <2>2
  <2> QED
    BY Zenon, <2>1, <2>2
<1>3. n \in G /\ n <= n
  <2>1. n <= n
    OBVIOUS
  <2> HIDE DEF G
  <2> QED
    BY Zenon, <1>1, <1>2, <2>1, NatSetInduction
<1> QED
  BY Zenon, <1>3

(* All pods of all types, or as many as are wanted, the foremost.          *)
LEMMA CountedAreForemost ==
    ASSUME NEW N, NEW specs, SpecsOver(specs, N), NEW m \in Nat, NEW n \in Nat,
           NEW classes, AreClasses(classes),
           NEW order, IsOrder(order, n, DOMAIN specs, Priorities(specs, classes)),
           \A t \in DOMAIN specs : \E i \in 1 .. n : order[i] = t,
           NEW S, NEW acc, Prefix(S, acc, n, specs, m, order)
    PROVE  /\ S \in Foremost(m, specs, classes)
           /\ acc.list = Needs(S, specs)
           /\ m >= Cardinality(PodsOf(specs)) => S = PodsOf(specs)
<1> DEFINE P == PodsOf(specs)
           pr == Priorities(specs, classes)
<1>1. /\ S \in SUBSET P /\ IsFiniteSet(S) /\ IsFiniteSet(ContainersOf(S, specs))
      /\ acc.podCnt \in Nat /\ acc.podCnt = Cardinality(S) /\ acc.podCnt <= m
      /\ acc.list = Total(ContainersOf(S, specs), AllContainers(specs), specs)
      /\ \A p \in S : \E i \in 1 .. n : p[1] = order[i]
      /\ acc.podCnt < m => \A i \in 1 .. n : Whole(order[i], S, specs)
      /\ \A i \in 1 .. n : HasPods(order[i], S) => \A j \in 1 .. (i - 1) : Whole(order[j], S, specs)
  BY Zenon DEF Prefix
<1>2. /\ order \in [1 .. n -> DOMAIN specs]
      /\ \A i, j \in 1 .. n : i < j => pr[order[i]] >= pr[order[j]]
  BY Zenon DEF IsOrder
<1>3. pr \in [DOMAIN specs -> Int] /\ \A t \in DOMAIN specs : pr[t] = Priority(specs[t], classes)
  BY Zenon, OrderShape DEF Priorities
<1>4. IsFiniteSet(P) /\ Cardinality(P) \in Nat
  BY Zenon, PodsFinite
<1>5. \A p \in P : /\ p[1] \in DOMAIN specs
                   /\ \A R : Whole(p[1], R, specs) => p \in R
  <2> SUFFICES ASSUME NEW p \in P
               PROVE  p[1] \in DOMAIN specs /\ \A R : Whole(p[1], R, specs) => p \in R
    BY Zenon
  <2>1. p[1] \in DOMAIN specs /\ p[2] \in 1 .. ReplicasOf(specs[p[1]]) /\ p = <<p[1], p[2]>>
    BY Zenon, PodsOfShape
  <2> DEFINE t == p[1]
             i == p[2]
  <2>2. <<t, i>> \in PodsOfType(t, ReplicasOf(specs[t]))
    BY Zenon, <2>1 DEF PodsOfType
  <2> QED
    BY Zenon, <2>1, <2>2 DEF Whole
<1> HIDE DEF P, pr
<1>6. Cardinality(S) <= Cardinality(P) /\ (Cardinality(P) = Cardinality(S) => P = S)
  BY Zenon, <1>1, <1>4, FS_Subset
<1>7. acc.podCnt < m => S = P
  <2> SUFFICES ASSUME acc.podCnt < m PROVE S = P
    BY Zenon
  <2>1. \A t \in DOMAIN specs : Whole(t, S, specs)
    BY Zenon, <1>1
  <2> QED
    BY Zenon, <1>1, <1>5, <2>1
<1>8. m >= Cardinality(P) => S = P
  <2>1. acc.podCnt < m \/ acc.podCnt = m
    BY SMTT(30), <1>1
  <2>2. acc.podCnt = m /\ m >= Cardinality(P) => Cardinality(P) = Cardinality(S)
    BY SMTT(30), <1>1, <1>4, <1>6
  <2> QED
    BY ZenonT(30), <1>6, <1>7, <2>1, <2>2
<1>9. Cardinality(S) = Min({m, Cardinality(P)})
  <2> DEFINE c == Cardinality(P)
             s == Cardinality(S)
  <2>1. c \in Nat /\ s \in Nat /\ s <= c /\ s <= m /\ (s = m \/ s = c)
    <3>1. s = m \/ s = c
      <4>1. s < m \/ s = m
        BY <1>1
      <4> QED
        BY ZenonT(30), <1>1, <1>7, <4>1
    <3> QED
      BY Zenon, <1>1, <1>4, <1>6, <3>1
  <2> HIDE DEF c, s
  <2> DEFINE a == Min({m, c})
  <2>2. a \in {m, c} /\ \A y \in {m, c} : a =< y
    <3>1. \E x \in {m, c} : \A y \in {m, c} : x =< y
      BY <2>1
    <3> QED
      BY Zenon, <3>1 DEF Min
  <2> HIDE DEF a
  <2>3. s = a
    BY <2>1, <2>2
  <2> QED
    BY Zenon, <2>3 DEF s, c, a
<1>10. ASSUME NEW in \in S, NEW out \in P \ S
       PROVE  Priority(specs[out[1]], classes) <= Priority(specs[in[1]], classes)
  <2>1. PICK i \in 1 .. n : in[1] = order[i]
    BY Zenon, <1>1
  <2>2. out[1] \in DOMAIN specs
    BY Zenon, <1>5
  <2>3. PICK j \in 1 .. n : order[j] = out[1]
    BY Zenon, <2>2
  <2>4. ~(j < i)
    <3>1. ASSUME j < i PROVE FALSE
      <4>1. j \in 1 .. (i - 1)
        BY <3>1
      <4>2. HasPods(order[i], S)
        BY Zenon, <2>1 DEF HasPods
      <4>3. Whole(out[1], S, specs)
        BY ZenonT(30), <1>1, <2>3, <4>1, <4>2
      <4> QED
        BY Zenon, <1>5, <4>3
    <3> QED
      BY Zenon, <3>1
  <2>5. i = j \/ i < j
    BY <2>4
  <2>6. i = j \/ pr[in[1]] >= pr[out[1]]
    BY Zenon, <1>2, <2>1, <2>3, <2>5
  <2>7. in[1] \in DOMAIN specs
    BY Zenon, <1>2, <2>1
  <2>8. pr[in[1]] \in Int /\ pr[out[1]] \in Int
    BY Zenon, <1>3, <2>2, <2>7
  <2>9. pr[out[1]] <= pr[in[1]]
    <3>1. CASE i = j
      <4>1. in[1] = out[1]
        BY ZenonT(30), <2>1, <2>3, <3>1
      <4> QED
        BY SMTT(30), <2>8, <4>1
    <3>2. CASE i # j
      <4>1. pr[in[1]] >= pr[out[1]]
        BY Zenon, <2>6, <3>2
      <4> QED
        BY <2>8, <4>1
    <3> QED
      BY Zenon, <3>1, <3>2
  <2> QED
    BY Zenon, <1>3, <2>2, <2>7, <2>9
<1>11. S \in Foremost(m, specs, classes)
  BY Zenon, <1>1, <1>9, <1>10 DEF Foremost, kSubset, P
<1>12. acc.list = Needs(S, specs)
  <2> DEFINE U == AllContainers(specs)
  <2>1. \A x \in U : Of(x, specs) \in Quota!ListsOver(N)
    BY Zenon, ContainersTyped
  <2>2. ContainersOf(S, specs) \in SUBSET U
    BY ZenonT(30), <1>1, ContainersShape DEF AllContainers, P
  <2> HIDE DEF U
  <2>3. Needs(S, specs) = Total(ContainersOf(S, specs), U, specs)
    BY SMTT(30), <1>1, <2>1, <2>2, NeedsIsTotal
  <2> QED
    BY Zenon, <1>1, <2>3 DEF U
<1> QED
  BY Zenon, <1>8, <1>11, <1>12 DEF P

(* So CalcPGMinResources gives what some foremost pods need, in whatever   *)
(* order.                                                                  *)
LEMMA CalcIsNeeds ==
    ASSUME NEW N, NEW specs, SpecsOver(specs, N), NEW m \in Nat,
           NEW classes, AreClasses(classes), NEW order \in ReplicasPriority(specs, classes)
    PROVE  \E S \in Foremost(m, specs, classes) :
             /\ CalcPGMinResources(m, specs, order) = Needs(S, specs)
             /\ m >= Cardinality(PodsOf(specs)) => S = PodsOf(specs)
<1> DEFINE n == Cardinality(DOMAIN specs)
<1>1. /\ n \in Nat /\ IsOrder(order, n, DOMAIN specs, Priorities(specs, classes))
      /\ \A t \in DOMAIN specs : \E i \in 1 .. n : order[i] = t
  BY SMT, OrderShape
<1> HIDE DEF n
<1>2. order \in [1 .. n -> DOMAIN specs] /\ \A i, j \in 1 .. n : i # j => order[i] # order[j]
  BY Zenon, <1>1 DEF IsOrder
<1>3. PICK f : /\ TasksAdded(f, specs, m, order, n)
               /\ CalcPGMinResources(m, specs, order) = f[n].list
  <2>1. n \in Nat /\ order \in [1 .. n -> DOMAIN specs]
    BY Zenon, <1>1, <1>2
  <2> QED
    BY SMTT(30), <2>1, TaskFold
<1>4. PICK S : Prefix(S, f[n], n, specs, m, order)
  BY Zenon, <1>1, <1>2, <1>3, PrefixExists
<1> DEFINE acc == f[n]
<1>5. /\ S \in Foremost(m, specs, classes)
      /\ acc.list = Needs(S, specs)
      /\ m >= Cardinality(PodsOf(specs)) => S = PodsOf(specs)
  <2>1. Prefix(S, acc, n, specs, m, order)
    BY Zenon, <1>4
  <2> HIDE DEF acc
  <2> QED
    BY Zenon, <1>1, <2>1, CountedAreForemost
<1> QED
  BY Zenon, <1>3, <1>5

(* CalcPGMinResources keeps its promise, for any replica specs, containers *)
(* and lists of resources: whatever the order of equal priorities, the     *)
(* list is what the foremost pods need, and where the order should make no *)
(* difference it makes none.                                               *)
THEOREM PromiseKept ==
    ASSUME NEW N, NEW specs, SpecsOver(specs, N), NEW m \in Nat,
           NEW classes, AreClasses(classes)
    PROVE  Promise(specs, m, classes)
<1> DEFINE Q == ReplicasPriority(specs, classes)
           L == {CalcPGMinResources(m, specs, order) : order \in Q}
           pr == Priorities(specs, classes)
           D == DOMAIN specs
           n == Cardinality(D)
<1>1. \A order \in Q : \E S \in Foremost(m, specs, classes) :
          /\ CalcPGMinResources(m, specs, order) = Needs(S, specs)
          /\ m >= Cardinality(PodsOf(specs)) => S = PodsOf(specs)
  BY Zenon, CalcIsNeeds
<1>2. L \subseteq {Needs(S, specs) : S \in Foremost(m, specs, classes)}
  BY Zenon, <1>1
<1>3. PICK o : o \in Q
  <2>1. IsFiniteSet(D) /\ pr \in [D -> Int]
    BY Zenon, OrderShape DEF SpecsOver
  <2>2. \E order : IsOrder(order, n, D, pr)
    <3> HIDE DEF pr, D
    <3> QED
      BY Zenon, <2>1, OrderExists
  <2> QED
    BY Zenon, <2>2, OrderShape
<1>4. ASSUME m >= Cardinality(PodsOf(specs)) PROVE Cardinality(L) = 1
  <2>1. \A order \in Q : CalcPGMinResources(m, specs, order) = Needs(PodsOf(specs), specs)
    BY Zenon, <1>1, <1>4
  <2>2. L = {Needs(PodsOf(specs), specs)}
    BY Zenon, <1>3, <2>1
  <2> HIDE DEF L
  <2> QED
    BY Zenon, <2>2, FS_Singleton
<1>5. ASSUME Distinct(specs, classes) PROVE Cardinality(L) = 1
  <2>1. \A t, u \in D : t # u => pr[t] # pr[u]
    BY Zenon, <1>5 DEF Distinct, Priorities
  <2>2. n \in Nat /\ pr \in [D -> Int]
    BY Zenon, OrderShape
  <2>3. \A a \in Q : IsOrder(a, n, D, pr) /\ \A t \in D : \E i \in 1 .. n : a[i] = t
    BY SMTT(30), OrderShape
  <2>4. ASSUME NEW a \in Q PROVE a = o
    <3>1. IsOrder(a, n, D, pr) /\ \A t \in D : \E i \in 1 .. n : a[i] = t
      BY Zenon, <2>3
    <3>2. IsOrder(o, n, D, pr) /\ \A t \in D : \E i \in 1 .. n : o[i] = t
      BY Zenon, <1>3, <2>3
    <3> HIDE DEF D, n, pr
    <3> QED
      BY SMTT(30), <2>1, <2>2, <3>1, <3>2, OrderUnique
  <2>5. L = {CalcPGMinResources(m, specs, o)}
    <3> HIDE DEF Q
    <3> QED
      BY Zenon, <1>3, <2>4
  <2> HIDE DEF L
  <2> QED
    BY Zenon, <2>5, FS_Singleton
<1> QED
  BY Zenon, <1>2, <1>4, <1>5 DEF Promise

-----------------------------------------------------------------------------
(* What is assumed of the replica specs is what the proof needs.           *)
LEMMA ReplicaSpecsAreOver ==
    ASSUME NEW specs, AreReplicaSpecs(specs) PROVE \E N : SpecsOver(specs, N)
<1> DEFINE cs(t) == specs[t].containers
           N == UNION {UNION {DOMAIN Asked(cs(t)[i]) : i \in DOMAIN cs(t)} : t \in DOMAIN specs}
<1>1. /\ IsFiniteSet(DOMAIN specs)
      /\ \A t \in DOMAIN specs :
           /\ specs[t].replicas = None \/ specs[t].replicas \in Int
           /\ cs(t) \in Seq({cs(t)[i] : i \in DOMAIN cs(t)})
           /\ \A i \in DOMAIN cs(t) :
                /\ cs(t)[i].requests = None \/ IsResourceList(cs(t)[i].requests)
                /\ cs(t)[i].limits = None \/ IsResourceList(cs(t)[i].limits)
  BY Zenon DEF AreReplicaSpecs
<1>3. ASSUME NEW t \in DOMAIN specs PROVE \E n \in Nat : DOMAIN cs(t) = 1 .. n
  <2> DEFINE C == {cs(t)[i] : i \in DOMAIN cs(t)}
             s == cs(t)
  <2>1. s \in Seq(C)
    BY Zenon, <1>1
  <2> HIDE DEF C, s
  <2>2. Len(s) \in Nat /\ DOMAIN s = 1 .. Len(s)
    BY <2>1
  <2> QED
    BY Zenon, <2>2 DEF s
<1>4. ASSUME NEW c, c.requests = None \/ IsResourceList(c.requests),
                    c.limits = None \/ IsResourceList(c.limits)
      PROVE  Asked(c) \in [DOMAIN Asked(c) -> Int]
  <2>1. ASSUME NEW l, IsResourceList(l) PROVE l \in [DOMAIN l -> Int]
    <3>1. l = [k \in DOMAIN l |-> l[k]] /\ \A k \in DOMAIN l : l[k] \in Int
      BY Zenon, <2>1 DEF IsResourceList
    <3> QED
      BY Zenon, <3>1
  <2>2. CASE c.requests # None
    BY Zenon, <1>4, <2>1, <2>2 DEF Asked
  <2>3. CASE c.requests = None /\ c.limits # None
    BY Zenon, <1>4, <2>1, <2>3 DEF Asked
  <2>4. CASE c.requests = None /\ c.limits = None
    <3>1. Asked(c) = [k \in {} |-> 0]
      BY Zenon, <2>4 DEF Asked
    <3> QED
      BY Zenon, <3>1
  <2> QED
    BY Zenon, <2>2, <2>3, <2>4
<1>5. ASSUME NEW t \in DOMAIN specs, NEW i \in DOMAIN cs(t)
      PROVE  Asked(cs(t)[i]) \in Quota!ListsOver(N)
  <2> DEFINE a == Asked(cs(t)[i])
  <2>1. a \in [DOMAIN a -> Int]
    BY Zenon, <1>1, <1>4
  <2>2. DOMAIN a \in SUBSET N
    <3> DEFINE of(u) == UNION {DOMAIN Asked(cs(u)[j]) : j \in DOMAIN cs(u)}
    <3>1. DOMAIN a \in {DOMAIN Asked(cs(t)[j]) : j \in DOMAIN cs(t)}
      BY Zenon
    <3>2. \A k \in DOMAIN a : k \in of(t)
      BY Zenon, <3>1
    <3> HIDE DEF a, of
    <3>3. \A k \in DOMAIN a : k \in UNION {of(u) : u \in DOMAIN specs}
      BY Zenon, <3>2
    <3> QED
      BY Zenon, <3>3 DEF of
  <2> HIDE DEF a, N
  <2>3. a \in Quota!ListsOver(N)
    BY Zenon, <2>1, <2>2 DEF Quota!ListsOver
  <2> QED
    BY Zenon, <2>3 DEF a
<1> HIDE DEF N
<1>6. \A t \in DOMAIN specs : TaskOver(specs[t], N)
  BY Zenon, <1>3, <1>5 DEF TaskOver
<1> QED
  BY Zenon, <1>1, <1>6 DEF SpecsOver

(* What a pass fills in are the members that it counted and the resources  *)
(* of that many foremost pods.                                             *)
LEMMA FillsAreForemost ==
    ASSUME NEW name \in DOMAIN Sizes, NEW fill \in pgSpecFill[name]
    PROVE  /\ fill.minMember = MinMember(Sizes[name])
           /\ fill.minResources \in MinResources[name]
<1> DEFINE size == Sizes[name]
           m == MinMember(size)
           specs == size.specs
           none == PriorityClassLister
<1>1. PICK order \in ReplicasPriority(specs, none) :
         fill = [minMember |-> m, minResources |-> CalcPGMinResources(m, specs, order)]
  BY Zenon DEF pgSpecFill
<1>2. AreReplicaSpecs(specs) /\ m \in Nat
  BY Zenon, SizesAssumption
<1>3. AreClasses(none)
  BY Zenon DEF AreClasses, PriorityClassLister
<1>4. PICK S \in Foremost(m, specs, none) : CalcPGMinResources(m, specs, order) = Needs(S, specs)
  <2> HIDE DEF m, specs, none
  <2>1. PICK N : SpecsOver(specs, N)
    BY Zenon, <1>2, ReplicaSpecsAreOver
  <2> QED
    BY Zenon, <1>1, <1>2, <1>3, <2>1, CalcIsNeeds
<1>5. MinResources[name] = {Needs(T, specs) : T \in Foremost(m, specs, none)}
  BY Zenon DEF MinResources
<1> HIDE DEF m, specs, none
<1>6. fill.minMember = m /\ fill.minResources = Needs(S, specs)
  BY Zenon, <1>1, <1>4
<1>7. fill.minResources \in MinResources[name]
  BY Zenon, <1>4, <1>5, <1>6
<1> QED
  BY Zenon, <1>6, <1>7 DEF m

(* A step that creates pods finds their PodGroup in the API server, with   *)
(* the members that the pass's spec asks for, the resources of the         *)
(* foremost of its pods and, with Volcano, let in: SyncPodGroup and what   *)
(* ReconcileKubeCluster does after it, for all replica specs.              *)
THEOREM PodsHaveTheirGroup == Spec => PodsJoinTheirGroup
<1>1. GangInv /\ [Next]_vars =>
        [pods = "none" /\ pods' = "live" =>
           /\ group # None
           /\ group.spec.minMember = MinMember(Sizes[w.cluster.spec.size])
           /\ group.spec.minResources \in MinResources[w.cluster.spec.size]
           /\ scheduler = "volcano" => group.phase = "Inqueue"]_vars
  <2> SUFFICES ASSUME GangInv, [Next]_vars, pods = "none", pods' = "live"
               PROVE  /\ group # None
                      /\ group.spec.minMember = MinMember(Sizes[w.cluster.spec.size])
                      /\ group.spec.minResources \in MinResources[w.cluster.spec.size]
                      /\ scheduler = "volcano" => group.phase = "Inqueue"
    BY Zenon
  <2>1. LaunchPods
    BY Zenon DEF Next, PassStep, StartPass, SyncPodGroup, UpdatePodGroup, CreatePodGroup,
           GetCreatedPodGroup, DelayPods, EndPass, DeletePods, DeletePodGroup,
           Suspended, Edit, Schedule, PodsGone, DeliverCluster, DeliverPods,
           DeliverGroup, Resync, Crash, vars
  <2>2. /\ group # None /\ Size \in DOMAIN Sizes /\ group.spec \in pgSpecFill[Size]
        /\ scheduler = "volcano" => group.phase = "Inqueue"
    BY Zenon, <2>1 DEF LaunchPods, GangInv, Shape, Held
  <2>3. /\ group.spec.minMember = MinMember(Sizes[Size])
        /\ group.spec.minResources \in MinResources[Size]
    BY Zenon, <2>2, FillsAreForemost
  <2> QED
    BY Zenon, <2>2, <2>3 DEF Size
<1> QED
  BY <1>1, InitGang, NextGang, PTL DEF Spec, PodsJoinTheirGroup
=============================================================================
