--------------------- MODULE ClusterLifecycleInvariants ---------------------
(***************************************************************************)
(* The inductive invariants of ClusterLifecycle for any number of worker   *)
(* types, any policies and any budgets: types; that a PBS Pro cluster is   *)
(* called running only after its server has run; the form of the           *)
(* conditions, the finality of failure, deletion only after the TTL; that  *)
(* a cluster created suspended stays without children; and the order in    *)
(* which the controller sees what happens to a pod, which keeps a cluster  *)
(* that restarts its pods from failing.                                    *)
(***************************************************************************)
EXTENDS ClusterLifecycle, TLAPS

-----------------------------------------------------------------------------
(* Types of what the actions compute.                                      *)

(* Updating a list of conditions gives a list of conditions. *)
LEMMA ConditionsType ==
  ASSUME NEW conds \in SUBSET Conditions, NEW type \in ConditionTypes,
         NEW st \in BOOLEAN, NEW reason \in Reasons
  PROVE UpdateClusterConditions(conds, type, st, reason) \in SUBSET Conditions
<1> DEFINE cond == [type |-> type, status |-> st, reason |-> reason]
<1>1. cond \in Conditions
  BY Zenon DEF Conditions
<1>2. filterOutCondition(conds, cond.type) \in SUBSET Conditions
  BY Zenon DEF filterOutCondition, Conditions
<1> QED
  BY Zenon, <1>1, <1>2 DEF UpdateClusterConditions, setCondition

(* The status before anything happened is a status. *)
LEMMA NewStatusType == NewStatus \in StatusValues
BY DEF NewStatus, StatusValues, NoReplicas

(* The statuses that the branches of a pass compute are statuses. *)
LEMMA BranchStatusType ==
  ASSUME NEW st \in StatusValues, now \in Times
  PROVE /\ onOwnerCreate(st) \in StatusValues
        /\ Resumed(st) \in StatusValues
        /\ SuspendedStatus(st) \in StatusValues
        /\ FailedStatus(st) \in StatusValues
<1>0. st.conds \in SUBSET Conditions
  BY Zenon DEF StatusValues
<1>1. onOwnerCreate(st) \in StatusValues
  <2>1. UpdateClusterConditions(st.conds, "Created", TRUE, "Created") \in SUBSET Conditions
    BY Zenon, <1>0, ConditionsType DEF ConditionTypes, Reasons
  <2> QED BY Zenon, <2>1 DEF onOwnerCreate, StatusValues
<1>2. Resumed(st) \in StatusValues
  <2>1. UpdateClusterConditions(st.conds, "Suspended", FALSE, "Suspended") \in SUBSET Conditions
    BY Zenon, <1>0, ConditionsType DEF ConditionTypes, Reasons
  <2> QED BY Zenon, <2>1 DEF Resumed, StatusValues
<1>3. SuspendedStatus(st) \in StatusValues
  <2> DEFINE stopped == IF IsRunning(st.conds)
                          THEN UpdateClusterConditions(st.conds, "Running", FALSE, "Suspended")
                          ELSE st.conds
             final == IF IsSuspended(stopped) THEN stopped
                      ELSE UpdateClusterConditions(stopped, "Suspended", TRUE, "Suspended")
             counts == [r \in Types |-> [st.replicas[r] EXCEPT !.active = 0]]
  <2>1. stopped \in SUBSET Conditions
    BY Zenon, <1>0, ConditionsType DEF ConditionTypes, Reasons
  <2>2. final \in SUBSET Conditions
    <3> HIDE DEF stopped
    <3> QED BY Zenon, <2>1, ConditionsType DEF ConditionTypes, Reasons
  <2>3. counts \in [Types -> [active : 0..1, failed : 0..1]]
    BY DEF StatusValues
  <2>4. SuspendedStatus(st) = [st EXCEPT !.replicas = counts, !.conds = final]
    BY Zenon DEF SuspendedStatus, StatusValues
  <2> HIDE DEF final, counts
  <2> QED BY Zenon, <2>2, <2>3, <2>4 DEF StatusValues
<1>4. FailedStatus(st) \in StatusValues
  <2>1. UpdateClusterConditions(st.conds, "Failed", TRUE, "Failed") \in SUBSET Conditions
    BY Zenon, <1>0, ConditionsType DEF ConditionTypes, Reasons
  <2> QED BY Zenon, <2>1 DEF FailedStatus, StatusValues
<1> QED BY Zenon, <1>1, <1>2, <1>3, <1>4

(* The schema's update of a status gives a status. *)
LEMMA SchemaUpdateType ==
  ASSUME NEW st \in StatusValues, NEW r \in Types, now \in Times
  PROVE SchemaUpdate(st, r) \in StatusValues
<1> DEFINE runs == IF Schema = "slurm" THEN slurmRuns(r) ELSE pbsproRuns(r, st.replicas[r].active)
           fails == IF Schema = "slurm" THEN slurmFails(r, st.replicas[r].active)
                                        ELSE pbsproFails(r)
           conds == IF runs
                      THEN UpdateClusterConditions(st.conds, "Running", TRUE, "Running")
                      ELSE st.conds
           failing == st.replicas[r].failed > 0 /\ ~HasCondition(conds, "Restarting") /\ fails
           again == IF st.replicas[r].failed > 0 /\ HasCondition(conds, "Restarting")
                      THEN UpdateClusterConditions(conds, "Restarting", TRUE, "Restarting")
                      ELSE conds
           failed == UpdateClusterConditions(conds, "Failed", TRUE, "Failed")
           t == IF st.completion = Unset THEN now ELSE st.completion
<1>1. conds \in SUBSET Conditions
  BY ConditionsType, ZenonT(30) DEF StatusValues, ConditionTypes, Reasons
<1>2. again \in SUBSET Conditions /\ failed \in SUBSET Conditions
  <2> HIDE DEF conds
  <2> QED BY Zenon, <1>1, ConditionsType DEF ConditionTypes, Reasons
<1>3. t \in Times \cup {Unset}
  BY Zenon DEF StatusValues
<1>4. SchemaUpdate(st, r) = IF failing THEN [st EXCEPT !.conds = failed, !.completion = t]
                                       ELSE [st EXCEPT !.conds = again]
  BY Zenon DEF SchemaUpdate, StatusValues
<1> HIDE DEF failing, failed, again, t
<1> QED BY Zenon, <1>2, <1>3, <1>4 DEF StatusValues

-----------------------------------------------------------------------------
(* Types of the writes, and of what a step leaves alone.                   *)

(* A group of variables that does not change keeps its types. *)
LEMMA KeepTypes ==
  /\ ClusterType /\ UNCHANGED clusterVars => ClusterType'
  /\ ChildType /\ UNCHANGED childVars => ChildType'
  /\ CacheType /\ UNCHANGED cacheVars => CacheType'
  /\ PassType /\ UNCHANGED <<queued, passVars>> => PassType'
  /\ CountType /\ UNCHANGED <<now, historyVars, countVars>> => CountType'
<1>1. ClusterType /\ UNCHANGED clusterVars => ClusterType'
  BY Zenon DEF ClusterType, clusterVars
<1>2. ChildType /\ UNCHANGED childVars => ChildType'
  BY Zenon DEF ChildType, childVars
<1>3. CacheType /\ UNCHANGED cacheVars => CacheType'
  BY Zenon DEF CacheType, cacheVars
<1>4. PassType /\ UNCHANGED <<queued, passVars>> => PassType'
  BY Zenon DEF PassType, passVars
<1>5. CountType /\ UNCHANGED <<now, historyVars, countVars>> => CountType'
  BY Zenon DEF CountType, historyVars, countVars
<1> QED BY Zenon, <1>1, <1>2, <1>3, <1>4, <1>5

(* A new version of the cluster. *)
LEMMA SetClusterType ==
  ASSUME ClusterType, NEW s \in BOOLEAN, NEW st \in StatusValues, SetCluster(s, st)
  PROVE ClusterType'
<1>1. [suspend |-> s, status |-> st] \in Versions
  BY Zenon DEF Versions
<1>2. clusterFeed' \in Seq(Versions)
  <2>1. /\ clusterFeed \in Seq(Versions)
        /\ clusterFeed' = Append(clusterFeed, [suspend |-> s, status |-> st])
    BY Zenon DEF ClusterType, SetCluster
  <2> QED BY <1>1, <2>1
<1> QED BY Zenon, <1>2 DEF ClusterType, SetCluster

(* The values a pod takes. *)
LEMMA PodUpdates ==
  /\ Absent \in PodValues /\ NewPod \in PodValues
  /\ NoPods \in [Types -> PodValues]
  /\ \A pod \in PodValues \ {Absent} :
       /\ [pod EXCEPT !.del = TRUE] \in PodValues
       /\ [pod EXCEPT !.restarts = @ + 1] \in PodValues
       /\ [pod EXCEPT !.phase = "Running"] \in PodValues
       /\ [pod EXCEPT !.phase = "Failed"] \in PodValues
<1>1. Absent \in PodValues /\ NewPod \in PodValues
  BY Zenon DEF Absent, NewPod, PodValues
<1>2. NoPods \in [Types -> PodValues]
  BY Zenon, <1>1 DEF NoPods
<1>3. ASSUME NEW pod \in PodValues \ {Absent}
      PROVE /\ [pod EXCEPT !.del = TRUE] \in PodValues
            /\ [pod EXCEPT !.restarts = @ + 1] \in PodValues
            /\ [pod EXCEPT !.phase = "Running"] \in PodValues
            /\ [pod EXCEPT !.phase = "Failed"] \in PodValues
  <2>1. pod \in [phase : {"Pending", "Running", "Failed"}, del : BOOLEAN, restarts : Nat]
    BY Zenon, <1>3 DEF PodValues
  <2>2. [pod EXCEPT !.del = TRUE] \in PodValues
    BY Zenon, <2>1 DEF PodValues
  <2>3. [pod EXCEPT !.restarts = @ + 1] \in PodValues
    BY <2>1 DEF PodValues
  <2>4. /\ [pod EXCEPT !.phase = "Running"] \in PodValues
        /\ [pod EXCEPT !.phase = "Failed"] \in PodValues
    BY Zenon, <2>1 DEF PodValues
  <2> QED BY Zenon, <2>2, <2>3, <2>4
<1> QED BY Zenon, <1>1, <1>2, <1>3

(* A pod that is there in some form is not the absent one. *)
LEMMA NotAbsent ==
  ASSUME NEW pod \in PodValues, pod.phase # "None" \/ pod.del
  PROVE pod \in PodValues \ {Absent}
BY DEF Absent

(* Writing a pod. *)
LEMMA SetPodType ==
  ASSUME ChildType, NEW r \in Types, NEW pod \in PodValues, SetPod(r, pod)
  PROVE ChildType'
<1>1. [type |-> r, pod |-> pod] \in [type : Types, pod : PodValues]
  BY Zenon
<1>2. podFeed' \in Seq([type : Types, pod : PodValues])
  <2> DEFINE E == [type : Types, pod : PodValues]
             e == [type |-> r, pod |-> pod]
  <2>1. podFeed \in Seq(E) /\ podFeed' = Append(podFeed, e) /\ e \in E
    BY Zenon, <1>1 DEF ChildType, SetPod
  <2> HIDE DEF E, e
  <2>2. podFeed' \in Seq(E)
    BY <2>1
  <2> QED BY Zenon, <2>2 DEF E
<1>3. pods' \in [Types -> PodValues]
  BY Zenon DEF ChildType, SetPod
<1> QED BY Zenon, <1>2, <1>3 DEF ChildType, SetPod

(* Writing a service. *)
LEMMA SetServiceType ==
  ASSUME ChildType, NEW r \in Types, NEW e \in BOOLEAN, SetService(r, e)
  PROVE ChildType'
<1>1. svcFeed' \in Seq([type : Types, exists : BOOLEAN])
  <2> DEFINE E == [type : Types, exists : BOOLEAN]
             v == [type |-> r, exists |-> e]
  <2>1. svcFeed \in Seq(E) /\ svcFeed' = Append(svcFeed, v) /\ v \in E
    BY Zenon DEF ChildType, SetService
  <2> HIDE DEF E, v
  <2>2. svcFeed' \in Seq(E)
    BY <2>1
  <2> QED BY Zenon, <2>2 DEF E
<1>2. svcs' \subseteq Types
  BY Zenon DEF ChildType, SetService
<1> QED BY Zenon, <1>1, <1>2 DEF ChildType, SetService

(* Writing the config map. *)
LEMMA SetConfigMapType ==
  ASSUME ChildType, NEW v \in CmValues, SetConfigMap(v)
  PROVE ChildType'
<1>1. cmFeed' \in Seq(CmValues)
  BY DEF ChildType, SetConfigMap
<1> QED BY Zenon, <1>1 DEF ChildType, SetConfigMap

(* Deleting one of them, or finding it gone. *)
LEMMA DeleteTypes ==
  ASSUME ChildType, NEW r \in Types
  PROVE /\ DeletePod(r) => ChildType'
        /\ DeleteService(r) => ChildType'
        /\ DeleteConfigMap => ChildType'
<1>1. DeletePod(r) => ChildType'
  <2>1. pods[r] \in PodValues
    BY Zenon DEF ChildType
  <2>2. CASE pods[r] = Absent \/ pods[r].del
    BY Zenon, <2>2, KeepTypes DEF DeletePod
  <2>3. CASE ~(pods[r] = Absent \/ pods[r].del)
    <3>1. [pods[r] EXCEPT !.del = TRUE] \in PodValues
      BY Zenon, <2>1, <2>3, PodUpdates
    <3> QED BY Zenon, <2>3, <3>1, SetPodType DEF DeletePod
  <2> QED BY Zenon, <2>2, <2>3
<1>2. DeleteService(r) => ChildType'
  BY Zenon, KeepTypes, SetServiceType DEF DeleteService
<1>3. DeleteConfigMap => ChildType'
  BY Zenon, KeepTypes, SetConfigMapType DEF DeleteConfigMap, CmValues
<1> QED BY Zenon, <1>1, <1>2, <1>3

(* The end of a pass, with or without an error. *)
LEMMA EndPassType ==
  ASSUME PassType
  PROVE Return \/ Abort => PassType'
BY Zenon, NewStatusType, PodUpdates DEF PassType, Return, Abort, EndPass, Stages, Modes, Types

(* A step of a pass: what InPass keeps, and the error counter. *)
LEMMA InPassType ==
  ASSUME TypeOK, NEW stage, InPass(stage), NoFault \/ CallFails
  PROVE CacheType' /\ CountType'
<1>1. CacheType'
  BY Zenon, KeepTypes DEF TypeOK, InPass
<1>2. errors' \in 0..MaxErrors
  BY ConstantsAssumption DEF TypeOK, CountType, NoFault, CallFails
<1>3. CountType'
  BY Zenon, <1>2 DEF TypeOK, CountType, InPass, historyVars
<1> QED BY Zenon, <1>1, <1>3

-----------------------------------------------------------------------------
(* Every action keeps the types.                                           *)

(* The users, the kubelets and the clock. *)
LEMMA EnvironmentType == TypeOK /\ Environment => TypeOK'
<1> SUFFICES ASSUME TypeOK, Environment PROVE TypeOK'
  BY Zenon
<1> USE DEF TypeOK
<1>1. CASE ToggleSuspend
  <2>1. ClusterType'
    BY Zenon, <1>1, SetClusterType DEF ToggleSuspend, ClusterType
  <2>2. ChildType' /\ CacheType'
    BY Zenon, <1>1, KeepTypes DEF ToggleSuspend
  <2>3. PassType'
    BY Zenon, <1>1 DEF ToggleSuspend, PassType
  <2>4. toggles' \in 0..MaxToggles
    BY ConstantsAssumption, <1>1 DEF ToggleSuspend, CountType
  <2>5. CountType'
    BY Zenon, <1>1, <2>4 DEF ToggleSuspend, CountType
  <2> QED BY Zenon, <2>1, <2>2, <2>3, <2>5
<1>2. CASE Tick
  <2>1. ClusterType' /\ ChildType' /\ CacheType' /\ PassType'
    BY Zenon, <1>2, KeepTypes DEF Tick
  <2>2. now' \in Times
    BY ConstantsAssumption, <1>2 DEF Tick, CountType, Times
  <2> QED BY Zenon, <1>2, <2>1, <2>2 DEF Tick, CountType, historyVars, countVars
<1>3. ASSUME NEW r \in Types,
             PodStarts(r) \/ PodFails(r) \/ ContainerRestarts(r) \/ Evict(r) \/ PodGone(r)
      PROVE TypeOK'
  <2>1. pods[r] \in PodValues
    BY Zenon DEF ChildType
  <2>2. ASSUME NEW pod \in PodValues, PodEvent(r, pod)
        PROVE ClusterType' /\ ChildType' /\ CacheType' /\ PassType'
    <3>1. ChildType'
      BY Zenon, <2>2, SetPodType DEF PodEvent
    <3>2. ClusterType' /\ CacheType' /\ PassType'
      BY Zenon, <2>2, KeepTypes DEF PodEvent
    <3> QED BY Zenon, <3>1, <3>2
  <2>3. CASE PodStarts(r)
    <3>1. [pods[r] EXCEPT !.phase = "Running"] \in PodValues
      BY Zenon, <2>1, <2>3, NotAbsent, PodUpdates DEF PodStarts
    <3>2. ClusterType' /\ ChildType' /\ CacheType' /\ PassType'
      BY Zenon, <2>2, <2>3, <3>1 DEF PodStarts
    <3>3. CountType'
      BY Zenon, <2>3 DEF PodStarts, PodEvent, CountType
    <3> QED BY Zenon, <3>2, <3>3
  <2>4. CASE PodFails(r)
    <3>1. [pods[r] EXCEPT !.phase = "Failed"] \in PodValues
      BY Zenon, <2>1, <2>4, NotAbsent, PodUpdates DEF PodFails
    <3>2. ClusterType' /\ ChildType' /\ CacheType' /\ PassType'
      BY Zenon, <2>2, <2>4, <3>1 DEF PodFails
    <3>3. failures' \in 0..MaxFailures
      BY ConstantsAssumption, <2>4 DEF PodFails, CountType
    <3>4. CountType'
      BY Zenon, <2>4, <3>3 DEF PodFails, PodEvent, CountType
    <3> QED BY Zenon, <3>2, <3>4
  <2>5. CASE ContainerRestarts(r)
    <3>1. [pods[r] EXCEPT !.restarts = @ + 1] \in PodValues
      BY Zenon, <2>1, <2>5, NotAbsent, PodUpdates DEF ContainerRestarts
    <3>2. ClusterType' /\ ChildType' /\ CacheType' /\ PassType'
      BY Zenon, <2>2, <2>5, <3>1 DEF ContainerRestarts
    <3>3. restarts' \in 0..MaxRestarts
      <4>1. restarts < MaxRestarts /\ restarts' = restarts + 1
        BY Zenon, <2>5 DEF ContainerRestarts
      <4> QED BY ConstantsAssumption, <4>1 DEF CountType
    <3>4. CountType'
      BY Zenon, <2>5, <3>3 DEF ContainerRestarts, PodEvent, CountType
    <3> QED BY Zenon, <3>2, <3>4
  <2>6. CASE Evict(r)
    <3>1. [pods[r] EXCEPT !.del = TRUE] \in PodValues
      BY Zenon, <2>1, <2>6, PodUpdates DEF Evict
    <3>2. ClusterType' /\ ChildType' /\ CacheType' /\ PassType'
      BY Zenon, <2>2, <2>6, <3>1 DEF Evict
    <3>3. evictions' \in 0..MaxEvictions
      <4>1. evictions < MaxEvictions /\ evictions' = evictions + 1
        BY Zenon, <2>6 DEF Evict
      <4> QED BY ConstantsAssumption, <4>1 DEF CountType
    <3>4. CountType'
      BY Zenon, <2>6, <3>3 DEF Evict, PodEvent, CountType
    <3> QED BY Zenon, <3>2, <3>4
  <2>7. CASE PodGone(r)
    <3>1. ClusterType' /\ ChildType' /\ CacheType' /\ PassType'
      BY Zenon, <2>2, <2>7, PodUpdates DEF PodGone
    <3>2. CountType'
      BY Zenon, <2>7 DEF PodGone, PodEvent, CountType
    <3> QED BY Zenon, <3>1, <3>2
  <2> QED BY Zenon, <1>3, <2>3, <2>4, <2>5, <2>6, <2>7
<1> QED BY Zenon, <1>1, <1>2, <1>3 DEF Environment

(* An element of a feed has the feed's type. *)
LEMMA FeedType ==
  ASSUME NEW S, NEW feed \in Seq(S), feed # <<>>
  PROVE Head(feed) \in S /\ Tail(feed) \in Seq(S)
OBVIOUS

(* The informer and the resync. *)
LEMMA InformerType == TypeOK /\ (Informer \/ Resync) => TypeOK'
<1> SUFFICES ASSUME TypeOK, Informer \/ Resync PROVE TypeOK'
  BY Zenon
<1> USE DEF TypeOK
<1>1. ASSUME Delivered PROVE CountType' /\ (queued' \in BOOLEAN => PassType')
  <2>1. CountType'
    BY Zenon, <1>1, KeepTypes DEF Delivered
  <2>2. queued' \in BOOLEAN => PassType'
    BY Zenon, <1>1 DEF Delivered, PassType, passVars
  <2> QED BY Zenon, <2>1, <2>2
<1>2. CASE ObserveCluster
  <2>1. Head(clusterFeed) \in Versions /\ clusterFeed' \in Seq(Versions)
    BY Zenon, <1>2, FeedType DEF ObserveCluster, ClusterType
  <2>2. cSuspend' \in BOOLEAN /\ cStatus' \in StatusValues
    BY Zenon, <1>2, <2>1 DEF ObserveCluster, Versions
  <2>3. ClusterType' /\ CacheType'
    BY Zenon, <1>2, <2>1, <2>2 DEF ObserveCluster, Delivered, ClusterType, CacheType
  <2>4. ChildType'
    BY Zenon, <1>2 DEF ObserveCluster, Delivered, ChildType
  <2>5. CountType' /\ PassType'
    BY Zenon, <1>1, <1>2 DEF ObserveCluster
  <2> QED BY Zenon, <2>3, <2>4, <2>5
<1>3. CASE ObservePod
  <2> DEFINE E == [type : Types, pod : PodValues]
  <2>1. podFeed \in Seq(E) /\ podFeed # <<>> /\ podFeed' = Tail(podFeed)
    BY Zenon, <1>3 DEF ObservePod, ChildType
  <2>2. Head(podFeed) \in E /\ podFeed' \in Seq(E)
    <3> HIDE DEF E
    <3> QED BY Zenon, <2>1, FeedType
  <2>3. cPods' \in [Types -> PodValues]
    BY Zenon, <1>3, <2>2 DEF ObservePod, CacheType
  <2>4. CacheType' /\ ChildType'
    BY Zenon, <1>3, <2>2, <2>3 DEF ObservePod, Delivered, CacheType, ChildType
  <2>5. ClusterType'
    BY Zenon, <1>3 DEF ObservePod, Delivered, ClusterType
  <2>6. CountType' /\ PassType'
    BY Zenon, <1>1, <1>3 DEF ObservePod
  <2> QED BY Zenon, <2>4, <2>5, <2>6
<1>4. CASE ObserveService
  <2> DEFINE E == [type : Types, exists : BOOLEAN]
  <2>1. svcFeed \in Seq(E) /\ svcFeed # <<>> /\ svcFeed' = Tail(svcFeed)
    BY Zenon, <1>4 DEF ObserveService, ChildType
  <2>2. Head(svcFeed) \in E /\ svcFeed' \in Seq(E)
    <3> HIDE DEF E
    <3> QED BY Zenon, <2>1, FeedType
  <2>3. cSvcs' \subseteq Types
    BY Zenon, <1>4, <2>2 DEF ObserveService, CacheType
  <2>4. CacheType' /\ ChildType'
    BY Zenon, <1>4, <2>2, <2>3 DEF ObserveService, Delivered, CacheType, ChildType
  <2>5. ClusterType'
    BY Zenon, <1>4 DEF ObserveService, Delivered, ClusterType
  <2>6. CountType' /\ PassType'
    BY Zenon, <1>1, <1>4 DEF ObserveService
  <2> QED BY Zenon, <2>4, <2>5, <2>6
<1>5. CASE ObserveConfigMap
  <2>1. Head(cmFeed) \in CmValues /\ cmFeed' \in Seq(CmValues)
    BY Zenon, <1>5, FeedType DEF ObserveConfigMap, ChildType
  <2>2. CacheType' /\ ChildType'
    BY Zenon, <1>5, <2>1 DEF ObserveConfigMap, Delivered, CacheType, ChildType
  <2>3. ClusterType'
    BY Zenon, <1>5 DEF ObserveConfigMap, Delivered, ClusterType
  <2>4. CountType' /\ PassType'
    BY Zenon, <1>1, <1>5 DEF ObserveConfigMap, PassType
  <2> QED BY Zenon, <2>2, <2>3, <2>4
<1>6. CASE Resync
  <2>1. ClusterType' /\ ChildType' /\ CacheType' /\ CountType'
    BY Zenon, <1>6, KeepTypes DEF Resync
  <2>2. PassType'
    BY Zenon, <1>6 DEF Resync, PassType, passVars
  <2> QED BY Zenon, <2>1, <2>2
<1> QED BY Zenon, <1>2, <1>3, <1>4, <1>5, <1>6 DEF Informer

(* A pass starts. *)
LEMMA StartPassType == TypeOK /\ StartPass => TypeOK'
<1> SUFFICES ASSUME TypeOK, StartPass PROVE TypeOK'
  BY Zenon
<1> USE DEF TypeOK
<1>1. ClusterType' /\ ChildType' /\ CacheType' /\ CountType'
  BY Zenon, KeepTypes DEF StartPass
<1>2. Branch \in {"finished", "suspended", "limit", "normal"}
  BY Zenon DEF Branch
<1>3. wStatus' \in StatusValues
  BY Zenon, BranchStatusType DEF StartPass, CacheType, CountType
<1>4. todo' \subseteq Types /\ pc' \in Stages
  <2>1. CASE Branch = "normal"
    BY Zenon, <2>1 DEF StartPass, Stages
  <2>2. CASE Branch # "normal"
    BY Zenon, <2>2 DEF StartPass, Stages, ToTearDown, Present, AfterTeardown
  <2> QED BY Zenon, <2>1, <2>2
<1>5. PassType'
  BY Zenon, <1>2, <1>3, <1>4 DEF StartPass, PassType, CacheType, Modes
<1> QED BY Zenon, <1>1, <1>5

(* The steps of the branches that take a cluster down. *)
LEMMA TearDownType ==
  TypeOK /\ (TearDownPod \/ TearDownService \/ RemoveConfigMap \/ CleanupCluster) => TypeOK'
<1> SUFFICES ASSUME TypeOK,
                    TearDownPod \/ TearDownService \/ RemoveConfigMap \/ CleanupCluster
             PROVE TypeOK'
  BY Zenon
<1> USE DEF TypeOK
<1>0. Return \/ Abort => PassType'
  BY Zenon, EndPassType
<1>00. UNCHANGED childVars => ChildType'
  BY Zenon, KeepTypes
<1>1. CASE TearDownPod
  <2>1. CacheType' /\ CountType'
    BY Zenon, <1>1, InPassType DEF TearDownPod, Call
  <2>2. ClusterType'
    BY Zenon, <1>1, KeepTypes DEF TearDownPod
  <2>3. PICK r \in todo :
          Call(DeletePod(r),
               /\ pc' = "teardownService" /\ cur' = r
               /\ UNCHANGED <<mode, todo, noUid, wCurrent, wStatus, wPods, wSvcs, queued>>)
    BY Zenon, <1>1 DEF TearDownPod
  <2>4. r \in Types
    BY Zenon DEF PassType
  <2>5. DeletePod(r) => ChildType'
    BY Zenon, <2>4, DeleteTypes
  <2>6. ChildType'
    BY Zenon, <1>00, <2>3, <2>5 DEF Call
  <2>7. PassType'
    BY Zenon, <1>0, <2>3, <2>4 DEF Call, PassType, Stages
  <2> QED BY Zenon, <2>1, <2>2, <2>6, <2>7
<1>2. CASE TearDownService
  <2>1. CacheType' /\ CountType'
    BY Zenon, <1>2, InPassType DEF TearDownService, Call
  <2>2. ClusterType'
    BY Zenon, <1>2, KeepTypes DEF TearDownService
  <2>3. cur \in Types
    BY Zenon DEF PassType
  <2>4. DeleteService(cur) => ChildType'
    BY Zenon, <2>3, DeleteTypes
  <2>5. ChildType'
    BY Zenon, <1>2, <1>00, <2>4 DEF TearDownService, Call
  <2>6. PassType'
    BY Zenon, <1>2, <1>0 DEF TearDownService, Call, PassType, Stages, AfterTeardown, Types
  <2> QED BY Zenon, <2>1, <2>2, <2>5, <2>6
<1>3. CASE RemoveConfigMap
  <2>1. CacheType' /\ CountType'
    BY Zenon, <1>3, InPassType DEF RemoveConfigMap, ToStage, Call
  <2>2. ClusterType'
    BY Zenon, <1>3, KeepTypes DEF RemoveConfigMap
  <2>3. DeleteConfigMap => ChildType'
    BY Zenon, DeleteTypes DEF Types
  <2>4. ChildType'
    BY Zenon, <1>3, <1>00, <2>3 DEF RemoveConfigMap, ToStage, Call
  <2>5. PassType'
    BY Zenon, <1>3, <1>0 DEF RemoveConfigMap, ToStage, Call, PassType, Stages
  <2> QED BY Zenon, <2>1, <2>2, <2>4, <2>5
<1>4. CASE CleanupCluster
  <2>1. CacheType' /\ CountType'
    BY Zenon, <1>4, InPassType DEF CleanupCluster
  <2>2. ChildType'
    BY Zenon, <1>4, <1>00 DEF CleanupCluster
  <2>3. ClusterType'
    <3>1. CASE UNCHANGED clusterVars
      BY Zenon, <3>1, KeepTypes
    <3>2. CASE exists' = FALSE /\ UNCHANGED <<suspend, status, clusterFeed>>
      BY Zenon, <3>2 DEF ClusterType
    <3> QED BY Zenon, <1>4, <3>1, <3>2 DEF CleanupCluster
  <2>4. AfterCleanup => PassType'
    <3>1. SuspendedStatus(wStatus) \in StatusValues /\ FailedStatus(wStatus) \in StatusValues
      BY Zenon, BranchStatusType DEF PassType, CountType
    <3> QED BY Zenon, <1>0, <3>1 DEF AfterCleanup, PassType, Stages
  <2>5. PassType'
    BY Zenon, <1>0, <1>4, <2>4 DEF CleanupCluster
  <2> QED BY Zenon, <2>1, <2>2, <2>3, <2>5
<1> QED BY Zenon, <1>1, <1>2, <1>3, <1>4


(* The steps of the normal branch up to the services. *)
LEMMA NormalType ==
  TypeOK /\ (\/ ReconcileConfigMap \/ FillConfigMap \/ FillTemplate
             \/ ReconcilePod \/ ReconcileService) => TypeOK'
<1> SUFFICES ASSUME TypeOK,
                    \/ ReconcileConfigMap \/ FillConfigMap \/ FillTemplate
                    \/ ReconcilePod \/ ReconcileService
             PROVE TypeOK'
  BY Zenon
<1> USE DEF TypeOK
<1>0. Return \/ Abort => PassType'
  BY Zenon, EndPassType
<1>00. UNCHANGED childVars => ChildType'
  BY Zenon, KeepTypes
<1>1. CASE ReconcileConfigMap \/ FillConfigMap \/ FillTemplate
  <2>1. CacheType' /\ CountType'
    BY Zenon, <1>1, InPassType DEF ReconcileConfigMap, FillConfigMap, FillTemplate,
                            ToStage, ConfigMapUpdated, CallTimesOut, Call
  <2>2. ClusterType'
    BY Zenon, <1>1, KeepTypes DEF ReconcileConfigMap, FillConfigMap, FillTemplate
  <2>3. SetConfigMap("Empty") \/ SetConfigMap("Filled") \/ SetConfigMap("Unowned") => ChildType'
    BY Zenon, SetConfigMapType DEF CmValues
  <2>4. ChildType'
    BY Zenon, <1>1, <1>00, <2>3 DEF ReconcileConfigMap, FillConfigMap, FillTemplate,
                             ToStage, ConfigMapUpdated, CallTimesOut, Call
  <2>5. PassType'
    BY Zenon, <1>1, <1>0 DEF ReconcileConfigMap, FillConfigMap, FillTemplate,
                      ToStage, ConfigMapUpdated, CallTimesOut, Call, PassType, Stages
  <2> QED BY Zenon, <2>1, <2>2, <2>4, <2>5
<1>2. CASE ReconcilePod
  <2>1. CacheType' /\ CountType'
    BY Zenon, <1>2, InPassType DEF ReconcilePod, Call, CallTimesOut
  <2>2. ClusterType'
    BY Zenon, <1>2, KeepTypes DEF ReconcilePod
  <2> DEFINE Restarting == UpdateClusterConditions(wStatus.conds, "Restarting", TRUE, "Restarting")
  <2>3. PICK r \in todo :
          \/ Call(SetPod(r, NewPod), AfterPod(r, wStatus.conds))
          \/ UNCHANGED childVars /\ Abort
          \/ Call(DeletePod(r), AfterPod(r, Restarting))
          \/ AfterPod(r, wStatus.conds) /\ UNCHANGED childVars
    BY Zenon, <1>2 DEF ReconcilePod
  <2>4. r \in Types
    BY Zenon DEF PassType
  <2>5. SetPod(r, NewPod) \/ DeletePod(r) => ChildType'
    BY Zenon, <2>4, PodUpdates, SetPodType, DeleteTypes
  <2>6. ChildType'
    BY Zenon, <1>00, <2>3, <2>5 DEF Call
  <2>7. ASSUME NEW conds \in SUBSET Conditions, AfterPod(r, conds)
        PROVE PassType'
    <3>1. ReplicaStatus(wPods[r]) \in [active : 0..1, failed : 0..1]
      BY SMTT(60) DEF ReplicaStatus
    <3>2. wStatus' \in StatusValues
      <4>1. [wStatus.replicas EXCEPT ![r] = ReplicaStatus(wPods[r])]
              \in [Types -> [active : 0..1, failed : 0..1]]
        <5>1. wStatus.replicas \in [Types -> [active : 0..1, failed : 0..1]]
          BY Zenon DEF PassType, StatusValues
        <5> QED BY Zenon, <2>4, <3>1, <5>1
      <4>2. wStatus' = [wStatus EXCEPT
                          !.replicas = [wStatus.replicas EXCEPT ![r] = ReplicaStatus(wPods[r])],
                          !.conds = conds]
        BY Zenon, <2>7 DEF AfterPod, PassType, StatusValues
      <4> QED BY Zenon, <2>7, <4>1, <4>2 DEF PassType, StatusValues
    <3> QED BY Zenon, <2>4, <2>7, <3>2 DEF AfterPod, PassType, Stages
  <2>8. wStatus.conds \in SUBSET Conditions
    BY Zenon DEF PassType, StatusValues
  <2>9. Restarting \in SUBSET Conditions
    BY Zenon, <2>8, ConditionsType DEF ConditionTypes, Reasons
  <2>10. PassType'
    <3> HIDE DEF Restarting
    <3> QED BY Zenon, <1>0, <2>3, <2>7, <2>8, <2>9 DEF Call
  <2> QED BY Zenon, <2>1, <2>2, <2>6, <2>10
<1>3. CASE ReconcileService
  <2>1. CacheType' /\ CountType'
    BY Zenon, <1>3, InPassType DEF ReconcileService, Call
  <2>2. ClusterType'
    BY Zenon, <1>3, KeepTypes DEF ReconcileService
  <2>3. cur \in Types
    BY Zenon DEF PassType
  <2>4. SetService(cur, TRUE) => ChildType'
    BY Zenon, <2>3, SetServiceType
  <2>5. ChildType'
    BY Zenon, <1>3, <1>00, <2>4 DEF ReconcileService, Call
  <2>6. NextType => PassType'
    BY Zenon DEF NextType, PassType, Stages, Types
  <2>7. PassType'
    BY Zenon, <1>0, <1>3, <2>6 DEF ReconcileService, Call
  <2> QED BY Zenon, <2>1, <2>2, <2>5, <2>7
<1> QED BY Zenon, <1>1, <1>2, <1>3

(* The status of the pass and its write, and a restart. *)
LEMMA StatusType == TypeOK /\ (UpdateClusterStatus \/ WriteStatus \/ Restart) => TypeOK'
<1> SUFFICES ASSUME TypeOK, UpdateClusterStatus \/ WriteStatus \/ Restart PROVE TypeOK'
  BY Zenon
<1> USE DEF TypeOK
<1>0. Return \/ Abort => PassType'
  BY Zenon, EndPassType
<1>1. CASE UpdateClusterStatus
  <2>1. CacheType' /\ CountType'
    BY Zenon, <1>1, InPassType DEF UpdateClusterStatus
  <2>2. ClusterType' /\ ChildType'
    BY Zenon, <1>1, KeepTypes DEF UpdateClusterStatus
  <2> DEFINE started == [wStatus EXCEPT !.start = IF @ = Unset THEN now ELSE @]
  <2>3. PICK r \in todo :
          /\ wStatus' = SchemaUpdate(started, r)
          /\ todo' = todo \ {r}
          /\ pc' = IF todo = {r} THEN "write" ELSE "update"
          /\ UNCHANGED <<mode, cur, noUid, wCurrent, wPods, wSvcs, queued>>
    BY Zenon, <1>1 DEF UpdateClusterStatus
  <2>4. started \in StatusValues
    BY Zenon DEF PassType, CountType, StatusValues
  <2>5. wStatus' \in StatusValues
    <3> HIDE DEF started
    <3> QED BY Zenon, <2>3, <2>4, SchemaUpdateType DEF PassType, CountType
  <2>6. PassType'
    BY Zenon, <2>3, <2>5 DEF PassType, Stages
  <2> QED BY Zenon, <2>1, <2>2, <2>6
<1>2. CASE WriteStatus
  <2>1. CacheType' /\ CountType'
    BY Zenon, <1>2, InPassType DEF WriteStatus
  <2>2. ChildType'
    BY Zenon, <1>2, KeepTypes DEF WriteStatus
  <2>3. ClusterType'
    <3>1. CASE UNCHANGED clusterVars
      BY Zenon, <3>1, KeepTypes
    <3>2. CASE SetCluster(suspend, wStatus)
      BY Zenon, <3>2, SetClusterType DEF ClusterType, PassType
    <3> QED BY Zenon, <1>2, <3>1, <3>2 DEF WriteStatus
  <2>4. PassType'
    BY Zenon, <1>0, <1>2 DEF WriteStatus
  <2> QED BY Zenon, <2>1, <2>2, <2>3, <2>4
<1>3. CASE Restart
  <2>1. PassType'
    BY Zenon, <1>0, <1>3 DEF Restart
  <2>2. cStatus' \in StatusValues
    BY Zenon, <1>3, BranchStatusType DEF Restart, ClusterType, CountType
  <2>3. ClusterType' /\ ChildType' /\ CacheType'
    BY <1>3, <2>2, SMTT(60) DEF Restart, ClusterType, ChildType, CacheType
  <2>4. crashes' \in 0..MaxCrashes
    BY ConstantsAssumption, <1>3, SMTT(60) DEF Restart, CountType
  <2>5. CountType'
    BY Zenon, <1>3, <2>4 DEF Restart, CountType, historyVars
  <2> QED BY Zenon, <2>1, <2>3, <2>5
<1> QED BY Zenon, <1>1, <1>2, <1>3

(* Every step keeps the types. *)
LEMMA TypeStep == TypeOK /\ [Next]_vars => TypeOK'
<1>1. TypeOK /\ UNCHANGED vars => TypeOK'
  BY Zenon, KeepTypes DEF TypeOK, vars
<1> QED
  BY Zenon, <1>1, EnvironmentType, InformerType, StartPassType, TearDownType, NormalType, StatusType
     DEF Next, PassStep

(* The initial states have the types. *)
LEMMA TypeInit == Init => TypeOK
<1> SUFFICES ASSUME Init PROVE TypeOK
  BY Zenon
<1>1. now \in Times
  BY ConstantsAssumption DEF Init, Times
<1>2. status \in StatusValues /\ wStatus \in StatusValues
  BY Zenon, NewStatusType DEF Init
<1>3. cStatus \in StatusValues
  BY Zenon, <1>1, <1>2, BranchStatusType DEF Init
<1>4. NoPods \in [Types -> PodValues]
  BY Zenon, PodUpdates
<1>5. ClusterType /\ CacheType
  BY <1>2, <1>3, <1>4, SMTT(60) DEF Init, ClusterType, CacheType, CmValues
<1>6. ChildType
  BY <1>4, SMTT(30) DEF Init, ChildType, CmValues
<1>7. PassType
  BY Zenon, <1>2, <1>4 DEF Init, PassType, Types, Stages, Modes
<1>8. CountType
  <2>1. active \in BOOLEAN
    BY Zenon DEF Init
  <2>2. /\ toggles \in 0..MaxToggles /\ failures \in 0..MaxFailures
        /\ restarts \in 0..MaxRestarts /\ evictions \in 0..MaxEvictions
        /\ errors \in 0..MaxErrors /\ crashes \in 0..MaxCrashes
    BY ConstantsAssumption, SMTT(30) DEF Init
  <2> QED BY Zenon, <1>1, <2>1, <2>2 DEF Init, CountType
<1> QED BY Zenon, <1>5, <1>6, <1>7, <1>8 DEF TypeOK

(* Every variable of the life cycle keeps its type, for any set of worker  *)
(* types, any policies and any budgets.                                    *)
THEOREM LifecycleTypes == Spec => []TypeOK
<1> QED BY TypeInit, TypeStep, PTL DEF Spec

-----------------------------------------------------------------------------
(* Where the copies of a status and of a pod come from, and that Running   *)
(* is only claimed after the head has run.                                 *)

(* Every copy of the status, and every copy of the pod of a type: in the   *)
(* API server, in the cache, in the running pass and in events.            *)
StatusCopies ==
  {status, cStatus, wStatus} \cup {clusterFeed[k].status : k \in DOMAIN clusterFeed}
PodCopies(r) ==
  {pods[r], cPods[r], wPods[r]}
    \cup {podFeed[k].pod : k \in {j \in DOMAIN podFeed : podFeed[j].type = r}}

(* What the schema's update starts from. *)
Started == [wStatus EXCEPT !.start = IF @ = Unset THEN now ELSE @]

(* The status after a pass has handled the pod of a type. *)
Counted(r, conds) == [wStatus EXCEPT !.replicas[r] = ReplicaStatus(wPods[r]), !.conds = conds]
Restarted == UpdateClusterConditions(wStatus.conds, "Restarting", TRUE, "Restarting")

(* Where a new copy of the status comes from. *)
Derived(s) ==
  \/ s \in StatusCopies \/ s = NewStatus
  \/ \E t \in StatusCopies : s \in {onOwnerCreate(t), Resumed(t), SuspendedStatus(t)}
  \/ pc = "cleanup" /\ mode \notin {"finished", "suspended"} /\ s = FailedStatus(wStatus)
  \/ pc = "update" /\ \E r \in todo : s = SchemaUpdate(Started, r)
  \/ pc = "pod" /\ \E r \in todo :
       \/ s = Counted(r, wStatus.conds)
       \/ NeedsRestart(wPods[r]) /\ s = Counted(r, Restarted)

LEMMA KeptStatusCopies ==
  ASSUME UNCHANGED <<status, cStatus, clusterFeed>>, Derived(wStatus')
  PROVE \A s \in StatusCopies' : Derived(s)
BY Zenon DEF StatusCopies, Derived

LEMMA EndedStatusCopies ==
  ASSUME UNCHANGED <<status, cStatus, clusterFeed>>, EndPass
  PROVE \A s \in StatusCopies' : Derived(s)
<1>1. wStatus' = NewStatus
  BY Zenon DEF EndPass
<1> QED BY Zenon, <1>1, KeptStatusCopies DEF Derived

LEMMA WrittenStatusCopies ==
  ASSUME TypeOK, NEW s \in BOOLEAN, NEW st \in StatusCopies, SetCluster(s, st),
         cStatus' = cStatus,
         wStatus' = wStatus \/ EndPass
  PROVE \A x \in StatusCopies' : Derived(x)
<1>1. /\ clusterFeed \in Seq(Versions)
      /\ clusterFeed' = Append(clusterFeed, [suspend |-> s, status |-> st])
      /\ status' = st
  BY Zenon DEF TypeOK, ClusterType, SetCluster
<1>2. ASSUME NEW k \in DOMAIN clusterFeed'
      PROVE clusterFeed'[k].status \in StatusCopies
  <2>1. CASE k \in DOMAIN clusterFeed
    <3>1. clusterFeed'[k] = clusterFeed[k]
      BY <1>1, <2>1
    <3> QED BY Zenon, <2>1, <3>1 DEF StatusCopies
  <2>2. CASE k \notin DOMAIN clusterFeed
    <3>1. clusterFeed'[k] = [suspend |-> s, status |-> st]
      BY <1>1, <1>2, <2>2
    <3> QED BY <3>1
  <2> QED BY Zenon, <2>1, <2>2
<1>3. wStatus' = wStatus \/ wStatus' = NewStatus
  BY Zenon DEF EndPass
<1>4. \A x \in StatusCopies' : x \in StatusCopies \cup {NewStatus}
  BY Zenon, <1>1, <1>2, <1>3 DEF StatusCopies
<1> QED BY Zenon, <1>4 DEF Derived

(* Every step derives its copies of the status from those there are. *)
LEMMA StatusCopiesStep ==
  ASSUME TypeOK, [Next]_vars
  PROVE \A s \in StatusCopies' : Derived(s)
<1>0. status \in StatusCopies /\ cStatus \in StatusCopies /\ wStatus \in StatusCopies
  BY Zenon DEF StatusCopies
<1>1. CASE UNCHANGED <<status, cStatus, clusterFeed, wStatus>>
  BY Zenon, <1>0, <1>1, KeptStatusCopies DEF Derived
<1>2. CASE ToggleSuspend
  <2>1. /\ (~suspend) \in BOOLEAN /\ SetCluster(~suspend, status)
        /\ UNCHANGED <<cStatus, wStatus>>
    BY Zenon, <1>2 DEF ToggleSuspend, cacheVars
  <2> QED BY Zenon, <1>0, <2>1, WrittenStatusCopies
<1>3. CASE ObserveCluster
  <2>1. /\ clusterFeed \in Seq(Versions) /\ clusterFeed # <<>>
        /\ clusterFeed' = Tail(clusterFeed)
        /\ cStatus' = Head(clusterFeed).status /\ UNCHANGED <<status, wStatus>>
    BY Zenon, <1>3 DEF ObserveCluster, Delivered, passVars, TypeOK, ClusterType
  <2>2. 1 \in DOMAIN clusterFeed /\ Head(clusterFeed) = clusterFeed[1]
    BY <2>1
  <2>3. \A k \in DOMAIN clusterFeed' : k + 1 \in DOMAIN clusterFeed
                                       /\ clusterFeed'[k] = clusterFeed[k + 1]
    BY <2>1
  <2>4. \A s \in StatusCopies' : s \in StatusCopies
    BY <2>1, <2>2, <2>3 DEF StatusCopies
  <2> QED BY Zenon, <2>4 DEF Derived
<1>4. CASE StartPass
  <2>1. UNCHANGED <<status, cStatus, clusterFeed>> /\ wStatus' \in {cStatus, Resumed(cStatus)}
    BY Zenon, <1>4 DEF StartPass, clusterVars, cacheVars
  <2>2. Derived(wStatus')
    BY Zenon, <1>0, <2>1 DEF Derived
  <2> QED BY Zenon, <2>1, <2>2, KeptStatusCopies
<1>5. CASE Restart
  <2>1. /\ clusterFeed' = <<>> /\ cStatus' = onOwnerCreate(status) /\ UNCHANGED status
        /\ wStatus' = NewStatus
    BY Zenon, <1>5 DEF Restart, Abort, EndPass
  <2>2. \A s \in StatusCopies' : s \in {status, onOwnerCreate(status), NewStatus}
    <3>1. DOMAIN clusterFeed' = {}
      BY <2>1
    <3>2. StatusCopies' = {status', cStatus', wStatus'}
      BY Zenon, <3>1 DEF StatusCopies
    <3> QED BY Zenon, <2>1, <3>2
  <2> QED BY Zenon, <1>0, <2>2 DEF Derived
<1>6. CASE TearDownPod \/ TearDownService \/ RemoveConfigMap \/ ReconcileConfigMap
           \/ FillConfigMap \/ FillTemplate \/ ReconcileService
  <2>1. UNCHANGED <<status, cStatus, clusterFeed>>
    BY Zenon, <1>6 DEF TearDownPod, TearDownService, RemoveConfigMap, ReconcileConfigMap,
                FillConfigMap, FillTemplate, ReconcileService, InPass, clusterVars, cacheVars
  <2>2. wStatus' = wStatus \/ EndPass
    BY Zenon, <1>6 DEF TearDownPod, TearDownService, RemoveConfigMap, ReconcileConfigMap,
                FillConfigMap, FillTemplate, ReconcileService, Call, Abort, ToStage,
                ConfigMapUpdated, NextType
  <2> QED BY Zenon, <1>1, <2>1, <2>2, EndedStatusCopies
<1>7. CASE CleanupCluster
  <2>1. UNCHANGED <<status, cStatus, clusterFeed>> /\ pc = "cleanup"
    BY Zenon, <1>7 DEF CleanupCluster, InPass, clusterVars, cacheVars
  <2>2. CASE EndPass
    BY Zenon, <2>1, <2>2, EndedStatusCopies
  <2>3. CASE ~EndPass
    <3>1. AfterCleanup /\ ~Return
      BY Zenon, <1>7, <2>3 DEF CleanupCluster, Abort, Return
    <3>2. \/ mode = "suspended" /\ wStatus' = SuspendedStatus(wStatus)
          \/ mode \notin {"finished", "suspended"} /\ wStatus' = FailedStatus(wStatus)
      BY Zenon, <3>1 DEF AfterCleanup
    <3>3. Derived(wStatus')
      BY Zenon, <1>0, <2>1, <3>2 DEF Derived
    <3> QED BY Zenon, <2>1, <3>3, KeptStatusCopies
  <2> QED BY Zenon, <2>2, <2>3
<1>8. CASE ReconcilePod
  <2>1. UNCHANGED <<status, cStatus, clusterFeed>> /\ pc = "pod"
    BY Zenon, <1>8 DEF ReconcilePod, InPass, clusterVars, cacheVars
  <2>2. CASE EndPass
    BY Zenon, <2>1, <2>2, EndedStatusCopies
  <2>3. CASE ~EndPass
    <3>1. PICK r \in todo : \/ AfterPod(r, wStatus.conds)
                            \/ NeedsRestart(wPods[r]) /\ AfterPod(r, Restarted)
      BY Zenon, <1>8, <2>3 DEF ReconcilePod, Call, Abort, Restarted
    <3>2. Derived(wStatus')
      BY Zenon, <2>1, <3>1 DEF AfterPod, Derived, Counted
    <3> QED BY Zenon, <2>1, <3>2, KeptStatusCopies
  <2> QED BY Zenon, <2>2, <2>3
<1>9. CASE UpdateClusterStatus
  <2>1. UNCHANGED <<status, cStatus, clusterFeed>> /\ pc = "update"
        /\ \E r \in todo : wStatus' = SchemaUpdate(Started, r)
    BY Zenon, <1>9 DEF UpdateClusterStatus, InPass, clusterVars, cacheVars, Started
  <2>2. Derived(wStatus')
    BY Zenon, <2>1 DEF Derived
  <2> QED BY Zenon, <2>1, <2>2, KeptStatusCopies
<1>10. CASE WriteStatus
  <2>1. EndPass /\ cStatus' = cStatus
    BY Zenon, <1>10 DEF WriteStatus, InPass, cacheVars, Abort, Return
  <2>2. CASE UNCHANGED clusterVars
    BY Zenon, <2>1, <2>2, EndedStatusCopies DEF clusterVars
  <2>3. CASE SetCluster(suspend, wStatus)
    <3>1. suspend \in BOOLEAN
      BY Zenon DEF TypeOK, ClusterType
    <3> QED BY Zenon, <1>0, <2>1, <2>3, <3>1, WrittenStatusCopies
  <2> QED BY Zenon, <1>10, <2>2, <2>3 DEF WriteStatus
<1>11. CASE \/ UNCHANGED vars \/ Tick \/ Resync
            \/ \E r \in Types : PodStarts(r) \/ PodFails(r) \/ ContainerRestarts(r)
                                \/ Evict(r) \/ PodGone(r)
            \/ ObservePod \/ ObserveService \/ ObserveConfigMap
  <2>1. UNCHANGED <<status, cStatus, clusterFeed, wStatus>>
    BY Zenon, <1>11 DEF vars, Tick, Resync, PodStarts, PodFails, ContainerRestarts, Evict, PodGone,
                 PodEvent, ObservePod, ObserveService, ObserveConfigMap,
              Delivered,
                 clusterVars, cacheVars, passVars
  <2> QED BY Zenon, <1>1, <2>1
<1> QED
  BY Zenon, <1>2, <1>3, <1>4, <1>5, <1>6, <1>7, <1>8, <1>9, <1>10, <1>11
  DEF Next, Environment, Informer, PassStep

(* Where a new copy of a pod comes from. *)
Grown(r, p) ==
  \/ p \in PodCopies(r) \/ p \in {Absent, NewPod}
  \/ pods[r] # Absent /\ p = [pods[r] EXCEPT !.del = TRUE]
  \/ r \in launched' /\ p = [pods[r] EXCEPT !.phase = "Running"]
  \/ failures' = failures + 1 /\ p = [pods[r] EXCEPT !.phase = "Failed"]
  \/ ContainerRestarts(r) /\ p = [pods[r] EXCEPT !.restarts = @ + 1]

LEMMA KeptPodCopies ==
  ASSUME UNCHANGED <<pods, cPods, podFeed>>, wPods' \in {wPods, cPods, NoPods}, NEW r \in Types
  PROVE \A p \in PodCopies(r)' : Grown(r, p)
<1>1. \A p \in PodCopies(r)' : p \in PodCopies(r) \/ p = Absent
  BY Zenon DEF PodCopies, NoPods
<1> QED BY Zenon, <1>1 DEF Grown

LEMMA WrittenPodCopies ==
  ASSUME TypeOK, NEW u \in Types, NEW pod, SetPod(u, pod), Grown(u, pod), cPods' = cPods,
         wPods' \in {wPods, NoPods}, NEW r \in Types
  PROVE \A p \in PodCopies(r)' : Grown(r, p)
<1> DEFINE e == [type |-> u, pod |-> pod]
           E == [type : Types, pod : PodValues]
<1>1. /\ podFeed \in Seq(E) /\ podFeed' = Append(podFeed, e)
      /\ pods \in [Types -> PodValues] /\ pods' = [pods EXCEPT ![u] = pod]
  BY Zenon DEF TypeOK, ChildType, SetPod
<1>2. pods'[r] = IF r = u THEN pod ELSE pods[r]
  BY Zenon, <1>1
<1>3. e.type = u /\ e.pod = pod
  BY Zenon
<1>4. ASSUME NEW k \in DOMAIN podFeed', podFeed'[k].type = r
      PROVE podFeed'[k].pod \in PodCopies(r) \/ (r = u /\ podFeed'[k].pod = pod)
  <2> HIDE DEF e, E
  <2>1. CASE k \in DOMAIN podFeed
    <3>1. podFeed'[k] = podFeed[k]
      BY <1>1, <2>1
    <3> QED BY Zenon, <1>4, <2>1, <3>1 DEF PodCopies
  <2>2. CASE k \notin DOMAIN podFeed
    <3>1. podFeed'[k] = e
      BY <1>1, <1>4, <2>2
    <3> QED BY Zenon, <1>3, <1>4, <3>1
  <2> QED BY Zenon, <2>1, <2>2
<1>5. wPods'[r] \in {wPods[r], Absent} /\ cPods'[r] = cPods[r]
  BY Zenon DEF NoPods
<1>6. \A p \in PodCopies(r)' : p \in PodCopies(r) \/ p = Absent \/ (r = u /\ p = pod)
  BY Zenon, <1>2, <1>4, <1>5 DEF PodCopies
<1> QED BY Zenon, <1>6 DEF Grown

LEMMA CallPodCopies ==
  ASSUME TypeOK, NEW u \in Types, DeletePod(u) \/ SetPod(u, NewPod), cPods' = cPods,
         wPods' \in {wPods, NoPods}, NEW r \in Types
  PROVE \A p \in PodCopies(r)' : Grown(r, p)
<1>1. CASE UNCHANGED childVars
  BY Zenon, <1>1, KeptPodCopies DEF childVars
<1>2. CASE pods[u] # Absent /\ SetPod(u, [pods[u] EXCEPT !.del = TRUE])
  BY Zenon, <1>2, WrittenPodCopies DEF Grown
<1>3. CASE SetPod(u, NewPod)
  BY Zenon, <1>3, WrittenPodCopies DEF Grown
<1> QED BY Zenon, <1>1, <1>2, <1>3 DEF DeletePod

(* Every step gets its copies of a pod from those there are. *)
LEMMA PodCopiesStep ==
  ASSUME TypeOK, [Next]_vars, NEW r \in Types
  PROVE \A p \in PodCopies(r)' : Grown(r, p)
<1>1. CASE UNCHANGED <<pods, podFeed, cPods>> /\ wPods' \in {wPods, cPods, NoPods}
  BY Zenon, <1>1, KeptPodCopies
<1>2. ASSUME NEW u \in Types, PodStarts(u) \/ PodFails(u) \/ ContainerRestarts(u)
                              \/ Evict(u) \/ PodGone(u)
      PROVE \A p \in PodCopies(r)' : Grown(r, p)
  <2>1. \E p : PodEvent(u, p) /\ Grown(u, p)
    BY Zenon, <1>2 DEF PodStarts, PodFails, ContainerRestarts, Evict, PodGone, Grown
  <2> QED BY Zenon, <2>1, WrittenPodCopies DEF PodEvent, cacheVars, passVars
<1>3. CASE ObservePod
  <2> DEFINE E == [type : Types, pod : PodValues]
  <2>1. /\ podFeed \in Seq(E) /\ podFeed # <<>> /\ podFeed' = Tail(podFeed)
        /\ cPods' = [cPods EXCEPT ![Head(podFeed).type] = Head(podFeed).pod]
        /\ cPods \in [Types -> PodValues] /\ UNCHANGED <<pods, wPods>>
    BY Zenon, <1>3 DEF ObservePod, Delivered, passVars, TypeOK, ChildType, CacheType
  <2>2. 1 \in DOMAIN podFeed /\ Head(podFeed) = podFeed[1]
    <3> HIDE DEF E
    <3> QED BY <2>1
  <2>3. \A k \in DOMAIN podFeed' : k + 1 \in DOMAIN podFeed /\ podFeed'[k] = podFeed[k + 1]
    <3> HIDE DEF E
    <3> QED BY <2>1
  <2>4. cPods'[r] = cPods[r] \/ (podFeed[1].type = r /\ cPods'[r] = podFeed[1].pod)
    BY Zenon, <2>1, <2>2
  <2>5. \A p \in PodCopies(r)' : p \in PodCopies(r)
    BY <2>1, <2>2, <2>3, <2>4 DEF PodCopies
  <2> QED BY Zenon, <2>5 DEF Grown
<1>4. CASE Restart
  <2>1. podFeed' = <<>> /\ cPods' = pods /\ UNCHANGED pods /\ wPods' = NoPods
    BY Zenon, <1>4 DEF Restart, Abort, EndPass
  <2>2. \A p \in PodCopies(r)' : p \in {pods[r], Absent}
    BY <2>1 DEF PodCopies, NoPods
  <2>3. pods[r] \in PodCopies(r)
    BY Zenon DEF PodCopies
  <2> QED BY Zenon, <2>2, <2>3 DEF Grown
<1>5. CASE TearDownPod \/ ReconcilePod
  <2>1. cPods' = cPods /\ todo \subseteq Types
    BY Zenon, <1>5 DEF TearDownPod, ReconcilePod, InPass, cacheVars, TypeOK, PassType
  <2>2. wPods' \in {wPods, NoPods}
    BY Zenon, <1>5 DEF TearDownPod, ReconcilePod, Call, Abort, EndPass, AfterPod
  <2>3. \/ UNCHANGED childVars
        \/ \E u \in todo : DeletePod(u) \/ SetPod(u, NewPod)
    BY Zenon, <1>5 DEF TearDownPod, ReconcilePod, Call
  <2>4. CASE UNCHANGED childVars
    BY Zenon, <2>1, <2>2, <2>4, KeptPodCopies DEF childVars
  <2> QED BY Zenon, <2>1, <2>2, <2>3, <2>4, CallPodCopies
<1>6. CASE TearDownService \/ RemoveConfigMap \/ CleanupCluster \/ ReconcileConfigMap
           \/ FillConfigMap \/ FillTemplate \/ ReconcileService
           \/ UpdateClusterStatus \/ WriteStatus
  <2>1. cPods' = cPods
    BY Zenon, <1>6 DEF TearDownService, RemoveConfigMap, CleanupCluster, ReconcileConfigMap,
                FillConfigMap, FillTemplate, ReconcileService, UpdateClusterStatus,
                WriteStatus,
                InPass, cacheVars
  <2>2. UNCHANGED <<pods, podFeed>>
    BY Zenon, <1>6 DEF TearDownService, RemoveConfigMap, CleanupCluster, ReconcileConfigMap,
                FillConfigMap, FillTemplate, ReconcileService, UpdateClusterStatus,
                WriteStatus,
                Call, childVars, DeleteService, DeleteConfigMap, SetService, SetConfigMap
  <2>3. wPods' = wPods \/ EndPass
    BY Zenon, <1>6 DEF TearDownService, RemoveConfigMap, CleanupCluster, ReconcileConfigMap,
                FillConfigMap, FillTemplate, ReconcileService, UpdateClusterStatus,
                WriteStatus,
                Call, Abort, Return, ToStage, AfterCleanup, ConfigMapUpdated, NextType
  <2> QED BY Zenon, <1>1, <2>1, <2>2, <2>3 DEF EndPass
<1>7. CASE StartPass
  BY Zenon, <1>1, <1>7 DEF StartPass, childVars, cacheVars
<1>8. CASE \/ UNCHANGED vars \/ ToggleSuspend \/ Tick \/ Resync
           \/ ObserveCluster \/ ObserveService \/ ObserveConfigMap
  BY Zenon, <1>1, <1>8 DEF vars, ToggleSuspend, Tick, Resync, ObserveCluster, ObserveService,
                    ObserveConfigMap, Delivered, childVars, cacheVars, passVars
<1> QED
  BY Zenon, <1>2, <1>3, <1>4, <1>5, <1>6, <1>7, <1>8 DEF Next, Environment, Informer, PassStep

-----------------------------------------------------------------------------
(* Running is not claimed before the head has run.                         *)

(* Only setting it makes the Running condition true. *)
LEMMA RunningUpdate ==
  ASSUME NEW conds \in SUBSET Conditions, NEW type \in ConditionTypes,
         NEW st \in BOOLEAN, NEW reason \in Reasons,
         IsRunning(UpdateClusterConditions(conds, type, st, reason))
  PROVE IsRunning(conds) \/ (type = "Running" /\ st)
<1> DEFINE cond == [type |-> type, status |-> st, reason |-> reason]
<1>1. CASE UpdateClusterConditions(conds, type, st, reason) = conds
  BY Zenon, <1>1
<1>2. CASE UpdateClusterConditions(conds, type, st, reason)
             = filterOutCondition(conds, cond.type) \cup {cond}
  <2>1. PICK c \in filterOutCondition(conds, cond.type) \cup {cond} :
          c.type = "Running" /\ c.status
    BY Zenon, <1>2 DEF IsRunning, isStatusConditionTrue
  <2>2. CASE c = cond
    BY Zenon, <2>1, <2>2
  <2>3. CASE c \in filterOutCondition(conds, cond.type)
    <3>1. PICK d \in conds : \/ c = [d EXCEPT !.status = FALSE]
                             \/ c = d
      BY Zenon, <2>3 DEF filterOutCondition
    <3>2. d \in Conditions
      BY Zenon
    <3>3. c = d
      BY Zenon, <2>1, <3>1, <3>2 DEF Conditions
    <3> QED BY Zenon, <2>1, <3>3 DEF IsRunning, isStatusConditionTrue
  <2> QED BY Zenon, <2>1, <2>2, <2>3
<1> QED BY Zenon, <1>1, <1>2 DEF UpdateClusterConditions, setCondition

(* The other updates of the controller do not. *)
LEMMA OtherUpdates ==
  ASSUME NEW conds \in SUBSET Conditions,
         \/ IsRunning(UpdateClusterConditions(conds, "Created", TRUE, "Created"))
         \/ IsRunning(UpdateClusterConditions(conds, "Restarting", TRUE, "Restarting"))
         \/ IsRunning(UpdateClusterConditions(conds, "Suspended", TRUE, "Suspended"))
         \/ IsRunning(UpdateClusterConditions(conds, "Suspended", FALSE, "Suspended"))
         \/ IsRunning(UpdateClusterConditions(conds, "Running", FALSE, "Suspended"))
         \/ IsRunning(UpdateClusterConditions(conds, "Failed", TRUE, "Failed"))
  PROVE IsRunning(conds)
<1> USE DEF ConditionTypes, Reasons
<1>1. TRUE \in BOOLEAN /\ FALSE \in BOOLEAN
  BY Zenon
<1>2. CASE IsRunning(UpdateClusterConditions(conds, "Created", TRUE, "Created"))
  BY Zenon, <1>1, <1>2, RunningUpdate
<1>3. CASE IsRunning(UpdateClusterConditions(conds, "Restarting", TRUE, "Restarting"))
  BY Zenon, <1>1, <1>3, RunningUpdate
<1>4. CASE IsRunning(UpdateClusterConditions(conds, "Suspended", TRUE, "Suspended"))
  BY Zenon, <1>1, <1>4, RunningUpdate
<1>5. CASE IsRunning(UpdateClusterConditions(conds, "Suspended", FALSE, "Suspended"))
  BY Zenon, <1>1, <1>5, RunningUpdate
<1>6. CASE IsRunning(UpdateClusterConditions(conds, "Running", FALSE, "Suspended"))
  BY Zenon, <1>1, <1>6, RunningUpdate
<1>7. CASE IsRunning(UpdateClusterConditions(conds, "Failed", TRUE, "Failed"))
  BY Zenon, <1>1, <1>7, RunningUpdate
<1> QED BY Zenon, <1>2, <1>3, <1>4, <1>5, <1>6, <1>7

(* A status that claims the head runs, or counts it as active. *)
Claims(st) == IsRunning(st.conds) \/ st.replicas["Head"].active > 0

(* What the branches of a pass compute claims no more than what they       *)
(* start from.                                                             *)
LEMMA BranchClaims ==
  ASSUME NEW st \in StatusValues,
         \/ Claims(onOwnerCreate(st)) \/ Claims(Resumed(st))
         \/ Claims(SuspendedStatus(st)) \/ Claims(FailedStatus(st))
  PROVE Claims(st)
<1>0. st.conds \in SUBSET Conditions
  BY Zenon DEF StatusValues
<1>1. CASE Claims(onOwnerCreate(st))
  <2>1. /\ onOwnerCreate(st).conds
             = UpdateClusterConditions(st.conds, "Created", TRUE, "Created")
        /\ onOwnerCreate(st).replicas = st.replicas
    BY Zenon DEF onOwnerCreate, StatusValues
  <2> QED BY Zenon, <1>0, <1>1, <2>1, OtherUpdates DEF Claims
<1>2. CASE Claims(Resumed(st))
  <2>1. \/ Resumed(st) = st
        \/ /\ Resumed(st).conds
                = UpdateClusterConditions(st.conds, "Suspended", FALSE, "Suspended")
           /\ Resumed(st).replicas = st.replicas
    BY Zenon DEF Resumed, StatusValues
  <2> QED BY Zenon, <1>0, <1>2, <2>1, OtherUpdates DEF Claims
<1>3. CASE Claims(SuspendedStatus(st))
  <2> DEFINE stopped == IF IsRunning(st.conds)
                          THEN UpdateClusterConditions(st.conds, "Running", FALSE, "Suspended")
                          ELSE st.conds
  <2>1. stopped \in SUBSET Conditions /\ (IsRunning(stopped) => IsRunning(st.conds))
    BY Zenon, <1>0, ConditionsType, OtherUpdates DEF ConditionTypes, Reasons
  <2>2. SuspendedStatus(st).conds = IF IsSuspended(stopped) THEN stopped
          ELSE UpdateClusterConditions(stopped, "Suspended", TRUE, "Suspended")
    BY Zenon DEF SuspendedStatus, StatusValues
  <2>3. SuspendedStatus(st).replicas["Head"].active = 0
    BY Zenon DEF SuspendedStatus, StatusValues, Types
  <2> HIDE DEF stopped
  <2>4. IsRunning(SuspendedStatus(st).conds) => IsRunning(stopped)
    BY Zenon, <2>1, <2>2, OtherUpdates
  <2>5. ~(SuspendedStatus(st).replicas["Head"].active > 0)
    BY <2>3
  <2> QED BY Zenon, <1>3, <2>1, <2>4, <2>5 DEF Claims
<1>4. CASE Claims(FailedStatus(st))
  <2>1. /\ FailedStatus(st).conds = UpdateClusterConditions(st.conds, "Failed", TRUE, "Failed")
        /\ FailedStatus(st).replicas = st.replicas
    BY Zenon DEF FailedStatus, StatusValues
  <2> QED BY Zenon, <1>0, <1>4, <2>1, OtherUpdates DEF Claims
<1> QED BY Zenon, <1>1, <1>2, <1>3, <1>4

(* Nor does PBS Pro's update. *)
LEMMA SchemaClaims ==
  ASSUME Schema = "pbspro", NEW st \in StatusValues, NEW r \in Types,
         Claims(SchemaUpdate(st, r))
  PROVE Claims(st)
<1> DEFINE runs == pbsproRuns(r, st.replicas[r].active)
           conds == IF runs
                      THEN UpdateClusterConditions(st.conds, "Running", TRUE, "Running")
                      ELSE st.conds
           new == SchemaUpdate(st, r).conds
<1>0. st.conds \in SUBSET Conditions
  BY Zenon DEF StatusValues
<1>1. conds \in SUBSET Conditions
  BY Zenon, <1>0, ConditionsType DEF ConditionTypes, Reasons
<1>2. SchemaUpdate(st, r).replicas = st.replicas
  BY Zenon DEF SchemaUpdate, StatusValues
<1>3. new \in {conds, UpdateClusterConditions(conds, "Failed", TRUE, "Failed"),
                      UpdateClusterConditions(conds, "Restarting", TRUE, "Restarting")}
  BY Zenon DEF SchemaUpdate, StatusValues
<1>4. runs => r = "Head" /\ st.replicas["Head"].active > 0
  BY Zenon DEF pbsproRuns
<1>5. IsRunning(conds) => IsRunning(st.conds) \/ runs
  BY Zenon
<1>6. IsRunning(new) => IsRunning(conds)
  <2> HIDE DEF conds, new
  <2> QED BY Zenon, <1>1, <1>3, OtherUpdates
<1> QED BY Zenon, <1>2, <1>4, <1>5, <1>6 DEF Claims

LaunchInv ==
  /\ \A st \in StatusCopies : Claims(st) => "Head" \in launched
  /\ \A pod \in PodCopies("Head") : pod.phase = "Running" => "Head" \in launched

LEMMA StatusCopiesType == ASSUME TypeOK PROVE StatusCopies \subseteq StatusValues
<1>1. \A k \in DOMAIN clusterFeed : clusterFeed[k] \in Versions
  BY DEF TypeOK, ClusterType
<1> QED BY Zenon, <1>1 DEF TypeOK, ClusterType, CacheType, PassType, StatusCopies, Versions

LEMMA PodCopiesType == ASSUME TypeOK, NEW r \in Types PROVE PodCopies(r) \subseteq PodValues
<1> DEFINE E == [type : Types, pod : PodValues]
<1>1. \A k \in DOMAIN podFeed : podFeed[k] \in E
  <2>1. podFeed \in Seq(E)
    BY Zenon DEF TypeOK, ChildType
  <2> HIDE DEF E
  <2> QED BY <2>1
<1>2. \A k \in DOMAIN podFeed : podFeed[k].pod \in PodValues
  BY Zenon, <1>1
<1>3. pods[r] \in PodValues /\ cPods[r] \in PodValues /\ wPods[r] \in PodValues
  BY Zenon DEF TypeOK, ChildType, CacheType, PassType
<1> QED BY Zenon, <1>2, <1>3 DEF PodCopies

LEMMA LaunchedGrows == ASSUME [Next]_vars PROVE launched \subseteq launched'
<1>1. CASE UNCHANGED vars \/ Environment
  BY Zenon, <1>1 DEF vars, historyVars, Environment, ToggleSuspend, Tick, PodStarts, PodFails,
              ContainerRestarts, Evict, PodGone
<1>2. CASE Informer \/ Resync \/ StartPass \/ Restart
  BY Zenon, <1>2 DEF Informer, ObserveCluster, ObservePod, ObserveService, ObserveConfigMap,
              Delivered,
              Resync, StartPass, Restart, historyVars
<1>3. CASE PassStep
  BY Zenon, <1>3 DEF PassStep, TearDownPod, TearDownService, RemoveConfigMap, CleanupCluster,
              ReconcileConfigMap, FillConfigMap, FillTemplate, ReconcilePod, ReconcileService,
              UpdateClusterStatus, WriteStatus, InPass, historyVars
<1> QED BY Zenon, <1>1, <1>2, <1>3 DEF Next

LEMMA LaunchStep ==
  ASSUME Schema = "pbspro", TypeOK, LaunchInv, [Next]_vars
  PROVE LaunchInv'
<1> DEFINE h == "Head" \in launched
<1>0. /\ StatusCopies \subseteq StatusValues /\ wStatus \in StatusCopies
      /\ wStatus \in StatusValues
      /\ "Head" \in Types /\ todo \subseteq Types
  BY Zenon, StatusCopiesType DEF StatusCopies, Types, TypeOK, PassType
<1>1. (\A s \in StatusCopies : Claims(s) => h) /\ (h => "Head" \in launched')
  BY Zenon, LaunchedGrows DEF LaunchInv
<1>2. \A pod \in PodCopies("Head") : pod.phase = "Running" => h
  BY Zenon DEF LaunchInv
<1>3. wPods["Head"] \in PodCopies("Head") /\ pods["Head"] \in PodCopies("Head")
      /\ pods["Head"] \in PodValues
  BY Zenon, <1>0, PodCopiesType DEF PodCopies
<1>4. ASSUME NEW s \in StatusCopies', Claims(s) PROVE h
  <2>1. Derived(s)
    BY Zenon, StatusCopiesStep
  <2>2. CASE s \in StatusCopies
    BY Zenon, <1>1, <1>4, <2>2
  <2>3. CASE s = NewStatus
    BY <1>0, <1>4, <2>3 DEF NewStatus, NoReplicas, Claims, IsRunning, isStatusConditionTrue
  <2>4. CASE \E t \in StatusCopies : s \in {onOwnerCreate(t), Resumed(t), SuspendedStatus(t)}
    BY Zenon, <1>0, <1>1, <1>4, <2>4, BranchClaims
  <2>5. CASE s = FailedStatus(wStatus)
    BY Zenon, <1>0, <1>1, <1>4, <2>5, BranchClaims
  <2>6. CASE \E r \in todo : s = SchemaUpdate(Started, r)
    <3>1. Started \in StatusValues /\ Started.conds = wStatus.conds
          /\ Started.replicas = wStatus.replicas
      BY Zenon, <1>0 DEF Started, StatusValues, TypeOK, CountType
    <3>2. Claims(Started)
      BY Zenon, <1>0, <1>4, <2>6, <3>1, SchemaClaims
    <3> QED BY Zenon, <1>0, <1>1, <3>1, <3>2 DEF Claims
  <2>7. ASSUME NEW r \in todo, NEW c, c \in {wStatus.conds, Restarted}, s = Counted(r, c)
        PROVE h
    <3>1. IsRunning(c) => IsRunning(wStatus.conds)
      BY Zenon, <1>0, <2>7, OtherUpdates DEF Restarted, StatusValues
    <3>2. s.conds = c
      BY Zenon, <1>0, <2>7 DEF Counted, StatusValues
    <3>3. s.replicas["Head"].active = IF r = "Head" THEN ReplicaStatus(wPods[r]).active
                                      ELSE wStatus.replicas["Head"].active
      BY Zenon, <1>0, <2>7 DEF Counted, StatusValues
    <3>4. ReplicaStatus(wPods["Head"]).active > 0 => wPods["Head"].phase = "Running"
      BY DEF ReplicaStatus
    <3> QED BY Zenon, <1>0, <1>1, <1>2, <1>3, <1>4, <3>1, <3>2, <3>3, <3>4 DEF Claims
  <2> QED BY Zenon, <2>1, <2>2, <2>3, <2>4, <2>5, <2>6, <2>7 DEF Derived
<1>5. ASSUME NEW p \in PodCopies("Head")', p.phase = "Running" PROVE "Head" \in launched'
  <2>1. Grown("Head", p)
    BY Zenon, <1>0, PodCopiesStep
  <2>2. CASE p \in PodCopies("Head")
    BY Zenon, <1>1, <1>2, <1>5, <2>2
  <2>3. CASE p \in {Absent, NewPod}
    BY <1>5, <2>3 DEF Absent, NewPod
  <2>4. CASE \/ p = [pods["Head"] EXCEPT !.del = TRUE]
             \/ p = [pods["Head"] EXCEPT !.restarts = @ + 1]
    <3>1. p.phase = pods["Head"].phase
      BY Zenon, <1>3, <2>4 DEF PodValues, Absent
    <3> QED BY Zenon, <1>1, <1>2, <1>3, <1>5, <3>1
  <2>5. CASE p = [pods["Head"] EXCEPT !.phase = "Failed"]
    BY Zenon, <1>3, <1>5, <2>5 DEF PodValues, Absent
  <2> QED BY Zenon, <2>1, <2>2, <2>3, <2>4, <2>5 DEF Grown
<1> QED BY Zenon, <1>1, <1>4, <1>5 DEF LaunchInv

(* PBS Pro's status does not claim Running before the pod of its Server    *)
(* was running, however late the pod's events and whatever else happens.   *)
THEOREM RunningIsTrue ==
  ASSUME Schema = "pbspro"
  PROVE Spec => []RunningMeansLaunched
<1>1. Init => LaunchInv
  <2> SUFFICES ASSUME Init PROVE LaunchInv
    BY Zenon
  <2>1. NewStatus \in StatusValues /\ ~Claims(NewStatus)
    <3>1. NewStatus.conds = {} /\ NewStatus.replicas["Head"].active = 0
      BY Zenon DEF NewStatus, NoReplicas, Types
    <3>2. ~IsRunning(NewStatus.conds)
      BY Zenon, <3>1 DEF IsRunning, isStatusConditionTrue
    <3>3. ~(NewStatus.replicas["Head"].active > 0)
      BY <3>1
    <3> QED BY Zenon, <3>2, <3>3, NewStatusType DEF Claims
  <2>2. StatusCopies \subseteq {NewStatus, onOwnerCreate(NewStatus)}
    BY DEF Init, StatusCopies
  <2>3. PodCopies("Head") \subseteq {Absent}
    BY DEF Init, PodCopies, NoPods, Types
  <2> QED BY <2>1, <2>2, <2>3, BranchClaims DEF LaunchInv, Absent
<1>2. TypeOK /\ LaunchInv /\ [Next]_vars => LaunchInv'
  BY Zenon, LaunchStep
<1>3. LaunchInv => RunningMeansLaunched
  BY Zenon DEF LaunchInv, RunningMeansLaunched, StatusCopies, Claims
<1> QED BY <1>1, <1>2, <1>3, LifecycleTypes, PTL DEF Spec
-----------------------------------------------------------------------------
(* What updating the conditions does to a status.                          *)

(* A failed cluster's conditions no longer change, and only the Failed     *)
(* condition makes a cluster fail (setCondition).                          *)
LEMMA FailedConditions ==
  ASSUME NEW conds \in SUBSET Conditions, NEW type \in ConditionTypes,
         NEW st \in BOOLEAN, NEW reason \in Reasons
  PROVE LET new == UpdateClusterConditions(conds, type, st, reason) IN
        /\ IsFailed(conds) => new = conds
        /\ type # "Failed" /\ IsFailed(new) => IsFailed(conds)
        /\ type = "Failed" /\ st => IsFailed(new)
<1> DEFINE cond == [type |-> type, status |-> st, reason |-> reason]
           new == UpdateClusterConditions(conds, type, st, reason)
<1>1. IsFailed(conds) => new = conds
  BY Zenon DEF UpdateClusterConditions, setCondition
<1>2. type # "Failed" /\ IsFailed(new) => IsFailed(conds)
  <2> SUFFICES ASSUME type # "Failed", ~IsFailed(conds), cond \notin conds PROVE ~IsFailed(new)
    BY Zenon DEF UpdateClusterConditions, setCondition
  <2>1. new = filterOutCondition(conds, type) \cup {cond}
    BY Zenon DEF UpdateClusterConditions, setCondition
  <2>2. \A c \in filterOutCondition(conds, type) : c \in conds
    BY Zenon DEF filterOutCondition
  <2> QED BY <2>1, <2>2 DEF IsFailed, isStatusConditionTrue
<1>3. type = "Failed" /\ st => IsFailed(new)
  BY DEF UpdateClusterConditions, setCondition, IsFailed, isStatusConditionTrue
<1> QED BY Zenon, <1>1, <1>2, <1>3

(* Updating well-formed conditions gives well-formed conditions. *)
LEMMA WellFormedUpdate ==
  ASSUME NEW conds \in SUBSET Conditions, NEW type \in ConditionTypes,
         NEW st \in BOOLEAN, NEW reason \in Reasons, WellFormed(conds)
  PROVE WellFormed(UpdateClusterConditions(conds, type, st, reason))
<1> DEFINE cond == [type |-> type, status |-> st, reason |-> reason]
           kept == filterOutCondition(conds, type)
           new == UpdateClusterConditions(conds, type, st, reason)
<1>1. CASE IsFailed(conds) \/ cond \in conds
  BY Zenon, <1>1 DEF UpdateClusterConditions, setCondition
<1>2. CASE ~IsFailed(conds) /\ cond \notin conds
  <2>1. new = kept \cup {cond}
    BY Zenon, <1>2 DEF UpdateClusterConditions, setCondition
  <2>2. \A c \in kept : \E d \in conds :
          /\ d.type \notin Displaced(type) /\ c.type = d.type
          /\ c = IF type = "Failed" /\ d.type = "Running" THEN [d EXCEPT !.status = FALSE] ELSE d
    BY Zenon DEF filterOutCondition, Conditions
  <2>3. \A c, d \in new : c.type = d.type => c = d
    <3>1. ASSUME NEW c \in kept, NEW d \in kept, c.type = d.type PROVE c = d
      <4> DEFINE Stays(e) == IF type = "Failed" /\ e.type = "Running"
                               THEN [e EXCEPT !.status = FALSE] ELSE e
      <4>1. PICK e \in conds : c.type = e.type /\ c = Stays(e)
        BY Zenon, <2>2
      <4>2. PICK f \in conds : d.type = f.type /\ d = Stays(f)
        BY Zenon, <2>2
      <4>3. e = f
        BY Zenon, <3>1, <4>1, <4>2 DEF WellFormed
      <4> QED BY Zenon, <4>1, <4>2, <4>3
    <3>2. \A c \in kept : c.type # type
      BY Zenon, <2>2 DEF Displaced
    <3> QED BY <2>1, <3>1, <3>2
  <2>4. ~(HasCondition(new, "Running") /\ HasCondition(new, "Restarting"))
    <3>1. ~(HasCondition(kept, "Running") /\ HasCondition(kept, "Restarting"))
      BY Zenon, <2>2 DEF WellFormed, HasCondition
    <3>2. type = "Running" => ~HasCondition(kept, "Restarting")
      BY Zenon, <2>2 DEF Displaced, HasCondition
    <3>3. type = "Restarting" => ~HasCondition(kept, "Running")
      BY Zenon, <2>2 DEF Displaced, HasCondition
    <3> QED BY <2>1, <3>1, <3>2, <3>3 DEF HasCondition
  <2>5. IsFailed(new) => ~IsRunning(new)
    <3>1. CASE type = "Failed"
      <4>1. \A c \in kept : c.type = "Running" => ~c.status
        BY <2>2, <3>1 DEF Conditions
      <4> QED BY <2>1, <3>1, <4>1 DEF IsRunning, isStatusConditionTrue
    <3>2. CASE type # "Failed"
      BY Zenon, <1>2, <3>2, FailedConditions
    <3> QED BY Zenon, <3>1, <3>2
  <2> QED BY Zenon, <2>3, <2>4, <2>5 DEF WellFormed
<1> QED BY Zenon, <1>1, <1>2

(* A sequence of updates can be followed one by one. *)
LEMMA UpdateOnce ==
  ASSUME NEW conds \in SUBSET Conditions, NEW type \in ConditionTypes,
         NEW st \in BOOLEAN, WellFormed(conds)
  PROVE \A reason \in Reasons :
          LET new == UpdateClusterConditions(conds, type, st, reason) IN
          /\ new \in SUBSET Conditions /\ WellFormed(new)
          /\ IsFailed(conds) => IsFailed(new)
          /\ type = "Failed" /\ st => IsFailed(new)
<1> TAKE reason \in Reasons
<1> DEFINE new == UpdateClusterConditions(conds, type, st, reason)
<1>1. new \in SUBSET Conditions
  BY Zenon, ConditionsType
<1>2. WellFormed(new)
  BY Zenon, WellFormedUpdate
<1>3. /\ IsFailed(conds) => new = conds
      /\ type = "Failed" /\ st => IsFailed(new)
  BY FailedConditions
<1> HIDE DEF new
<1>4. IsFailed(conds) => IsFailed(new)
  BY Zenon, <1>3
<1> QED BY Zenon, <1>1, <1>2, <1>3, <1>4 DEF new

(* Replacing the conditions of a sound status by an update of them. *)
LEMMA SoundUpdate ==
  ASSUME NEW s \in StatusValues, NEW t \in StatusValues, SoundStatus(s),
         NEW type \in ConditionTypes, NEW st \in BOOLEAN, NEW reason \in Reasons,
         t.conds = UpdateClusterConditions(s.conds, type, st, reason),
         t.completion = s.completion
  PROVE /\ SoundStatus(t)
        /\ IsFailed(s.conds) => t.conds = s.conds
        /\ type # "Failed" /\ IsFailed(t.conds) => IsFailed(s.conds)
<1>1. s.conds \in SUBSET Conditions
  BY Zenon DEF StatusValues
<1>2. WellFormed(t.conds)
  BY Zenon, <1>1, WellFormedUpdate DEF SoundStatus
<1>3. IsFailed(s.conds) => t.conds = s.conds
  BY <1>1, FailedConditions
<1>4. type # "Failed" /\ IsFailed(t.conds) => IsFailed(s.conds)
  BY <1>1, FailedConditions
<1> QED BY Zenon, <1>2, <1>3, <1>4 DEF SoundStatus

(* The statuses the branches compute from a sound status are sound; the    *)
(* Created condition and a resumption make no cluster fail.                *)
LEMMA SoundBranches ==
  ASSUME NEW st \in StatusValues, SoundStatus(st), now \in Times
  PROVE /\ SoundStatus(onOwnerCreate(st)) /\ SoundStatus(Resumed(st))
        /\ SoundStatus(SuspendedStatus(st)) /\ SoundStatus(FailedStatus(st))
        /\ IsFailed(st.conds) => onOwnerCreate(st) = st
        /\ IsFailed(onOwnerCreate(st).conds) => IsFailed(st.conds)
        /\ IsFailed(Resumed(st).conds) => IsFailed(st.conds)
<1>0. st.conds \in SUBSET Conditions
  BY Zenon DEF StatusValues
<1>1. /\ SoundStatus(onOwnerCreate(st)) /\ (IsFailed(st.conds) => onOwnerCreate(st) = st)
      /\ IsFailed(onOwnerCreate(st).conds) => IsFailed(st.conds)
  <2> DEFINE t == onOwnerCreate(st)
  <2>1. t \in StatusValues
    BY Zenon, BranchStatusType
  <2>2. /\ t.conds = UpdateClusterConditions(st.conds, "Created", TRUE, "Created")
        /\ t.completion = st.completion /\ (t.conds = st.conds => t = st)
    BY Zenon DEF onOwnerCreate, StatusValues
  <2> HIDE DEF t
  <2>3. /\ SoundStatus(t) /\ (IsFailed(st.conds) => t.conds = st.conds)
        /\ IsFailed(t.conds) => IsFailed(st.conds)
    BY Zenon, <2>1, <2>2, SoundUpdate DEF ConditionTypes, Reasons
  <2> QED BY Zenon, <2>2, <2>3 DEF t
<1>2. SoundStatus(Resumed(st)) /\ (IsFailed(Resumed(st).conds) => IsFailed(st.conds))
  <2>1. CASE ~IsSuspended(st.conds)
    BY Zenon, <2>1 DEF Resumed
  <2>2. CASE IsSuspended(st.conds)
    <3> DEFINE t == Resumed(st)
    <3>1. t \in StatusValues
      BY Zenon, BranchStatusType
    <3>2. /\ t.conds = UpdateClusterConditions(st.conds, "Suspended", FALSE, "Suspended")
          /\ t.completion = st.completion
      BY Zenon, <2>2 DEF Resumed, StatusValues
    <3> HIDE DEF t
    <3>3. SoundStatus(t) /\ (IsFailed(t.conds) => IsFailed(st.conds))
      BY Zenon, <3>1, <3>2, SoundUpdate DEF ConditionTypes, Reasons
    <3> QED BY Zenon, <3>3 DEF t
  <2> QED BY Zenon, <2>1, <2>2
<1>3. SoundStatus(SuspendedStatus(st))
  <2> DEFINE stopped == IF IsRunning(st.conds)
                          THEN UpdateClusterConditions(st.conds, "Running", FALSE, "Suspended")
                          ELSE st.conds
             final == IF IsSuspended(stopped) THEN stopped
                      ELSE UpdateClusterConditions(stopped, "Suspended", TRUE, "Suspended")
  <2>0. WellFormed(st.conds) /\ "Suspended" \in Reasons
        /\ "Running" \in ConditionTypes /\ "Suspended" \in ConditionTypes
    BY Zenon DEF SoundStatus, ConditionTypes, Reasons
  <2>1. /\ stopped \in SUBSET Conditions /\ WellFormed(stopped)
        /\ IsFailed(st.conds) => IsFailed(stopped)
    <3>1. CASE IsRunning(st.conds)
      BY Zenon, <1>0, <2>0, <3>1, UpdateOnce
    <3>2. CASE ~IsRunning(st.conds)
      BY Zenon, <1>0, <2>0, <3>2
    <3> QED BY Zenon, <3>1, <3>2
  <2>2. WellFormed(final) /\ (IsFailed(st.conds) => IsFailed(final))
    <3> HIDE DEF stopped
    <3>1. CASE IsSuspended(stopped)
      BY Zenon, <2>1, <3>1
    <3>2. CASE ~IsSuspended(stopped)
      BY Zenon, <2>0, <2>1, <3>2, UpdateOnce
    <3> QED BY Zenon, <3>1, <3>2
  <2>3. SuspendedStatus(st).conds = final /\ SuspendedStatus(st).completion = st.completion
    BY Zenon DEF SuspendedStatus, StatusValues
  <2> HIDE DEF final
  <2> QED BY Zenon, <2>2, <2>3 DEF SoundStatus
<1>4. SoundStatus(FailedStatus(st))
  <2> DEFINE t == FailedStatus(st)
  <2>1. t \in StatusValues
    BY Zenon, BranchStatusType
  <2>2. /\ t.conds = UpdateClusterConditions(st.conds, "Failed", TRUE, "Failed")
        /\ t.completion = st.completion
    BY Zenon DEF FailedStatus, StatusValues
  <2> HIDE DEF t
  <2>3. SoundStatus(t)
    BY Zenon, <2>1, <2>2, SoundUpdate DEF ConditionTypes, Reasons
  <2> QED BY Zenon, <2>3 DEF t
<1> QED BY Zenon, <1>1, <1>2, <1>3, <1>4

(* The schema's update of a sound status is sound: the completion time and *)
(* the Failed condition come together.                                     *)
LEMMA SoundSchemaUpdate ==
  ASSUME NEW st \in StatusValues, NEW r \in Types, SoundStatus(st)
  PROVE SoundStatus(SchemaUpdate(st, r))
<1> DEFINE runs == IF Schema = "slurm" THEN slurmRuns(r) ELSE pbsproRuns(r, st.replicas[r].active)
           fails == IF Schema = "slurm" THEN slurmFails(r, st.replicas[r].active)
                                        ELSE pbsproFails(r)
           conds == IF runs
                      THEN UpdateClusterConditions(st.conds, "Running", TRUE, "Running")
                      ELSE st.conds
           failing == st.replicas[r].failed > 0 /\ ~HasCondition(conds, "Restarting") /\ fails
           again == IF st.replicas[r].failed > 0 /\ HasCondition(conds, "Restarting")
                      THEN UpdateClusterConditions(conds, "Restarting", TRUE, "Restarting")
                      ELSE conds
           failed == UpdateClusterConditions(conds, "Failed", TRUE, "Failed")
           new == SchemaUpdate(st, r)
<1>1. st.conds \in SUBSET Conditions
  BY Zenon DEF StatusValues
<1>2. /\ conds \in SUBSET Conditions /\ WellFormed(conds)
      /\ IsFailed(st.conds) => IsFailed(conds)
  <2>1. CASE runs
    BY Zenon, <1>1, <2>1, UpdateOnce DEF SoundStatus, ConditionTypes, Reasons
  <2>2. CASE ~runs
    BY Zenon, <1>1, <2>2 DEF SoundStatus
  <2> QED BY Zenon, <2>1, <2>2
<1>3. /\ WellFormed(again) /\ (IsFailed(conds) => IsFailed(again))
      /\ WellFormed(failed) /\ IsFailed(failed)
  <2> HIDE DEF conds
  <2>1. WellFormed(failed) /\ IsFailed(failed)
    BY Zenon, <1>2, UpdateOnce DEF ConditionTypes, Reasons
  <2>2. CASE st.replicas[r].failed > 0 /\ HasCondition(conds, "Restarting")
    BY Zenon, <1>2, <2>1, <2>2, UpdateOnce DEF ConditionTypes, Reasons
  <2>3. CASE ~(st.replicas[r].failed > 0 /\ HasCondition(conds, "Restarting"))
    BY Zenon, <1>2, <2>1, <2>3
  <2> QED BY Zenon, <2>2, <2>3
<1>4. IF failing THEN new.conds = failed
                 ELSE new.conds = again /\ new.completion = st.completion
  BY Zenon DEF SchemaUpdate, StatusValues
<1> HIDE DEF conds, failing, again, failed, new
<1>5. SoundStatus(new)
  BY Zenon, <1>2, <1>3, <1>4 DEF SoundStatus
<1> QED BY Zenon, <1>5 DEF new

(* The blank status of an idle controller is sound and has not failed. *)
LEMMA SoundNewStatus == SoundStatus(NewStatus) /\ ~IsFailed(NewStatus.conds)
BY Zenon DEF SoundStatus, NewStatus, WellFormed, HasCondition, IsFailed, isStatusConditionTrue

-----------------------------------------------------------------------------
(* The copies of the status.  Each lemma takes one kind of step.           *)

(* Steps that touch neither the cluster, nor its cached copy, nor the pass. *)
LEMMA QuietCopies ==
  ASSUME CopyInv, UNCHANGED <<suspend, status, clusterFeed, cSuspend, cStatus, passVars>>
  PROVE CopyInv'
<1> USE DEF passVars
<1>1. StagesOfModes'
  BY Zenon DEF CopyInv, StagesOfModes
<1>2. CacheFollows'
  BY Zenon DEF CopyInv, CacheFollows, onOwnerCreate
<1>3. WritersSeeFailure'
  BY Zenon DEF CopyInv, WritersSeeFailure
<1>4. FailedCopies'
  BY Zenon DEF CopyInv, FailedCopies
<1>5. CopiesWellFormed'
  BY Zenon DEF CopyInv, CopiesWellFormed, ConditionsWellFormed, SoundStatus
<1> QED BY Zenon, <1>1, <1>2, <1>3, <1>4, <1>5 DEF CopyInv

(* A pass ends and no version of the cluster comes or goes. *)
LEMMA EndCopies ==
  ASSUME CopyInv, EndPass, UNCHANGED <<suspend, status, clusterFeed, cSuspend, cStatus>>
  PROVE CopyInv'
<1>1. /\ pc' = "idle" /\ mode' = "none" /\ wCurrent' = FALSE /\ wStatus' = NewStatus
  BY Zenon DEF EndPass
<1>2. StagesOfModes'
  BY Zenon, <1>1 DEF StagesOfModes, TeardownStages
<1>3. CacheFollows'
  BY Zenon DEF CopyInv, CacheFollows, onOwnerCreate
<1>4. WritersSeeFailure'
  BY Zenon, <1>1 DEF WritersSeeFailure
<1>5. FailedCopies'
  BY Zenon, <1>1 DEF CopyInv, FailedCopies, TeardownStages
<1>6. CopiesWellFormed'
  BY Zenon, <1>1, SoundNewStatus DEF CopyInv, CopiesWellFormed, ConditionsWellFormed, SoundStatus
<1> QED BY Zenon, <1>2, <1>3, <1>4, <1>5, <1>6 DEF CopyInv

(* A pass goes on to another stage of its branch. *)
LEMMA StageCopies ==
  ASSUME CopyInv, UNCHANGED <<suspend, status, clusterFeed, cSuspend, cStatus, mode, wCurrent>>,
         StagesOfModes', SoundStatus(wStatus)',
         mode = "finished" => wStatus' = wStatus,
         pc' \in TeardownStages => pc \in TeardownStages /\ wStatus' = wStatus
  PROVE CopyInv'
<1>1. CacheFollows'
  BY Zenon DEF CopyInv, CacheFollows, onOwnerCreate
<1>2. WritersSeeFailure'
  BY Zenon DEF CopyInv, WritersSeeFailure
<1>3. FailedCopies'
  BY Zenon DEF CopyInv, FailedCopies
<1>4. CopiesWellFormed'
  BY Zenon DEF CopyInv, CopiesWellFormed, ConditionsWellFormed, SoundStatus
<1> QED BY Zenon, <1>1, <1>2, <1>3, <1>4 DEF CopyInv

(* A new version of the cluster: a user's change of suspend, or a status   *)
(* written by a pass, which could only write because nothing had failed.   *)
LEMMA WriteCopies ==
  ASSUME TypeOK, CopyInv, NEW s \in BOOLEAN, NEW st \in StatusValues, SetCluster(s, st),
         SoundStatus(st), st = status \/ ~IsFailed(status.conds),
         UNCHANGED <<cSuspend, cStatus>>, wCurrent' = FALSE,
         \/ EndPass
         \/ st = status /\ UNCHANGED <<pc, mode, wStatus>>
  PROVE CopyInv'
<1> DEFINE v == [suspend |-> s, status |-> st]
<1>1. /\ clusterFeed \in Seq(Versions) /\ v \in Versions
      /\ clusterFeed' = Append(clusterFeed, v) /\ suspend' = s /\ status' = st
  BY Zenon DEF SetCluster, TypeOK, ClusterType, Versions
<1>2. /\ Len(clusterFeed') = Len(clusterFeed) + 1 /\ clusterFeed' # <<>>
      /\ clusterFeed'[Len(clusterFeed')] = v
      /\ DOMAIN clusterFeed' = 1..(Len(clusterFeed) + 1)
      /\ \A k \in DOMAIN clusterFeed' :
           clusterFeed'[k] = v \/ (k \in DOMAIN clusterFeed /\ clusterFeed'[k] = clusterFeed[k])
  BY <1>1
<1>3. v.suspend = s /\ v.status = st
  BY Zenon
<1> HIDE DEF v
<1>4. StagesOfModes'
  BY Zenon DEF CopyInv, StagesOfModes, EndPass, TeardownStages
<1>5. CacheFollows'
  BY Zenon, <1>1, <1>2 DEF CacheFollows, v
<1>6. WritersSeeFailure'
  BY Zenon DEF WritersSeeFailure
<1>7. FailedCopies'
  <2>1. IsFailed(cStatus.conds) => cStatus = st
    BY Zenon DEF CopyInv, FailedCopies
  <2>2. \A k \in DOMAIN clusterFeed :
          IsFailed(clusterFeed[k].status.conds) => clusterFeed[k].status = st
    BY Zenon DEF CopyInv, FailedCopies
  <2>3. \A k \in DOMAIN clusterFeed' :
          IsFailed(clusterFeed'[k].status.conds) => clusterFeed'[k].status = st
    BY Zenon, <1>2, <1>3, <2>2
  <2>4. /\ mode' = "finished" => wStatus' = st /\ IsFailed(st.conds)
        /\ pc' \in TeardownStages /\ mode' # "finished" => ~IsFailed(wStatus'.conds)
    BY Zenon DEF CopyInv, FailedCopies, EndPass, TeardownStages
  <2> QED BY Zenon, <1>1, <2>1, <2>3, <2>4 DEF FailedCopies
<1>8. CopiesWellFormed'
  <2>1. SoundStatus(cStatus) /\ SoundStatus(wStatus)
        /\ \A k \in DOMAIN clusterFeed : SoundStatus(clusterFeed[k].status)
    BY Zenon DEF CopyInv, CopiesWellFormed, ConditionsWellFormed
  <2>2. SoundStatus(cStatus')
    BY Zenon, <2>1
  <2>3. SoundStatus(wStatus')
    BY Zenon, <2>1, SoundNewStatus DEF EndPass
  <2>4. \A k \in DOMAIN clusterFeed' : SoundStatus(clusterFeed'[k].status)
    BY Zenon, <1>2, <1>3, <2>1
  <2> QED BY Zenon, <1>1, <2>2, <2>3, <2>4 DEF CopiesWellFormed, ConditionsWellFormed, SoundStatus
<1> QED BY Zenon, <1>4, <1>5, <1>6, <1>7, <1>8 DEF CopyInv

(* The cache receives the oldest version under way. *)
LEMMA ObserveCopies ==
  ASSUME TypeOK, CopyInv, ObserveCluster
  PROVE CopyInv'
<1> DEFINE v == clusterFeed[1]
<1>1. /\ clusterFeed \in Seq(Versions) /\ clusterFeed # <<>> /\ 1 \in DOMAIN clusterFeed
      /\ clusterFeed' = Tail(clusterFeed)
      /\ cSuspend' = v.suspend /\ cStatus' = v.status
      /\ UNCHANGED <<suspend, status, passVars>>
  BY DEF ObserveCluster, Delivered, TypeOK, ClusterType
<1>2. /\ Len(clusterFeed) \in Nat /\ Len(clusterFeed) > 0
      /\ Len(clusterFeed') = Len(clusterFeed) - 1
      /\ clusterFeed' = <<>> <=> Len(clusterFeed) = 1
      /\ DOMAIN clusterFeed' = 1..(Len(clusterFeed) - 1)
      /\ \A k \in DOMAIN clusterFeed' :
           k + 1 \in DOMAIN clusterFeed /\ clusterFeed'[k] = clusterFeed[k + 1]
  <2>1. Len(clusterFeed) \in Nat /\ Len(clusterFeed) > 0
        /\ DOMAIN clusterFeed = 1..Len(clusterFeed)
    BY <1>1
  <2>2. clusterFeed' \in Seq(Versions) /\ Len(clusterFeed') = Len(clusterFeed) - 1
    BY <1>1, <2>1
  <2>3. clusterFeed' = <<>> <=> Len(clusterFeed) = 1
    BY <2>1, <2>2
  <2>4. DOMAIN clusterFeed' = 1..(Len(clusterFeed) - 1)
    BY <2>2
  <2>5. \A k \in 1..(Len(clusterFeed) - 1) :
          k + 1 \in DOMAIN clusterFeed /\ clusterFeed'[k] = clusterFeed[k + 1]
    BY <1>1, <2>1
  <2> QED BY Zenon, <2>1, <2>2, <2>3, <2>4, <2>5
<1>3. StagesOfModes' /\ WritersSeeFailure'
  BY Zenon, <1>1 DEF CopyInv, StagesOfModes, WritersSeeFailure, passVars
<1>4. CacheFollows'
  <2>1. clusterFeed[Len(clusterFeed)] = [suspend |-> suspend, status |-> status]
    BY Zenon, <1>1 DEF CopyInv, CacheFollows
  <2>2. CASE clusterFeed' = <<>>
    BY <1>1, <1>2, <2>1, <2>2 DEF CacheFollows
  <2>3. CASE clusterFeed' # <<>>
    <3>1. Len(clusterFeed') \in DOMAIN clusterFeed'
      BY <1>2, <2>3
    <3>2. clusterFeed'[Len(clusterFeed')] = clusterFeed[Len(clusterFeed)]
      BY <1>2, <3>1
    <3> QED BY Zenon, <1>1, <2>1, <2>3, <3>2 DEF CacheFollows
  <2> QED BY Zenon, <2>2, <2>3
<1>5. FailedCopies'
  BY Zenon, <1>1, <1>2 DEF CopyInv, FailedCopies, passVars
<1>6. CopiesWellFormed'
  BY <1>1, <1>2, SMTT(30) DEF CopyInv, CopiesWellFormed, ConditionsWellFormed, SoundStatus, passVars
<1> QED BY Zenon, <1>3, <1>4, <1>5, <1>6 DEF CopyInv

(* A pass starts on the cached copy. *)
LEMMA StartCopies ==
  ASSUME TypeOK, CopyInv, StartPass
  PROVE CopyInv'
<1>1. UNCHANGED <<suspend, status, clusterFeed, cSuspend, cStatus>>
  BY Zenon DEF StartPass, clusterVars, cacheVars
<1>2. /\ mode' = Branch /\ wCurrent' = (clusterFeed = <<>>)
      /\ wStatus' = IF Branch \in {"finished", "suspended"} THEN cStatus ELSE Resumed(cStatus)
      /\ IF Branch = "normal" THEN pc' = "configMap" ELSE pc' = AfterTeardown(Branch, todo')
  BY Zenon DEF StartPass
<1>3. /\ Branch \in {"finished", "suspended", "limit", "normal"}
      /\ Branch = "finished" <=> IsFailed(cStatus.conds)
  BY Zenon DEF Branch, IsFinished
<1>4. Branch # "normal" => pc' \in {"teardown", "cleanup", "deleteConfigMap"}
  BY Zenon, <1>2 DEF AfterTeardown
<1>5. /\ cStatus \in StatusValues /\ status \in StatusValues /\ now \in Times
      /\ SoundStatus(cStatus) /\ SoundStatus(status)
  BY Zenon DEF TypeOK, ClusterType, CacheType, CountType, CopyInv, CopiesWellFormed,
         ConditionsWellFormed
<1>6. StagesOfModes'
  BY Zenon, <1>2, <1>3, <1>4 DEF StagesOfModes, TeardownStages
<1>7. CacheFollows'
  BY Zenon, <1>1 DEF CopyInv, CacheFollows, onOwnerCreate
<1>8. WritersSeeFailure'
  <2> SUFFICES ASSUME clusterFeed = <<>>, Branch # "finished" PROVE ~IsFailed(status.conds)
    BY Zenon, <1>1, <1>2 DEF WritersSeeFailure
  <2>1. cStatus \in {status, onOwnerCreate(status)}
    BY Zenon DEF CopyInv, CacheFollows
  <2>2. IsFailed(status.conds) => onOwnerCreate(status) = status
    BY Zenon, <1>5, SoundBranches
  <2> QED BY Zenon, <1>3, <2>1, <2>2
<1>9. FailedCopies'
  <2>1. IsFailed(cStatus.conds) => cStatus = status
    BY Zenon DEF CopyInv, FailedCopies
  <2>2. mode' = "finished" => wStatus' = status /\ IsFailed(status.conds)
    BY Zenon, <1>2, <1>3, <2>1
  <2>3. mode' # "finished" => ~IsFailed(wStatus'.conds)
    BY Zenon, <1>2, <1>3, <1>5, SoundBranches
  <2> QED BY Zenon, <1>1, <2>2, <2>3 DEF CopyInv, FailedCopies
<1>10. CopiesWellFormed'
  <2>1. SoundStatus(wStatus')
    BY Zenon, <1>2, <1>5, SoundBranches
  <2> QED BY Zenon, <1>1, <2>1 DEF CopyInv, CopiesWellFormed, ConditionsWellFormed, SoundStatus
<1> QED BY Zenon, <1>6, <1>7, <1>8, <1>9, <1>10 DEF CopyInv

(* The controller restarts and lists the cluster anew. *)
LEMMA RestartCopies ==
  ASSUME TypeOK, CopyInv, Restart
  PROVE CopyInv'
<1>1. /\ clusterFeed' = <<>> /\ cSuspend' = suspend /\ cStatus' = onOwnerCreate(status)
      /\ UNCHANGED <<suspend, status>> /\ EndPass
  BY Zenon DEF Restart, Abort
<1>2. /\ pc' = "idle" /\ mode' = "none" /\ wCurrent' = FALSE /\ wStatus' = NewStatus
  BY Zenon, <1>1 DEF EndPass
<1>3. status \in StatusValues /\ SoundStatus(status) /\ now \in Times
  BY Zenon DEF TypeOK, ClusterType, CountType, CopyInv, CopiesWellFormed, ConditionsWellFormed
<1>4. /\ SoundStatus(onOwnerCreate(status))
      /\ IsFailed(onOwnerCreate(status).conds) => onOwnerCreate(status) = status
  BY Zenon, <1>3, SoundBranches
<1>5. DOMAIN clusterFeed' = {}
  BY <1>1
<1>6. StagesOfModes'
  BY Zenon, <1>2 DEF StagesOfModes, TeardownStages
<1>7. CacheFollows'
  BY Zenon, <1>1 DEF CacheFollows, onOwnerCreate
<1>8. WritersSeeFailure'
  BY Zenon, <1>2 DEF WritersSeeFailure
<1>9. FailedCopies'
  BY Zenon, <1>1, <1>2, <1>4, <1>5 DEF FailedCopies, TeardownStages
<1>10. CopiesWellFormed'
  BY Zenon, <1>1, <1>2, <1>3, <1>4, <1>5, SoundNewStatus
     DEF CopiesWellFormed, ConditionsWellFormed, SoundStatus
<1> QED BY Zenon, <1>6, <1>7, <1>8, <1>9, <1>10 DEF CopyInv

(* The stages of a teardown. *)
LEMMA TeardownCopies ==
  ASSUME CopyInv, TearDownPod \/ TearDownService \/ RemoveConfigMap
  PROVE CopyInv'
<1>1. UNCHANGED <<suspend, status, clusterFeed, cSuspend, cStatus>>
  BY Zenon DEF TearDownPod, TearDownService, RemoveConfigMap, InPass, clusterVars, cacheVars
<1>2. \/ EndPass
      \/ /\ pc \in TeardownStages /\ pc' \in TeardownStages
         /\ UNCHANGED <<mode, wCurrent, wStatus>>
  BY Zenon
  DEF TearDownPod, TearDownService, RemoveConfigMap, ToStage, InPass, Call, Abort,
      AfterTeardown,
         TeardownStages
<1>3. CASE EndPass
  BY Zenon, <1>1, <1>3, EndCopies
<1>4. CASE ~EndPass
  <2>1. StagesOfModes'
    BY Zenon, <1>2, <1>4 DEF CopyInv, StagesOfModes, TeardownStages
  <2>2. SoundStatus(wStatus)'
    BY Zenon, <1>2, <1>4 DEF CopyInv, CopiesWellFormed, ConditionsWellFormed, SoundStatus
  <2> QED BY Zenon, <1>1, <1>2, <1>4, <2>1, <2>2, StageCopies
<1> QED BY Zenon, <1>3, <1>4

(* The end of a teardown. *)
LEMMA CleanupCopies ==
  ASSUME TypeOK, CopyInv, CleanupCluster
  PROVE CopyInv'
<1>1. UNCHANGED <<suspend, status, clusterFeed, cSuspend, cStatus>> /\ pc = "cleanup"
  BY Zenon DEF CleanupCluster, InPass, clusterVars, cacheVars
<1>2. EndPass \/ AfterCleanup
  BY Zenon DEF CleanupCluster, Return, Abort
<1>3. CASE EndPass
  BY Zenon, <1>1, <1>3, EndCopies
<1>4. CASE AfterCleanup /\ ~EndPass
  <2>1. /\ mode # "finished" /\ pc' = "write" /\ UNCHANGED <<mode, wCurrent>>
        /\ wStatus' = IF mode = "suspended" THEN SuspendedStatus(wStatus)
                                            ELSE FailedStatus(wStatus)
    BY Zenon, <1>4 DEF AfterCleanup, Return
  <2>2. StagesOfModes'
    BY Zenon, <1>1, <2>1 DEF CopyInv, StagesOfModes, TeardownStages
  <2>3. SoundStatus(SuspendedStatus(wStatus)) /\ SoundStatus(FailedStatus(wStatus))
    BY Zenon, SoundBranches DEF TypeOK, PassType, CountType, CopyInv, CopiesWellFormed,
                         ConditionsWellFormed
  <2>4. SoundStatus(wStatus')
    BY Zenon, <2>1, <2>3
  <2>5. SoundStatus(wStatus)'
    BY Zenon, <2>4 DEF SoundStatus
  <2> QED BY Zenon, <1>1, <2>1, <2>2, <2>5, StageCopies DEF TeardownStages
<1> QED BY Zenon, <1>2, <1>3, <1>4

(* The stages of the normal branch up to the status update. *)
LEMMA NormalCopies ==
  ASSUME TypeOK, CopyInv,
         ReconcileConfigMap \/ FillConfigMap \/ FillTemplate \/ ReconcilePod \/ ReconcileService
  PROVE CopyInv'
<1> DEFINE stages == {"configMap", "fillConfigMap", "fillUnowned", "pod", "service", "update"}
           restarting == UpdateClusterConditions(wStatus.conds, "Restarting", TRUE, "Restarting")
<1>1. UNCHANGED <<suspend, status, clusterFeed, cSuspend, cStatus>>
  BY Zenon DEF ReconcileConfigMap, FillConfigMap, FillTemplate,
         ToStage, ConfigMapUpdated, CallTimesOut, ReconcilePod, ReconcileService, InPass,
         clusterVars, cacheVars
<1>2. wStatus \in StatusValues /\ SoundStatus(wStatus)
  BY Zenon DEF TypeOK, PassType, CopyInv, CopiesWellFormed, ConditionsWellFormed
<1>3. ASSUME pc \in stages, pc' \in stages, UNCHANGED <<mode, wCurrent>>,
             SoundStatus(wStatus')
      PROVE CopyInv'
  <2>1. mode = "normal"
    BY Zenon, <1>3 DEF CopyInv, StagesOfModes
  <2>2. StagesOfModes'
    BY Zenon, <1>3, <2>1 DEF StagesOfModes, TeardownStages
  <2>3. SoundStatus(wStatus)'
    BY Zenon, <1>3 DEF SoundStatus
  <2>4. pc' \notin TeardownStages
    BY Zenon, <1>3 DEF TeardownStages
  <2> QED BY Zenon, <1>1, <1>3, <2>1, <2>2, <2>3, <2>4, StageCopies
<1>4. CASE ReconcileConfigMap \/ FillConfigMap \/ FillTemplate
  <2>1. EndPass \/ (/\ pc \in stages /\ pc' \in stages /\ UNCHANGED <<mode, wCurrent, wStatus>>)
    BY Zenon, <1>4 DEF ReconcileConfigMap, FillConfigMap, FillTemplate,
                ToStage, ConfigMapUpdated, CallTimesOut, InPass, Call, Abort
  <2> QED BY Zenon, <1>1, <1>2, <1>3, <2>1, EndCopies
<1>5. CASE ReconcileService
  <2>1. EndPass \/ (/\ pc \in stages /\ pc' \in stages /\ UNCHANGED <<mode, wCurrent, wStatus>>)
    BY Zenon, <1>5 DEF ReconcileService, InPass, Call, Abort, NextType
  <2> QED BY Zenon, <1>1, <1>2, <1>3, <2>1, EndCopies
<1>6. CASE ReconcilePod
  <2>1. PICK r \in todo :
          EndPass \/ AfterPod(r, wStatus.conds) \/ AfterPod(r, restarting)
    BY Zenon, <1>6 DEF ReconcilePod, Call, Abort
  <2>2. pc = "pod" /\ r \in Types
    BY Zenon, <1>6 DEF ReconcilePod, InPass, TypeOK, PassType
  <2>3. CASE EndPass
    BY Zenon, <1>1, <2>3, EndCopies
  <2>4. ASSUME NEW conds, conds = wStatus.conds \/ conds = restarting, AfterPod(r, conds)
        PROVE CopyInv'
    <3>1. wStatus'.conds = conds /\ wStatus'.completion = wStatus.completion
          /\ pc' = "service" /\ UNCHANGED <<mode, wCurrent>>
      BY Zenon, <1>2, <2>4 DEF AfterPod, StatusValues
    <3>2. WellFormed(conds) /\ (IsFailed(wStatus.conds) => IsFailed(conds))
      <4>1. wStatus.conds \in SUBSET Conditions /\ WellFormed(wStatus.conds)
        BY Zenon, <1>2 DEF StatusValues, SoundStatus
      <4>2. WellFormed(restarting) /\ (IsFailed(wStatus.conds) => IsFailed(restarting))
        BY Zenon, <4>1, UpdateOnce DEF ConditionTypes, Reasons
      <4> QED BY Zenon, <2>4, <4>1, <4>2
    <3>3. SoundStatus(wStatus')
      BY Zenon, <1>2, <3>1, <3>2 DEF SoundStatus
    <3> QED BY Zenon, <1>3, <2>2, <3>1, <3>3
  <2> QED BY Zenon, <2>1, <2>3, <2>4
<1> QED BY Zenon, <1>4, <1>5, <1>6

(* The status update of the normal branch. *)
LEMMA UpdateCopies ==
  ASSUME TypeOK, CopyInv, UpdateClusterStatus
  PROVE CopyInv'
<1>1. UNCHANGED <<suspend, status, clusterFeed, cSuspend, cStatus, mode, wCurrent>>
      /\ pc = "update" /\ pc' \in {"write", "update"}
  BY Zenon DEF UpdateClusterStatus, InPass, clusterVars, cacheVars
<1>2. mode = "normal"
  BY Zenon, <1>1 DEF CopyInv, StagesOfModes
<1> DEFINE started == [wStatus EXCEPT !.start = IF @ = Unset THEN now ELSE @]
<1>3. PICK r \in todo : wStatus' = SchemaUpdate(started, r)
  BY Zenon DEF UpdateClusterStatus
<1>4. /\ started \in StatusValues /\ started.conds = wStatus.conds
      /\ started.completion = wStatus.completion /\ r \in Types
  BY Zenon DEF TypeOK, PassType, CountType, StatusValues
<1> HIDE DEF started
<1>5. SoundStatus(started)
  BY Zenon, <1>4 DEF SoundStatus, CopyInv, CopiesWellFormed, ConditionsWellFormed
<1>6. SoundStatus(wStatus')
  BY Zenon, <1>3, <1>4, <1>5, SoundSchemaUpdate
<1>7. SoundStatus(wStatus)'
  BY Zenon, <1>6 DEF SoundStatus
<1>8. StagesOfModes'
  BY Zenon, <1>1, <1>2 DEF StagesOfModes, TeardownStages
<1> QED BY Zenon, <1>1, <1>2, <1>7, <1>8, StageCopies DEF TeardownStages

(* The status write. *)
LEMMA WriteStatusCopies ==
  ASSUME TypeOK, CopyInv, WriteStatus
  PROVE CopyInv'
<1>1. pc = "write" /\ UNCHANGED <<cSuspend, cStatus>> /\ EndPass
  BY Zenon DEF WriteStatus, InPass, Abort, Return, cacheVars
<1>2. CASE UNCHANGED clusterVars
  BY Zenon, <1>1, <1>2, EndCopies DEF clusterVars
<1>3. CASE wCurrent /\ SetCluster(suspend, wStatus)
  <2>1. ~IsFailed(status.conds)
    BY Zenon, <1>1, <1>3 DEF CopyInv, StagesOfModes, WritersSeeFailure
  <2>2. suspend \in BOOLEAN /\ wStatus \in StatusValues /\ SoundStatus(wStatus)
    BY Zenon DEF TypeOK, ClusterType, PassType, CopyInv, CopiesWellFormed, ConditionsWellFormed
  <2>3. wCurrent' = FALSE
    BY Zenon, <1>1 DEF EndPass
  <2> QED BY Zenon, <1>1, <1>3, <2>1, <2>2, <2>3, WriteCopies
<1> QED BY Zenon, <1>2, <1>3 DEF WriteStatus

(* A user changes suspend. *)
LEMMA ToggleCopies ==
  ASSUME TypeOK, CopyInv, ToggleSuspend
  PROVE CopyInv'
<1>1. /\ SetCluster(~suspend, status) /\ wCurrent' = FALSE
      /\ UNCHANGED <<cSuspend, cStatus, pc, mode, wStatus>>
  BY Zenon DEF ToggleSuspend, cacheVars
<1>2. (~suspend) \in BOOLEAN /\ status \in StatusValues /\ SoundStatus(status)
  BY Zenon DEF TypeOK, ClusterType, CopyInv, CopiesWellFormed, ConditionsWellFormed
<1> QED BY Zenon, <1>1, <1>2, WriteCopies

(* Every step keeps the copies in order. *)
LEMMA CopyStep ==
  ASSUME TypeOK, CopyInv, [Next]_vars
  PROVE CopyInv'
<1>1. CASE UNCHANGED vars
  BY Zenon, <1>1, QuietCopies DEF vars, clusterVars, cacheVars
<1>2. CASE Environment
  <2>1. CASE ToggleSuspend
    BY Zenon, <2>1, ToggleCopies
  <2>2. CASE Tick
    BY Zenon, <2>2, QuietCopies DEF Tick, clusterVars, cacheVars
  <2>3. ASSUME NEW r \in Types,
               PodStarts(r) \/ PodFails(r) \/ ContainerRestarts(r) \/ Evict(r) \/ PodGone(r)
        PROVE CopyInv'
    <3>1. PICK pod : PodEvent(r, pod)
      BY Zenon, <2>3 DEF PodStarts, PodFails, ContainerRestarts, Evict, PodGone
    <3> QED BY Zenon, <3>1, QuietCopies DEF PodEvent, clusterVars, cacheVars
  <2> QED BY Zenon, <1>2, <2>1, <2>2, <2>3 DEF Environment
<1>3. CASE Informer
  <2>1. CASE ObserveCluster
    BY Zenon, <2>1, ObserveCopies
  <2>2. CASE ObservePod \/ ObserveService \/ ObserveConfigMap
    BY Zenon, <2>2, QuietCopies DEF ObservePod, ObserveService, ObserveConfigMap, Delivered
  <2> QED BY Zenon, <1>3, <2>1, <2>2 DEF Informer
<1>4. CASE Resync
  BY Zenon, <1>4, QuietCopies DEF Resync, clusterVars, cacheVars
<1>5. CASE StartPass
  BY Zenon, <1>5, StartCopies
<1>6. CASE PassStep
  BY Zenon, <1>6, TeardownCopies, CleanupCopies, NormalCopies, UpdateCopies, WriteStatusCopies
     DEF PassStep
<1>7. CASE Restart
  BY Zenon, <1>7, RestartCopies
<1> QED BY Zenon, <1>1, <1>2, <1>3, <1>4, <1>5, <1>6, <1>7 DEF Next

(* The initial copies are in order. *)
LEMMA CopyInit == Init => CopyInv
<1> SUFFICES ASSUME Init PROVE CopyInv
  BY Zenon
<1>1. TypeOK
  BY Zenon, TypeInit
<1>2. /\ status = NewStatus /\ cStatus = onOwnerCreate(NewStatus) /\ wStatus = NewStatus
      /\ clusterFeed = <<>> /\ DOMAIN clusterFeed = {} /\ cSuspend = suspend
      /\ pc = "idle" /\ mode = "none" /\ wCurrent = FALSE
  BY DEF Init
<1>3. /\ SoundStatus(onOwnerCreate(NewStatus))
      /\ IsFailed(onOwnerCreate(NewStatus).conds) => onOwnerCreate(NewStatus) = NewStatus
  BY Zenon, <1>1, <1>2, SoundNewStatus, SoundBranches DEF TypeOK, ClusterType, CountType
<1> QED BY Zenon, <1>2, <1>3, SoundNewStatus
        DEF CopyInv, StagesOfModes, CacheFollows, WritersSeeFailure, FailedCopies,
            CopiesWellFormed, ConditionsWellFormed, TeardownStages

-----------------------------------------------------------------------------
(* A cluster that has been suspended since its creation.                   *)

(* With no pod, service or config map a teardown changes none. *)
LEMMA NothingToDelete ==
  ASSUME pods = NoPods, svcs = {}, cm = "None", TypeOK,
         TearDownPod \/ TearDownService \/ RemoveConfigMap
  PROVE UNCHANGED childVars
<1>1. ASSUME NEW r \in Types, DeletePod(r) PROVE UNCHANGED childVars
  BY Zenon, <1>1 DEF DeletePod, NoPods
<1>2. ASSUME NEW r, DeleteService(r) PROVE UNCHANGED childVars
  BY Zenon, <1>2 DEF DeleteService
<1>3. ASSUME DeleteConfigMap PROVE UNCHANGED childVars
  BY Zenon, <1>3 DEF DeleteConfigMap
<1>4. CASE TearDownPod
  BY Zenon, <1>1, <1>4 DEF TearDownPod, Call, TypeOK, PassType
<1>5. CASE TearDownService
  BY Zenon, <1>2, <1>5 DEF TearDownService, Call
<1>6. CASE RemoveConfigMap
  BY Zenon, <1>3, <1>6 DEF RemoveConfigMap, ToStage, Call
<1> QED BY Zenon, <1>4, <1>5, <1>6

(* No step gives such a cluster a child or a version that is not suspended. *)
LEMMA BirthStep ==
  ASSUME TypeOK, CopyInv, SuspendedFromBirth, [Next]_vars
  PROVE SuspendedFromBirth'
<1> SUFFICES ASSUME ~active'
             PROVE /\ suspend' /\ cSuspend'
                   /\ \A k \in DOMAIN clusterFeed' : clusterFeed'[k].suspend
                   /\ mode' \notin {"normal", "limit"}
                   /\ pods' = NoPods /\ svcs' = {} /\ cm' = "None"
  BY Zenon DEF SuspendedFromBirth
<1> DEFINE Goal == /\ suspend' /\ cSuspend'
                   /\ \A k \in DOMAIN clusterFeed' : clusterFeed'[k].suspend
                   /\ mode' \notin {"normal", "limit"}
                   /\ pods' = NoPods /\ svcs' = {} /\ cm' = "None"
<1>1. active' = active \/ active'
  BY Zenon DEF Next, vars, historyVars, Environment, ToggleSuspend, Tick, PodStarts, PodFails,
         ContainerRestarts, Evict, PodGone, PodEvent, Informer, ObserveCluster, ObservePod,
         ObserveService, ObserveConfigMap, Delivered, Resync, StartPass, PassStep, TearDownPod,
         TearDownService, RemoveConfigMap, CleanupCluster, ReconcileConfigMap, FillConfigMap,
         FillTemplate, ReconcilePod, ReconcileService, UpdateClusterStatus, WriteStatus,
         InPass, Restart
<1>2. /\ suspend /\ cSuspend /\ \A k \in DOMAIN clusterFeed : clusterFeed[k].suspend
      /\ mode \notin {"normal", "limit"}
      /\ pods = NoPods /\ svcs = {} /\ cm = "None"
  BY Zenon, <1>1 DEF SuspendedFromBirth
<1>3. pc \notin {"configMap", "fillConfigMap", "fillUnowned", "pod", "service", "update"}
  BY Zenon, <1>2 DEF CopyInv, StagesOfModes
<1>4. clusterFeed \in Seq(Versions)
  BY Zenon DEF TypeOK, ClusterType
<1>5. ASSUME UNCHANGED <<suspend, clusterFeed, cSuspend, childVars>>,
             mode' \notin {"normal", "limit"}
      PROVE Goal
  BY Zenon, <1>2, <1>5 DEF childVars
<1>6. CASE UNCHANGED vars
  BY Zenon, <1>2, <1>5, <1>6 DEF vars, clusterVars, cacheVars, passVars
<1>7. CASE Environment
  <2>1. CASE ToggleSuspend
    BY Zenon, <2>1 DEF ToggleSuspend
  <2>2. CASE Tick
    BY Zenon, <1>2, <1>5, <2>2 DEF Tick, clusterVars, cacheVars, passVars
  <2>3. ASSUME NEW r \in Types,
               PodStarts(r) \/ PodFails(r) \/ ContainerRestarts(r) \/ Evict(r) \/ PodGone(r)
        PROVE FALSE
    <3>1. pods[r] = Absent /\ pods[r].phase = "None" /\ pods[r].del = FALSE
      BY Zenon, <1>2 DEF NoPods, Absent
    <3> QED BY Zenon, <2>3, <3>1 DEF PodStarts, PodFails, ContainerRestarts, Evict, PodGone
  <2> QED BY Zenon, <1>7, <2>1, <2>2, <2>3 DEF Environment
<1>8. CASE Informer
  <2>1. CASE ObserveCluster
    <3>1. /\ clusterFeed # <<>> /\ clusterFeed' = Tail(clusterFeed)
          /\ cSuspend' = clusterFeed[1].suspend /\ 1 \in DOMAIN clusterFeed
      BY <1>4, <2>1 DEF ObserveCluster
    <3>2. \A k \in DOMAIN clusterFeed' :
            k + 1 \in DOMAIN clusterFeed /\ clusterFeed'[k] = clusterFeed[k + 1]
      BY <1>4, <3>1
    <3>3. UNCHANGED <<suspend, mode, pods, svcs, cm>>
      BY Zenon, <2>1 DEF ObserveCluster, Delivered, passVars
    <3> QED BY Zenon, <1>2, <3>1, <3>2, <3>3
  <2>2. CASE ObservePod \/ ObserveService \/ ObserveConfigMap
    <3>1. UNCHANGED <<suspend, clusterFeed, cSuspend, mode, pods, svcs, cm>>
      BY Zenon, <2>2 DEF ObservePod, ObserveService, ObserveConfigMap, Delivered, passVars
    <3> QED BY Zenon, <1>2, <3>1
  <2> QED BY Zenon, <1>8, <2>1, <2>2 DEF Informer
<1>9. CASE Resync
  BY Zenon, <1>2, <1>5, <1>9 DEF Resync, clusterVars, cacheVars, passVars
<1>10. CASE StartPass
  <2>1. Branch \in {"finished", "suspended"}
    BY Zenon, <1>2 DEF Branch
  <2> QED BY Zenon, <1>2, <1>5, <1>10, <2>1 DEF StartPass, clusterVars, cacheVars
<1>11. CASE TearDownPod \/ TearDownService \/ RemoveConfigMap
  <2>1. UNCHANGED childVars
    BY Zenon, <1>2, <1>11, NothingToDelete
  <2>2. UNCHANGED <<suspend, clusterFeed, cSuspend>> /\ (mode' = mode \/ mode' = "none")
    BY Zenon, <1>11 DEF TearDownPod, TearDownService, RemoveConfigMap, ToStage, InPass, Call, Abort,
                 EndPass, clusterVars, cacheVars
  <2> QED BY Zenon, <1>2, <1>5, <2>1, <2>2
<1>12. CASE CleanupCluster
  <2>1. UNCHANGED <<suspend, clusterFeed, cSuspend, childVars>> /\ (mode' = mode \/ mode' = "none")
    BY Zenon, <1>12 DEF CleanupCluster, AfterCleanup, InPass, Abort, Return, EndPass,
                 clusterVars, cacheVars
  <2> QED BY Zenon, <1>2, <1>5, <2>1
<1>13. CASE ReconcileConfigMap \/ FillConfigMap \/ FillTemplate \/ ReconcilePod \/ ReconcileService
              \/ UpdateClusterStatus
  BY Zenon, <1>3, <1>13 DEF ReconcileConfigMap, FillConfigMap, FillTemplate,
                     ReconcilePod, ReconcileService, UpdateClusterStatus, InPass
<1>14. CASE WriteStatus
  <2>1. UNCHANGED <<cSuspend, childVars>> /\ mode' = "none"
    BY Zenon, <1>14 DEF WriteStatus, InPass, Abort, Return, EndPass, cacheVars
  <2>2. CASE UNCHANGED clusterVars
    BY Zenon, <1>5, <2>1, <2>2 DEF clusterVars
  <2>3. CASE SetCluster(suspend, wStatus)
    <3> DEFINE v == [suspend |-> suspend, status |-> wStatus]
    <3>1. clusterFeed' = Append(clusterFeed, v) /\ suspend' = suspend /\ v.suspend = suspend
      BY Zenon, <2>3 DEF SetCluster
    <3>2. v \in Versions
      BY Zenon DEF Versions, TypeOK, ClusterType, PassType
    <3> HIDE DEF v
    <3>3. \A k \in DOMAIN clusterFeed' :
            clusterFeed'[k] = v \/ (k \in DOMAIN clusterFeed /\ clusterFeed'[k] = clusterFeed[k])
      BY <1>4, <3>1, <3>2, SMTT(60)
    <3> QED BY Zenon, <1>2, <2>1, <3>1, <3>3 DEF childVars
  <2> QED BY Zenon, <1>14, <2>2, <2>3 DEF WriteStatus
<1>15. CASE Restart
  <2>1. /\ clusterFeed' = <<>> /\ cSuspend' = suspend /\ mode' = "none"
        /\ UNCHANGED <<suspend, pods, svcs, cm>>
    BY Zenon, <1>15 DEF Restart, Abort, EndPass
  <2> QED BY <1>2, <2>1
<1> QED BY Zenon, <1>6, <1>7, <1>8, <1>9, <1>10, <1>11, <1>12, <1>13, <1>14, <1>15
        DEF Next, PassStep

-----------------------------------------------------------------------------
(* The inductive invariant and what follows from it.                       *)

(* The inductive invariant: each stage belongs to its branch of            *)
(* ReconcileKubeCluster, the cache follows the API server, and no copy of  *)
(* the status that may still be written or acted on hides a failure.       *)
THEOREM LifecycleInductive == Spec => [](TypeOK /\ LifecycleInv)
<1>1. Init => TypeOK /\ LifecycleInv
  <2>1. Init => SuspendedFromBirth
    <3> SUFFICES ASSUME Init, ~active PROVE SuspendedFromBirth
      BY Zenon DEF SuspendedFromBirth
    <3>1. suspend /\ cSuspend
      BY Zenon DEF Init
    <3>2. clusterFeed = <<>> /\ mode = "none" /\ pods = NoPods /\ svcs = {} /\ cm = "None"
      BY Zenon DEF Init
    <3> QED BY <3>1, <3>2 DEF SuspendedFromBirth
  <2> QED BY Zenon, <2>1, TypeInit, CopyInit DEF LifecycleInv
<1>2. TypeOK /\ LifecycleInv /\ [Next]_vars => TypeOK' /\ LifecycleInv'
  BY Zenon, TypeStep, CopyStep, BirthStep DEF LifecycleInv
<1> QED BY <1>1, <1>2, PTL DEF Spec

(* The conditions of every copy of a status are well formed and a          *)
(* completion time goes with the Failed condition, whatever the order in   *)
(* which setCondition and filterOutCondition are applied.                  *)
THEOREM ConditionsAreWellFormed == Spec => []ConditionsWellFormed
<1>1. LifecycleInv => ConditionsWellFormed
  BY Zenon DEF LifecycleInv, CopyInv, CopiesWellFormed
<1> QED BY <1>1, LifecycleInductive, PTL

(* A cluster created suspended and never resumed gets no children from     *)
(* ReconcileKubeCluster.                                                   *)
THEOREM SuspendedHasNoChildren == Spec => []BornSuspended
<1>1. LifecycleInv => BornSuspended
  BY Zenon DEF LifecycleInv, SuspendedFromBirth, BornSuspended, Present, NoPods
<1> QED BY <1>1, LifecycleInductive, PTL

(* No pass takes a Failed status back: the resource version stops every    *)
(* status write that did not see it.                                       *)
THEOREM FailedForever == Spec => FailedIsFinal
<1>1. TypeOK /\ LifecycleInv /\ [Next]_vars
        => [IsFailed(status.conds) => status' = status]_vars
  <2> SUFFICES ASSUME TypeOK, CopyInv, Next, IsFailed(status.conds) PROVE status' = status
    BY Zenon DEF LifecycleInv
  <2>1. CASE ToggleSuspend
    BY Zenon, <2>1 DEF ToggleSuspend, SetCluster
  <2>2. CASE WriteStatus
    <3>1. wCurrent => mode = "finished"
      BY Zenon DEF CopyInv, WritersSeeFailure
    <3>2. ~wCurrent
      BY Zenon, <2>2, <3>1 DEF WriteStatus, InPass, CopyInv, StagesOfModes
    <3> QED BY Zenon, <2>2, <3>2 DEF WriteStatus, clusterVars
  <2>3. CASE PassStep /\ ~WriteStatus
    BY Zenon, <2>3 DEF PassStep, TearDownPod, TearDownService, RemoveConfigMap, CleanupCluster,
                ReconcileConfigMap, FillConfigMap, FillTemplate,
                ToStage, ConfigMapUpdated, CallTimesOut, ReconcilePod, ReconcileService,
                UpdateClusterStatus, clusterVars
  <2>4. CASE Environment /\ ~ToggleSuspend
    BY Zenon, <2>4 DEF Environment, Tick, PodStarts, PodFails, ContainerRestarts, Evict, PodGone,
                PodEvent, clusterVars
  <2>5. CASE Informer \/ Resync \/ StartPass \/ Restart
    BY Zenon, <2>5 DEF Informer, ObserveCluster, ObservePod, ObserveService, ObserveConfigMap,
                Delivered, Resync, StartPass, Restart, clusterVars
  <2> QED BY Zenon, <2>1, <2>2, <2>3, <2>4, <2>5 DEF Next
<1> QED BY <1>1, LifecycleInductive, PTL DEF Spec, FailedIsFinal

(* CleanupCluster deletes no cluster whose live status has not failed or   *)
(* whose TTL still runs, though it reads a cached status.                  *)
THEOREM DeletionIsDue == Spec => DeletedOnlyWhenExpired
<1> DEFINE Due == /\ IsFailed(status.conds) /\ status.completion # Unset
                  /\ now > status.completion + TTL
<1>1. TypeOK /\ LifecycleInv /\ [Next]_vars => [exists /\ ~exists' => Due]_vars
  <2> SUFFICES ASSUME TypeOK, CopyInv, Next, exists, ~exists' PROVE Due
    BY Zenon DEF LifecycleInv
  <2>1. CleanupCluster
    BY Zenon DEF Next, PassStep, TearDownPod, TearDownService, RemoveConfigMap,
           ReconcileConfigMap, FillConfigMap, FillTemplate,
           ToStage, ConfigMapUpdated, CallTimesOut, ReconcilePod, ReconcileService,
           UpdateClusterStatus, WriteStatus, SetCluster, clusterVars, Environment,
           ToggleSuspend, Tick, PodStarts, PodFails, ContainerRestarts, Evict, PodGone,
           PodEvent, Informer, ObserveCluster, ObservePod, ObserveService, ObserveConfigMap,
           Delivered, Resync, StartPass, Restart
  <2>2. pc = "cleanup" /\ wStatus.completion # Unset /\ TTLExpired
    BY Zenon, <2>1 DEF CleanupCluster, InPass, clusterVars
  <2>3. IsFailed(wStatus.conds)
    BY Zenon, <2>2 DEF CopyInv, CopiesWellFormed, ConditionsWellFormed, SoundStatus
  <2>4. mode = "finished"
    BY Zenon, <2>2, <2>3 DEF CopyInv, FailedCopies, TeardownStages
  <2>5. wStatus = status
    BY Zenon, <2>4 DEF CopyInv, FailedCopies
  <2> QED BY Zenon, <2>2, <2>3, <2>5 DEF TTLExpired
<1> QED BY <1>1, LifecycleInductive, PTL DEF Spec, DeletedOnlyWhenExpired

-----------------------------------------------------------------------------
(* What keeps a cluster that restarts its pods from failing.               *)

(* What excuses a failure, by NoEarlyBackoff, and the runs it speaks of:   *)
(* no one deletes pods or toggles the cluster, and there is no excuse yet. *)
Excused ==
  \/ BackoffLimit # Unset /\ restarts >= BackoffLimit /\ restarts > 0
  \/ BackoffLimit = 0 /\ failures > 0
Calm ==
  /\ RestartPolicy = "OnFailure" /\ Deadline = Unset
  /\ evictions = 0 /\ toggles = 0 /\ ~Excused

(* The events under way about the pod of a type, and a pod that will not   *)
(* run any more.                                                           *)
Coming(r) == {k \in DOMAIN podFeed : podFeed[k].type = r}
Over(pod) == pod.phase \in {"Failed", "None"}

(* What the cache and the events under way tell of the pod of a type, in   *)
(* which order: only a failed pod is deleted, a deletion only follows a    *)
(* failure that the cache has seen, a failed pod does not recover, and the *)
(* event that a pod is gone is the last.                                   *)
OnlyFailedDeleted(r) == \A p \in PodCopies(r) : p.del => p.phase = "Failed"
DeletionSeen(r) ==
  pods[r].del \/ (Coming(r) # {} /\ pods[r] = Absent) => cPods[r].phase = "Failed"
FailureLasts(r) ==
  /\ cPods[r].phase = "Failed" => Over(pods[r]) /\ \A k \in Coming(r) : Over(podFeed[k].pod)
  /\ \A j \in Coming(r) : podFeed[j].pod.phase = "Failed" =>
       Over(pods[r]) /\ \A k \in Coming(r) : k > j => Over(podFeed[k].pod)
GoneIsLast(r) ==
  \A j \in Coming(r) : podFeed[j].pod = Absent => pods[r] = Absent /\ \A k \in Coming(r) : k <= j
PodOrder(r) == OnlyFailedDeleted(r) /\ DeletionSeen(r) /\ FailureLasts(r) /\ GoneIsLast(r)

(* A step that leaves the pods and what is known of them alone. *)
LEMMA OrderKept ==
  ASSUME UNCHANGED <<pods, podFeed, cPods>>, wPods' \in {wPods, cPods, NoPods},
         NEW r \in Types, PodOrder(r)
  PROVE PodOrder(r)'
<1>1. \A p \in PodCopies(r)' : p \in PodCopies(r) \/ p = Absent
  BY Zenon DEF PodCopies, NoPods
<1>2. OnlyFailedDeleted(r)'
  BY <1>1 DEF OnlyFailedDeleted, PodOrder, Absent
<1>3. DeletionSeen(r)' /\ FailureLasts(r)' /\ GoneIsLast(r)'
  BY Zenon DEF PodOrder, DeletionSeen, FailureLasts, GoneIsLast, Coming
<1> QED BY Zenon, <1>2, <1>3 DEF PodOrder

(* The events of a type after a write and after a delivery. *)
LEMMA ComingAfterWrite ==
  ASSUME TypeOK, NEW u \in Types, NEW q \in PodValues, SetPod(u, q), NEW r \in Types
  PROVE /\ pods'[r] = IF r = u THEN q ELSE pods[r]
        /\ \A k \in Coming(r) : k \in Coming(r)' /\ podFeed'[k] = podFeed[k]
        /\ \A k \in Coming(r)' :
             \/ k \in Coming(r)
             \/ r = u /\ podFeed'[k].pod = q /\ \A j \in Coming(r)' : j <= k
        /\ Coming(r) \subseteq Nat /\ Coming(r)' \subseteq Nat
<1> DEFINE e == [type |-> u, pod |-> q]
           E == [type : Types, pod : PodValues]
<1>1. /\ podFeed \in Seq(E) /\ podFeed' = Append(podFeed, e) /\ e \in E
      /\ pods \in [Types -> PodValues] /\ pods' = [pods EXCEPT ![u] = q]
  BY Zenon DEF TypeOK, ChildType, SetPod
<1>2. e.type = u /\ e.pod = q
  BY Zenon
<1>3. pods'[r] = IF r = u THEN q ELSE pods[r]
  BY Zenon, <1>1
<1> HIDE DEF e, E
<1>4. /\ Len(podFeed) \in Nat /\ DOMAIN podFeed = 1..Len(podFeed)
      /\ DOMAIN podFeed' = 1..(Len(podFeed) + 1) /\ podFeed'[Len(podFeed) + 1] = e
      /\ \A k \in DOMAIN podFeed : podFeed'[k] = podFeed[k]
  BY <1>1
<1>5. \A k \in Coming(r) : k \in Coming(r)' /\ podFeed'[k] = podFeed[k]
  BY <1>4 DEF Coming
<1>6. ASSUME NEW k \in Coming(r)', k \notin Coming(r)
      PROVE r = u /\ podFeed'[k].pod = q /\ \A j \in Coming(r)' : j <= k
  <2>1. k = Len(podFeed) + 1
    BY <1>4, <1>6 DEF Coming
  <2> QED BY <1>2, <1>4, <1>6, <2>1 DEF Coming
<1> QED BY <1>3, <1>4, <1>5, <1>6 DEF Coming

LEMMA ComingAfterDelivery ==
  ASSUME TypeOK, ObservePod, NEW r \in Types
  PROVE /\ UNCHANGED <<pods, wPods>>
        /\ Coming(r) \subseteq Nat \ {0} /\ Coming(r)' \subseteq Nat \ {0}
        /\ \A k \in Coming(r)' : k + 1 \in Coming(r) /\ podFeed'[k] = podFeed[k + 1]
        /\ \/ cPods'[r] = cPods[r] /\ (Coming(r)' = {} => Coming(r) = {})
           \/ 1 \in Coming(r) /\ cPods'[r] = podFeed[1].pod
<1> DEFINE E == [type : Types, pod : PodValues]
<1>1. /\ podFeed \in Seq(E) /\ podFeed # <<>> /\ podFeed' = Tail(podFeed)
      /\ cPods' = [cPods EXCEPT ![Head(podFeed).type] = Head(podFeed).pod]
      /\ cPods \in [Types -> PodValues] /\ UNCHANGED <<pods, wPods>>
  BY Zenon DEF ObservePod, Delivered, passVars, TypeOK, ChildType, CacheType
<1> HIDE DEF E
<1>2. /\ 1 \in DOMAIN podFeed /\ Head(podFeed) = podFeed[1]
      /\ Len(podFeed) \in Nat /\ DOMAIN podFeed = 1..Len(podFeed)
      /\ DOMAIN podFeed' = 1..(Len(podFeed) - 1)
      /\ \A k \in DOMAIN podFeed' : podFeed'[k] = podFeed[k + 1]
  BY <1>1
<1>3. \A k \in Coming(r)' : k + 1 \in Coming(r) /\ podFeed'[k] = podFeed[k + 1]
  BY <1>2 DEF Coming
<1>4. CASE podFeed[1].type = r
  BY <1>1, <1>2, <1>3, <1>4 DEF Coming
<1>5. CASE podFeed[1].type # r
  <2>1. cPods'[r] = cPods[r]
    BY Zenon, <1>1, <1>2, <1>5
  <2>2. \A k \in Coming(r) : k - 1 \in Coming(r)'
    BY <1>2, <1>5 DEF Coming
  <2> QED BY SMTT(30), <1>1, <1>2, <1>3, <2>1, <2>2 DEF Coming
<1> QED BY Zenon, <1>4, <1>5

(* A pod that may follow the live one without breaking that order. *)
Fits(u, q) ==
  \/ /\ pods[u] # Absent
     /\ Over(pods[u]) => Over(q)
     /\ q.del => q.phase = "Failed"
     /\ q.del \/ q = Absent => cPods[u].phase = "Failed"
  \/ q = NewPod /\ pods[u] = Absent /\ Coming(u) = {} /\ cPods[u] = Absent

LEMMA OrderWritten ==
  ASSUME TypeOK, NEW u \in Types, NEW q \in PodValues, SetPod(u, q), cPods' = cPods,
         wPods' \in {wPods, NoPods}, NEW r \in Types, PodOrder(r), r = u => Fits(u, q)
  PROVE PodOrder(r)'
<1>1. /\ pods'[r] = IF r = u THEN q ELSE pods[r]
      /\ \A k \in Coming(r) : k \in Coming(r)' /\ podFeed'[k] = podFeed[k]
      /\ \A k \in Coming(r)' :
           \/ k \in Coming(r)
           \/ r = u /\ podFeed'[k].pod = q /\ \A j \in Coming(r)' : j <= k
      /\ Coming(r) \subseteq Nat /\ Coming(r)' \subseteq Nat
  BY Zenon, ComingAfterWrite
<1>2. wPods'[r] \in {wPods[r], Absent} /\ cPods'[r] = cPods[r]
  BY Zenon DEF NoPods
<1>3. /\ Absent.phase = "None" /\ ~Absent.del /\ NewPod.phase = "Pending" /\ ~NewPod.del
      /\ NewPod # Absent
  BY Zenon DEF Absent, NewPod
<1>4. OnlyFailedDeleted(r)'
  <2>1. \A p \in PodCopies(r)' : p \in PodCopies(r) \/ p = Absent \/ (r = u /\ p = q)
    BY ZenonT(30), <1>1, <1>2 DEF PodCopies, Coming
  <2>2. r = u => (q.del => q.phase = "Failed")
    BY Zenon, <1>3 DEF Fits
  <2> QED BY Zenon, <1>3, <2>1, <2>2 DEF OnlyFailedDeleted, PodOrder
<1>5. CASE r # u
  <2>1. Coming(r)' = Coming(r) /\ pods'[r] = pods[r]
    BY Zenon, <1>1, <1>5
  <2>2. DeletionSeen(r)' /\ FailureLasts(r)' /\ GoneIsLast(r)'
    BY Zenon, <1>1, <1>2, <2>1 DEF PodOrder, DeletionSeen, FailureLasts, GoneIsLast
  <2> QED BY Zenon, <1>4, <2>2 DEF PodOrder
<1>6. CASE r = u /\ pods[u] # Absent
  <2>1. /\ Over(pods[r]) => Over(q)
        /\ q.del \/ q = Absent => cPods[r].phase = "Failed"
    BY Zenon, <1>6 DEF Fits
  <2>2. DeletionSeen(r)'
    BY Zenon, <1>1, <1>2, <1>6, <2>1 DEF DeletionSeen
  <2>3. cPods[r].phase = "Failed" => Over(q) /\ \A k \in Coming(r)' : Over(podFeed'[k].pod)
    BY Zenon, <1>1, <2>1 DEF PodOrder, FailureLasts
  <2>4. ASSUME NEW j \in Coming(r)', podFeed'[j].pod.phase = "Failed"
        PROVE Over(q) /\ \A k \in Coming(r)' : k > j => Over(podFeed'[k].pod)
    <3>1. CASE j \in Coming(r)
      BY Zenon, <1>1, <2>1, <2>4, <3>1 DEF PodOrder, FailureLasts
    <3>2. CASE j \notin Coming(r)
      <4>1. podFeed'[j].pod = q /\ \A k \in Coming(r)' : k <= j
        BY Zenon, <1>1, <3>2
      <4> QED BY <1>1, <2>4, <4>1 DEF Over
    <3> QED BY Zenon, <3>1, <3>2
  <2>5. FailureLasts(r)'
    BY Zenon, <1>1, <1>2, <1>6, <2>3, <2>4 DEF FailureLasts, Over
  <2>6. GoneIsLast(r)'
    BY Zenon, <1>1, <1>6 DEF PodOrder, GoneIsLast
  <2> QED BY Zenon, <1>4, <2>2, <2>5, <2>6 DEF PodOrder
<1>7. CASE r = u /\ pods[u] = Absent
  <2>1. q = NewPod /\ Coming(r) = {} /\ cPods[r] = Absent
    BY Zenon, <1>7 DEF Fits
  <2>2. \A k \in Coming(r)' : podFeed'[k].pod = NewPod
    BY Zenon, <1>1, <2>1
  <2>3. DeletionSeen(r)' /\ GoneIsLast(r)'
    BY Zenon, <1>1, <1>2, <1>3, <1>7, <2>1, <2>2 DEF DeletionSeen, GoneIsLast
  <2>4. FailureLasts(r)'
    BY Zenon, <1>2, <1>3, <2>1, <2>2 DEF FailureLasts
  <2> QED BY Zenon, <1>4, <2>3, <2>4 DEF PodOrder
<1> QED BY Zenon, <1>5, <1>6, <1>7

LEMMA OrderDelivered ==
  ASSUME TypeOK, ObservePod, NEW r \in Types, PodOrder(r)
  PROVE PodOrder(r)'
<1>1. /\ UNCHANGED <<pods, wPods>>
      /\ Coming(r) \subseteq Nat \ {0} /\ Coming(r)' \subseteq Nat \ {0}
      /\ \A k \in Coming(r)' : k + 1 \in Coming(r) /\ podFeed'[k] = podFeed[k + 1]
      /\ \/ cPods'[r] = cPods[r] /\ (Coming(r)' = {} => Coming(r) = {})
         \/ 1 \in Coming(r) /\ cPods'[r] = podFeed[1].pod
  BY Zenon, ComingAfterDelivery
<1>2. OnlyFailedDeleted(r)'
  <2>1. \A p \in PodCopies(r)' : p \in PodCopies(r)
    BY SMTT(30), <1>1 DEF PodCopies, Coming
  <2> QED BY Zenon, <2>1 DEF OnlyFailedDeleted, PodOrder
<1>3. GoneIsLast(r)'
  BY <1>1 DEF PodOrder, GoneIsLast
<1>4. CASE cPods'[r] = cPods[r] /\ (Coming(r)' = {} => Coming(r) = {})
  <2>1. DeletionSeen(r)'
    BY Zenon, <1>1, <1>4 DEF PodOrder, DeletionSeen
  <2>2. FailureLasts(r)'
    BY <1>1, <1>4 DEF PodOrder, FailureLasts
  <2> QED BY Zenon, <1>2, <1>3, <2>1, <2>2 DEF PodOrder
<1>5. CASE 1 \in Coming(r) /\ cPods'[r] = podFeed[1].pod
  <2>1. \A k \in Coming(r)' : k + 1 > 1 /\ ~(k + 1 <= 1)
    BY SMTT(30), <1>1
  <2>2. FailureLasts(r)'
    BY <1>1, <1>5, <2>1 DEF PodOrder, FailureLasts
  <2>3. podFeed[1].pod = Absent => pods[r] = Absent /\ Coming(r)' = {}
    BY Zenon, <1>1, <1>5, <2>1 DEF PodOrder, GoneIsLast
  <2>4. ASSUME pods[r].del \/ (Coming(r)' # {} /\ pods[r] = Absent)
        PROVE podFeed[1].pod.phase = "Failed"
    <3>1. cPods[r].phase = "Failed"
      BY Zenon, <1>5, <2>4 DEF PodOrder, DeletionSeen
    <3>2. podFeed[1].pod.phase \in {"Failed", "None"}
      BY Zenon, <1>5, <3>1 DEF PodOrder, FailureLasts, Over
    <3>3. podFeed[1].pod # Absent
      BY <2>3, <2>4 DEF Absent
    <3>4. podFeed[1].pod \in PodValues
      BY Zenon, <1>5, PodCopiesType DEF PodCopies, Coming
    <3> QED BY Zenon, <3>2, <3>3, <3>4 DEF PodValues
  <2>5. DeletionSeen(r)'
    BY Zenon, <1>1, <1>5, <2>4 DEF DeletionSeen
  <2> QED BY Zenon, <1>2, <1>3, <2>2, <2>5 DEF PodOrder
<1> QED BY Zenon, <1>1, <1>4, <1>5

LEMMA OrderRelisted ==
  ASSUME Restart, NEW r \in Types, PodOrder(r)
  PROVE PodOrder(r)'
<1>1. podFeed' = <<>> /\ cPods' = pods /\ pods' = pods /\ wPods'[r] = Absent
  BY Zenon DEF Restart, Abort, EndPass, NoPods
<1>2. Coming(r)' = {}
  BY <1>1 DEF Coming
<1>3. \A p \in PodCopies(r)' : p \in {pods[r], Absent}
  BY <1>1 DEF PodCopies
<1>4. pods[r].del => pods[r].phase = "Failed"
  BY Zenon DEF PodOrder, OnlyFailedDeleted, PodCopies
<1> QED
  BY <1>1, <1>2, <1>3, <1>4
  DEF PodOrder, OnlyFailedDeleted, DeletionSeen, FailureLasts, GoneIsLast, Over, Absent

(* What a pass of the normal branch may rely on for a type whose pod it    *)
(* has not handled yet: a pod it has not seen is not about to go, and one  *)
(* it has seen fail has not come back.                                     *)
NormalStages == {"configMap", "fillConfigMap", "fillUnowned", "pod", "service"}
Unhandled(r) ==
  mode = "normal" /\ pc \in NormalStages /\ r \in todo /\ ~(pc = "service" /\ cur = r)
PassOrder(r) ==
  Unhandled(r) =>
    /\ wPods[r] = Absent =>
         ~pods[r].del /\ (pods[r] = Absent => Coming(r) = {} /\ cPods[r] = Absent)
    /\ wPods[r].phase = "Failed" =>
         Over(pods[r]) /\ (pods[r] # Absent => cPods[r].phase = "Failed")

LEMMA PassOrderKept ==
  ASSUME NEW r \in Types, UNCHANGED <<pods, podFeed, cPods>>, PassOrder(r),
         Unhandled(r)' => Unhandled(r) /\ wPods' = wPods
  PROVE PassOrder(r)'
<1>1. Coming(r)' = Coming(r)
  BY Zenon DEF Coming
<1> QED BY Zenon, <1>1 DEF PassOrder

(* A pod that the kubelet or the API server may put after the live one,    *)
(* as long as no one evicts it.                                            *)
Follows(u, q) ==
  /\ pods[u] # Absent
  /\ Over(pods[u]) => Over(q)
  /\ q.del \/ q = Absent => pods[u].del

LEMMA FollowsFits ==
  ASSUME NEW u \in Types, NEW q \in PodValues, PodOrder(u), Follows(u, q)
  PROVE Fits(u, q)
<1>1. pods[u].del => pods[u].phase = "Failed" /\ cPods[u].phase = "Failed"
  BY Zenon DEF PodOrder, OnlyFailedDeleted, DeletionSeen, PodCopies
<1>2. q.del => q.phase = "Failed"
  BY <1>1 DEF Follows, Over, PodValues, Absent
<1> QED BY Zenon, <1>1, <1>2 DEF Follows, Fits

LEMMA PassOrderWritten ==
  ASSUME TypeOK, NEW u \in Types, NEW q \in PodValues, SetPod(u, q), cPods' = cPods,
         NEW r \in Types, PassOrder(r),
         Unhandled(r)' => Unhandled(r) /\ wPods' = wPods /\ (r = u => Follows(u, q))
  PROVE PassOrder(r)'
<1> SUFFICES ASSUME Unhandled(r)' PROVE PassOrder(r)'
  BY Zenon DEF PassOrder
<1>1. /\ pods'[r] = IF r = u THEN q ELSE pods[r]
      /\ \A k \in Coming(r)' : k \in Coming(r) \/ r = u
  BY ComingAfterWrite
<1>2. CASE r # u
  <2>1. Coming(r) = {} => Coming(r)' = {}
    BY Zenon, <1>1, <1>2
  <2> QED BY Zenon, <1>1, <1>2, <2>1 DEF PassOrder
<1>3. CASE r = u
  <2>1. Follows(r, q) /\ pods'[r] = q
    BY Zenon, <1>1, <1>3
  <2>2. wPods[r] = Absent => ~q.del /\ q # Absent
    BY Zenon, <2>1 DEF PassOrder, Follows
  <2>3. wPods[r].phase = "Failed" => Over(q) /\ cPods[r].phase = "Failed"
    BY Zenon, <2>1 DEF PassOrder, Follows
  <2> QED BY Zenon, <2>1, <2>2, <2>3 DEF PassOrder
<1> QED BY Zenon, <1>2, <1>3

LEMMA PassOrderDelivered ==
  ASSUME TypeOK, ObservePod, NEW r \in Types, PodOrder(r), PassOrder(r)
  PROVE PassOrder(r)'
<1>1. /\ UNCHANGED <<pods, wPods>>
      /\ \A k \in Coming(r)' : k + 1 \in Coming(r)
      /\ \/ cPods'[r] = cPods[r]
         \/ 1 \in Coming(r) /\ cPods'[r] = podFeed[1].pod
  BY Zenon, ComingAfterDelivery
<1>2. Unhandled(r)' <=> Unhandled(r)
  BY Zenon DEF ObservePod, Delivered, passVars, Unhandled
<1>3. Coming(r) = {} => Coming(r)' = {} /\ cPods'[r] = cPods[r]
  BY Zenon, <1>1
<1>4. ASSUME cPods[r].phase = "Failed", pods[r] # Absent PROVE cPods'[r].phase = "Failed"
  <2>1. CASE 1 \in Coming(r) /\ cPods'[r] = podFeed[1].pod
    <3>1. Over(podFeed[1].pod) /\ podFeed[1].pod # Absent
      BY Zenon, <1>4, <2>1 DEF PodOrder, FailureLasts, GoneIsLast
    <3>2. podFeed[1].pod \in PodValues
      BY Zenon, <2>1, PodCopiesType DEF PodCopies, Coming
    <3> QED BY Zenon, <2>1, <3>1, <3>2 DEF Over, PodValues
  <2> QED BY Zenon, <1>1, <1>4, <2>1
<1> QED BY Zenon, <1>1, <1>2, <1>3, <1>4 DEF PassOrder

LEMMA PassOrderStarts ==
  ASSUME StartPass, NEW r \in Types, PodOrder(r)
  PROVE PassOrder(r)'
<1>1. UNCHANGED <<pods, podFeed, cPods>> /\ wPods' = cPods
  BY Zenon DEF StartPass, childVars, cacheVars
<1>2. Coming(r)' = Coming(r)
  BY Zenon, <1>1 DEF Coming
<1>3. cPods[r] = Absent => ~pods[r].del /\ (pods[r] = Absent => Coming(r) = {})
  BY DEF PodOrder, DeletionSeen, Absent
<1>4. cPods[r].phase = "Failed" => Over(pods[r])
  BY Zenon DEF PodOrder, FailureLasts
<1> QED BY Zenon, <1>1, <1>2, <1>3, <1>4 DEF PassOrder

(* A pass that has handled the head has counted its pod, and if that pod   *)
(* failed the status it works on says Restarting.                          *)
HeadCounted ==
  mode = "normal" /\ pc \in NormalStages \cup {"update"} /\ ~Unhandled("Head") =>
    /\ wStatus.replicas["Head"] = ReplicaStatus(wPods["Head"])
    /\ wPods["Head"].phase = "Failed" => HasCondition(wStatus.conds, "Restarting")

LEMMA RestartingUpdate ==
  ASSUME NEW conds \in SUBSET Conditions, ~IsFailed(conds)
  PROVE LET new == UpdateClusterConditions(conds, "Restarting", TRUE, "Restarting") IN
        HasCondition(new, "Restarting") /\ ~IsFailed(new)
<1>1. HasCondition(UpdateClusterConditions(conds, "Restarting", TRUE, "Restarting"), "Restarting")
  BY DEF UpdateClusterConditions, setCondition, HasCondition
<1>2. ~IsFailed(UpdateClusterConditions(conds, "Restarting", TRUE, "Restarting"))
  <2>1. "Restarting" \in ConditionTypes /\ "Restarting" \in Reasons /\ TRUE \in BOOLEAN
    BY Zenon DEF ConditionTypes, Reasons
  <2> QED BY Zenon, <2>1, FailedConditions
<1> QED BY Zenon, <1>1, <1>2

(* PBS Pro's update fails no cluster but for a failed head that is not     *)
(* being restarted, and keeps the word that it is.                         *)
LEMMA SchemaRestarting ==
  ASSUME Schema = "pbspro", NEW st \in StatusValues, ~IsFailed(st.conds), NEW r \in Types,
         st.replicas["Head"].failed > 0 =>
           st.replicas["Head"].active = 0 /\ HasCondition(st.conds, "Restarting")
  PROVE /\ SchemaUpdate(st, r).replicas = st.replicas
        /\ ~IsFailed(SchemaUpdate(st, r).conds)
        /\ st.replicas["Head"].failed > 0 => HasCondition(SchemaUpdate(st, r).conds, "Restarting")
<1> DEFINE runs == pbsproRuns(r, st.replicas[r].active)
           conds == IF runs
                      THEN UpdateClusterConditions(st.conds, "Running", TRUE, "Running")
                      ELSE st.conds
           new == SchemaUpdate(st, r).conds
<1>0. st.conds \in SUBSET Conditions
  BY Zenon DEF StatusValues
<1>1. SchemaUpdate(st, r).replicas = st.replicas
  BY Zenon DEF SchemaUpdate, StatusValues
<1>2. conds \in SUBSET Conditions /\ ~IsFailed(conds)
  <2>1. "Running" \in ConditionTypes /\ "Running" \in Reasons /\ TRUE \in BOOLEAN
        /\ "Running" # "Failed"
    BY Zenon DEF ConditionTypes, Reasons
  <2> QED BY Zenon, <1>0, <2>1, ConditionsType, FailedConditions
<1>3. st.replicas["Head"].failed > 0 => conds = st.conds
  <2>1. ASSUME st.replicas["Head"].failed > 0 PROVE ~(r = "Head" /\ st.replicas[r].active > 0)
    <3>1. ~(0 > 0)
      OBVIOUS
    <3> QED BY Zenon, <2>1, <3>1
  <2> QED BY Zenon, <2>1 DEF pbsproRuns
<1>4. new = IF st.replicas[r].failed > 0 /\ ~HasCondition(conds, "Restarting") /\ pbsproFails(r)
              THEN UpdateClusterConditions(conds, "Failed", TRUE, "Failed")
            ELSE IF st.replicas[r].failed > 0 /\ HasCondition(conds, "Restarting")
              THEN UpdateClusterConditions(conds, "Restarting", TRUE, "Restarting")
            ELSE conds
  BY Zenon DEF SchemaUpdate, StatusValues
<1>5. ~(st.replicas[r].failed > 0 /\ ~HasCondition(conds, "Restarting") /\ pbsproFails(r))
  <2> HIDE DEF conds
  <2> QED BY Zenon, <1>3 DEF pbsproFails
<1>6. new \in {conds, UpdateClusterConditions(conds, "Restarting", TRUE, "Restarting")}
  <2> HIDE DEF conds, new
  <2> QED BY Zenon, <1>4, <1>5
<1> HIDE DEF conds, new
<1>7. ~IsFailed(new) /\ (HasCondition(conds, "Restarting") => HasCondition(new, "Restarting"))
  BY Zenon, <1>2, <1>6, RestartingUpdate
<1>8. ~IsFailed(SchemaUpdate(st, r).conds)
      /\ (HasCondition(conds, "Restarting")
            => HasCondition(SchemaUpdate(st, r).conds, "Restarting"))
  BY Zenon, <1>7 DEF new
<1> QED BY Zenon, <1>1, <1>3, <1>8

(* Failures have happened before any copy of a pod tells of them. *)
FailuresCounted ==
  \A r \in Types : \A p \in PodCopies(r) : p.phase = "Failed" => failures > 0

(* The counters of what happened only grow. *)
LEMMA CountersGrow ==
  ASSUME TypeOK, [Next]_vars
  PROVE /\ failures' \in Nat /\ failures \in Nat /\ failures <= failures'
        /\ restarts' \in Nat /\ restarts \in Nat /\ restarts <= restarts'
        /\ evictions' = 0 => evictions = 0
        /\ toggles' = 0 => toggles = 0 /\ ~ToggleSuspend
        /\ evictions' = 0 => \A r \in Types : ~Evict(r)
<1>0. /\ failures \in Nat /\ restarts \in Nat /\ evictions \in Nat /\ toggles \in Nat
  BY ConstantsAssumption DEF TypeOK, CountType
<1> DEFINE Kept == UNCHANGED <<failures, restarts, evictions, toggles>>
<1>2. CASE ToggleSuspend
  BY <1>0, <1>2 DEF ToggleSuspend, Evict
<1>3. ASSUME NEW r \in Types, PodFails(r) \/ ContainerRestarts(r) \/ Evict(r)
      PROVE /\ failures' \in {failures, failures + 1} /\ restarts' \in {restarts, restarts + 1}
            /\ toggles' = toggles
            /\ evictions' = evictions \/ evictions' = evictions + 1
  BY Zenon, <1>3 DEF PodFails, ContainerRestarts, Evict, PodEvent
<1>4. ToggleSuspend => toggles' = toggles + 1
  BY Zenon DEF ToggleSuspend
<1>5. \A r \in Types : Evict(r) => evictions' = evictions + 1
  BY Zenon DEF Evict
<1>6. CASE Kept
  BY <1>0, <1>4, <1>5, <1>6
<1>7. CASE \E r \in Types : PodFails(r) \/ ContainerRestarts(r) \/ Evict(r)
  BY <1>0, <1>3, <1>4, <1>5, <1>7
<1>8. CASE UNCHANGED vars \/ Tick \/ \E r \in Types : PodStarts(r) \/ PodGone(r)
  BY Zenon, <1>6, <1>8 DEF vars, countVars, Tick, PodStarts, PodGone, PodEvent
<1>9. CASE Informer \/ Resync \/ StartPass \/ Restart
  BY Zenon, <1>6, <1>9
  DEF Informer, ObserveCluster, ObservePod, ObserveService, ObserveConfigMap, Delivered,
      Resync, StartPass, Restart, countVars
<1>10. CASE PassStep
  BY Zenon, <1>6, <1>10
  DEF PassStep, TearDownPod, TearDownService, RemoveConfigMap, CleanupCluster,
      ReconcileConfigMap, FillConfigMap, FillTemplate, ReconcilePod, ReconcileService,
      UpdateClusterStatus, WriteStatus, InPass
<1> QED BY Zenon, <1>2, <1>7, <1>8, <1>9, <1>10 DEF Next, Environment

LEMMA CalmBefore ==
  ASSUME TypeOK, [Next]_vars, Calm'
  PROVE Calm /\ ~ToggleSuspend /\ \A r \in Types : ~Evict(r)
<1>1. BackoffLimit \in Nat \cup {Unset}
  BY Zenon, ConstantsAssumption
<1>2. ~Excused' => ~Excused
  BY <1>1, CountersGrow DEF Excused
<1> QED BY Zenon, <1>2, CountersGrow DEF Calm

LEMMA FailuresStep ==
  ASSUME TypeOK, FailuresCounted, [Next]_vars
  PROVE FailuresCounted'
<1> SUFFICES ASSUME NEW r \in Types, NEW p \in PodCopies(r)', p.phase = "Failed"
             PROVE failures' > 0
  BY Zenon DEF FailuresCounted
<1>1. failures \in Nat /\ failures' \in Nat /\ failures <= failures'
  BY Zenon, CountersGrow
<1>2. Grown(r, p) /\ pods[r] \in PodValues /\ pods[r] \in PodCopies(r)
  BY Zenon, PodCopiesStep, PodCopiesType DEF PodCopies
<1>3. (\E q \in PodCopies(r) : q.phase = "Failed") => failures > 0
  BY Zenon DEF FailuresCounted
<1>4. CASE p \in {Absent, NewPod}
  BY <1>4 DEF Absent, NewPod
<1>5. CASE \/ p = [pods[r] EXCEPT !.del = TRUE]
           \/ p = [pods[r] EXCEPT !.restarts = @ + 1]
  <2>1. p.phase = pods[r].phase
    BY Zenon, <1>2, <1>5 DEF PodValues, Absent
  <2> QED BY <1>1, <1>2, <1>3, <2>1
<1>6. CASE p = [pods[r] EXCEPT !.phase = "Running"]
  BY Zenon, <1>2, <1>6 DEF PodValues, Absent
<1>7. CASE failures' = failures + 1
  BY <1>1, <1>7
<1>8. CASE p \in PodCopies(r)
  BY <1>1, <1>3, <1>8
<1> QED BY Zenon, <1>2, <1>4, <1>5, <1>6, <1>7, <1>8 DEF Grown

(* No copy of the status has failed, no pass goes for a finished cluster   *)
(* or over a limit, and none suspends a cluster that was not created       *)
(* suspended.                                                              *)
NoneFailed == \A st \in StatusCopies : ~IsFailed(st.conds)
Undisturbed ==
  /\ mode \notin {"finished", "limit"}
  /\ active => /\ ~suspend /\ ~cSuspend /\ mode # "suspended"
               /\ \A k \in DOMAIN clusterFeed : ~clusterFeed[k].suspend
InOrder == \A r \in Types : PodOrder(r) /\ PassOrder(r)
BackoffInv == Calm => NoneFailed /\ Undisturbed /\ InOrder /\ HeadCounted

(* What the pass has counted for the head is what SchemaRestarting needs. *)
LEMMA CountedHead ==
  ASSUME TypeOK, InOrder, HeadCounted, mode = "normal", pc = "update"
  PROVE /\ wStatus.replicas["Head"] = ReplicaStatus(wPods["Head"])
        /\ wStatus.replicas["Head"].failed > 0 <=> wPods["Head"].phase = "Failed"
        /\ wPods["Head"].phase = "Failed" =>
             wStatus.replicas["Head"].active = 0 /\ HasCondition(wStatus.conds, "Restarting")
<1>1. "Head" \in Types /\ ~Unhandled("Head")
  BY Zenon DEF Types, Unhandled, NormalStages
<1>2. /\ wStatus.replicas["Head"] = ReplicaStatus(wPods["Head"])
      /\ wPods["Head"].phase = "Failed" => HasCondition(wStatus.conds, "Restarting")
  BY Zenon, <1>1 DEF HeadCounted
<1>3. wPods["Head"].del => wPods["Head"].phase = "Failed"
  BY Zenon, <1>1 DEF InOrder, PodOrder, OnlyFailedDeleted, PodCopies
<1>4. ReplicaStatus(wPods["Head"]).failed = IF wPods["Head"].phase = "Failed" THEN 1 ELSE 0
  BY Zenon, <1>3 DEF ReplicaStatus
<1>5. wPods["Head"].phase = "Failed" => ReplicaStatus(wPods["Head"]).active = 0
  BY Zenon DEF ReplicaStatus
<1> QED BY <1>2, <1>4, <1>5

LEMMA SchemaOnHead ==
  ASSUME Schema = "pbspro", TypeOK, InOrder, HeadCounted, NoneFailed, mode = "normal",
         pc = "update", NEW r \in Types
  PROVE LET new == SchemaUpdate(Started, r) IN
        /\ ~IsFailed(new.conds) /\ new.replicas = wStatus.replicas
        /\ wPods["Head"].phase = "Failed" => HasCondition(new.conds, "Restarting")
<1>1. wStatus \in StatusValues /\ wStatus \in StatusCopies /\ now \in Times
  BY Zenon DEF TypeOK, PassType, CountType, StatusCopies
<1>2. /\ Started \in StatusValues /\ Started.conds = wStatus.conds
      /\ Started.replicas = wStatus.replicas
  BY Zenon, <1>1 DEF Started, StatusValues
<1>3. ~IsFailed(Started.conds)
  BY Zenon, <1>1, <1>2 DEF NoneFailed
<1>4. Started.replicas["Head"].failed > 0 =>
        Started.replicas["Head"].active = 0 /\ HasCondition(Started.conds, "Restarting")
  BY Zenon, <1>2, CountedHead
<1>5. wPods["Head"].phase = "Failed" => Started.replicas["Head"].failed > 0
  BY Zenon, <1>2, CountedHead
<1> QED BY Zenon, <1>2, <1>3, <1>4, <1>5, SchemaRestarting

LEMMA SuspendingFailsNone ==
  ASSUME NEW st \in StatusValues, ~IsFailed(st.conds)
  PROVE ~IsFailed(SuspendedStatus(st).conds)
<1> DEFINE stopped == IF IsRunning(st.conds)
                        THEN UpdateClusterConditions(st.conds, "Running", FALSE, "Suspended")
                        ELSE st.conds
<1>1. /\ st.conds \in SUBSET Conditions
      /\ SuspendedStatus(st).conds =
           IF IsSuspended(stopped) THEN stopped
           ELSE UpdateClusterConditions(stopped, "Suspended", TRUE, "Suspended")
  BY Zenon DEF SuspendedStatus, StatusValues
<1>2. /\ "Running" \in ConditionTypes /\ "Suspended" \in ConditionTypes
      /\ "Suspended" \in Reasons /\ "Running" # "Failed" /\ "Suspended" # "Failed"
      /\ TRUE \in BOOLEAN /\ FALSE \in BOOLEAN
  BY Zenon DEF ConditionTypes, Reasons
<1>3. stopped \in SUBSET Conditions /\ ~IsFailed(stopped)
  BY Zenon, <1>1, <1>2, ConditionsType, FailedConditions
<1> HIDE DEF stopped
<1>4. ~IsFailed(UpdateClusterConditions(stopped, "Suspended", TRUE, "Suspended"))
  BY Zenon, <1>2, <1>3, FailedConditions
<1>5. SuspendedStatus(st).conds
        \in {stopped, UpdateClusterConditions(stopped, "Suspended", TRUE, "Suspended")}
  BY <1>1
<1> QED BY <1>3, <1>4, <1>5

LEMMA NoneFailedStep ==
  ASSUME Schema = "pbspro", TypeOK, CopyInv, NoneFailed, Undisturbed, InOrder, HeadCounted,
         [Next]_vars
  PROVE NoneFailed'
<1> SUFFICES ASSUME NEW s \in StatusCopies' PROVE ~IsFailed(s.conds)
  BY Zenon DEF NoneFailed
<1>0. /\ \A t \in StatusCopies : t \in StatusValues /\ SoundStatus(t) /\ ~IsFailed(t.conds)
      /\ wStatus \in StatusCopies /\ todo \subseteq Types /\ now \in Times
  BY Zenon, StatusCopiesType
  DEF NoneFailed, StatusCopies, CopyInv, CopiesWellFormed, ConditionsWellFormed, TypeOK, PassType,
      CountType
<1>1. Derived(s)
  BY Zenon, StatusCopiesStep
<1>2. CASE s \in StatusCopies
  BY Zenon, <1>0, <1>2
<1>3. CASE s = NewStatus
  BY Zenon, <1>3, SoundNewStatus
<1>4. ASSUME NEW t \in StatusCopies, s \in {onOwnerCreate(t), Resumed(t), SuspendedStatus(t)}
      PROVE ~IsFailed(s.conds)
  <2>1. /\ ~IsFailed(onOwnerCreate(t).conds) /\ ~IsFailed(Resumed(t).conds)
        /\ ~IsFailed(SuspendedStatus(t).conds)
    BY Zenon, <1>0, SoundBranches, SuspendingFailsNone
  <2>2. s = onOwnerCreate(t) \/ s = Resumed(t) \/ s = SuspendedStatus(t)
    BY Zenon, <1>4
  <2> QED BY Zenon, <2>1, <2>2
<1>5. ~(pc = "cleanup" /\ mode \notin {"finished", "suspended"})
  BY Zenon DEF CopyInv, StagesOfModes, TeardownStages, Undisturbed
<1>6. ASSUME pc = "update", NEW r \in todo, s = SchemaUpdate(Started, r)
      PROVE ~IsFailed(s.conds)
  <2>1. mode = "normal"
    BY Zenon, <1>6 DEF CopyInv, StagesOfModes
  <2> QED BY Zenon, <1>0, <1>6, <2>1, SchemaOnHead
<1>7. ASSUME NEW r \in todo, NEW c \in {wStatus.conds, Restarted}, s = Counted(r, c)
      PROVE ~IsFailed(s.conds)
  <2>1. s.conds = c /\ wStatus.conds \in SUBSET Conditions
    BY Zenon, <1>0, <1>7 DEF Counted, StatusValues
  <2> QED BY Zenon, <1>0, <1>7, <2>1, RestartingUpdate DEF Restarted
<1> QED BY Zenon, <1>1, <1>2, <1>3, <1>4, <1>5, <1>6, <1>7 DEF Derived

LEMMA UndisturbedStep ==
  ASSUME TypeOK, ~ExceedsLimit(Resumed(cStatus), cPods), NoneFailed, Undisturbed, [Next]_vars,
         ~ToggleSuspend
  PROVE Undisturbed'
<1> DEFINE Steady == \A k \in DOMAIN clusterFeed : ~clusterFeed[k].suspend
<1>1. CASE UNCHANGED <<active, suspend, cSuspend, clusterFeed>> /\ mode' \in {mode, "none"}
  BY Zenon, <1>1 DEF Undisturbed
<1>2. CASE UNCHANGED vars \/ Environment \/ Resync \/ ObservePod \/ ObserveService
           \/ ObserveConfigMap
  BY ZenonT(30), <1>1, <1>2
  DEF vars, Environment, Tick, PodStarts, PodFails, ContainerRestarts, Evict, PodGone, PodEvent,
      Resync, ObservePod, ObserveService, ObserveConfigMap, Delivered, clusterVars, cacheVars,
      passVars, historyVars
<1>3. CASE ObserveCluster
  <2>1. /\ clusterFeed \in Seq(Versions) /\ clusterFeed # <<>>
        /\ clusterFeed' = Tail(clusterFeed) /\ cSuspend' = Head(clusterFeed).suspend
        /\ UNCHANGED <<active, suspend, mode>>
    BY Zenon, <1>3 DEF ObserveCluster, Delivered, passVars, historyVars, TypeOK, ClusterType
  <2>2. /\ 1 \in DOMAIN clusterFeed /\ cSuspend' = clusterFeed[1].suspend
        /\ \A k \in DOMAIN clusterFeed' :
             k + 1 \in DOMAIN clusterFeed /\ clusterFeed'[k] = clusterFeed[k + 1]
    BY <2>1
  <2> QED BY Zenon, <2>1, <2>2 DEF Undisturbed
<1>4. CASE StartPass
  <2>1. /\ mode' = Branch /\ UNCHANGED <<active, suspend, cSuspend, clusterFeed>>
    BY Zenon, <1>4 DEF StartPass, clusterVars, cacheVars, historyVars
  <2>2. cStatus \in StatusValues /\ ~IsFinished(cStatus.conds)
    BY Zenon DEF TypeOK, CacheType, NoneFailed, StatusCopies, IsFinished
  <2>3. Branch \in {"suspended", "normal"} /\ (Branch = "suspended" => cSuspend)
    BY Zenon, <2>2 DEF Branch
  <2> QED BY Zenon, <2>1, <2>3 DEF Undisturbed
<1>5. CASE Restart
  BY <1>5 DEF Restart, Abort, EndPass, historyVars, Undisturbed
<1>6. CASE PassStep
  <2>1. UNCHANGED <<active, cSuspend>>
    BY Zenon, <1>6
    DEF PassStep, TearDownPod, TearDownService, RemoveConfigMap, CleanupCluster,
        ReconcileConfigMap, FillConfigMap, FillTemplate, ReconcilePod, ReconcileService,
        UpdateClusterStatus, WriteStatus, InPass, historyVars, cacheVars
  <2>2. mode' = mode \/ EndPass
    BY Zenon, <1>6
    DEF PassStep, TearDownPod, TearDownService, RemoveConfigMap, CleanupCluster,
        ReconcileConfigMap, FillConfigMap, FillTemplate, ReconcilePod, ReconcileService,
        UpdateClusterStatus, WriteStatus, Call, Abort, Return, ToStage, AfterCleanup,
        ConfigMapUpdated, AfterPod, NextType
  <2>3. UNCHANGED <<suspend, clusterFeed>> \/ SetCluster(suspend, wStatus)
    BY Zenon, <1>6
    DEF PassStep, TearDownPod, TearDownService, RemoveConfigMap, CleanupCluster,
        ReconcileConfigMap, FillConfigMap, FillTemplate, ReconcilePod, ReconcileService,
        UpdateClusterStatus, WriteStatus, clusterVars
  <2>4. mode' \in {mode, "none"}
    BY Zenon, <2>2 DEF EndPass
  <2>5. CASE SetCluster(suspend, wStatus)
    <3> DEFINE v == [suspend |-> suspend, status |-> wStatus]
    <3>1. /\ clusterFeed \in Seq(Versions) /\ suspend' = suspend
          /\ clusterFeed' = Append(clusterFeed, v)
      BY Zenon, <2>5 DEF SetCluster, TypeOK, ClusterType
    <3>2. v.suspend = suspend
      BY Zenon
    <3> HIDE DEF v
    <3>3. \A k \in DOMAIN clusterFeed' : \/ clusterFeed'[k] = v
                                         \/ /\ k \in DOMAIN clusterFeed
                                            /\ clusterFeed'[k] = clusterFeed[k]
      BY <3>1
    <3> QED BY Zenon, <2>1, <2>4, <3>1, <3>2, <3>3 DEF Undisturbed
  <2> QED BY Zenon, <1>1, <2>1, <2>3, <2>4, <2>5
<1> QED BY Zenon, <1>2, <1>3, <1>4, <1>5, <1>6 DEF Next, Informer

(* Steps outside a pass of the normal branch. *)
LEMMA NotNormal ==
  ASSUME InOrder, UNCHANGED <<pods, podFeed, cPods>>, wPods' \in {wPods, cPods, NoPods},
         mode' # "normal"
  PROVE InOrder' /\ HeadCounted'
<1>1. ASSUME NEW r \in Types PROVE PodOrder(r)' /\ PassOrder(r)'
  BY Zenon, OrderKept DEF InOrder, PassOrder, Unhandled
<1> QED BY Zenon, <1>1 DEF InOrder, HeadCounted

LEMMA Ended ==
  ASSUME InOrder, UNCHANGED <<pods, podFeed, cPods>>, EndPass
  PROVE InOrder' /\ HeadCounted'
<1>1. wPods' = NoPods /\ mode' # "normal"
  BY Zenon DEF EndPass
<1> QED BY Zenon, <1>1, NotNormal

(* Steps of such a pass that leave the pods and the counts alone. *)
LEMMA OrderContinues ==
  ASSUME InOrder, HeadCounted, UNCHANGED <<pods, podFeed, cPods, mode, wPods, wStatus>>,
         \A r \in Types : Unhandled(r)' => Unhandled(r),
         pc' \in NormalStages \cup {"update"} /\ ~Unhandled("Head")' =>
           pc \in NormalStages \cup {"update"} /\ ~Unhandled("Head")
  PROVE InOrder' /\ HeadCounted'
<1>1. ASSUME NEW r \in Types PROVE PodOrder(r)' /\ PassOrder(r)'
  BY Zenon, OrderKept, PassOrderKept DEF InOrder
<1>2. HeadCounted'
  BY Zenon DEF HeadCounted
<1> QED BY Zenon, <1>1, <1>2 DEF InOrder

(* What the kubelet and the API server do to a pod. *)
LEMMA OrderAfterEvent ==
  ASSUME TypeOK, InOrder, HeadCounted, NEW u \in Types,
         PodStarts(u) \/ PodFails(u) \/ ContainerRestarts(u) \/ PodGone(u)
  PROVE InOrder' /\ HeadCounted'
<1>1. PICK q \in PodValues : PodEvent(u, q) /\ Follows(u, q)
  <2>1. pods[u] \in PodValues
    BY Zenon DEF TypeOK, ChildType
  <2>2. CASE PodStarts(u)
    <3>1. /\ PodEvent(u, [pods[u] EXCEPT !.phase = "Running"])
          /\ pods[u].phase = "Pending" /\ ~pods[u].del
      BY Zenon, <2>2 DEF PodStarts
    <3>2. /\ [pods[u] EXCEPT !.phase = "Running"] \in PodValues
          /\ Follows(u, [pods[u] EXCEPT !.phase = "Running"])
      BY <2>1, <3>1 DEF PodValues, Follows, Over, Absent
    <3> QED BY Zenon, <3>1, <3>2
  <2>3. CASE PodFails(u)
    <3>1. /\ PodEvent(u, [pods[u] EXCEPT !.phase = "Failed"])
          /\ pods[u].phase \in {"Pending", "Running"}
      BY Zenon, <2>3 DEF PodFails
    <3>2. /\ [pods[u] EXCEPT !.phase = "Failed"] \in PodValues
          /\ Follows(u, [pods[u] EXCEPT !.phase = "Failed"])
      BY <2>1, <3>1 DEF PodValues, Follows, Over, Absent
    <3> QED BY Zenon, <3>1, <3>2
  <2>4. CASE ContainerRestarts(u)
    <3>1. /\ PodEvent(u, [pods[u] EXCEPT !.restarts = @ + 1])
          /\ pods[u].phase = "Running"
      BY Zenon, <2>4 DEF ContainerRestarts
    <3>2. /\ [pods[u] EXCEPT !.restarts = @ + 1] \in PodValues
          /\ Follows(u, [pods[u] EXCEPT !.restarts = @ + 1])
      BY <2>1, <3>1 DEF PodValues, Follows, Over, Absent
    <3> QED BY Zenon, <3>1, <3>2
  <2>5. CASE PodGone(u)
    <3>1. PodEvent(u, Absent) /\ pods[u].del
      BY Zenon, <2>5 DEF PodGone
    <3>2. Absent \in PodValues /\ Follows(u, Absent)
      BY <3>1 DEF PodValues, Follows, Over, Absent
    <3> QED BY Zenon, <3>1, <3>2
  <2> QED BY Zenon, <2>2, <2>3, <2>4, <2>5
<1>2. /\ SetPod(u, q)
      /\ cPods' = cPods /\ UNCHANGED <<pc, mode, todo, cur, wStatus, wPods>>
  BY Zenon, <1>1 DEF PodEvent, cacheVars, passVars
<1>3. Fits(u, q)
  BY Zenon, <1>1, FollowsFits DEF InOrder
<1>4. ASSUME NEW r \in Types PROVE Unhandled(r)' <=> Unhandled(r)
  BY Zenon, <1>2 DEF Unhandled
<1>5. ASSUME NEW r \in Types PROVE PodOrder(r)'
  <2>1. wPods' \in {wPods, NoPods} /\ PodOrder(r)
    BY Zenon, <1>2 DEF InOrder
  <2> QED BY Zenon, <1>2, <1>3, <2>1, OrderWritten
<1>6. ASSUME NEW r \in Types PROVE PassOrder(r)'
  BY Zenon, <1>1, <1>2, <1>4, PassOrderWritten DEF InOrder
<1>7. HeadCounted'
  BY Zenon, <1>2 DEF HeadCounted, Unhandled
<1> QED BY Zenon, <1>5, <1>6, <1>7 DEF InOrder

(* Deliveries, lists and the start of a pass. *)
LEMMA OrderSeen ==
  ASSUME TypeOK, InOrder, HeadCounted, Informer \/ Restart \/ StartPass
  PROVE InOrder' /\ HeadCounted'
<1>1. CASE ObservePod
  <2>1. ASSUME NEW r \in Types PROVE PodOrder(r)' /\ PassOrder(r)'
    BY Zenon, <1>1, OrderDelivered, PassOrderDelivered DEF InOrder
  <2>2. UNCHANGED <<pc, mode, todo, cur, wStatus, wPods>>
    BY Zenon, <1>1 DEF ObservePod, Delivered, passVars
  <2>3. HeadCounted'
    BY Zenon, <2>2 DEF HeadCounted, Unhandled
  <2> QED BY Zenon, <2>1, <2>3 DEF InOrder
<1>2. CASE ObserveCluster \/ ObserveService \/ ObserveConfigMap
  <2>1. UNCHANGED <<pods, podFeed, cPods, pc, mode, todo, cur, wStatus, wPods>>
    BY Zenon, <1>2 DEF ObserveCluster, ObserveService, ObserveConfigMap, Delivered, passVars
  <2> QED BY Zenon, <2>1, OrderContinues DEF Unhandled
<1>3. CASE Restart
  <2>1. mode' # "normal"
    BY Zenon, <1>3 DEF Restart, Abort, EndPass
  <2> QED BY Zenon, <1>3, <2>1, OrderRelisted DEF InOrder, PassOrder, Unhandled, HeadCounted
<1>4. CASE StartPass
  <2>1. UNCHANGED <<pods, podFeed, cPods>> /\ wPods' \in {wPods, cPods, NoPods}
    BY Zenon, <1>4 DEF StartPass, childVars, cacheVars
  <2>2. mode' = "normal" => todo' = Types /\ pc' = "configMap"
    BY Zenon, <1>4 DEF StartPass
  <2>3. mode' = "normal" => Unhandled("Head")'
    BY Zenon, <2>2 DEF Unhandled, NormalStages, Types
  <2>4. ASSUME NEW r \in Types PROVE PodOrder(r)' /\ PassOrder(r)'
    BY Zenon, <1>4, <2>1, OrderKept, PassOrderStarts DEF InOrder
  <2> QED BY Zenon, <2>3, <2>4 DEF InOrder, HeadCounted
<1> QED BY Zenon, <1>1, <1>2, <1>3, <1>4 DEF Informer

(* The pods of one replica type. *)
LEMMA OrderAfterPod ==
  ASSUME TypeOK, CopyInv, InOrder, HeadCounted, NoneFailed, RestartPolicy = "OnFailure",
         ReconcilePod
  PROVE InOrder' /\ HeadCounted'
<1>1. /\ pc = "pod" /\ cPods' = cPods /\ pods \in [Types -> PodValues]
      /\ wPods \in [Types -> PodValues] /\ wStatus \in StatusValues /\ todo \subseteq Types
  BY Zenon DEF ReconcilePod, InPass, cacheVars, TypeOK, ChildType, PassType
<1>2. mode = "normal"
  BY Zenon, <1>1 DEF CopyInv, StagesOfModes
<1> DEFINE Quiet == UNCHANGED <<pods, podFeed>>
           Written(u) == \E q \in PodValues : SetPod(u, q) /\ Fits(u, q)
           Goes(u) == \E c \in {wStatus.conds, Restarted} :
                        /\ AfterPod(u, c)
                        /\ wPods[u].phase = "Failed" => c = Restarted
<1>3. PICK u \in todo : (Quiet \/ Written(u)) /\ (EndPass \/ Goes(u))
  <2>1. PICK u \in todo :
          \/ /\ wPods[u] = Absent /\ pods[u] = Absent
             /\ Call(SetPod(u, NewPod), AfterPod(u, wStatus.conds))
          \/ wPods[u] = Absent /\ AfterPod(u, wStatus.conds) /\ UNCHANGED childVars
          \/ UNCHANGED childVars /\ Abort
          \/ /\ NeedsRestart(wPods[u])
             /\ Call(DeletePod(u), AfterPod(u, Restarted))
          \/ ~NeedsRestart(wPods[u]) /\ AfterPod(u, wStatus.conds) /\ UNCHANGED childVars
    BY Zenon DEF ReconcilePod, Restarted
  <2>2. u \in Types /\ Unhandled(u) /\ PassOrder(u)
    BY Zenon, <1>1, <1>2, <2>1 DEF Unhandled, NormalStages, InOrder
  <2>3. UNCHANGED childVars => Quiet
    BY Zenon DEF childVars
  <2>4. Abort => EndPass
    BY Zenon DEF Abort
  <2>5. wPods[u].phase # "Failed" /\ AfterPod(u, wStatus.conds) => Goes(u)
    BY Zenon
  <2>6. AfterPod(u, Restarted) => Goes(u)
    BY Zenon
  <2>7. wPods[u] = Absent => wPods[u].phase # "Failed"
    BY DEF Absent
  <2>8. ~NeedsRestart(wPods[u]) => wPods[u].phase # "Failed"
    BY Zenon DEF NeedsRestart
  <2>9. wPods[u] = Absent /\ pods[u] = Absent /\ SetPod(u, NewPod) => Written(u)
    <3>1. NewPod \in PodValues
      BY Zenon DEF NewPod, PodValues
    <3>2. wPods[u] = Absent /\ pods[u] = Absent => Fits(u, NewPod)
      BY Zenon, <2>2 DEF PassOrder, Fits
    <3> QED BY Zenon, <3>1, <3>2
  <2>10. NeedsRestart(wPods[u]) /\ DeletePod(u) => Quiet \/ Written(u)
    <3> SUFFICES ASSUME wPods[u].phase = "Failed", pods[u] # Absent,
                        SetPod(u, [pods[u] EXCEPT !.del = TRUE])
                 PROVE Written(u)
      BY Zenon, <2>3 DEF NeedsRestart, DeletePod
    <3>1. Over(pods[u]) /\ cPods[u].phase = "Failed"
      BY Zenon, <2>2 DEF PassOrder
    <3>2. /\ [pods[u] EXCEPT !.del = TRUE] \in PodValues
          /\ Fits(u, [pods[u] EXCEPT !.del = TRUE])
      BY Zenon, <1>1, <2>2, <3>1 DEF PodValues, Fits, Over, Absent
    <3> QED BY Zenon, <3>2
  <2> HIDE DEF Quiet, Written, Goes
  <2> QED BY Zenon, <2>1, <2>3, <2>4, <2>5, <2>6, <2>7, <2>8, <2>9, <2>10 DEF Call
<1>4. wPods' \in {wPods, NoPods}
  BY Zenon, <1>3 DEF EndPass, AfterPod
<1>5. ASSUME NEW r \in Types, Unhandled(r)' PROVE Unhandled(r) /\ wPods' = wPods /\ r # u
  <2>1. ~EndPass
    BY Zenon, <1>5 DEF EndPass, Unhandled
  <2>2. pc' = "service" /\ cur' = u /\ UNCHANGED <<mode, todo, wPods>>
    BY Zenon, <1>3, <2>1 DEF AfterPod
  <2> QED BY Zenon, <1>1, <1>5, <2>2 DEF Unhandled, NormalStages
<1>6. ASSUME NEW r \in Types PROVE PodOrder(r)' /\ PassOrder(r)'
  <2>1. CASE Quiet
    BY Zenon, <1>1, <1>4, <1>5, <2>1, OrderKept, PassOrderKept DEF InOrder
  <2>2. CASE Written(u)
    <3>1. PICK q \in PodValues : SetPod(u, q) /\ Fits(u, q)
      BY Zenon, <2>2
    <3>2. u \in Types
      BY Zenon, <1>1
    <3>3. PodOrder(r)'
      BY Zenon, <1>1, <1>4, <3>1, <3>2, OrderWritten DEF InOrder
    <3>4. PassOrder(r)'
      BY Zenon, <1>1, <1>5, <3>1, <3>2, PassOrderWritten DEF InOrder
    <3> QED BY Zenon, <3>3, <3>4
  <2> QED BY Zenon, <1>3, <2>1, <2>2
<1>7. HeadCounted'
  <2>1. CASE EndPass
    BY Zenon, <2>1 DEF EndPass, HeadCounted
  <2>2. CASE Goes(u)
    <3>1. PICK c \in {wStatus.conds, Restarted} :
            AfterPod(u, c) /\ (wPods[u].phase = "Failed" => c = Restarted)
      BY Zenon, <2>2
    <3>2. /\ pc' = "service" /\ cur' = u /\ UNCHANGED <<mode, todo, wPods>>
          /\ wStatus' = [wStatus EXCEPT !.replicas[u] = ReplicaStatus(wPods[u]), !.conds = c]
      BY Zenon, <3>1 DEF AfterPod
    <3>3. /\ wStatus'.conds = c
          /\ \A r \in Types : wStatus'.replicas[r] =
               IF r = u THEN ReplicaStatus(wPods[u]) ELSE wStatus.replicas[r]
      BY Zenon, <1>1, <3>2 DEF StatusValues
    <3>4. HasCondition(Restarted, "Restarting")
      <4>1. wStatus.conds \in SUBSET Conditions
        BY Zenon, <1>1 DEF StatusValues
      <4>2. ~IsFailed(wStatus.conds)
        BY Zenon DEF NoneFailed, StatusCopies
      <4> QED BY Zenon, <4>1, <4>2, RestartingUpdate DEF Restarted
    <3>5. "Head" \in Types
      BY Zenon DEF Types
    <3>6. CASE u = "Head"
      BY Zenon, <3>1, <3>2, <3>3, <3>4, <3>5, <3>6 DEF HeadCounted
    <3>7. CASE u # "Head"
      <4>1. Unhandled("Head") => Unhandled("Head")'
        BY Zenon, <1>1, <3>2, <3>7 DEF Unhandled, NormalStages
      <4>2. pc \in NormalStages
        BY Zenon, <1>1 DEF NormalStages
      <4>3. HasCondition(wStatus.conds, "Restarting") => HasCondition(c, "Restarting")
        BY Zenon, <3>1, <3>4
      <4>4. wStatus'.replicas["Head"] = wStatus.replicas["Head"]
        BY Zenon, <3>3, <3>5, <3>7
      <4>5. ~Unhandled("Head")' =>
              /\ wStatus.replicas["Head"] = ReplicaStatus(wPods["Head"])
              /\ wPods["Head"].phase = "Failed" => HasCondition(wStatus.conds, "Restarting")
        BY Zenon, <1>2, <4>1, <4>2 DEF HeadCounted
      <4> QED BY Zenon, <3>2, <3>3, <4>3, <4>4, <4>5 DEF HeadCounted
    <3> QED BY Zenon, <3>6, <3>7
  <2> QED BY Zenon, <1>3, <2>1, <2>2
<1> QED BY Zenon, <1>6, <1>7 DEF InOrder

(* The rest of the pass. *)
LEMMA OrderInPass ==
  ASSUME Schema = "pbspro", TypeOK, CopyInv, SuspendedFromBirth, InOrder, HeadCounted,
         NoneFailed, Undisturbed, PassStep, ~ReconcilePod
  PROVE InOrder' /\ HeadCounted'
<1>0. cPods' = cPods
  BY Zenon
  DEF PassStep, TearDownPod, TearDownService, RemoveConfigMap, CleanupCluster,
      ReconcileConfigMap, FillConfigMap, FillTemplate, ReconcileService, UpdateClusterStatus,
      WriteStatus, InPass, cacheVars
<1>1. CASE TearDownPod \/ TearDownService \/ RemoveConfigMap
  <2>1. pc \in TeardownStages
    BY Zenon, <1>1 DEF TearDownPod, TearDownService, RemoveConfigMap, InPass, TeardownStages
  <2>2. mode = "suspended"
    BY Zenon, <2>1 DEF CopyInv, StagesOfModes, Undisturbed
  <2>3. ~active
    BY Zenon, <2>2 DEF Undisturbed
  <2>4. UNCHANGED <<pods, podFeed>>
    BY Zenon, <1>1, <2>3, NothingToDelete DEF SuspendedFromBirth, childVars
  <2>5. EndPass \/ (mode' = mode /\ wPods' = wPods)
    BY Zenon, <1>1 DEF TearDownPod, TearDownService, RemoveConfigMap, Call, ToStage, Abort
  <2>6. mode' # "normal" /\ wPods' \in {wPods, cPods, NoPods}
    BY Zenon, <2>2, <2>5 DEF EndPass
  <2> QED BY Zenon, <1>0, <2>4, <2>6, NotNormal
<1>2. CASE CleanupCluster
  <2>1. pc = "cleanup" /\ UNCHANGED <<pods, podFeed>>
    BY Zenon, <1>2 DEF CleanupCluster, InPass, childVars
  <2>2. mode # "normal"
    BY Zenon, <2>1 DEF CopyInv, StagesOfModes, TeardownStages
  <2>3. EndPass \/ (mode' = mode /\ wPods' = wPods)
    BY Zenon, <1>2 DEF CleanupCluster, AfterCleanup, Abort, Return
  <2>4. mode' # "normal" /\ wPods' \in {wPods, cPods, NoPods}
    BY Zenon, <2>2, <2>3 DEF EndPass
  <2> QED BY Zenon, <1>0, <2>1, <2>4, NotNormal
<1>3. CASE WriteStatus
  <2>1. EndPass /\ UNCHANGED <<pods, podFeed>>
    BY Zenon, <1>3 DEF WriteStatus, Abort, Return, childVars
  <2> QED BY Zenon, <1>0, <2>1, Ended
<1>4. CASE ReconcileConfigMap \/ FillConfigMap \/ FillTemplate
  <2>1. UNCHANGED <<pods, podFeed>>
    BY Zenon, <1>4
    DEF ReconcileConfigMap, FillConfigMap, FillTemplate, Call, SetConfigMap, childVars
  <2>2. pc \in {"configMap", "fillConfigMap", "fillUnowned"}
    BY Zenon, <1>4 DEF ReconcileConfigMap, FillConfigMap, FillTemplate, InPass
  <2>3. \/ EndPass
        \/ /\ UNCHANGED <<mode, todo, cur, wPods, wStatus>>
           /\ pc' = "fillConfigMap" \/ pc' = "fillUnowned" \/ pc' = "pod"
    BY Zenon, <1>4
    DEF ReconcileConfigMap, FillConfigMap, FillTemplate, Call, ToStage, ConfigMapUpdated, Abort
  <2>4. CASE UNCHANGED <<mode, todo, cur, wPods, wStatus>>
             /\ (pc' = "fillConfigMap" \/ pc' = "fillUnowned" \/ pc' = "pod")
    <3>1. \A r \in Types \cup {"Head"} : Unhandled(r)' <=> Unhandled(r)
      BY Zenon, <2>2, <2>4 DEF Unhandled, NormalStages
    <3>2. pc \in NormalStages
      BY Zenon, <2>2 DEF NormalStages
    <3> QED BY Zenon, <1>0, <2>1, <2>4, <3>1, <3>2, OrderContinues
  <2> QED BY Zenon, <1>0, <2>1, <2>3, <2>4, Ended
<1>5. CASE ReconcileService
  <2>1. UNCHANGED <<pods, podFeed>> /\ pc = "service"
    BY Zenon, <1>5 DEF ReconcileService, Call, SetService, childVars, InPass
  <2>2. EndPass \/ NextType
    BY Zenon, <1>5 DEF ReconcileService, Call, Abort
  <2>3. CASE NextType
    <3>1. UNCHANGED <<mode, wPods, wStatus>>
      BY Zenon, <2>3 DEF NextType
    <3>2. CASE todo = {cur}
      <4>1. pc' = "update" /\ ~Unhandled("Head")
        BY Zenon, <2>1, <2>3, <3>2 DEF NextType, Unhandled
      <4>2. pc \in NormalStages /\ \A r \in Types : ~Unhandled(r)'
        BY Zenon, <2>1, <4>1 DEF Unhandled, NormalStages
      <4> QED BY Zenon, <1>0, <2>1, <3>1, <4>1, <4>2, OrderContinues
    <3>3. CASE todo # {cur}
      <4>1. pc' = "pod" /\ todo' = todo \ {cur} /\ pc \in NormalStages
        BY Zenon, <2>1, <2>3, <3>3 DEF NextType, NormalStages
      <4>2. \A r \in Types \cup {"Head"} : Unhandled(r)' <=> Unhandled(r)
        BY Zenon, <2>1, <3>1, <4>1 DEF Unhandled, NormalStages
      <4> QED BY Zenon, <1>0, <2>1, <3>1, <4>1, <4>2, OrderContinues
    <3> QED BY Zenon, <3>2, <3>3
  <2> QED BY Zenon, <1>0, <2>1, <2>2, <2>3, Ended
<1>6. CASE UpdateClusterStatus
  <2>1. /\ UNCHANGED <<pods, podFeed, mode, wPods>> /\ pc = "update"
        /\ \E r \in todo : wStatus' = SchemaUpdate(Started, r)
        /\ pc' = "update" \/ pc' = "write"
    BY Zenon, <1>6 DEF UpdateClusterStatus, InPass, childVars, Started
  <2>2. mode = "normal" /\ todo \subseteq Types
    BY Zenon, <2>1 DEF CopyInv, StagesOfModes, TypeOK, PassType
  <2>3. PICK r \in Types : wStatus' = SchemaUpdate(Started, r)
    BY Zenon, <2>1, <2>2
  <2>4. /\ wStatus'.replicas = wStatus.replicas
        /\ wPods["Head"].phase = "Failed" => HasCondition(wStatus'.conds, "Restarting")
    BY Zenon, <2>1, <2>2, <2>3, SchemaOnHead
  <2>5. wStatus.replicas["Head"] = ReplicaStatus(wPods["Head"])
    BY Zenon, <2>1, <2>2, CountedHead
  <2>6. HeadCounted'
    BY Zenon, <2>1, <2>4, <2>5 DEF HeadCounted
  <2>7. \A t \in Types : ~Unhandled(t)'
    BY Zenon, <2>1 DEF Unhandled, NormalStages
  <2>8. wPods' \in {wPods, cPods, NoPods}
    BY Zenon, <2>1
  <2>9. ASSUME NEW t \in Types PROVE PodOrder(t)' /\ PassOrder(t)'
    BY Zenon, <1>0, <2>1, <2>7, <2>8, OrderKept DEF InOrder, PassOrder
  <2> QED BY Zenon, <2>6, <2>9 DEF InOrder
<1> QED BY Zenon, <1>1, <1>2, <1>3, <1>4, <1>5, <1>6 DEF PassStep

LEMMA BackoffInit ==
  ASSUME Init
  PROVE FailuresCounted /\ BackoffInv
<1>1. /\ pods = NoPods /\ podFeed = <<>> /\ cPods = NoPods /\ wPods = NoPods
      /\ mode = "none"
  BY Zenon DEF Init
<1>2. \A r \in Types : PodCopies(r) = {Absent} /\ Coming(r) = {}
  BY <1>1 DEF PodCopies, NoPods, Coming
<1>3. Absent.phase = "None" /\ Absent.del = FALSE
  BY Zenon DEF Absent
<1>4. FailuresCounted
  BY Zenon, <1>2, <1>3 DEF FailuresCounted
<1>5. InOrder /\ HeadCounted
  <2>1. \A r \in Types : pods[r] = Absent /\ cPods[r] = Absent
    BY Zenon, <1>1 DEF NoPods
  <2>2. \A r \in Types : PodOrder(r)
    BY Zenon, <1>2, <1>3, <2>1
    DEF PodOrder, OnlyFailedDeleted, DeletionSeen, FailureLasts, GoneIsLast
  <2> QED BY Zenon, <1>1, <2>2 DEF InOrder, HeadCounted, PassOrder, Unhandled
<1>6. NoneFailed
  <2>1. ~IsFailed(NewStatus.conds) /\ SoundStatus(NewStatus)
    BY Zenon, SoundNewStatus
  <2>2. ~IsFailed(onOwnerCreate(NewStatus).conds)
    <3>1. NewStatus \in StatusValues /\ now \in Times
      BY Zenon, TypeInit DEF Init, TypeOK, ClusterType, CountType
    <3> QED BY Zenon, <2>1, <3>1, SoundBranches
  <2>3. StatusCopies \subseteq {NewStatus, onOwnerCreate(NewStatus)}
    <3>1. /\ status = NewStatus /\ wStatus = NewStatus /\ cStatus = onOwnerCreate(NewStatus)
          /\ clusterFeed = <<>>
      BY Zenon DEF Init
    <3> QED BY <3>1 DEF StatusCopies
  <2> QED BY Zenon, <2>1, <2>2, <2>3 DEF NoneFailed
<1>7. Undisturbed
  <2>1. /\ active = ~suspend /\ suspend \in BOOLEAN /\ cSuspend = suspend /\ clusterFeed = <<>>
    BY Zenon DEF Init
  <2>2. active => ~suspend /\ ~cSuspend
    BY Zenon, <2>1
  <2>3. mode \notin {"finished", "limit"} /\ mode # "suspended" /\ DOMAIN clusterFeed = {}
    BY <1>1, <2>1
  <2> QED BY Zenon, <2>2, <2>3 DEF Undisturbed
<1> QED BY Zenon, <1>4, <1>5, <1>6, <1>7 DEF BackoffInv

LEMMA BackoffStep ==
  ASSUME Schema = "pbspro", TypeOK, LifecycleInv, BackoffInv,
         Calm => ~ExceedsLimit(Resumed(cStatus), cPods), [Next]_vars
  PROVE BackoffInv'
<1> SUFFICES ASSUME Calm' PROVE NoneFailed' /\ Undisturbed' /\ InOrder' /\ HeadCounted'
  BY Zenon DEF BackoffInv
<1>1. Calm /\ ~ToggleSuspend /\ \A r \in Types : ~Evict(r)
  BY Zenon, CalmBefore
<1>2. /\ NoneFailed /\ Undisturbed /\ InOrder /\ HeadCounted /\ CopyInv /\ SuspendedFromBirth
      /\ RestartPolicy = "OnFailure"
  BY Zenon, <1>1 DEF BackoffInv, LifecycleInv, Calm
<1>3. NoneFailed'
  BY Zenon, <1>2, NoneFailedStep
<1>4. Undisturbed'
  BY Zenon, <1>1, <1>2, UndisturbedStep
<1>5. InOrder' /\ HeadCounted'
  <2>1. CASE UNCHANGED vars \/ Tick \/ Resync
    <3>1. UNCHANGED <<pods, podFeed, cPods, pc, mode, todo, cur, wStatus, wPods>>
      BY Zenon, <2>1 DEF vars, Tick, Resync, childVars, cacheVars, passVars
    <3> QED BY Zenon, <1>2, <3>1, OrderContinues DEF Unhandled
  <2>2. CASE \E u \in Types : PodStarts(u) \/ PodFails(u) \/ ContainerRestarts(u) \/ PodGone(u)
    BY Zenon, <1>2, <2>2, OrderAfterEvent
  <2>3. CASE Informer \/ Restart \/ StartPass
    BY Zenon, <1>2, <2>3, OrderSeen
  <2>4. CASE ReconcilePod
    BY Zenon, <1>2, <2>4, OrderAfterPod
  <2>5. CASE PassStep /\ ~ReconcilePod
    BY Zenon, <1>2, <2>5, OrderInPass
  <2> QED BY Zenon, <1>1, <2>1, <2>2, <2>3, <2>4, <2>5 DEF Next, Environment
<1> QED BY Zenon, <1>3, <1>4, <1>5
=============================================================================
