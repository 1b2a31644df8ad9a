------------------------ MODULE ReplicaControlProofs ------------------------
(***************************************************************************)
(* Theorems about ReplicaControl, for every replica bound, restart policy  *)
(* and fault budget.                                                       *)
(***************************************************************************)
EXTENDS ReplicaControl, TLAPS

(* The first index is an index: a pass always has a slice to start at. *)
LEMMA ZeroIndex == 0 \in Indices
  BY ConstantsAssumption DEF Indices

(* What the informer takes from a feed, and what it leaves there. *)
LEMMA FeedType ==
  ASSUME NEW S, NEW s \in Seq(S)
  PROVE  /\ \A e \in S : Append(s, e) \in Seq(S)
         /\ s # <<>> => Head(s) \in S /\ Tail(s) \in Seq(S)
  OBVIOUS

(* The two ways a pass ends or goes on keep its own variables well typed. *)
LEMMA AdvanceType ==
  ASSUME TypeOK,
         NEW slices, slices \subseteq Indices,
         NEW next \in {"services", "status"},
         Advance(slices, next)
  PROVE  /\ pos' \in Indices /\ pc' \in {"idle", "pods", "services", "status"}
         /\ UNCHANGED <<wReplicas, wPods, wSvcs, queued>>
  BY Zenon, ZeroIndex DEF Advance, TypeOK

(* A pod that fails, or is deleted gracefully, is still a pod. *)
LEMMA PodUpdateType ==
  ASSUME NEW p \in PodValues, p # Absent
  PROVE  /\ [p EXCEPT !.del = TRUE] \in PodValues
         /\ \A phase \in FailedPhases : [p EXCEPT !.phase = phase] \in PodValues
  BY Zenon DEF PodValues

(* Writing a pod keeps the pods and the feed well typed. *)
LEMMA SetPodType ==
  ASSUME TypeOK, NEW i \in Indices, NEW pod \in PodValues, SetPod(i, pod)
  PROVE  pods' \in [Indices -> PodValues] /\ podFeed' \in Seq(PodEvents)
  BY DEF SetPod, TypeOK, PodEvents

(* The same for a write to a service. *)
LEMMA SetServiceType ==
  ASSUME TypeOK, NEW i \in Indices, NEW e \in BOOLEAN, SetService(i, e)
  PROVE  svcs' \subseteq Indices /\ svcFeed' \in Seq(SvcEvents)
  BY DEF SetService, TypeOK, SvcEvents

(* ReplicaControl is type correct: Init establishes the type invariant and *)
(* every action of the informer, the pass and the environment keeps it.    *)
THEOREM TypeCorrect == Spec => []TypeOK
<1>1. Init => TypeOK
  BY ZeroIndex DEF Init, TypeOK, NoPods, PodValues
<1>2. TypeOK /\ [Next]_vars => TypeOK'
  <2> SUFFICES ASSUME TypeOK, [Next]_vars PROVE TypeOK'
    BY Zenon
  <2>1. CASE Environment
    <3>1. ASSUME NEW n \in Desired, Scale(n) PROVE TypeOK'
      <4>1. n \in 0..MaxReplicas /\ clusterFeed' \in Seq(0..MaxReplicas)
        BY Zenon, ConstantsAssumption, <3>1, FeedType DEF Scale, TypeOK
      <4> QED
        BY ConstantsAssumption, <3>1, <4>1
        DEF Scale, TypeOK, KeepPods, KeepServices, cacheVars, passVars
    <3>2. ASSUME NEW i \in Indices, NEW phase \in FailedPhases, ContainerFails(i, phase)
          PROVE  TypeOK'
      <4>1. [pods[i] EXCEPT !.phase = phase] \in PodValues
        <5>1. pods[i] # Absent
          BY <3>2 DEF ContainerFails, Absent
        <5> QED
          BY Zenon, <5>1, PodUpdateType DEF TypeOK
      <4>2. pods' \in [Indices -> PodValues] /\ podFeed' \in Seq(PodEvents)
        BY Zenon, <3>2, <4>1, SetPodType DEF ContainerFails
      <4>3. failures < MaxFailures /\ failures' = failures + 1
        BY Zenon, <3>2 DEF ContainerFails
      <4>4. failures' \in 0..MaxFailures
        BY ConstantsAssumption, <4>3 DEF TypeOK
      <4> QED
        BY Zenon, <3>2, <4>2, <4>4 DEF ContainerFails, TypeOK, KeepServices, cacheVars, passVars
    <3>3. ASSUME NEW i \in Indices, Evict(i) PROVE TypeOK'
      <4>1. [pods[i] EXCEPT !.del = TRUE] \in PodValues
        BY Zenon, <3>3, PodUpdateType DEF Evict, TypeOK
      <4>2. pods' \in [Indices -> PodValues] /\ podFeed' \in Seq(PodEvents)
        BY Zenon, <3>3, <4>1, SetPodType DEF Evict
      <4>3. evictions < MaxEvictions /\ evictions' = evictions + 1
        BY Zenon, <3>3 DEF Evict
      <4>4. evictions' \in 0..MaxEvictions
        BY ConstantsAssumption, <4>3 DEF TypeOK
      <4> QED
        BY Zenon, <3>3, <4>2, <4>4 DEF Evict, TypeOK, KeepServices, cacheVars, passVars
    <3>4. ASSUME NEW i \in Indices, PodGone(i) PROVE TypeOK'
      <4>1. pods' \in [Indices -> PodValues] /\ podFeed' \in Seq(PodEvents)
        BY Zenon, <3>4, SetPodType DEF PodGone, PodValues
      <4> QED
        BY Zenon, <3>4, <4>1 DEF PodGone, TypeOK, KeepServices, cacheVars, passVars, countVars
    <3> QED
      BY Zenon, <2>1, <3>1, <3>2, <3>3, <3>4 DEF Environment
  <2>2. CASE Informer \/ Resync
    <3>1. CASE ObserveCluster
      <4>1. cReplicas' \in 0..MaxReplicas /\ clusterFeed' \in Seq(0..MaxReplicas)
        BY Zenon, <3>1, FeedType DEF ObserveCluster, TypeOK
      <4> QED
        BY Zenon, <3>1, <4>1 DEF ObserveCluster, TypeOK, apiVars, passVars, countVars
    <3>2. CASE ObservePod
      <4>1. Head(podFeed) \in PodEvents /\ podFeed' \in Seq(PodEvents)
        BY Zenon, <3>2, FeedType DEF ObservePod, TypeOK
      <4>2. cPods' \in [Indices -> PodValues]
        BY Zenon, <3>2, <4>1 DEF ObservePod, TypeOK, PodEvents
      <4> QED
        BY Zenon, <3>2, <4>1, <4>2 DEF ObservePod, TypeOK, apiVars, passVars, countVars
    <3>3. CASE ObserveService
      <4>1. Head(svcFeed) \in SvcEvents /\ svcFeed' \in Seq(SvcEvents)
        BY Zenon, <3>3, FeedType DEF ObserveService, TypeOK
      <4>2. cSvcs' \subseteq Indices
        BY Zenon, <3>3, <4>1 DEF ObserveService, TypeOK, SvcEvents
      <4> QED
        BY Zenon, <3>3, <4>1, <4>2 DEF ObserveService, TypeOK, apiVars, passVars, countVars
    <3>4. CASE Resync
      BY Zenon, <3>4 DEF Resync, TypeOK, apiVars, feedVars, cacheVars, passVars, countVars
    <3> QED
      BY Zenon, <2>2, <3>1, <3>2, <3>3, <3>4 DEF Informer
  <2>3. CASE StartPass
    BY Zenon, <2>3, ZeroIndex DEF StartPass, TypeOK, apiVars, feedVars, cacheVars, countVars
  <2>4. CASE PassStep
    <3> DEFINE A == pc' \in {"idle", "pods", "services", "status"} /\ pos' \in Indices
                    /\ wReplicas' \in 0..MaxReplicas /\ wSvcs' \subseteq Indices
                    /\ wPods' \in [Indices -> PodValues] /\ queued' \in BOOLEAN
               F == errors' \in 0..MaxErrors /\ timeouts' \in 0..MaxTimeouts
                    /\ UNCHANGED <<scales, failures, evictions, crashes>>
               P == pods' \in [Indices -> PodValues] /\ podFeed' \in Seq(PodEvents)
               S == svcs' \subseteq Indices /\ svcFeed' \in Seq(SvcEvents)
               R == UNCHANGED <<replicas, clusterFeed, cacheVars, peak>>
    <3>1. EndPass => pc' \in {"idle"} /\ pos' \in Indices /\ wReplicas' \in 0..MaxReplicas
                     /\ wSvcs' \subseteq Indices /\ wPods' \in [Indices -> PodValues]
      BY ConstantsAssumption, ZeroIndex DEF EndPass, NoPods, PodValues
    <3>2. Abort => A
      BY Zenon, <3>1 DEF Abort
    <3>3. (AdvancePod => A) /\ (AdvanceService => A)
      BY Zenon, AdvanceType DEF AdvancePod, AdvanceService, SliceIndices, TypeOK
    <3>4. (NoFault => F) /\ (CallFails => F) /\ (CallTimesOut => F)
      BY ConstantsAssumption, SMTT(30) DEF NoFault, CallFails, CallTimesOut, TypeOK, countVars
    <3>5. (KeepPods => P) /\ (KeepServices => S)
      BY Zenon DEF KeepPods, KeepServices, TypeOK
    <3>6. A /\ F /\ P /\ S /\ R => TypeOK'
      BY Zenon DEF TypeOK, cacheVars
    <3>7. CASE CreateNewPod
      <4>1. SetPod(pos, NewPod) => P
        BY Zenon, SetPodType DEF TypeOK, NewPod, PodValues
      <4> QED
        BY Zenon, <3>2, <3>3, <3>4, <3>5, <3>6, <3>7, <4>1 DEF CreateNewPod, AtPod
    <3>8. CASE DeletePod
      <4>1. pods[pos] # Absent => [pods[pos] EXCEPT !.del = TRUE] \in PodValues
        BY ZenonT(30) DEF TypeOK, PodValues
      <4>2. pods[pos] # Absent /\ SetPod(pos, [pods[pos] EXCEPT !.del = TRUE]) => P
        BY Zenon, <4>1, SetPodType DEF TypeOK
      <4> QED
        BY Zenon, <3>2, <3>3, <3>4, <3>5, <3>6, <3>8, <4>2 DEF DeletePod, AtPod
    <3>9. CASE KeepPod \/ KeepService
      BY Zenon, <3>3, <3>4, <3>5, <3>6, <3>9 DEF KeepPod, KeepService, AtPod, AtService
    <3>10. CASE CreateNewService \/ DeleteService
      <4>1. \A e \in BOOLEAN : SetService(pos, e) => S
        BY Zenon, SetServiceType DEF TypeOK
      <4> QED
        BY Zenon, <3>2, <3>3, <3>4, <3>5, <3>6, <3>10, <4>1
        DEF CreateNewService, DeleteService, AtService
    <3>11. CASE UpdateStatus
      BY Zenon, <3>1, <3>11 DEF UpdateStatus, TypeOK, apiVars, feedVars, cacheVars, countVars
    <3> QED
      BY Zenon, <2>4, <3>7, <3>8, <3>9, <3>10, <3>11 DEF PassStep
  <2>5. CASE Restart
    BY ConstantsAssumption, <2>5, ZeroIndex
    DEF Restart, Abort, EndPass, TypeOK, apiVars, NoPods, PodValues
  <2>6. CASE UNCHANGED vars
    BY Zenon, <2>6 DEF vars, apiVars, feedVars, cacheVars, passVars, countVars, TypeOK
  <2> QED
    BY Zenon, <2>1, <2>2, <2>3, <2>4, <2>5, <2>6 DEF Next
<1> QED
  BY <1>1, <1>2, PTL DEF Spec

-----------------------------------------------------------------------------
(* Every index a pass goes through is covered by the peak, because its     *)
(* copies show nothing beyond it.                                          *)
LEMMA SlicesCovered ==
  ASSUME TypeOK, FootprintInv
  PROVE  /\ \A i \in SliceIndices(Present(wPods), wReplicas) : Covered(i)
         /\ \A i \in SliceIndices(wSvcs, wReplicas) : Covered(i)
<1>1. \A j \in Present(wPods) \cup wSvcs : j \in Indices /\ Covered(j)
  BY Zenon DEF Present, FootprintInv, PodViewsBounded, SvcViewsBounded, TypeOK
<1>2. \A i \in Indices : (i = 0 \/ i < wReplicas \/ \E j \in Present(wPods) \cup wSvcs : i <= j)
                         => Covered(i)
  <2> SUFFICES ASSUME NEW i \in Indices,
                      i = 0 \/ i < wReplicas \/ \E j \in Present(wPods) \cup wSvcs : i <= j
               PROVE  Covered(i)
    BY Zenon
  <2>1. CASE i = 0 \/ i < wReplicas
    BY <2>1 DEF Covered, FootprintInv, CountsBounded, TypeOK, Indices
  <2>2. CASE \E j \in Present(wPods) \cup wSvcs : i <= j
    <3>1. PICK j \in Present(wPods) \cup wSvcs : i <= j
      BY Zenon, <2>2
    <3>2. j \in Indices /\ (j = 0 \/ j < peak)
      BY Zenon, <1>1 DEF Covered
    <3>3. peak \in Nat
      BY DEF TypeOK
    <3> QED
      BY <3>1, <3>2, <3>3 DEF Covered, Indices
  <2> QED
    BY Zenon, <2>1, <2>2
<1> QED
  BY Zenon, <1>2 DEF SliceIndices

(* A write at a covered index leaves everything covered. *)
LEMMA SetPodBounded ==
  ASSUME TypeOK, PodsBounded, peak' = peak,
         NEW i \in Indices, NEW pod, pod # Absent => Covered(i), SetPod(i, pod)
  PROVE  PodsBounded'
<1>1. \A j \in Indices : pods'[j] # Absent => Covered(j)
  BY Zenon DEF SetPod, TypeOK, PodsBounded
<1>2. \A k \in 1..Len(podFeed') : podFeed'[k].pod # Absent => Covered(podFeed'[k].index)
  BY SMTT(30) DEF SetPod, TypeOK, PodsBounded
<1> QED
  BY Zenon, <1>1, <1>2 DEF PodsBounded, Covered

(* The same for services. *)
LEMMA SetServiceBounded ==
  ASSUME TypeOK, SvcsBounded, peak' = peak,
         NEW i \in Indices, NEW e, e => Covered(i), SetService(i, e)
  PROVE  SvcsBounded'
<1>1. \A j \in svcs' : Covered(j)
  BY Zenon DEF SetService, SvcsBounded
<1>2. \A k \in 1..Len(svcFeed') : svcFeed'[k].exists => Covered(svcFeed'[k].index)
  BY SMTT(30) DEF SetService, TypeOK, SvcsBounded
<1> QED
  BY Zenon, <1>1, <1>2 DEF SvcsBounded, Covered

(* BoundedFootprint holds of every behaviour: no interleaving of stale     *)
(* views, retries, restarts and scaling makes ReconcilePods or             *)
(* ReconcileServices create beyond the largest replica count asked for.    *)
THEOREM FootprintBounded == Spec => []BoundedFootprint
<1>1. Init => FootprintInv
  <2> SUFFICES ASSUME Init PROVE FootprintInv
    OBVIOUS
  <2>1. CountsBounded
    BY ConstantsAssumption DEF Init, CountsBounded
  <2>2. PodsBounded /\ PodViewsBounded
    BY DEF Init, PodsBounded, PodViewsBounded, NoPods
  <2>3. SvcsBounded /\ SvcViewsBounded /\ AtSlice
    BY DEF Init, SvcsBounded, SvcViewsBounded, AtSlice
  <2> QED
    BY Zenon, <2>1, <2>2, <2>3 DEF FootprintInv
<1>2. TypeOK /\ FootprintInv /\ [Next]_vars => FootprintInv'
  <2> SUFFICES ASSUME TypeOK, FootprintInv, [Next]_vars PROVE FootprintInv'
    BY Zenon
  <2>u. ASSUME UNCHANGED <<wReplicas, wPods, wSvcs, pc, pos>> PROVE AtSlice'
    BY Zenon, <2>u DEF FootprintInv, AtSlice, SliceIndices, Present
  <2>1. CASE Environment
    <3>1. ASSUME NEW n \in Desired, Scale(n) PROVE FootprintInv'
      <4>1. n \in Nat /\ peak' \in Nat /\ peak <= peak' /\ n <= peak'
        BY ConstantsAssumption, <3>1 DEF Scale, TypeOK
      <4>2. \A i \in Indices : Covered(i) => Covered(i)'
        BY <4>1 DEF Covered, TypeOK, Indices
      <4>3. CountsBounded'
        <5>1. \A k \in 1..Len(clusterFeed') : clusterFeed'[k] <= peak'
          BY ConstantsAssumption, <3>1, <4>1, SMTT(30)
          DEF Scale, TypeOK, FootprintInv, CountsBounded
        <5> QED
          BY <3>1, <4>1, <5>1, SMTT(30)
          DEF Scale, TypeOK, FootprintInv, CountsBounded, cacheVars, passVars
      <4>4. PodsBounded' /\ PodViewsBounded'
        <5>1. \A k \in 1..Len(podFeed) : podFeed[k].index \in Indices
          <6>1. \A k \in 1..Len(podFeed) : podFeed[k] \in PodEvents
            BY DEF TypeOK
          <6> QED
            BY Zenon, <6>1 DEF PodEvents
        <5>2. UNCHANGED <<pods, podFeed, cPods, wPods>>
          BY Zenon, <3>1 DEF Scale, KeepPods, cacheVars, passVars
        <5> QED
          BY Zenon, <4>2, <5>1, <5>2 DEF FootprintInv, PodsBounded, PodViewsBounded
      <4>5. SvcsBounded' /\ SvcViewsBounded'
        <5>1. \A k \in 1..Len(svcFeed) : svcFeed[k].index \in Indices
          <6>1. \A k \in 1..Len(svcFeed) : svcFeed[k] \in SvcEvents
            BY DEF TypeOK
          <6> QED
            BY Zenon, <6>1 DEF SvcEvents
        <5>2. UNCHANGED <<svcs, svcFeed, cSvcs, wSvcs>>
          BY Zenon, <3>1 DEF Scale, KeepServices, cacheVars, passVars
        <5> QED
          BY Zenon, <4>2, <5>1, <5>2 DEF TypeOK, FootprintInv, SvcsBounded, SvcViewsBounded
      <4> QED
        BY Zenon, <3>1, <4>3, <4>4, <4>5, <2>u DEF Scale, FootprintInv, passVars
    <3>2. ASSUME NEW i \in Indices, NEW pod \in PodValues, SetPod(i, pod),
                 pod # Absent => pods[i] # Absent, KeepServices,
                 UNCHANGED <<replicas, clusterFeed, cacheVars, queued, passVars, peak>>
          PROVE  FootprintInv'
      <4>1. PodsBounded'
        BY Zenon, <3>2, SetPodBounded DEF FootprintInv, PodsBounded
      <4> QED
        BY Zenon, <3>2, <4>1, <2>u DEF FootprintInv, CountsBounded, PodViewsBounded, SvcsBounded,
           SvcViewsBounded, Covered, KeepServices, cacheVars, passVars
    <3>3. ASSUME NEW i \in Indices, NEW phase \in FailedPhases, ContainerFails(i, phase)
          PROVE  FootprintInv'
      <4>1. pods[i] # Absent
        BY <3>3 DEF ContainerFails, Absent
      <4>2. [pods[i] EXCEPT !.phase = phase] \in PodValues
        BY Zenon, <4>1, PodUpdateType DEF TypeOK
      <4> QED
        BY Zenon, <3>2, <3>3, <4>1, <4>2 DEF ContainerFails
    <3>4. ASSUME NEW i \in Indices, Evict(i) PROVE FootprintInv'
      <4>1. pods[i] # Absent
        BY Zenon, <3>4 DEF Evict
      <4>2. [pods[i] EXCEPT !.del = TRUE] \in PodValues
        BY Zenon, <4>1, PodUpdateType DEF TypeOK
      <4> QED
        BY Zenon, <3>2, <3>4, <4>1, <4>2 DEF Evict
    <3>5. ASSUME NEW i \in Indices, PodGone(i) PROVE FootprintInv'
      BY Zenon, <3>2, <3>5 DEF PodGone, PodValues
    <3> QED
      BY Zenon, <2>1, <3>1, <3>3, <3>4, <3>5 DEF Environment
  <2>2. CASE ObserveCluster
    <3>1. Head(clusterFeed) <= peak
          /\ \A k \in 1..Len(clusterFeed') : clusterFeed'[k] <= peak
      BY SMTT(30), <2>2 DEF ObserveCluster, TypeOK, FootprintInv, CountsBounded
    <3>2. CountsBounded'
      BY Zenon, <2>2, <3>1 DEF ObserveCluster, FootprintInv, CountsBounded, apiVars, passVars
    <3> QED
      BY Zenon, <2>2, <3>2, <2>u DEF ObserveCluster, FootprintInv, PodsBounded, PodViewsBounded,
         SvcsBounded, SvcViewsBounded, Covered, apiVars, passVars
  <2>3. CASE ObservePod
    <3> DEFINE e == Head(podFeed)
    <3>1. e \in PodEvents /\ (e.pod # Absent => Covered(e.index))
      <4>1. e \in PodEvents
        BY Zenon, <2>3, FeedType DEF ObservePod, TypeOK
      <4>2. e = podFeed[1] /\ 1 \in 1..Len(podFeed)
        BY <2>3 DEF ObservePod, TypeOK
      <4> QED
        BY Zenon, <4>1, <4>2 DEF FootprintInv, PodsBounded
    <3>2. \A k \in 1..Len(podFeed') : podFeed'[k].pod # Absent => Covered(podFeed'[k].index)
      <4>1. \A k \in 1..Len(podFeed') : k + 1 \in 1..Len(podFeed) /\ podFeed'[k] = podFeed[k + 1]
        BY <2>3 DEF ObservePod, TypeOK
      <4> QED
        BY Zenon, <4>1 DEF FootprintInv, PodsBounded
    <3>3. PodsBounded'
      BY Zenon, <2>3, <3>2 DEF ObservePod, FootprintInv, PodsBounded, Covered, apiVars
    <3>4. PodViewsBounded'
      BY Zenon, <2>3, <3>1 DEF ObservePod, TypeOK, FootprintInv, PodViewsBounded, Covered,
         PodEvents, passVars
    <3> QED
      BY Zenon, <2>3, <3>3, <3>4, <2>u DEF ObservePod, FootprintInv, CountsBounded, SvcsBounded,
         SvcViewsBounded, Covered, apiVars, passVars
  <2>4. CASE ObserveService
    <3> DEFINE e == Head(svcFeed)
    <3>1. e \in SvcEvents /\ (e.exists => Covered(e.index))
      <4>1. e \in SvcEvents
        BY Zenon, <2>4, FeedType DEF ObserveService, TypeOK
      <4>2. e = svcFeed[1] /\ 1 \in 1..Len(svcFeed)
        BY <2>4 DEF ObserveService, TypeOK
      <4> QED
        BY Zenon, <4>1, <4>2 DEF FootprintInv, SvcsBounded
    <3>2. \A k \in 1..Len(svcFeed') : svcFeed'[k].exists => Covered(svcFeed'[k].index)
      BY <2>4 DEF ObserveService, TypeOK, FootprintInv, SvcsBounded
    <3>3. SvcsBounded'
      BY Zenon, <2>4, <3>2 DEF ObserveService, FootprintInv, SvcsBounded, Covered, apiVars
    <3>4. SvcViewsBounded'
      BY Zenon, <2>4, <3>1 DEF ObserveService, FootprintInv, SvcViewsBounded, Covered, passVars
    <3> QED
      BY Zenon, <2>4, <3>3, <3>4, <2>u DEF ObserveService, FootprintInv, CountsBounded, PodsBounded,
         PodViewsBounded, Covered, apiVars, passVars
  <2>5. CASE Resync \/ UNCHANGED vars
    BY Zenon, <2>5, <2>u
    DEF Resync, vars, FootprintInv, CountsBounded, PodsBounded, PodViewsBounded,
       SvcsBounded, SvcViewsBounded, Covered, apiVars, feedVars, cacheVars, passVars
  <2>6. CASE StartPass
    <3>1. AtSlice'
      BY Zenon, <2>6, ZeroIndex DEF StartPass, AtSlice, SliceIndices
    <3> QED
      BY Zenon, <2>6, <3>1 DEF StartPass, FootprintInv, CountsBounded, PodsBounded, PodViewsBounded,
         SvcsBounded, SvcViewsBounded, Covered, apiVars, feedVars, cacheVars
  <2>7. CASE PassStep
    <3> DEFINE V == CountsBounded' /\ PodViewsBounded' /\ SvcViewsBounded' /\ AtSlice'
               R == UNCHANGED <<replicas, clusterFeed, cacheVars, peak>>
    <3>1. EndPass /\ R => V
      BY DEF EndPass, NoPods, FootprintInv, CountsBounded, PodViewsBounded, SvcViewsBounded,
         AtSlice, Covered, cacheVars, TypeOK
    <3>2. Abort /\ R => V
      BY Zenon, <3>1 DEF Abort
    <3>3. ASSUME pc = "pods", AdvancePod, R PROVE V
      <4>1. AtSlice'
        BY Zenon, <3>3, ZeroIndex DEF AdvancePod, Advance, AtSlice, SliceIndices, Present
      <4> QED
        BY Zenon, <3>3, <4>1 DEF AdvancePod, Advance, FootprintInv, CountsBounded, PodViewsBounded,
           SvcViewsBounded, Covered, cacheVars
    <3>4. ASSUME pc = "services", AdvanceService, R PROVE V
      <4>1. AtSlice'
        BY Zenon, <3>4, ZeroIndex DEF AdvanceService, Advance, AtSlice, SliceIndices
      <4> QED
        BY Zenon, <3>4, <4>1 DEF AdvanceService, Advance, FootprintInv, CountsBounded,
           PodViewsBounded, SvcViewsBounded, Covered, cacheVars
    <3>5. KeepPods /\ R => PodsBounded'
      BY Zenon DEF KeepPods, FootprintInv, PodsBounded, Covered
    <3>6. KeepServices /\ R => SvcsBounded'
      BY Zenon DEF KeepServices, FootprintInv, SvcsBounded, Covered
    <3>7. pos \in Indices /\ (pc \in {"pods", "services"} => Covered(pos))
      BY Zenon, SlicesCovered DEF FootprintInv, AtSlice, TypeOK
    <3>8. CASE CreateNewPod
      <4>1. SetPod(pos, NewPod) => PodsBounded'
        BY Zenon, <3>7, <3>8, SetPodBounded DEF CreateNewPod, AtPod, FootprintInv
      <4> QED
        BY Zenon, <3>2, <3>3, <3>5, <3>6, <3>8, <4>1 DEF CreateNewPod, AtPod, FootprintInv
    <3>9. CASE DeletePod
      <4>1. SetPod(pos, [pods[pos] EXCEPT !.del = TRUE]) => PodsBounded'
        BY Zenon, <3>7, <3>9, SetPodBounded DEF DeletePod, AtPod, FootprintInv
      <4> QED
        BY Zenon, <3>2, <3>3, <3>5, <3>6, <3>9, <4>1 DEF DeletePod, AtPod, FootprintInv
    <3>10. CASE KeepPod \/ KeepService
      BY Zenon, <3>3, <3>4, <3>5, <3>6, <3>10
      DEF KeepPod, KeepService, AtPod, AtService, FootprintInv
    <3>11. CASE CreateNewService \/ DeleteService
      <4>1. \A e \in BOOLEAN : SetService(pos, e) => SvcsBounded'
        BY Zenon, <3>7, <3>11, SetServiceBounded
        DEF CreateNewService, DeleteService, AtService, FootprintInv
      <4> QED
        BY Zenon, <3>2, <3>4, <3>5, <3>6, <3>11, <4>1
        DEF CreateNewService, DeleteService, AtService, FootprintInv
    <3>12. CASE UpdateStatus
      <4>1. V
        BY Zenon, <3>1, <3>12 DEF UpdateStatus, apiVars, feedVars
      <4> QED
        BY Zenon, <3>12, <4>1 DEF UpdateStatus, FootprintInv, PodsBounded, SvcsBounded, Covered,
           apiVars, feedVars
    <3> QED
      BY Zenon, <2>7, <3>8, <3>9, <3>10, <3>11, <3>12 DEF PassStep
  <2>8. CASE Restart
    BY <2>8 DEF Restart, Abort, EndPass, NoPods, FootprintInv, CountsBounded, PodsBounded,
       PodViewsBounded, SvcsBounded, SvcViewsBounded, AtSlice, Covered, apiVars, TypeOK
  <2> QED
    BY Zenon, <2>1, <2>2, <2>3, <2>4, <2>5, <2>6, <2>7, <2>8 DEF Next, Informer
<1>3. FootprintInv => BoundedFootprint
  BY Zenon DEF FootprintInv, PodsBounded, SvcsBounded, BoundedFootprint, Covered
<1> QED
  BY <1>1, <1>2, <1>3, TypeCorrect, PTL DEF Spec

-----------------------------------------------------------------------------
(***************************************************************************)
(* What HealthyPodKept rests on, as long as nobody but the controller      *)
(* deletes pods: how far the cache and the copies of a pass may be behind  *)
(* the API server at an index.                                             *)
(***************************************************************************)

EventAt(k, i) == podFeed[k].index = i
NoEventAt(i) == \A k \in 1..Len(podFeed) : ~EventAt(k, i)

(* What the cache and the undelivered events of index i say about the pod: *)
(* a removal is the last event and the cache still shows the pod; whoever  *)
(* has yet to learn of a failure or a deletion shows an older pod.         *)
CacheChain(i) ==
  /\ \A k \in 1..Len(podFeed) : EventAt(k, i) /\ podFeed[k].pod = Absent =>
       /\ cPods[i] # Absent /\ pods[i] = Absent
       /\ \A l \in 1..Len(podFeed) : EventAt(l, i) => l <= k
  /\ \A k \in 1..Len(podFeed) :
       EventAt(k, i) /\ podFeed[k].pod.phase \in FailedPhases => pods[i].phase # "Up"
  /\ cPods[i].phase \in FailedPhases => pods[i].phase # "Up"
  /\ cPods[i] = Absent => ~pods[i].del /\ (pods[i] = Absent => NoEventAt(i))

(* What the copies say about an index the pass has not dealt with yet: an  *)
(* empty slice means a pod that nobody deleted, a failed pod is not yet    *)
(* replaced by a healthy one.                                              *)
PassChain(i) ==
  pc = "pods" /\ pos <= i =>
    /\ wPods[i] = Absent =>
         ~pods[i].del /\ (pods[i] = Absent => cPods[i] = Absent /\ NoEventAt(i))
    /\ wPods[i] # Absent => (cPods[i] = Absent => pods[i] = Absent)
    /\ wPods[i].phase \in FailedPhases => pods[i].phase # "Up"

KeepInv == evictions = 0 => \A i \in Indices : CacheChain(i) /\ PassChain(i)

(* A write appends one event; all others keep their place. *)
LEMMA WriteEvents ==
  ASSUME TypeOK, NEW i \in Indices, NEW pod \in PodValues, SetPod(i, pod)
  PROVE  /\ Len(podFeed) \in Nat /\ Len(podFeed') = Len(podFeed) + 1
         /\ podFeed'[Len(podFeed) + 1] = [index |-> i, pod |-> pod]
         /\ \A k \in 1..Len(podFeed) : podFeed'[k] = podFeed[k]
         /\ pods'[i] = pod /\ \A j \in Indices \ {i} : pods'[j] = pods[j]
  BY SMTT(30) DEF SetPod, TypeOK

(* A write at one index says nothing about the others. *)
LEMMA WriteElsewhere ==
  ASSUME TypeOK, NEW i \in Indices, NEW pod \in PodValues, SetPod(i, pod),
         UNCHANGED cPods, NEW j \in Indices \ {i}
  PROVE  /\ CacheChain(j) => CacheChain(j)'
         /\ NoEventAt(j) => NoEventAt(j)'
         /\ pods'[j] = pods[j]
<1>1. /\ Len(podFeed) \in Nat /\ Len(podFeed') = Len(podFeed) + 1
      /\ podFeed'[Len(podFeed) + 1] = [index |-> i, pod |-> pod]
      /\ \A k \in 1..Len(podFeed) : podFeed'[k] = podFeed[k]
      /\ pods'[j] = pods[j]
  BY Zenon, WriteEvents
<1>2. \A k \in 1..Len(podFeed') :
        EventAt(k, j)' => k \in 1..Len(podFeed) /\ EventAt(k, j) /\ podFeed'[k] = podFeed[k]
  BY <1>1 DEF EventAt
<1>3. NoEventAt(j) => NoEventAt(j)'
  BY Zenon, <1>2 DEF NoEventAt
<1> QED
  BY <1>1, <1>2, <1>3 DEF CacheChain

(* What a write has to respect at its own index: a pod goes only when the  *)
(* cache shows it, is deleted only when the cache shows it, and is healthy *)
(* only when no failure is on its way.                                     *)
LEMMA WriteChain ==
  ASSUME TypeOK, NEW i \in Indices, NEW pod \in PodValues, SetPod(i, pod),
         UNCHANGED cPods, CacheChain(i),
         cPods[i] = Absent => pod # Absent /\ ~pod.del,
         pods[i] = Absent => NoEventAt(i),
         pod.phase = "Up" => \/ pods[i].phase = "Up"
                             \/ cPods[i] = Absent /\ NoEventAt(i)
  PROVE  CacheChain(i)'
<1>1. /\ Len(podFeed) \in Nat /\ Len(podFeed') = Len(podFeed) + 1
      /\ podFeed'[Len(podFeed) + 1] = [index |-> i, pod |-> pod]
      /\ \A k \in 1..Len(podFeed) : podFeed'[k] = podFeed[k]
      /\ pods'[i] = pod
  BY Zenon, WriteEvents
<1>2. \A k \in 1..Len(podFeed') : \/ k = Len(podFeed) + 1 /\ podFeed'[k].pod = pod
                                  \/ k \in 1..Len(podFeed) /\ podFeed'[k] = podFeed[k]
  BY <1>1, SMTT(30)
<1>3. ASSUME NEW k \in 1..Len(podFeed), EventAt(k, i) PROVE podFeed[k].pod # Absent
  BY Zenon, <1>3 DEF CacheChain, NoEventAt
<1>4. \A k \in 1..Len(podFeed') : EventAt(k, i)' /\ podFeed'[k].pod = Absent =>
         k = Len(podFeed) + 1 /\ pod = Absent
  BY Zenon, <1>1, <1>2, <1>3 DEF EventAt
<1>5. \A k \in 1..Len(podFeed') :
        EventAt(k, i)' /\ podFeed'[k].pod.phase \in FailedPhases => pod.phase # "Up"
  BY Zenon, <1>1, <1>2 DEF EventAt, CacheChain, NoEventAt, FailedPhases
<1>6. cPods[i].phase \in FailedPhases => pod.phase # "Up"
  BY DEF CacheChain, FailedPhases, Absent
<1> QED
  BY <1>1, <1>4, <1>5, <1>6 DEF CacheChain

(* The writes of the environment: a container fails or a deleted pod goes. *)
LEMMA EnvironmentChain ==
  ASSUME TypeOK, KeepInv, evictions = 0, NEW i \in Indices, NEW pod \in PodValues,
         SetPod(i, pod), UNCHANGED <<cPods, pc, pos, wPods, evictions>>,
         \/ /\ pods[i].phase = "Up" /\ pod.phase \in FailedPhases /\ pod.del = pods[i].del
         \/ pods[i].del /\ pod = Absent
  PROVE  KeepInv'
<1>1. pods[i] # Absent /\ pod.phase # "Up" /\ pods'[i] = pod /\ pods[i] \in PodValues
  <2>1. pods'[i] = pod /\ pods[i] \in PodValues
    BY Zenon, WriteEvents DEF TypeOK
  <2> QED
    BY <2>1 DEF Absent, FailedPhases
<1>2. CacheChain(i) /\ PassChain(i)
  BY Zenon DEF KeepInv
<1>3. pod # Absent => pod.del = pods[i].del
  BY Zenon DEF Absent, FailedPhases
<1>4. pod = Absent => pods[i].del
  BY DEF Absent, FailedPhases
<1>5. CacheChain(i)'
  BY Zenon, <1>1, <1>2, <1>3, <1>4, WriteChain DEF CacheChain
<1>6. PassChain(i)'
  BY Zenon, <1>1, <1>2, <1>3, <1>4 DEF PassChain
<1>7. \A j \in Indices \ {i} : CacheChain(j)' /\ PassChain(j)'
  BY Zenon, WriteElsewhere DEF KeepInv, PassChain
<1> QED
  BY Zenon, <1>5, <1>6, <1>7 DEF KeepInv

(* The pass moves on: no index it still has to deal with is new to it. *)
LEMMA MovedOn ==
  ASSUME TypeOK, Abort \/ EndPass \/ (pc = "pods" /\ AdvancePod)
                       \/ (pc = "services" /\ AdvanceService)
  PROVE  pc' = "pods" => pc = "pods" /\ pos' = pos + 1 /\ UNCHANGED wPods
  BY Zenon DEF Abort, AdvancePod, AdvanceService, Advance, EndPass

(* The writes of a pass, at the index it is at, before it moves on. *)
LEMMA PassWriteChain ==
  ASSUME TypeOK, KeepInv, evictions = 0, NEW i \in Indices, NEW pod \in PodValues,
         pc = "pods", pos = i, SetPod(i, pod), UNCHANGED <<cPods, evictions>>,
         Abort \/ AdvancePod,
         \/ wPods[i] = Absent /\ pods[i] = Absent /\ pod = NewPod
         \/ /\ wPods[i] # Absent /\ pods[i] # Absent
            /\ pod = [pods[i] EXCEPT !.del = TRUE]
  PROVE  KeepInv'
<1>1. pods[i] \in PodValues
  BY Zenon DEF TypeOK
<1>2. CacheChain(i) /\ PassChain(i) /\ pos <= i
  BY DEF KeepInv, Indices
<1>3. pc' = "pods" => pos' = pos + 1 /\ UNCHANGED wPods
  BY Zenon, MovedOn
<1>4. CacheChain(i)'
  <2>1. CASE wPods[i] = Absent /\ pods[i] = Absent /\ pod = NewPod
    <3>1. cPods[i] = Absent /\ NoEventAt(i)
      BY Zenon, <1>2, <2>1 DEF PassChain
    <3>2. pod # Absent /\ ~pod.del
      BY Zenon, <2>1 DEF NewPod, Absent
    <3> QED
      BY Zenon, <1>2, <3>1, <3>2, WriteChain
  <2>2. CASE wPods[i] # Absent /\ pods[i] # Absent /\ pod = [pods[i] EXCEPT !.del = TRUE]
    <3>1. cPods[i] # Absent
      BY Zenon, <1>2, <2>2 DEF PassChain
    <3>2. pod.phase = pods[i].phase
      BY Zenon, <1>1, <2>2 DEF PodValues, Absent
    <3> QED
      BY Zenon, <1>2, <2>2, <3>1, <3>2, WriteChain
  <2> QED
    BY Zenon, <2>1, <2>2
<1>5. PassChain(i)'
  <2>1. ~(pc' = "pods" /\ pos' <= i)
    BY <1>3 DEF Indices
  <2> QED
    BY Zenon, <2>1 DEF PassChain
<1>6. \A j \in Indices \ {i} : CacheChain(j)' /\ PassChain(j)'
  <2> SUFFICES ASSUME NEW j \in Indices \ {i} PROVE CacheChain(j)' /\ PassChain(j)'
    BY Zenon
  <2>1. CacheChain(j)'
    BY Zenon, <1>1, WriteElsewhere DEF KeepInv
  <2>2. pods'[j] = pods[j] /\ (NoEventAt(j) => NoEventAt(j)')
    BY Zenon, <1>1, WriteElsewhere
  <2>3. pc' = "pods" /\ pos' <= j => pos <= j /\ UNCHANGED wPods
    BY <1>1, <1>3 DEF Indices
  <2> QED
    BY Zenon, <2>1, <2>2, <2>3 DEF KeepInv, PassChain
<1> QED
  BY Zenon, <1>4, <1>5, <1>6 DEF KeepInv

(* A step that leaves pods, events and cache alone. *)
LEMMA QuietChain ==
  ASSUME TypeOK, KeepInv, UNCHANGED <<pods, podFeed, cPods, evictions>>,
         pc' = "pods" =>
           pc = "pods" /\ (pos' = pos \/ pos' = pos + 1) /\ UNCHANGED wPods
  PROVE  KeepInv'
<1> SUFFICES ASSUME evictions = 0, NEW i \in Indices PROVE CacheChain(i)' /\ PassChain(i)'
  BY Zenon DEF KeepInv
<1>1. CacheChain(i) /\ PassChain(i)
  BY Zenon DEF KeepInv
<1>2. pc' = "pods" /\ pos' <= i => pos <= i
  BY DEF TypeOK, Indices
<1>3. CacheChain(i)'
  BY Zenon, <1>1 DEF CacheChain, EventAt, NoEventAt
<1>4. PassChain(i)'
  BY Zenon, <1>1, <1>2 DEF PassChain, EventAt, NoEventAt
<1> QED
  BY Zenon, <1>3, <1>4

(* The informer delivers the oldest event. *)
LEMMA DeliverChain ==
  ASSUME TypeOK, KeepInv, ObservePod
  PROVE  KeepInv'
<1> DEFINE e == podFeed[1]
<1>1. /\ Len(podFeed) \in Nat /\ 1 \in 1..Len(podFeed) /\ Head(podFeed) = e
      /\ Len(podFeed') = Len(podFeed) - 1 /\ e \in PodEvents
      /\ \A k \in 1..Len(podFeed') : podFeed'[k] = podFeed[k + 1]
  BY SMTT(30) DEF ObservePod, TypeOK
<1>2. /\ e.index \in Indices /\ cPods'[e.index] = e.pod
      /\ \A i \in Indices : i # e.index => cPods'[i] = cPods[i]
  BY Zenon, <1>1 DEF ObservePod, TypeOK, PodEvents
<1>3. UNCHANGED <<pods, pc, pos, wPods, evictions>>
  BY Zenon DEF ObservePod, apiVars, passVars, countVars
<1> SUFFICES ASSUME evictions = 0, NEW i \in Indices PROVE CacheChain(i)' /\ PassChain(i)'
  BY Zenon, <1>3 DEF KeepInv
<1>4. CacheChain(i) /\ PassChain(i)
  BY Zenon DEF KeepInv
<1>5. \A k \in 1..Len(podFeed') :
        EventAt(k, i)' => /\ k + 1 \in 1..Len(podFeed) /\ EventAt(k + 1, i) /\ k + 1 > 1
                          /\ podFeed'[k] = podFeed[k + 1]
  BY <1>1 DEF EventAt
<1>6. NoEventAt(i) => NoEventAt(i)'
  BY Zenon, <1>5 DEF NoEventAt
<1>7. EventAt(1, i) /\ e.pod = Absent => cPods[i] # Absent /\ pods[i] = Absent /\ NoEventAt(i)'
  <2> SUFFICES ASSUME EventAt(1, i), e.pod = Absent
               PROVE  cPods[i] # Absent /\ pods[i] = Absent /\ NoEventAt(i)'
    BY Zenon
  <2>1. cPods[i] # Absent /\ pods[i] = Absent
        /\ \A l \in 1..Len(podFeed) : EventAt(l, i) => l <= 1
    BY Zenon, <1>1, <1>4 DEF CacheChain
  <2>2. NoEventAt(i)'
    BY <1>5, <2>1 DEF NoEventAt
  <2> QED
    BY Zenon, <2>1, <2>2
<1>8. EventAt(1, i) => ~NoEventAt(i)
  BY Zenon, <1>1 DEF NoEventAt
<1>9. i = e.index <=> EventAt(1, i)
  BY Zenon DEF EventAt
<1>10. CacheChain(i)'
  <2>1. ASSUME NEW k \in 1..Len(podFeed'), EventAt(k, i)', podFeed'[k].pod = Absent
        PROVE  cPods'[i] # Absent /\ pods'[i] = Absent
               /\ \A l \in 1..Len(podFeed') : EventAt(l, i)' => l <= k
    <3>1. /\ cPods[i] # Absent /\ pods[i] = Absent
          /\ \A l \in 1..Len(podFeed) : EventAt(l, i) => l <= k + 1
      BY Zenon, <1>4, <1>5, <2>1 DEF CacheChain
    <3>2. cPods'[i] # Absent
      BY Zenon, <1>2, <1>7, <1>9, <2>1, <3>1 DEF NoEventAt
    <3>3. \A l \in 1..Len(podFeed') : EventAt(l, i)' => l <= k
      BY <1>1, <1>5, <3>1
    <3> QED
      BY Zenon, <1>3, <3>1, <3>2, <3>3
  <2>2. \A k \in 1..Len(podFeed') :
          EventAt(k, i)' /\ podFeed'[k].pod.phase \in FailedPhases => pods'[i].phase # "Up"
    BY Zenon, <1>3, <1>4, <1>5 DEF CacheChain
  <2>3. cPods'[i].phase \in FailedPhases => pods'[i].phase # "Up"
    BY Zenon, <1>1, <1>2, <1>3, <1>4, <1>9 DEF CacheChain
  <2>4. cPods'[i] = Absent => ~pods'[i].del /\ (pods'[i] = Absent => NoEventAt(i)')
    BY <1>2, <1>3, <1>4, <1>6, <1>7, <1>9 DEF CacheChain, Absent
  <2> QED
    BY Zenon, <2>1, <2>2, <2>3, <2>4 DEF CacheChain
<1>11. PassChain(i)'
  BY Zenon, <1>2, <1>3, <1>4, <1>6, <1>7, <1>8, <1>9 DEF PassChain
<1> QED
  BY Zenon, <1>10, <1>11

(* HealthyPodKept holds of every behaviour: whatever the cache and the     *)
(* copies of a pass have missed, a failed pod they still show has not been *)
(* replaced yet when DeletePod deletes the pod of its name.                *)
THEOREM HealthyPodsAreKept == Spec => HealthyPodKept
<1>1. Init => KeepInv
  BY ConstantsAssumption
  DEF Init, KeepInv, CacheChain, PassChain, NoEventAt, EventAt, NoPods, Absent, FailedPhases
<1>2. TypeOK /\ KeepInv /\ [Next]_vars => KeepInv'
  <2> SUFFICES ASSUME TypeOK, KeepInv, [Next]_vars PROVE KeepInv'
    BY Zenon
  <2>e. evictions \in Nat
    BY DEF TypeOK
  <2>1. CASE Environment
    <3>1. ASSUME NEW n \in Desired, Scale(n) PROVE KeepInv'
      BY Zenon, <3>1, QuietChain DEF Scale, KeepPods, cacheVars, passVars
    <3>2. ASSUME NEW i \in Indices, NEW phase \in FailedPhases, ContainerFails(i, phase)
          PROVE  KeepInv'
      <4> DEFINE pod == [pods[i] EXCEPT !.phase = phase]
      <4>1. pods[i] # Absent /\ pods[i] \in PodValues
        <5>1. pods[i] # Absent
          BY <3>2 DEF ContainerFails, Absent
        <5> QED
          BY Zenon, <5>1 DEF TypeOK
      <4>2. pod \in PodValues /\ pod.phase = phase /\ pod.del = pods[i].del
        BY Zenon, <4>1, PodUpdateType DEF PodValues
      <4>3. CASE evictions = 0
        BY Zenon, <3>2, <4>2, <4>3, EnvironmentChain DEF ContainerFails, cacheVars, passVars
      <4> QED
        BY Zenon, <3>2, <4>3 DEF ContainerFails, KeepInv
    <3>3. ASSUME NEW i \in Indices, Evict(i) PROVE KeepInv'
      BY <2>e, <3>3 DEF Evict, KeepInv
    <3>4. ASSUME NEW i \in Indices, PodGone(i) PROVE KeepInv'
      <4>1. CASE evictions = 0
        BY Zenon, <3>4, <4>1, EnvironmentChain
        DEF PodGone, PodValues, cacheVars, passVars, countVars
      <4> QED
        BY Zenon, <3>4, <4>1 DEF PodGone, KeepInv, countVars
    <3> QED
      BY Zenon, <2>1, <3>1, <3>2, <3>3, <3>4 DEF Environment
  <2>2. CASE ObservePod
    BY Zenon, <2>2, DeliverChain
  <2>3. CASE ObserveCluster \/ ObserveService \/ Resync \/ UNCHANGED vars
    BY Zenon, <2>3, QuietChain DEF ObserveCluster, ObserveService, Resync, vars, apiVars, feedVars,
       cacheVars, passVars, countVars
  <2>4. CASE StartPass
    <3>1. /\ UNCHANGED <<pods, podFeed, cPods, evictions>> /\ wPods' = cPods
      BY Zenon, <2>4 DEF StartPass, apiVars, feedVars, cacheVars, countVars
    <3> QED
      BY Zenon, <3>1 DEF KeepInv, CacheChain, PassChain, EventAt, NoEventAt
  <2>5. CASE PassStep
    <3>1. (NoFault \/ CallFails \/ CallTimesOut) => UNCHANGED evictions
      BY Zenon DEF NoFault, CallFails, CallTimesOut, countVars
    <3>2. AtPod \/ AtService => UNCHANGED cPods
      BY Zenon DEF AtPod, AtService, cacheVars
    <3>3. ASSUME KeepPods, AtPod \/ AtService, NoFault \/ CallFails \/ CallTimesOut,
                 Abort \/ (pc = "pods" /\ AdvancePod) \/ (pc = "services" /\ AdvanceService)
          PROVE  KeepInv'
      BY Zenon, <3>1, <3>2, <3>3, MovedOn, QuietChain DEF KeepPods
    <3>4. ASSUME AtPod, NoFault \/ CallFails \/ CallTimesOut, Abort \/ AdvancePod,
                 NEW pod \in PodValues, SetPod(pos, pod),
                 \/ wPods[pos] = Absent /\ pods[pos] = Absent /\ pod = NewPod
                 \/ /\ wPods[pos] # Absent /\ pods[pos] # Absent
                    /\ pod = [pods[pos] EXCEPT !.del = TRUE]
          PROVE  KeepInv'
      <4>1. pos \in Indices /\ pc = "pods" /\ UNCHANGED <<cPods, evictions>>
        BY Zenon, <3>1, <3>2, <3>4 DEF TypeOK, AtPod
      <4>2. CASE evictions = 0
        BY Zenon, <3>4, <4>1, <4>2, PassWriteChain
      <4> QED
        BY Zenon, <4>1, <4>2 DEF KeepInv
    <3>5. CASE CreateNewPod
      <4>1. NewPod \in PodValues
        BY Zenon DEF NewPod, PodValues
      <4> QED
        BY Zenon, <3>3, <3>4, <3>5, <4>1 DEF CreateNewPod, AtPod
    <3>6. CASE DeletePod
      <4>1. pods[pos] # Absent => [pods[pos] EXCEPT !.del = TRUE] \in PodValues
        BY Zenon, PodUpdateType DEF TypeOK
      <4> QED
        BY Zenon, <3>3, <3>4, <3>6, <4>1 DEF DeletePod, AtPod
    <3>7. CASE KeepPod \/ KeepService
      BY Zenon, <3>3, <3>7 DEF KeepPod, KeepService, AtPod, AtService
    <3>8. CASE CreateNewService \/ DeleteService
      BY Zenon, <3>3, <3>8 DEF CreateNewService, DeleteService, AtService
    <3>9. CASE UpdateStatus
      BY Zenon, <3>9, MovedOn, QuietChain DEF UpdateStatus, apiVars, feedVars, cacheVars, countVars
    <3> QED
      BY Zenon, <2>5, <3>5, <3>6, <3>7, <3>8, <3>9 DEF PassStep
  <2>6. CASE Restart
    <3>1. UNCHANGED <<pods, evictions>> /\ cPods' = pods /\ podFeed' = <<>> /\ pc' = "idle"
      BY Zenon, <2>6 DEF Restart, Abort, EndPass, apiVars
    <3>2. \A i \in Indices : NoEventAt(i)'
      BY <3>1 DEF NoEventAt
    <3>3. \A i \in Indices : PassChain(i)'
      BY Zenon, <3>1 DEF PassChain
    <3>4. \A i \in Indices : CacheChain(i)'
      BY <3>1, <3>2 DEF CacheChain, FailedPhases, Absent, TypeOK
    <3> QED
      BY Zenon, <3>3, <3>4 DEF KeepInv
  <2> QED
    BY Zenon, <2>1, <2>2, <2>3, <2>4, <2>5, <2>6 DEF Next, Informer
<1>3. TypeOK /\ KeepInv /\ [Next]_vars =>
        [\A i \in Indices :
           /\ evictions' = 0 /\ i < replicas
           /\ pods[i] = NewPod /\ pods'[i].del
           => wReplicas <= i]_vars
  <2> SUFFICES ASSUME TypeOK, KeepInv, Next, NEW i \in Indices, evictions' = 0,
                      pods[i] = NewPod, pods'[i].del
               PROVE  wReplicas <= i
    BY Zenon
  <2>1. pods' # pods /\ ~pods[i].del /\ pods[i].phase = "Up"
    BY DEF NewPod
  <2>2. ASSUME NEW j \in Indices, NEW pod \in PodValues, SetPod(j, pod)
        PROVE  j = i /\ pod.del
    <3>1. pods'[j] = pod /\ \A k \in Indices \ {j} : pods'[k] = pods[k]
      BY Zenon, <2>2, WriteEvents
    <3> QED
      BY Zenon, <2>1, <3>1
  <2>3. ~Environment
    <3>1. ASSUME NEW n \in Desired, Scale(n) PROVE FALSE
      BY Zenon, <2>1, <3>1 DEF Scale, KeepPods
    <3>2. ASSUME NEW j \in Indices, NEW phase \in FailedPhases, ContainerFails(j, phase)
          PROVE  FALSE
      <4>1. pods[j] # Absent /\ pods[j] \in PodValues
        <5>1. pods[j] # Absent
          BY <3>2 DEF ContainerFails, Absent
        <5> QED
          BY Zenon, <5>1 DEF TypeOK
      <4>2. [pods[j] EXCEPT !.phase = phase] \in PodValues
            /\ [pods[j] EXCEPT !.phase = phase].del = pods[j].del
        BY Zenon, <4>1, PodUpdateType DEF PodValues
      <4> QED
        BY Zenon, <2>1, <2>2, <3>2, <4>2 DEF ContainerFails
    <3>3. ASSUME NEW j \in Indices, Evict(j) PROVE FALSE
      BY <3>3 DEF Evict, TypeOK
    <3>4. ASSUME NEW j \in Indices, PodGone(j) PROVE FALSE
      BY <2>2, <3>4 DEF PodGone, PodValues, Absent
    <3> QED
      BY Zenon, <3>1, <3>2, <3>3, <3>4 DEF Environment
  <2>4. ~(Informer \/ Resync \/ StartPass \/ Restart \/ UpdateStatus)
    BY Zenon, <2>1
    DEF Informer, ObserveCluster, ObservePod, ObserveService, Resync, StartPass, Restart,
       UpdateStatus, apiVars
  <2>5. ~(KeepPods \/ CreateNewPod)
    <3>1. ~KeepPods
      BY Zenon, <2>1 DEF KeepPods
    <3>2. ~SetPod(pos, NewPod)
      BY Zenon, <2>2 DEF NewPod, PodValues, TypeOK
    <3> QED
      BY Zenon, <3>1, <3>2 DEF CreateNewPod
  <2>6. DeletePod
    BY Zenon, <2>3, <2>4, <2>5
    DEF Next, PassStep, KeepPod, CreateNewService, DeleteService, KeepService
  <2>7. pos = i /\ evictions = 0
    <3>1. pods[pos] # Absent /\ SetPod(pos, [pods[pos] EXCEPT !.del = TRUE])
      BY Zenon, <2>5, <2>6 DEF DeletePod
    <3>2. [pods[pos] EXCEPT !.del = TRUE] \in PodValues /\ pos \in Indices
      BY Zenon, <3>1, PodUpdateType DEF TypeOK
    <3> QED
      BY Zenon, <2>2, <2>6, <3>1, <3>2 DEF DeletePod, NoFault, CallFails, countVars
  <2>8. PassChain(i) /\ pc = "pods" /\ pos <= i
    BY <2>6, <2>7 DEF KeepInv, DeletePod, AtPod, Indices
  <2>9. ~IsRestartable(wPods[i])
    BY Zenon, <2>1, <2>8 DEF PassChain, IsRestartable
  <2> QED
    BY Zenon, <2>6, <2>7, <2>9 DEF DeletePod, ShouldDelete
<1> QED
  BY <1>1, <1>2, <1>3, TypeCorrect, PTL DEF Spec, HealthyPodKept

=============================================================================
