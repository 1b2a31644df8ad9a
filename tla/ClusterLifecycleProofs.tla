----------------------- MODULE ClusterLifecycleProofs -----------------------
(***************************************************************************)
(* What ClusterLifecycle promises, for any number of worker types, any     *)
(* policies and any budgets, from the invariants of                        *)
(* ClusterLifecycleInvariants: the controller implements ClusterPromise,   *)
(* and a PBS Pro cluster that restarts its pods fails only by its backoff  *)
(* limit, which counts no restart that did not happen.                     *)
(***************************************************************************)
EXTENDS ClusterLifecycleInvariants, LifecyclePromise, DataProofs

-----------------------------------------------------------------------------
(* The promise on the status.                                              *)

(* What an update of well-formed conditions shows: the new condition if it *)
(* is true, and of the others those that are not displaced; a failure      *)
(* takes back Running.                                                     *)
ShownTypes == {"Running", "Restarting", "Suspended", "Failed"}
ShownAfter(shown, type, st) ==
  {t \in ShownTypes :
     \/ t = type /\ st
     \/ t \in shown /\ t \notin Displaced(type) /\ ~(type = "Failed" /\ t = "Running")}

LEMMA ShownUpdate ==
  ASSUME NEW conds \in SUBSET Conditions, WellFormed(conds), ~IsFailed(conds),
         NEW type \in ConditionTypes, NEW st \in BOOLEAN, NEW reason \in Reasons,
         type = "Failed" => st
  PROVE Shown(UpdateClusterConditions(conds, type, st, reason))
          = ShownAfter(Shown(conds), type, st)
<1> DEFINE cond == [type |-> type, status |-> st, reason |-> reason]
           kept == filterOutCondition(conds, type)
           new == UpdateClusterConditions(conds, type, st, reason)
<1> SUFFICES ASSUME NEW t \in ShownTypes
             PROVE t \in Shown(new) <=> t \in ShownAfter(Shown(conds), type, st)
  BY Zenon DEF Shown, ShownTypes, ShownAfter
<1> DEFINE After == \/ t = type /\ st
                    \/ /\ t \in Shown(conds) /\ t \notin Displaced(type)
                       /\ ~(type = "Failed" /\ t = "Running")
<1>0. /\ t \in Shown(new) <=> \E c \in new : c.type = t /\ c.status
      /\ t \in Shown(conds) <=> \E c \in conds : c.type = t /\ c.status
  BY Zenon DEF Shown, ShownTypes, isStatusConditionTrue
<1>1. cond.type = type /\ cond.status = st
  BY Zenon
<1>2. CASE cond \in conds
  <2>1. new = conds
    BY Zenon, <1>2 DEF UpdateClusterConditions, setCondition
  <2>2. type # "Failed"
    BY Zenon, <1>1, <1>2 DEF IsFailed, isStatusConditionTrue
  <2>3. \A c \in conds : c.type = type => c.status = st
    BY Zenon, <1>1, <1>2 DEF WellFormed
  <2>4. \A c \in conds : c.type \in Displaced(type) => c.type = type
    BY Zenon, <1>1, <1>2 DEF WellFormed, HasCondition, Displaced
  <2>5. type \in Displaced(type)
    BY Zenon DEF Displaced
  <2>6. t \in Shown(new) <=> After
    <3> HIDE DEF cond, new
    <3> QED BY ZenonT(30), <1>0, <1>1, <1>2, <2>1, <2>2, <2>3, <2>4, <2>5
  <2> QED BY Zenon, <2>6 DEF ShownAfter
<1>3. CASE cond \notin conds
  <2>1. new = kept \cup {cond}
    BY Zenon, <1>3 DEF UpdateClusterConditions, setCondition
  <2>2. (\E c \in kept : c.type = t /\ c.status) <=>
          \E d \in conds : /\ d.type \notin Displaced(type) /\ d.type = t /\ d.status
                           /\ ~(type = "Failed" /\ t = "Running")
    <3>1. \A d \in conds : /\ \/ d.type # "Running" \/ type # "Failed"
                              \/ ~[d EXCEPT !.status = FALSE].status
                           /\ [d EXCEPT !.status = FALSE].type = d.type
      BY Zenon DEF Conditions
    <3> QED BY Zenon, <3>1 DEF filterOutCondition
  <2>3. t \in Shown(new) <=> (\E c \in kept : c.type = t /\ c.status) \/ (t = type /\ st)
    <3> HIDE DEF kept, cond, new
    <3> QED BY Zenon, <1>0, <1>1, <2>1
  <2>4. t \in Shown(new) <=> After
    <3> HIDE DEF kept, cond, new
    <3> QED BY Zenon, <1>0, <2>2, <2>3
  <2> QED BY Zenon, <2>4 DEF ShownAfter
<1> QED BY Zenon, <1>2, <1>3 DEF ShownAfter

(* The updates that the controller makes, one by one. *)
LEMMA ShownUpdates ==
  ASSUME NEW conds \in SUBSET Conditions, WellFormed(conds), ~IsFailed(conds)
  PROVE /\ Shown(UpdateClusterConditions(conds, "Created", TRUE, "Created")) = Shown(conds)
        /\ Shown(UpdateClusterConditions(conds, "Running", TRUE, "Running"))
             = (Shown(conds) \ {"Restarting"}) \cup {"Running"}
        /\ Shown(UpdateClusterConditions(conds, "Restarting", TRUE, "Restarting"))
             = (Shown(conds) \ {"Running"}) \cup {"Restarting"}
        /\ Shown(UpdateClusterConditions(conds, "Failed", TRUE, "Failed"))
             = (Shown(conds) \ {"Running"}) \cup {"Failed"}
        /\ Shown(UpdateClusterConditions(conds, "Suspended", TRUE, "Suspended"))
             = Shown(conds) \cup {"Suspended"}
        /\ Shown(UpdateClusterConditions(conds, "Suspended", FALSE, "Suspended"))
             = Shown(conds) \ {"Suspended"}
        /\ IsRunning(conds) =>
             Shown(UpdateClusterConditions(conds, "Running", FALSE, "Suspended"))
               = Shown(conds) \ {"Running"}
<1> USE DEF ConditionTypes, Reasons
<1>0. TRUE \in BOOLEAN /\ FALSE \in BOOLEAN
  BY Zenon
<1>1. Shown(conds) \subseteq ShownTypes /\ "Failed" \notin Shown(conds)
  BY Zenon DEF Shown, ShownTypes, IsFailed
<1>2. IsRunning(conds) => "Restarting" \notin Shown(conds)
  BY Zenon DEF Shown, IsRunning, isStatusConditionTrue, WellFormed, HasCondition
<1>3. Shown(UpdateClusterConditions(conds, "Created", TRUE, "Created")) = Shown(conds)
  <2>1. Shown(UpdateClusterConditions(conds, "Created", TRUE, "Created"))
          = ShownAfter(Shown(conds), "Created", TRUE)
    BY Zenon, <1>0, ShownUpdate
  <2>2. ShownAfter(Shown(conds), "Created", TRUE) = Shown(conds)
    BY Zenon, <1>1, <1>2 DEF ShownAfter, ShownTypes, Displaced
  <2> QED BY Zenon, <2>1, <2>2
<1>4. Shown(UpdateClusterConditions(conds, "Running", TRUE, "Running"))
        = (Shown(conds) \ {"Restarting"}) \cup {"Running"}
  <2>1. Shown(UpdateClusterConditions(conds, "Running", TRUE, "Running"))
          = ShownAfter(Shown(conds), "Running", TRUE)
    BY Zenon, <1>0, ShownUpdate
  <2>2. ShownAfter(Shown(conds), "Running", TRUE)
        = (Shown(conds) \ {"Restarting"}) \cup {"Running"}
    BY Zenon, <1>1, <1>2 DEF ShownAfter, ShownTypes, Displaced
  <2> QED BY Zenon, <2>1, <2>2
<1>5. Shown(UpdateClusterConditions(conds, "Restarting", TRUE, "Restarting"))
        = (Shown(conds) \ {"Running"}) \cup {"Restarting"}
  <2>1. Shown(UpdateClusterConditions(conds, "Restarting", TRUE, "Restarting"))
          = ShownAfter(Shown(conds), "Restarting", TRUE)
    BY Zenon, <1>0, ShownUpdate
  <2>2. ShownAfter(Shown(conds), "Restarting", TRUE)
        = (Shown(conds) \ {"Running"}) \cup {"Restarting"}
    BY Zenon, <1>1, <1>2 DEF ShownAfter, ShownTypes, Displaced
  <2> QED BY Zenon, <2>1, <2>2
<1>6. Shown(UpdateClusterConditions(conds, "Failed", TRUE, "Failed"))
        = (Shown(conds) \ {"Running"}) \cup {"Failed"}
  <2>1. Shown(UpdateClusterConditions(conds, "Failed", TRUE, "Failed"))
          = ShownAfter(Shown(conds), "Failed", TRUE)
    BY Zenon, <1>0, ShownUpdate
  <2>2. ShownAfter(Shown(conds), "Failed", TRUE) = (Shown(conds) \ {"Running"}) \cup {"Failed"}
    BY Zenon, <1>1, <1>2 DEF ShownAfter, ShownTypes, Displaced
  <2> QED BY Zenon, <2>1, <2>2
<1>7. Shown(UpdateClusterConditions(conds, "Suspended", TRUE, "Suspended"))
        = Shown(conds) \cup {"Suspended"}
  <2>1. Shown(UpdateClusterConditions(conds, "Suspended", TRUE, "Suspended"))
          = ShownAfter(Shown(conds), "Suspended", TRUE)
    BY Zenon, <1>0, ShownUpdate
  <2>2. ShownAfter(Shown(conds), "Suspended", TRUE) = Shown(conds) \cup {"Suspended"}
    BY Zenon, <1>1, <1>2 DEF ShownAfter, ShownTypes, Displaced
  <2> QED BY Zenon, <2>1, <2>2
<1>8. Shown(UpdateClusterConditions(conds, "Suspended", FALSE, "Suspended"))
        = Shown(conds) \ {"Suspended"}
  <2>1. Shown(UpdateClusterConditions(conds, "Suspended", FALSE, "Suspended"))
          = ShownAfter(Shown(conds), "Suspended", FALSE)
    BY Zenon, <1>0, ShownUpdate
  <2>2. ShownAfter(Shown(conds), "Suspended", FALSE) = Shown(conds) \ {"Suspended"}
    BY Zenon, <1>1, <1>2 DEF ShownAfter, ShownTypes, Displaced
  <2> QED BY Zenon, <2>1, <2>2
<1>9. IsRunning(conds) =>
        Shown(UpdateClusterConditions(conds, "Running", FALSE, "Suspended"))
          = Shown(conds) \ {"Running"}
  <2>1. Shown(UpdateClusterConditions(conds, "Running", FALSE, "Suspended"))
          = ShownAfter(Shown(conds), "Running", FALSE)
    BY Zenon, <1>0, ShownUpdate
  <2>2. IsRunning(conds) => ShownAfter(Shown(conds), "Running", FALSE)
                              = Shown(conds) \ {"Running"}
    BY Zenon, <1>1, <1>2 DEF ShownAfter, ShownTypes, Displaced
  <2> QED BY Zenon, <2>1, <2>2
<1> QED BY ZenonT(30), <1>3, <1>4, <1>5, <1>6, <1>7, <1>8, <1>9

(* What the statuses that the branches compute show. *)
LEMMA ShownBranches ==
  ASSUME NEW st \in StatusValues, SoundStatus(st), ~IsFailed(st.conds)
  PROVE /\ Shown(onOwnerCreate(st).conds) = Shown(st.conds)
        /\ Shown(Resumed(st).conds) = Shown(st.conds) \ {"Suspended"}
        /\ Shown(SuspendedStatus(st).conds)
             = (Shown(st.conds) \ {"Running"}) \cup {"Suspended"}
        /\ Shown(FailedStatus(st).conds) = (Shown(st.conds) \ {"Running"}) \cup {"Failed"}
<1>0. st.conds \in SUBSET Conditions /\ WellFormed(st.conds)
  BY Zenon DEF StatusValues, SoundStatus
<1>1. Shown(onOwnerCreate(st).conds) = Shown(st.conds)
  <2>1. onOwnerCreate(st).conds = UpdateClusterConditions(st.conds, "Created", TRUE, "Created")
    BY Zenon DEF onOwnerCreate, StatusValues
  <2> QED BY Zenon, <1>0, <2>1, ShownUpdates
<1>2. Shown(Resumed(st).conds) = Shown(st.conds) \ {"Suspended"}
  <2>1. CASE IsSuspended(st.conds)
    <3>1. Resumed(st).conds
            = UpdateClusterConditions(st.conds, "Suspended", FALSE, "Suspended")
      BY Zenon, <2>1 DEF Resumed, StatusValues
    <3> QED BY Zenon, <1>0, <3>1, ShownUpdates
  <2>2. CASE ~IsSuspended(st.conds)
    BY Zenon, <2>2 DEF Resumed, Shown, IsSuspended
  <2> QED BY Zenon, <2>1, <2>2
<1>3. Shown(SuspendedStatus(st).conds) = (Shown(st.conds) \ {"Running"}) \cup {"Suspended"}
  <2> DEFINE stopped == IF IsRunning(st.conds)
                          THEN UpdateClusterConditions(st.conds, "Running", FALSE, "Suspended")
                          ELSE st.conds
  <2>1. SuspendedStatus(st).conds = IF IsSuspended(stopped) THEN stopped
          ELSE UpdateClusterConditions(stopped, "Suspended", TRUE, "Suspended")
    BY Zenon DEF SuspendedStatus, StatusValues
  <2>2. stopped \in SUBSET Conditions /\ WellFormed(stopped)
    BY Zenon, <1>0, UpdateOnce DEF ConditionTypes, Reasons
  <2>3. ~IsFailed(stopped)
    BY Zenon, <1>0, FailedConditions DEF ConditionTypes, Reasons
  <2>4. Shown(stopped) = Shown(st.conds) \ {"Running"}
    <3>1. CASE IsRunning(st.conds)
      BY Zenon, <1>0, <3>1, ShownUpdates
    <3>2. CASE ~IsRunning(st.conds)
      BY Zenon, <3>2 DEF Shown, IsRunning
    <3> QED BY Zenon, <3>1, <3>2
  <2> HIDE DEF stopped
  <2>5. CASE IsSuspended(stopped)
    <3>1. "Suspended" \in Shown(stopped)
      BY Zenon, <2>5 DEF Shown, IsSuspended
    <3> QED BY Zenon, <2>1, <2>4, <2>5, <3>1
  <2>6. CASE ~IsSuspended(stopped)
    BY ZenonT(30), <2>1, <2>2, <2>3, <2>4, <2>6, ShownUpdates
  <2> QED BY Zenon, <2>5, <2>6
<1>4. Shown(FailedStatus(st).conds) = (Shown(st.conds) \ {"Running"}) \cup {"Failed"}
  <2>1. FailedStatus(st).conds = UpdateClusterConditions(st.conds, "Failed", TRUE, "Failed")
    BY Zenon DEF FailedStatus, StatusValues
  <2>2. Shown(UpdateClusterConditions(st.conds, "Failed", TRUE, "Failed"))
          = (Shown(st.conds) \ {"Running"}) \cup {"Failed"}
    BY Zenon, <1>0, ShownUpdates
  <2> QED BY Zenon, <2>1, <2>2
<1> QED BY Zenon, <1>1, <1>2, <1>3, <1>4

(* What Running, Restarting and Failed do to what is shown. *)
Ran(shown) == (shown \ {"Restarting"}) \cup {"Running"}
Restarts(shown) == (shown \ {"Running"}) \cup {"Restarting"}
Fails(shown) == (shown \ {"Running"}) \cup {"Failed"}

(* Any number of them, before a failure, is one outcome of the promise. *)
LEMMA OutcomesClosed ==
  ASSUME NEW new \in Promise!Outcomes
  PROVE Ran(new) \in Promise!Outcomes /\ Restarts(new) \in Promise!Outcomes
<1> DEFINE base == Shown(status.conds) \ {"Suspended"}
<1>1. Promise!Outcomes = {base, Ran(base), Restarts(base)}
  BY Zenon DEF Promise!Outcomes, Ran, Restarts
<1> HIDE DEF base
<1>2. /\ Ran(Ran(base)) = Ran(base) /\ Restarts(Restarts(base)) = Restarts(base)
      /\ Ran(Restarts(base)) = Ran(base) /\ Restarts(Ran(base)) = Restarts(base)
  BY Zenon DEF Ran, Restarts
<1> QED BY Zenon, <1>1, <1>2

(* The schema's update of a status that has not failed. *)
LEMMA ShownSchema ==
  ASSUME NEW st \in StatusValues, NEW r \in Types, SoundStatus(st), ~IsFailed(st.conds)
  PROVE \E mid \in {Shown(st.conds), Ran(Shown(st.conds))} :
          Shown(SchemaUpdate(st, r).conds) \in {mid, Restarts(mid), Fails(mid)}
<1> DEFINE runs == IF Schema = "slurm" THEN slurmRuns(r)
                                       ELSE pbsproRuns(r, st.replicas[r].active)
           conds == IF runs
                      THEN UpdateClusterConditions(st.conds, "Running", TRUE, "Running")
                      ELSE st.conds
           new == SchemaUpdate(st, r).conds
<1>0. st.conds \in SUBSET Conditions /\ WellFormed(st.conds)
  BY Zenon DEF StatusValues, SoundStatus
<1>1. conds \in SUBSET Conditions /\ WellFormed(conds)
  BY Zenon, <1>0, UpdateOnce DEF ConditionTypes, Reasons
<1>2. ~IsFailed(conds)
  BY Zenon, <1>0, FailedConditions DEF ConditionTypes, Reasons
<1>3. Shown(conds) \in {Shown(st.conds), Ran(Shown(st.conds))}
  BY Zenon, <1>0, ShownUpdates DEF Ran
<1>4. new \in {conds, UpdateClusterConditions(conds, "Failed", TRUE, "Failed"),
                      UpdateClusterConditions(conds, "Restarting", TRUE, "Restarting")}
  BY Zenon DEF SchemaUpdate, StatusValues
<1>5. Shown(new) \in {Shown(conds), Restarts(Shown(conds)), Fails(Shown(conds))}
  <2> HIDE DEF conds, new
  <2> QED BY Zenon, <1>1, <1>2, <1>4, ShownUpdates DEF Restarts, Fails
<1> QED BY Zenon, <1>3, <1>5

(* The schema's update leaves a failed status as it is. *)
LEMMA FailedSchema ==
  ASSUME NEW st \in StatusValues, NEW r \in Types, IsFailed(st.conds)
  PROVE SchemaUpdate(st, r).conds = st.conds
<1>0. st.conds \in SUBSET Conditions
  BY Zenon DEF StatusValues
<1>1. /\ UpdateClusterConditions(st.conds, "Running", TRUE, "Running") = st.conds
      /\ UpdateClusterConditions(st.conds, "Failed", TRUE, "Failed") = st.conds
      /\ UpdateClusterConditions(st.conds, "Restarting", TRUE, "Restarting") = st.conds
  BY Zenon, <1>0, FailedConditions DEF ConditionTypes, Reasons
<1> QED BY Zenon, <1>1 DEF SchemaUpdate, StatusValues

(* A pass that has ended or lost its claim to the cluster writes nothing. *)
LEMMA EndedPromise == ASSUME wCurrent' = FALSE PROVE PromiseInv'
BY Zenon DEF PromiseInv, SuspendsOnRequest, WhileSuspended, WhileOverLimit, WhileNormal

(* A step that leaves the status of the pass alone. *)
LEMMA KeptPromise ==
  ASSUME PromiseInv, UNCHANGED <<suspend, status, mode, wCurrent, wStatus>>,
         mode = "normal" \/ (pc' = "write" <=> pc = "write")
  PROVE PromiseInv'
<1>1. Held' = Held /\ Live' = Live /\ Promise!Outcomes' = Promise!Outcomes
  BY Zenon DEF Held, Live, Shown, Promise!Outcomes
<1>2. SuspendsOnRequest'
  BY Zenon DEF PromiseInv, SuspendsOnRequest
<1>3. WhileSuspended'
  BY Zenon, <1>1 DEF PromiseInv, WhileSuspended
<1>4. WhileOverLimit'
  BY Zenon, <1>1 DEF PromiseInv, WhileOverLimit
<1>5. WhileNormal'
  BY Zenon, <1>1 DEF PromiseInv, WhileNormal
<1> QED BY Zenon, <1>2, <1>3, <1>4, <1>5 DEF PromiseInv

(* A step of the normal branch whose status shows an outcome, as long as   *)
(* it has not failed, or what it showed.                                   *)
LEMMA NormalPromise ==
  ASSUME TypeOK, CopyInv, PromiseInv, mode = "normal",
         UNCHANGED <<suspend, status, mode, wCurrent>>,
         IsFailed(wStatus.conds) => wStatus'.conds = wStatus.conds,
         ~IsFailed(wStatus.conds) =>
           \E mid \in {Held, Ran(Held)} :
             Shown(wStatus'.conds) \in {mid, Restarts(mid), Fails(mid)}
  PROVE PromiseInv'
<1>1. /\ Live' = Live /\ Promise!Outcomes' = Promise!Outcomes
      /\ Held' = Shown(wStatus'.conds)
  BY Zenon DEF Held, Live, Shown, Promise!Outcomes
<1>2. SuspendsOnRequest' /\ WhileSuspended' /\ WhileOverLimit'
  BY Zenon DEF PromiseInv, SuspendsOnRequest, WhileSuspended, WhileOverLimit
<1>3. ASSUME wCurrent
      PROVE \/ Shown(wStatus'.conds) \in Promise!Outcomes
            \/ \E new \in Promise!Outcomes : Shown(wStatus'.conds) = Fails(new)
  <2>1. \/ Held \in Promise!Outcomes
        \/ \E new \in Promise!Outcomes : Held = Fails(new)
    BY Zenon, <1>3 DEF PromiseInv, WhileNormal, Fails
  <2>2. CASE IsFailed(wStatus.conds)
    BY Zenon, <2>1, <2>2 DEF Held
  <2>3. CASE ~IsFailed(wStatus.conds)
    <3>1. "Failed" \notin Held
      BY Zenon, <2>3 DEF Held, Shown, IsFailed
    <3>2. Held \in Promise!Outcomes
      BY Zenon, <2>1, <3>1 DEF Fails
    <3>3. PICK mid \in {Held, Ran(Held)} :
            Shown(wStatus'.conds) \in {mid, Restarts(mid), Fails(mid)}
      BY Zenon, <2>3
    <3>4. mid \in Promise!Outcomes
      BY Zenon, <3>2, <3>3, OutcomesClosed
    <3> QED BY Zenon, <3>3, <3>4, OutcomesClosed
  <2> QED BY Zenon, <2>2, <2>3
<1>4. WhileNormal'
  BY Zenon, <1>1, <1>3 DEF WhileNormal, Fails
<1> QED BY Zenon, <1>2, <1>4 DEF PromiseInv

(* A pass starts: it may write only if its copy is the live cluster, up to *)
(* the Created condition, which is not shown.                              *)
LEMMA StartPromise ==
  ASSUME TypeOK, CopyInv, StartPass
  PROVE PromiseInv'
<1>1. /\ UNCHANGED <<suspend, status>>
      /\ mode' = Branch /\ wCurrent' = (clusterFeed = <<>>)
      /\ wStatus' = IF Branch \in {"finished", "suspended"} THEN cStatus ELSE Resumed(cStatus)
      /\ IF Branch = "normal" THEN pc' = "configMap" ELSE pc' = AfterTeardown(Branch, todo')
  BY Zenon DEF StartPass, clusterVars
<1> SUFFICES ASSUME clusterFeed = <<>>, Branch # "finished" PROVE PromiseInv'
  BY Zenon, <1>1 DEF PromiseInv, SuspendsOnRequest, WhileSuspended, WhileOverLimit, WhileNormal
<1>2. cSuspend = suspend /\ cStatus \in {status, onOwnerCreate(status)}
  BY Zenon DEF CopyInv, CacheFollows
<1>3. /\ cStatus \in StatusValues /\ status \in StatusValues /\ now \in Times
      /\ SoundStatus(cStatus) /\ SoundStatus(status)
  BY Zenon DEF TypeOK, ClusterType, CacheType, CountType, CopyInv, CopiesWellFormed,
         ConditionsWellFormed
<1>4. ~IsFailed(cStatus.conds) /\ ~IsFailed(status.conds)
  BY Zenon, <1>2, <1>3, SoundBranches DEF Branch, IsFinished
<1>5. Shown(cStatus.conds) = Live
  <2>1. Shown(onOwnerCreate(status).conds) = Shown(status.conds)
    BY Zenon, <1>3, <1>4, ShownBranches
  <2> QED BY Zenon, <1>2, <2>1 DEF Live
<1>6. Shown(Resumed(cStatus).conds) = Live \ {"Suspended"}
  <2>1. Shown(Resumed(cStatus).conds) = Shown(cStatus.conds) \ {"Suspended"}
    BY Zenon, <1>3, <1>4, ShownBranches
  <2> QED BY Zenon, <1>5, <2>1
<1>7. /\ Branch \in {"suspended", "limit", "normal"}
      /\ Branch = "suspended" <=> suspend
  BY Zenon, <1>2, <1>4 DEF Branch, IsFinished
<1>8. pc' # "write"
  BY Zenon, <1>1 DEF AfterTeardown
<1>9. /\ Live' = Live /\ Promise!Outcomes' = Promise!Outcomes
      /\ Held' = Shown(wStatus'.conds)
  BY Zenon, <1>1 DEF Held, Live, Shown, Promise!Outcomes
<1>10. Live \ {"Suspended"} \in Promise!Outcomes
  BY Zenon DEF Promise!Outcomes, Live
<1>11. SuspendsOnRequest'
  BY Zenon, <1>1, <1>7 DEF SuspendsOnRequest
<1>12. WhileSuspended'
  BY Zenon, <1>1, <1>5, <1>8, <1>9 DEF WhileSuspended
<1>13. WhileOverLimit'
  BY Zenon, <1>1, <1>6, <1>8, <1>9 DEF WhileOverLimit
<1>14. WhileNormal'
  BY Zenon, <1>1, <1>6, <1>9, <1>10 DEF WhileNormal
<1> QED BY Zenon, <1>11, <1>12, <1>13, <1>14 DEF PromiseInv

(* The end of a teardown. *)
LEMMA CleanupPromise ==
  ASSUME TypeOK, CopyInv, PromiseInv, CleanupCluster
  PROVE PromiseInv'
<1>1. UNCHANGED <<suspend, status>> /\ pc = "cleanup"
  BY Zenon DEF CleanupCluster, InPass, clusterVars
<1>2. EndPass \/ AfterCleanup
  BY Zenon DEF CleanupCluster, Return, Abort
<1>3. CASE EndPass
  BY Zenon, <1>3, EndedPromise DEF EndPass
<1>4. CASE AfterCleanup /\ ~EndPass
  <2>1. /\ mode # "finished" /\ pc' = "write" /\ UNCHANGED <<mode, wCurrent>>
        /\ wStatus' = IF mode = "suspended" THEN SuspendedStatus(wStatus)
                                            ELSE FailedStatus(wStatus)
    BY Zenon, <1>4 DEF AfterCleanup, Return
  <2>2. mode \in {"suspended", "limit"} /\ ~IsFailed(wStatus.conds)
    BY Zenon, <1>1, <2>1 DEF CopyInv, StagesOfModes, FailedCopies, TeardownStages
  <2>3. wStatus \in StatusValues /\ SoundStatus(wStatus)
    BY Zenon DEF TypeOK, PassType, CopyInv, CopiesWellFormed, ConditionsWellFormed
  <2>4. /\ Live' = Live /\ Held' = Shown(wStatus'.conds)
    BY Zenon, <1>1 DEF Held, Live, Shown
  <2>5. /\ mode = "suspended" => Held' = (Held \ {"Running"}) \cup {"Suspended"}
        /\ mode = "limit" => Held' = (Held \ {"Running"}) \cup {"Failed"}
    <3>1. /\ Shown(SuspendedStatus(wStatus).conds) = (Held \ {"Running"}) \cup {"Suspended"}
          /\ Shown(FailedStatus(wStatus).conds) = (Held \ {"Running"}) \cup {"Failed"}
      BY Zenon, <2>2, <2>3, ShownBranches DEF Held
    <3> QED BY Zenon, <2>1, <2>4, <3>1
  <2>6. SuspendsOnRequest'
    BY Zenon, <1>1, <2>1 DEF PromiseInv, SuspendsOnRequest
  <2>7. WhileSuspended'
    BY Zenon, <1>1, <2>1, <2>4, <2>5 DEF PromiseInv, WhileSuspended
  <2>8. WhileOverLimit'
    <3> SUFFICES ASSUME wCurrent, mode = "limit"
                 PROVE Held' = (Live \ {"Suspended", "Running"}) \cup {"Failed"}
      BY Zenon, <2>1, <2>4 DEF WhileOverLimit
    <3>1. Held = Live \ {"Suspended"}
      BY Zenon, <1>1 DEF PromiseInv, WhileOverLimit
    <3> QED BY Zenon, <2>5, <3>1
  <2>9. WhileNormal'
    BY Zenon, <2>1, <2>2 DEF WhileNormal
  <2> QED BY Zenon, <2>6, <2>7, <2>8, <2>9 DEF PromiseInv
<1> QED BY Zenon, <1>2, <1>3, <1>4

(* The pods of the normal branch. *)
LEMMA PodPromise ==
  ASSUME TypeOK, CopyInv, PromiseInv, ReconcilePod
  PROVE PromiseInv'
<1> DEFINE restarting == UpdateClusterConditions(wStatus.conds, "Restarting", TRUE, "Restarting")
<1>1. UNCHANGED <<suspend, status>> /\ pc = "pod"
  BY Zenon DEF ReconcilePod, InPass, clusterVars
<1>2. mode = "normal"
  BY Zenon, <1>1 DEF CopyInv, StagesOfModes
<1>3. PICK r \in todo : EndPass \/ AfterPod(r, wStatus.conds) \/ AfterPod(r, restarting)
  BY Zenon DEF ReconcilePod, Call, Abort
<1>4. CASE EndPass
  BY Zenon, <1>4, EndedPromise DEF EndPass
<1>5. ASSUME NEW conds, conds = wStatus.conds \/ conds = restarting, AfterPod(r, conds)
      PROVE PromiseInv'
  <2>1. wStatus \in StatusValues /\ SoundStatus(wStatus)
    BY Zenon DEF TypeOK, PassType, CopyInv, CopiesWellFormed, ConditionsWellFormed
  <2>2. wStatus.conds \in SUBSET Conditions /\ WellFormed(wStatus.conds)
    BY Zenon, <2>1 DEF StatusValues, SoundStatus
  <2>3. wStatus'.conds = conds /\ UNCHANGED <<mode, wCurrent>>
    BY Zenon, <1>5, <2>1 DEF AfterPod, StatusValues
  <2>4. IsFailed(wStatus.conds) => restarting = wStatus.conds
    BY Zenon, <2>2, FailedConditions DEF ConditionTypes, Reasons
  <2>5. ~IsFailed(wStatus.conds) => Shown(restarting) = Restarts(Held)
    BY Zenon, <2>2, ShownUpdates DEF Restarts, Held
  <2> HIDE DEF restarting
  <2>6. ~IsFailed(wStatus.conds) => Shown(wStatus'.conds) \in {Held, Restarts(Held), Fails(Held)}
    BY Zenon, <1>5, <2>3, <2>5 DEF Held
  <2> QED BY ZenonT(30), <1>1, <1>2, <1>5, <2>3, <2>4, <2>6, NormalPromise
<1> QED BY Zenon, <1>3, <1>4, <1>5

(* The status update of the normal branch. *)
LEMMA UpdatePromise ==
  ASSUME TypeOK, CopyInv, PromiseInv, UpdateClusterStatus
  PROVE PromiseInv'
<1>1. UNCHANGED <<suspend, status, mode, wCurrent>> /\ pc = "update"
  BY Zenon DEF UpdateClusterStatus, InPass, clusterVars
<1>2. mode = "normal"
  BY Zenon, <1>1 DEF CopyInv, StagesOfModes
<1> DEFINE started == [wStatus EXCEPT !.start = IF @ = Unset THEN now ELSE @]
<1>3. PICK r \in todo : wStatus' = SchemaUpdate(started, r)
  BY Zenon DEF UpdateClusterStatus
<1>4. /\ started \in StatusValues /\ started.conds = wStatus.conds
      /\ started.completion = wStatus.completion /\ r \in Types
  BY Zenon DEF TypeOK, PassType, CountType, StatusValues
<1> HIDE DEF started
<1>5. SoundStatus(started)
  BY Zenon, <1>4 DEF SoundStatus, CopyInv, CopiesWellFormed, ConditionsWellFormed
<1>6. IsFailed(wStatus.conds) => wStatus'.conds = wStatus.conds
  BY Zenon, <1>3, <1>4, <1>5, FailedSchema
<1>7. ~IsFailed(wStatus.conds) =>
        \E mid \in {Held, Ran(Held)} :
          Shown(wStatus'.conds) \in {mid, Restarts(mid), Fails(mid)}
  BY Zenon, <1>3, <1>4, <1>5, ShownSchema DEF Held
<1> QED BY Zenon, <1>1, <1>2, <1>6, <1>7, NormalPromise

(* Every step keeps the status of a pass that may write within the promise. *)
LEMMA PromiseStep ==
  ASSUME TypeOK, CopyInv, PromiseInv, [Next]_vars
  PROVE PromiseInv'
<1>1. CASE UNCHANGED vars
  BY Zenon, <1>1, KeptPromise DEF vars, clusterVars, passVars
<1>2. CASE Environment
  <2>1. CASE ToggleSuspend
    BY Zenon, <2>1, EndedPromise DEF ToggleSuspend
  <2>2. CASE Tick
    BY Zenon, <2>2, KeptPromise DEF Tick, clusterVars, passVars
  <2>3. ASSUME NEW r \in Types,
               PodStarts(r) \/ PodFails(r) \/ ContainerRestarts(r) \/ Evict(r) \/ PodGone(r)
        PROVE PromiseInv'
    <3>1. PICK pod : PodEvent(r, pod)
      BY Zenon, <2>3 DEF PodStarts, PodFails, ContainerRestarts, Evict, PodGone
    <3> QED BY Zenon, <3>1, KeptPromise DEF PodEvent, clusterVars, passVars
  <2> QED BY Zenon, <1>2, <2>1, <2>2, <2>3 DEF Environment
<1>3. CASE Informer
  BY Zenon, <1>3, KeptPromise DEF Informer, ObserveCluster, ObservePod, ObserveService,
                           ObserveConfigMap, Delivered, passVars
<1>4. CASE Resync
  BY Zenon, <1>4, KeptPromise DEF Resync, clusterVars, passVars
<1>5. CASE StartPass
  BY Zenon, <1>5, StartPromise
<1>6. CASE TearDownPod \/ TearDownService \/ RemoveConfigMap
  <2>1. UNCHANGED <<suspend, status>>
    BY Zenon, <1>6 DEF TearDownPod, TearDownService, RemoveConfigMap, InPass, clusterVars
  <2>2. EndPass \/ (pc # "write" /\ pc' # "write" /\ UNCHANGED <<mode, wCurrent, wStatus>>)
    BY Zenon, <1>6 DEF TearDownPod, TearDownService, RemoveConfigMap, ToStage, InPass, Call, Abort,
                AfterTeardown
  <2> QED BY Zenon, <2>1, <2>2, KeptPromise, EndedPromise DEF EndPass
<1>7. CASE ReconcileConfigMap \/ FillConfigMap \/ FillTemplate \/ ReconcileService
  <2>1. /\ UNCHANGED <<suspend, status>>
        /\ pc \in {"configMap", "fillConfigMap", "fillUnowned", "service"}
    BY Zenon, <1>7 DEF ReconcileConfigMap, FillConfigMap, FillTemplate, ReconcileService, InPass,
                clusterVars
  <2>2. EndPass \/ UNCHANGED <<mode, wCurrent, wStatus>>
    BY Zenon, <1>7 DEF ReconcileConfigMap, FillConfigMap, FillTemplate, ReconcileService, ToStage,
                ConfigMapUpdated, NextType, Call, Abort
  <2>3. mode = "normal"
    BY Zenon, <2>1 DEF CopyInv, StagesOfModes
  <2> QED BY Zenon, <2>1, <2>2, <2>3, KeptPromise, EndedPromise DEF EndPass
<1>8. CASE WriteStatus \/ Restart
  <2>1. EndPass
    BY Zenon, <1>8 DEF WriteStatus, Restart, Return, Abort
  <2> QED BY Zenon, <2>1, EndedPromise DEF EndPass
<1> QED
  BY ZenonT(30), <1>1, <1>2, <1>3, <1>4, <1>5, <1>6, <1>7, <1>8, CleanupPromise, PodPromise,
     UpdatePromise
     DEF Next, PassStep

(* A status write is one step of the promise. *)
LEMMA WritePromised ==
  ASSUME TypeOK, CopyInv, PromiseInv, wCurrent, pc = "write", exists,
         SetCluster(suspend, wStatus)
  PROVE Promise!Next
<1>1. /\ UNCHANGED <<exists, suspend>> /\ status' = wStatus
  BY Zenon DEF SetCluster
<1>2. Shown(status.conds)' = Held
  BY Zenon, <1>1 DEF Held, Shown
<1>3. mode \in {"suspended", "limit", "normal"}
  BY Zenon DEF CopyInv, StagesOfModes
<1>4. "Failed" \notin Shown(status.conds)
  BY Zenon, <1>3 DEF CopyInv, WritersSeeFailure, Shown, IsFailed
<1>5. Promise!Write(Held)
  BY Zenon, <1>1, <1>2, <1>4 DEF Promise!Write
<1>6. CASE mode = "suspended"
  <2>1. suspend /\ Held = (Live \ {"Running"}) \cup {"Suspended"}
    BY Zenon, <1>6 DEF PromiseInv, SuspendsOnRequest, WhileSuspended
  <2>2. Promise!Suspended
    BY Zenon, <1>5, <2>1 DEF Promise!Suspended, Live
  <2> QED BY Zenon, <2>2 DEF Promise!Next
<1>7. CASE mode = "limit"
  <2> DEFINE base == Live \ {"Suspended"}
  <2>1. ~suspend /\ Held = (Live \ {"Suspended", "Running"}) \cup {"Failed"}
    BY Zenon, <1>7 DEF PromiseInv, SuspendsOnRequest, WhileOverLimit
  <2>2. base \in Promise!Outcomes /\ Held = (base \ {"Running"}) \cup {"Failed"}
    BY Zenon, <2>1 DEF Promise!Outcomes, Live
  <2>3. Promise!Failed
    BY Zenon, <1>5, <2>1, <2>2 DEF Promise!Failed
  <2> QED BY Zenon, <2>3 DEF Promise!Next
<1>8. CASE mode = "normal"
  <2>1. ~suspend
    BY Zenon, <1>8 DEF PromiseInv, SuspendsOnRequest
  <2>2. CASE Held \in Promise!Outcomes
    BY Zenon, <1>5, <2>1, <2>2 DEF Promise!Reconciled, Promise!Next
  <2>3. ASSUME NEW new \in Promise!Outcomes, Held = (new \ {"Running"}) \cup {"Failed"}
        PROVE Promise!Next
    BY Zenon, <1>5, <2>1, <2>3 DEF Promise!Failed, Promise!Next
  <2> QED BY Zenon, <1>8, <2>2, <2>3 DEF PromiseInv, WhileNormal
<1> QED BY Zenon, <1>3, <1>6, <1>7, <1>8

(* Every step is a step of the promise, or changes nothing that it tells. *)
LEMMA PromiseSimulated ==
  ASSUME TypeOK, CopyInv, PromiseInv, [Next]_vars
  PROVE [Promise!Next]_(Promise!vars)
<1>1. UNCHANGED <<exists, suspend, status>> => UNCHANGED Promise!vars
  BY Zenon DEF Promise!vars, Shown
<1>2. CASE UNCHANGED vars \/ Resync \/ StartPass \/ Restart \/ Tick \/ Informer
  BY Zenon, <1>1, <1>2 DEF vars, clusterVars, Resync, StartPass, Restart, Tick, Informer,
                    ObserveCluster, ObservePod, ObserveService, ObserveConfigMap, Delivered
<1>3. CASE Environment
  <2>1. CASE ToggleSuspend
    <3>1. /\ exists /\ suspend' = ~suspend /\ UNCHANGED <<exists, status>>
      BY Zenon, <2>1 DEF ToggleSuspend, SetCluster
    <3>2. Promise!Toggle
      BY Zenon, <3>1 DEF Promise!Toggle, Shown
    <3> QED BY Zenon, <3>2 DEF Promise!Next
  <2>2. ASSUME NEW r \in Types,
               PodStarts(r) \/ PodFails(r) \/ ContainerRestarts(r) \/ Evict(r) \/ PodGone(r)
        PROVE UNCHANGED Promise!vars
    BY Zenon, <1>1, <2>2 DEF PodStarts, PodFails, ContainerRestarts, Evict, PodGone, PodEvent,
                      clusterVars
  <2> QED BY Zenon, <1>2, <1>3, <2>1, <2>2 DEF Environment
<1>4. CASE PassStep
  <2>1. CASE UNCHANGED clusterVars
    BY Zenon, <1>1, <2>1 DEF clusterVars
  <2>2. CASE CleanupCluster /\ ~(UNCHANGED clusterVars)
    <3>1. /\ exists /\ pc = "cleanup" /\ wStatus.completion # Unset
          /\ exists' = FALSE /\ UNCHANGED <<suspend, status>>
      BY Zenon, <2>2 DEF CleanupCluster, InPass
    <3>2. IsFailed(status.conds)
      BY Zenon, <3>1 DEF CopyInv, CopiesWellFormed, ConditionsWellFormed, SoundStatus, FailedCopies,
                  TeardownStages
    <3>3. "Failed" \in Shown(status.conds)
      BY Zenon, <3>2 DEF Shown, IsFailed
    <3>4. Promise!Deleted
      BY Zenon, <3>1, <3>3 DEF Promise!Deleted, Shown
    <3> QED BY Zenon, <3>4 DEF Promise!Next
  <2>3. CASE WriteStatus /\ ~(UNCHANGED clusterVars)
    <3>1. exists /\ pc = "write" /\ wCurrent /\ SetCluster(suspend, wStatus)
      BY Zenon, <2>3 DEF WriteStatus, InPass
    <3> QED BY Zenon, <3>1, WritePromised
  <2> QED
    BY ZenonT(30), <1>4, <2>1, <2>2, <2>3
       DEF PassStep, TearDownPod, TearDownService, RemoveConfigMap, ReconcileConfigMap,
           FillConfigMap, FillTemplate, ReconcilePod, ReconcileService, UpdateClusterStatus
<1> QED BY Zenon, <1>2, <1>3, <1>4 DEF Next

(* The controller, with its cache, its queue and its passes, implements    *)
(* the promise on the status of a cluster: see ImplementsPromise.          *)
THEOREM PromiseImplemented == Spec => ImplementsPromise
<1>1. Init => PromiseInv /\ Promise!Init
  <2> SUFFICES ASSUME Init PROVE PromiseInv /\ Promise!Init
    BY Zenon
  <2>1. Shown(status.conds) = {}
    BY Zenon DEF Init, NewStatus, Shown, isStatusConditionTrue
  <2>2. wCurrent = FALSE /\ exists = TRUE /\ suspend \in BOOLEAN
    BY Zenon DEF Init
  <2>3. PromiseInv
    BY Zenon, <2>2 DEF PromiseInv, SuspendsOnRequest, WhileSuspended, WhileOverLimit, WhileNormal
  <2> QED BY <2>1, <2>2, <2>3, Zenon DEF Promise!Init
<1>2. TypeOK /\ LifecycleInv /\ PromiseInv /\ [Next]_vars
        => PromiseInv' /\ [Promise!Next]_(Promise!vars)
  BY Zenon, PromiseStep, PromiseSimulated DEF LifecycleInv
<1> QED
  BY <1>1, <1>2, LifecycleInductive, PTL DEF Spec, ImplementsPromise, Promise!Spec

(* A status that shows Running shows neither Suspended, Restarting nor     *)
(* Failed: a fact about the promise alone, which the implementation keeps. *)
THEOREM ExclusiveStatus == Spec => []StatusExclusive
<1>1. Promise!Init => Promise!Exclusive
  BY Zenon DEF Promise!Init, Promise!Exclusive
<1>2. ASSUME Promise!Exclusive, [Promise!Next]_(Promise!vars) PROVE Promise!Exclusive'
  <2>1. CASE Promise!Toggle \/ Promise!Deleted \/ UNCHANGED Promise!vars
    BY Zenon, <1>2, <2>1 DEF Promise!Exclusive, Promise!Toggle, Promise!Deleted, Promise!vars
  <2>2. CASE Promise!Suspended
    BY Zenon, <2>2 DEF Promise!Exclusive, Promise!Suspended, Promise!Write
  <2>3. ASSUME NEW new \in Promise!Outcomes, Promise!Write(new) PROVE Promise!Exclusive'
    BY <1>2, <2>3 DEF Promise!Exclusive, Promise!Write, Promise!Outcomes
  <2>4. CASE Promise!Failed
    BY Zenon, <2>4 DEF Promise!Exclusive, Promise!Failed, Promise!Write
  <2> QED BY Zenon, <1>2, <2>1, <2>2, <2>3, <2>4 DEF Promise!Next, Promise!Reconciled
<1> QED
  BY <1>1, <1>2, PromiseImplemented, PTL
     DEF ImplementsPromise, Promise!Spec, StatusExclusive

-----------------------------------------------------------------------------
(* The backoff limit.                                                      *)

(* Container restarts have happened before any copy of a pod tells of     *)
(* them; each belongs to the pod of one type.                              *)
RestartsOf(n, a, r) == {k \in 1..n : a[k] = r}
AccountsFor(a) ==
  \A r \in Types : \A p \in PodCopies(r) : p.restarts <= Cardinality(RestartsOf(restarts, a, r))
RestartsCounted == \E a \in [1..restarts -> Types] : AccountsFor(a)

(* What the fold in RestartCount computes. *)
LEMMA RestartFold ==
  ASSUME IsFiniteSet(Types), NEW view \in [Types -> PodValues]
  PROVE LET S == {r \in Types : view[r].phase = "Running"} IN
        \E sum :
          /\ sum = [s \in SUBSET S |->
                      IF s = {} THEN 0 ELSE view[Some(s)].restarts + sum[s \ {Some(s)}]]
          /\ RestartCount(view) = sum[S]
<1> DEFINE S == {r \in Types : view[r].phase = "Running"}
           top == [s \in SUBSET S |-> Some(s)]
           F == [p \in (SUBSET S) \X Nat |->
                    IF p[1] = {} THEN 0 ELSE view[Some(p[1])].restarts + p[2]]
           sum == CHOOSE iter : iter = [s \in SUBSET S |->
                    IF s = {} THEN 0 ELSE view[Some(s)].restarts + iter[s \ {Some(s)}]]
<1>1. IsFiniteSet(S) /\ \A r \in S : view[r].restarts \in Nat
  BY FS_Subset DEF PodValues, Absent
<1>2. \A s \in SUBSET S : s # {} => Some(s) \in s
  BY Zenon DEF Some
<1>3. F \in [(SUBSET S) \X Nat -> Nat]
  <2> HIDE DEF S
  <2> QED BY <1>1, <1>2
<1>4. CanFold(S, top, Nat, 0, F)
  <2> HIDE DEF S
  <2> QED BY Zenon, <1>1, <1>2, <1>3 DEF CanFold
<1>5. PICK g : IsFold(g, S, top, Nat, 0, F)
  <2> HIDE DEF S, top, F
  <2> QED BY Zenon, <1>4, FoldExists
<1>6. g = [s \in SUBSET S |-> IF s = {} THEN 0
                              ELSE view[Some(s)].restarts + g[s \ {Some(s)}]]
  <2> HIDE DEF S
  <2>1. ASSUME NEW s \in SUBSET S, s # {}
        PROVE  F[<<s, g[s \ {top[s]}]>>] = view[Some(s)].restarts + g[s \ {Some(s)}]
    BY Zenon, <1>5, <2>1 DEF IsFold
  <2> HIDE DEF F, top
  <2> QED BY Zenon, <1>5, <2>1 DEF IsFold
<1>7. sum = [s \in SUBSET S |-> IF s = {} THEN 0
                                ELSE view[Some(s)].restarts + sum[s \ {Some(s)}]]
  <2> HIDE DEF S
  <2> QED BY Zenon, <1>6
<1>8. RestartCount(view) = sum[S]
  BY Zenon DEF RestartCount, MapThenSumSet, MapThenFoldSet, Some
<1> QED BY Zenon, <1>7, <1>8

(* No view of the pods counts more restarts than there have been. *)
LEMMA RestartsBounded ==
  ASSUME IsFiniteSet(Types), NEW view \in [Types -> PodValues], restarts \in Nat,
         NEW a \in [1..restarts -> Types],
         \A r \in Types : view[r].restarts <= Cardinality(RestartsOf(restarts, a, r))
  PROVE RestartCount(view) \in 0..restarts
<1> DEFINE S == {r \in Types : view[r].phase = "Running"}
           A(s) == {n \in 1..restarts : a[n] \in s}
<1>1. PICK sum :
        /\ sum = [s \in SUBSET S |->
                    IF s = {} THEN 0 ELSE view[Some(s)].restarts + sum[s \ {Some(s)}]]
        /\ RestartCount(view) = sum[S]
  BY Zenon, RestartFold
<1> DEFINE G == {s \in SUBSET S : sum[s] \in Nat /\ sum[s] <= Cardinality(A(s))}
<1>2. IsFiniteSet(S) /\ \A r \in S : r \in Types /\ view[r].restarts \in Nat
  BY FS_Subset DEF PodValues, Absent
<1>3. IsFiniteSet(1..restarts) /\ Cardinality(1..restarts) = restarts
  BY FS_Interval
<1>4. \A s : IsFiniteSet(A(s)) /\ Cardinality(A(s)) \in Nat /\ Cardinality(A(s)) <= restarts
  BY SMTT(30), <1>3, FS_Subset, FS_CardinalityType
<1> HIDE DEF S
<1>5. {} \in G
  <2>1. sum[{}] = 0
    BY Zenon, <1>1
  <2>2. Cardinality(A({})) \in Nat
    BY Zenon, <1>4
  <2> HIDE DEF A
  <2> QED BY <2>1, <2>2
<1>6. ASSUME NEW s \in SUBSET S, s # {}, \A x \in s : s \ {x} \in G
      PROVE s \in G
  <2> DEFINE x == Some(s)
  <2>1. x \in s /\ x \in S
    BY Zenon, <1>6 DEF Some
  <2>2. sum[s] = view[x].restarts + sum[s \ {x}]
    BY Zenon, <1>1, <1>6
  <2> HIDE DEF x
  <2>3. /\ A(s) = A(s \ {x}) \cup RestartsOf(restarts, a, x)
        /\ A(s \ {x}) \cap RestartsOf(restarts, a, x) = {}
    BY Zenon, <2>1 DEF RestartsOf
  <2>4. IsFiniteSet(RestartsOf(restarts, a, x)) /\ Cardinality(RestartsOf(restarts, a, x)) \in Nat
    BY Zenon, <1>3, FS_Subset, FS_CardinalityType DEF RestartsOf
  <2>5. Cardinality(A(s)) = Cardinality(A(s \ {x})) + Cardinality(RestartsOf(restarts, a, x))
    <3> DEFINE L == A(s \ {x})
               R == RestartsOf(restarts, a, x)
    <3>1. IsFiniteSet(L) /\ IsFiniteSet(R) /\ L \cap R = {} /\ A(s) = L \cup R
      BY Zenon, <1>4, <2>3, <2>4
    <3> HIDE DEF L, R, A
    <3>2. Cardinality(L \cup R) = Cardinality(L) + Cardinality(R)
      <4>1. /\ Cardinality(L \cup R) = Cardinality(L) + Cardinality(R) - Cardinality(L \cap R)
            /\ Cardinality(L) \in Nat /\ Cardinality(R) \in Nat
        BY Zenon, <3>1, FS_Union, FS_CardinalityType
      <4>2. Cardinality(L \cap R) = 0
        BY Zenon, <3>1, FS_EmptySet
      <4> QED BY <4>1, <4>2
    <3> QED BY Zenon, <3>1, <3>2 DEF L, R
  <2>6. sum[s \ {x}] \in Nat /\ sum[s \ {x}] <= Cardinality(A(s \ {x}))
    BY Zenon, <1>6, <2>1
  <2>7. view[x].restarts \in Nat /\ view[x].restarts <= Cardinality(RestartsOf(restarts, a, x))
    BY Zenon, <1>2, <2>1
  <2>8. Cardinality(A(s \ {x})) \in Nat
    BY Zenon, <1>4
  <2> HIDE DEF A
  <2>9. sum[s] \in Nat /\ sum[s] <= Cardinality(A(s))
    BY SMTT(30), <2>2, <2>4, <2>5, <2>6, <2>7, <2>8
  <2> QED BY Zenon, <2>9
<1>7. S \in G
  <2> HIDE DEF G
  <2>1. \A s \in SUBSET S : s # {} /\ (\A x \in s : s \ {x} \in G) => s \in G
    BY Zenon, <1>6
  <2>2. \A s \in SUBSET S : s \in G
    BY Zenon, <1>2, <1>5, <2>1, SubsetInduction
  <2> QED BY Zenon, <2>2
<1>8. sum[S] \in Nat /\ sum[S] <= Cardinality(A(S)) /\ Cardinality(A(S)) <= restarts
      /\ Cardinality(A(S)) \in Nat
  BY Zenon, <1>4, <1>7
<1> QED BY <1>1, <1>8

(* As long as nothing excuses it, no pass finds a limit exceeded. *)
LEMMA WithinLimits ==
  ASSUME TypeOK, Calm, FailuresCounted, RestartsCounted, NEW st \in StatusValues
  PROVE ~ExceedsLimit(st, cPods)
<1>0. /\ IsFiniteSet(Types) /\ BackoffLimit \in Nat \cup {Unset} /\ Unset \notin Nat
      /\ cPods \in [Types -> PodValues] /\ restarts \in Nat /\ failures \in Nat
  <2>1. IsFiniteSet(Workers) /\ IsFiniteSet({"Head"})
    BY Zenon, ConstantsAssumption, FS_Singleton
  <2>2. IsFiniteSet(Types)
    BY Zenon, <2>1, FS_Union DEF Types
  <2>3. restarts \in Nat /\ failures \in Nat
    BY ConstantsAssumption DEF TypeOK, CountType
  <2> QED BY Zenon, <2>2, <2>3, ConstantsAssumption DEF TypeOK, CacheType
<1>1. ~PastActiveDeadline(st)
  BY Zenon DEF Calm, PastActiveDeadline
<1>2. ASSUME BackoffLimit # Unset, ExceedsBackoffLimit(st, cPods) PROVE FALSE
  <2> DEFINE F == {r \in Types : cPods[r].phase = "Failed"}
             G == {r \in Types : st.replicas[r].failed > 0}
  <2>1. BackoffLimit = 0
    BY SMTT(30), <1>0, <1>2 DEF ExceedsBackoffLimit
  <2>2. Cardinality(F) > Cardinality(G)
    BY Zenon, <1>2 DEF ExceedsBackoffLimit
  <2>3. Cardinality(G) \in Nat /\ (F = {} => Cardinality(F) = 0)
    BY ZenonT(30), <1>0, FS_Subset, FS_CardinalityType, FS_EmptySet
  <2>4. F # {}
    <3> HIDE DEF F, G
    <3> QED BY SMTT(30), <2>2, <2>3
  <2>5. failures > 0
    BY Zenon, <2>4 DEF FailuresCounted, PodCopies
  <2> QED BY Zenon, <2>1, <2>5 DEF Calm, Excused
<1>3. ASSUME BackoffLimit # Unset, PastBackoffLimit(cPods) PROVE FALSE
  <2>1. PICK a \in [1..restarts -> Types] : AccountsFor(a)
    BY Zenon DEF RestartsCounted
  <2>2. \A r \in Types : cPods[r].restarts <= Cardinality(RestartsOf(restarts, a, r))
    BY Zenon, <2>1 DEF AccountsFor, PodCopies
  <2>3. RestartCount(cPods) \in 0..restarts
    BY ZenonT(30), <1>0, <2>1, <2>2, RestartsBounded
  <2>4. IF BackoffLimit = 0 THEN RestartCount(cPods) > 0 ELSE RestartCount(cPods) >= BackoffLimit
    BY Zenon, <1>3 DEF PastBackoffLimit
  <2>5. restarts >= BackoffLimit /\ restarts > 0
    BY SMTT(30), <1>0, <1>3, <2>3, <2>4
  <2> QED BY Zenon, <1>3, <2>5 DEF Calm, Excused
<1> QED BY Zenon, <1>1, <1>2, <1>3 DEF ExceedsLimit

(* The restarts are still accounted for after one more, by the type it     *)
(* happened in.                                                            *)
LEMMA OneMoreRestart ==
  ASSUME NEW n \in Nat, NEW u \in Types, NEW a \in [1..n -> Types]
  PROVE \E b \in [1..(n + 1) -> Types] : \A r \in Types :
          Cardinality(RestartsOf(n + 1, b, r))
            = Cardinality(RestartsOf(n, a, r)) + IF r = u THEN 1 ELSE 0
<1> DEFINE b == [k \in 1..(n + 1) |-> IF k = n + 1 THEN u ELSE a[k]]
<1>1. b \in [1..(n + 1) -> Types]
  OBVIOUS
<1>2. ASSUME NEW r \in Types
      PROVE Cardinality(RestartsOf(n + 1, b, r))
              = Cardinality(RestartsOf(n, a, r)) + IF r = u THEN 1 ELSE 0
  <2> DEFINE A == RestartsOf(n, a, r)
             B == RestartsOf(n + 1, b, r)
  <2>1. IsFiniteSet(A) /\ Cardinality(A) \in Nat /\ n + 1 \notin A
    <3>1. IsFiniteSet(1..n)
      BY FS_Interval
    <3> QED BY SMTT(30), <3>1, FS_Subset, FS_CardinalityType DEF RestartsOf
  <2>2. B = IF r = u THEN A \cup {n + 1} ELSE A
    BY DEF RestartsOf
  <2> HIDE DEF A, B
  <2>3. Cardinality(A \cup {n + 1}) = Cardinality(A) + 1
    BY Zenon, <2>1, FS_AddElement
  <2>4. Cardinality(B) = Cardinality(A) + IF r = u THEN 1 ELSE 0
    BY SMTT(30), <2>1, <2>2, <2>3
  <2> QED BY Zenon, <2>4 DEF A, B
<1> QED BY Zenon, <1>1, <1>2

LEMMA RestartsStep ==
  ASSUME TypeOK, RestartsCounted, [Next]_vars
  PROVE RestartsCounted'
<1>0. restarts \in Nat
  BY Zenon, CountersGrow
<1>1. PICK a \in [1..restarts -> Types] : AccountsFor(a)
  BY Zenon DEF RestartsCounted
<1> DEFINE count(r) == Cardinality(RestartsOf(restarts, a, r))
<1>2. \A r \in Types : /\ PodCopies(r) \subseteq PodValues /\ pods[r] \in PodCopies(r)
                        /\ \A p \in PodCopies(r) : p.restarts \in Nat /\ p.restarts <= count(r)
  <2>1. \A p \in PodValues : p.restarts \in Nat
    BY DEF PodValues, Absent
  <2> QED BY ZenonT(30), <1>1, <2>1, PodCopiesType DEF PodCopies, AccountsFor
<1>3. \A r \in Types : count(r) \in Nat
  <2>1. IsFiniteSet(1..restarts)
    BY SMTT(30), <1>0, FS_Interval
  <2> QED BY Zenon, <2>1, FS_Subset, FS_CardinalityType DEF RestartsOf
<1>4. ASSUME NEW r \in Types, NEW p \in PodCopies(r)'
      PROVE /\ p.restarts \in Nat /\ p.restarts <= count(r) + 1
            /\ ~ContainerRestarts(r) => p.restarts <= count(r)
  <2> HIDE DEF count
  <2>1. Grown(r, p)
    BY Zenon, PodCopiesStep
  <2>2. CASE p \in PodCopies(r)
    BY SMTT(30), <1>2, <1>3, <2>2
  <2>3. CASE p \in {Absent, NewPod}
    <3>1. p.restarts = 0
      BY <2>3 DEF Absent, NewPod
    <3> QED BY SMTT(30), <1>3, <3>1
  <2>4. CASE \/ p = [pods[r] EXCEPT !.del = TRUE]
             \/ p = [pods[r] EXCEPT !.phase = "Running"]
             \/ p = [pods[r] EXCEPT !.phase = "Failed"]
    <3>1. p.restarts = pods[r].restarts
      BY SMTT(30), <1>2, <2>4 DEF PodValues, Absent
    <3> QED BY SMTT(30), <1>2, <1>3, <3>1
  <2>5. CASE ContainerRestarts(r) /\ p = [pods[r] EXCEPT !.restarts = @ + 1]
    <3>1. p.restarts = pods[r].restarts + 1
      BY SMTT(30), <1>2, <2>5 DEF PodValues, Absent
    <3> QED BY SMTT(30), <1>2, <1>3, <2>5, <3>1
  <2> QED BY ZenonT(30), <2>1, <2>2, <2>3, <2>4, <2>5 DEF Grown
<1>5. CASE \A r \in Types : ~ContainerRestarts(r)
  <2>1. restarts' = restarts
    <3>1. CASE UNCHANGED vars \/ Environment
      BY Zenon, <1>5, <3>1
      DEF vars, countVars, Environment, ToggleSuspend, Tick, PodStarts, PodFails, Evict, PodGone
    <3>2. CASE Informer \/ Resync \/ StartPass \/ Restart
      BY Zenon, <3>2
      DEF Informer, ObserveCluster, ObservePod, ObserveService, ObserveConfigMap, Delivered,
          Resync, StartPass, Restart, countVars
    <3>3. CASE PassStep
      BY Zenon, <3>3
      DEF PassStep, TearDownPod, TearDownService, RemoveConfigMap, CleanupCluster,
          ReconcileConfigMap, FillConfigMap, FillTemplate, ReconcilePod, ReconcileService,
          UpdateClusterStatus, WriteStatus, InPass
    <3> QED BY Zenon, <3>1, <3>2, <3>3 DEF Next
  <2>2. AccountsFor(a)'
    BY Zenon, <1>4, <1>5, <2>1 DEF AccountsFor
  <2> QED BY Zenon, <2>1, <2>2 DEF RestartsCounted
<1>6. ASSUME NEW u \in Types, ContainerRestarts(u) PROVE RestartsCounted'
  <2>1. restarts' = restarts + 1
    BY Zenon, <1>6 DEF ContainerRestarts
  <2>2. PICK b \in [1..(restarts + 1) -> Types] : \A r \in Types :
          Cardinality(RestartsOf(restarts + 1, b, r)) = count(r) + IF r = u THEN 1 ELSE 0
    BY Zenon, <1>0, OneMoreRestart
  <2>3. ASSUME NEW r \in Types, NEW p \in PodCopies(r)'
        PROVE p.restarts <= Cardinality(RestartsOf(restarts + 1, b, r))
    <3> HIDE DEF count
    <3>1. ASSUME ContainerRestarts(r), r # u PROVE FALSE
      <4>1. /\ pods' = [pods EXCEPT ![r] = [pods[r] EXCEPT !.restarts = @ + 1]]
            /\ pods' = [pods EXCEPT ![u] = [pods[u] EXCEPT !.restarts = @ + 1]]
            /\ pods \in [Types -> PodValues]
        BY ZenonT(30), <1>6, <3>1 DEF ContainerRestarts, PodEvent, SetPod, TypeOK, ChildType
      <4>2. pods'[u] = pods[u] /\ pods'[u].restarts = pods[u].restarts + 1
        BY SMTT(30), <3>1, <4>1 DEF PodValues, Absent
      <4> QED BY SMTT(30), <1>2, <4>2
    <3> QED BY SMTT(30), <1>3, <1>4, <2>2, <3>1
  <2>4. AccountsFor(b)'
    BY Zenon, <2>1, <2>3 DEF AccountsFor
  <2> QED BY Zenon, <2>1, <2>4 DEF RestartsCounted
<1> QED BY Zenon, <1>5, <1>6

LEMMA RestartsInit == ASSUME Init PROVE RestartsCounted
<1>1. pods = NoPods /\ podFeed = <<>> /\ cPods = NoPods /\ wPods = NoPods /\ restarts = 0
  BY Zenon DEF Init
<1>2. \A r \in Types : \A p \in PodCopies(r) : p.restarts = 0
  BY <1>1 DEF PodCopies, NoPods, Absent
<1> DEFINE a == [k \in 1..0 |-> "Head"]
<1>3. a \in [1..restarts -> Types]
  BY <1>1
<1>4. \A r \in Types : Cardinality(RestartsOf(restarts, a, r)) \in Nat
  <2>1. IsFiniteSet(1..0)
    BY FS_Interval
  <2>2. \A r : IsFiniteSet(RestartsOf(restarts, a, r))
    BY ZenonT(30), <1>1, <2>1, FS_Subset DEF RestartsOf
  <2> HIDE DEF a
  <2> QED BY Zenon, <2>2, FS_CardinalityType
<1> HIDE DEF a
<1>5. AccountsFor(a)
  BY SMTT(30), <1>2, <1>4 DEF AccountsFor
<1> QED BY Zenon, <1>3, <1>5 DEF RestartsCounted

(* A PBS Pro cluster that is to restart its pods and that no one toggles   *)
(* or takes pods from fails only by its backoff limit, however many pods   *)
(* fail and restart, calls fail, or the controller restarts.               *)
THEOREM FailsByBackoffOnly ==
  ASSUME Schema = "pbspro"
  PROVE Spec => [](evictions = 0 /\ toggles = 0 => NoEarlyBackoff)
<1> DEFINE Inv == FailuresCounted /\ RestartsCounted /\ BackoffInv
<1>1. Init => Inv
  BY Zenon, BackoffInit, RestartsInit
<1>2. TypeOK /\ LifecycleInv /\ Inv /\ [Next]_vars => Inv'
  <2> SUFFICES ASSUME TypeOK, LifecycleInv, Inv, [Next]_vars PROVE Inv'
    BY Zenon
  <2>1. Calm => ~ExceedsLimit(Resumed(cStatus), cPods)
    <3>1. cStatus \in StatusValues /\ now \in Times
      BY Zenon DEF TypeOK, CacheType, CountType
    <3> QED BY ZenonT(30), <3>1, BranchStatusType, WithinLimits
  <2> QED BY ZenonT(30), <2>1, FailuresStep, RestartsStep, BackoffStep
<1>3. Inv => (evictions = 0 /\ toggles = 0 => NoEarlyBackoff)
  <2> SUFFICES ASSUME BackoffInv, Calm PROVE ~IsFailed(status.conds)
    BY Zenon DEF NoEarlyBackoff, Calm, Excused
  <2> QED BY Zenon DEF BackoffInv, NoneFailed, StatusCopies
<1> HIDE DEF Inv
<1> QED BY <1>1, <1>2, <1>3, LifecycleInductive, PTL DEF Spec
=============================================================================
