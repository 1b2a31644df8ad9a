-------------------------- MODULE LifecyclePromise --------------------------
(***************************************************************************)
(* ClusterLifecycle implements ClusterPromise: the passes of the           *)
(* controller, each on copies of its own, change the status as if every    *)
(* write were a single step on the live cluster.                           *)
(***************************************************************************)
EXTENDS ClusterLifecycle

(* The types of the conditions that are true, of those a reader acts on. *)
Shown(conds) ==
  {type \in {"Running", "Restarting", "Suspended", "Failed"} : isStatusConditionTrue(conds, type)}

Promise == INSTANCE ClusterPromise WITH exists <- exists, suspend <- suspend,
                                        shown <- Shown(status.conds)

(* Though a pass decides on a cached copy and writes many steps later, the *)
(* status changes as if every write were one step on the live cluster:     *)
(* Suspended is only shown for a cluster that is asked to be suspended     *)
(* then, Running, Restarting and Failed only for one that is not, and what *)
(* was shown is otherwise kept (ReconcileKubeCluster, and the resource     *)
(* version that guards its status update).                                 *)
ImplementsPromise == Promise!Spec

(* A live status that shows Running shows neither Suspended, Restarting    *)
(* nor Failed, however passes that suspend, resume, restart and fail the   *)
(* cluster follow on each other (UpdateClusterConditions).                 *)
StatusExclusive == Promise!Exclusive

-----------------------------------------------------------------------------
(* The inductive strengthening: how the status that a pass holds differs   *)
(* from the live one, as long as the pass may still write it.              *)

Held == Shown(wStatus.conds)
Live == Shown(status.conds)

SuspendsOnRequest ==
  wCurrent => /\ mode = "suspended" => suspend
              /\ mode \in {"limit", "normal"} => ~suspend

WhileSuspended ==
  wCurrent /\ mode = "suspended" =>
    Held = IF pc = "write" THEN (Live \ {"Running"}) \cup {"Suspended"} ELSE Live
WhileOverLimit ==
  wCurrent /\ mode = "limit" =>
    Held = IF pc = "write" THEN (Live \ {"Suspended", "Running"}) \cup {"Failed"}
                           ELSE Live \ {"Suspended"}
WhileNormal ==
  wCurrent /\ mode = "normal" =>
    \/ Held \in Promise!Outcomes
    \/ \E new \in Promise!Outcomes : Held = (new \ {"Running"}) \cup {"Failed"}

PromiseInv == SuspendsOnRequest /\ WhileSuspended /\ WhileOverLimit /\ WhileNormal
=============================================================================
