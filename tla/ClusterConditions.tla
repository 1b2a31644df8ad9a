------------------------- MODULE ClusterConditions -------------------------
(***************************************************************************)
(* The condition list of a cluster's status: pkg/util/status.go.           *)
(*                                                                         *)
(* The list is a set of conditions here.  Nothing in the controller reads  *)
(* the order of the list, and timestamps and messages are left out.  That  *)
(* a list has at most one condition of each type is not built into this    *)
(* representation: it is a property of setCondition.                       *)
(***************************************************************************)

ConditionTypes == {"Created", "Running", "Restarting", "Suspended", "Failed"}
Reasons == {"Created", "Running", "Restarting", "Suspended", "Failed"}
Conditions == [type : ConditionTypes, status : BOOLEAN, reason : Reasons]

isStatusConditionTrue(conds, type) == \E c \in conds : c.type = type /\ c.status
IsFailed(conds) == isStatusConditionTrue(conds, "Failed")
IsFinished(conds) == IsFailed(conds)
IsRunning(conds) == isStatusConditionTrue(conds, "Running")
IsSuspended(conds) == isStatusConditionTrue(conds, "Suspended")
HasCondition(conds, type) == \E c \in conds : c.type = type

(* Running and Restarting displace each other. *)
Displaced(type) ==
  {type} \cup (IF type = "Running" THEN {"Restarting"} ELSE {})
         \cup (IF type = "Restarting" THEN {"Running"} ELSE {})

(* Mutant of filterOutCondition: Running does not displace Restarting. *)
filterOutSameType(conds, type) == {c \in conds : c.type # type}

(* The conditions that stay when one of this type is added; a cluster that *)
(* fails stops running.                                                    *)
filterOutCondition(conds, type) ==
  {IF type = "Failed" /\ c.type = "Running" THEN [c EXCEPT !.status = FALSE] ELSE c :
     c \in {d \in conds : d.type \notin Displaced(type)}}

(* Nothing is added to a failed cluster, nor a condition it has already. *)
setCondition(conds, cond) ==
  IF IsFailed(conds) \/ cond \in conds
    THEN conds
    ELSE filterOutCondition(conds, cond.type) \cup {cond}

UpdateClusterConditions(conds, type, status, reason) ==
  setCondition(conds, [type |-> type, status |-> status, reason |-> reason])

(* What a reader of a status may rely on: at most one condition of each    *)
(* type, never both running and restarting, and a failed cluster does not  *)
(* claim to run.                                                           *)
WellFormed(conds) ==
  /\ \A c, d \in conds : c.type = d.type => c = d
  /\ ~(HasCondition(conds, "Running") /\ HasCondition(conds, "Restarting"))
  /\ IsFailed(conds) => ~IsRunning(conds)
=============================================================================
