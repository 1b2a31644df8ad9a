--------------------------- MODULE ClusterPromise ---------------------------
(***************************************************************************)
(* What the status of a KubeCluster promises its readers, as if the        *)
(* controller had no cache and no passes: each change of the status is one *)
(* step on the live status and the live spec.                              *)
(***************************************************************************)

VARIABLES exists,   \* whether the cluster exists
          suspend,  \* spec.runPolicy.suspend
          shown     \* which of the conditions below are true

vars == <<exists, suspend, shown>>

Init == exists = TRUE /\ suspend \in BOOLEAN /\ shown = {}

Toggle == exists /\ suspend' = ~suspend /\ UNCHANGED <<exists, shown>>

(* A failed cluster keeps its status. *)
Write(new) == exists /\ "Failed" \notin shown /\ shown' = new /\ UNCHANGED <<exists, suspend>>

(* Running and Restarting displace each other; a cluster that is resumed   *)
(* is no longer shown as suspended.                                        *)
Outcomes ==
  LET base == shown \ {"Suspended"}
  IN {base, (base \ {"Restarting"}) \cup {"Running"}, (base \ {"Running"}) \cup {"Restarting"}}

Suspended == suspend /\ Write((shown \ {"Running"}) \cup {"Suspended"})
Reconciled == ~suspend /\ \E new \in Outcomes : Write(new)
Failed == ~suspend /\ \E new \in Outcomes : Write((new \ {"Running"}) \cup {"Failed"})

Deleted == exists /\ "Failed" \in shown /\ exists' = FALSE /\ UNCHANGED <<suspend, shown>>

Next == Toggle \/ Suspended \/ Reconciled \/ Failed \/ Deleted

Spec == Init /\ [][Next]_vars

(* Never both running and suspended, both running and failed, or both      *)
(* running and restarting.                                                 *)
Exclusive ==
  "Running" \in shown => shown \cap {"Suspended", "Restarting", "Failed"} = {}
=============================================================================
