-------------------------- MODULE MCReplicaControl --------------------------
(* Bounds of the runs that check ReplicaControl. *)
EXTENDS ReplicaControl

AnyCount == 1..MaxReplicas
=============================================================================
