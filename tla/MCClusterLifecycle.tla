------------------------- MODULE MCClusterLifecycle -------------------------
(* The runs of ClusterLifecycle.  Every bound and policy is a number, a    *)
(* string or a set the configurations give directly.                       *)
EXTENDS LifecyclePromise
=============================================================================
