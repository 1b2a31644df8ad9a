---------------------------- MODULE MCGangLaunch ----------------------------
(* The runs of GangLaunch: the bounds are numbers the configurations give. *)
EXTENDS GangLaunch

Nothing == [k \in {} |-> 0]
Cpu(n) == [k \in {"cpu"} |-> n]
CpuAndMemory(n) == [k \in {"cpu", "memory"} |-> n]

(* Containers with requests, with limits only, with an empty map of        *)
(* requests, and with neither.                                             *)
Mixed == <<[requests |-> Cpu(1), limits |-> Cpu(5)],
           [requests |-> None, limits |-> CpuAndMemory(2)]>>
Bare == <<[requests |-> Nothing, limits |-> Cpu(3)],
          [requests |-> None, limits |-> None],
          [requests |-> CpuAndMemory(4), limits |-> None]>>

(* A controller with a priority class, which no pass finds, and workers.   *)
Cluster(controller, worker, workers) ==
    [t \in {"Controller", "Worker"} |->
        IF t = "Controller"
        THEN [priorityClass |-> "high", replicas |-> 1, containers |-> controller]
        ELSE [priorityClass |-> None, replicas |-> workers, containers |-> worker]]

(* All pods together, and two of three. *)
TwoSizes ==
    [name \in {"all", "some"} |->
        IF name = "all"
        THEN [specs |-> Cluster(Mixed, Bare, 1), minAvailable |-> None]
        ELSE [specs |-> Cluster(Bare, Bare, 2), minAvailable |-> 2]]

OneSize == [name \in {"all"} |-> TwoSizes["all"]]
=============================================================================
