--------------------------- MODULE MCClusterConfig ---------------------------
(* Pod templates for the runs of ClusterConfig.                             *)
EXTENDS ClusterConfig, TLC

CONSTANTS p, q

Nothing == [k \in {} |-> 0]
Asks(list) == [requests |-> list, limits |-> Nothing]
Neither == [ctl |-> None, d |-> None]

Plain(ports) == [containers |-> <<Asks("cpu" :> 1500 @@ "memory" :> 1000)>>,
                 initContainers |-> <<>>, overhead |-> None, ports |-> ports]

(* Two containers, an init container that needs more of one resource only, *)
(* and an overhead.                                                        *)
Mixed == [containers |-> <<Asks("cpu" :> 700),
                           [requests |-> ("cpu" :> 800 @@ "memory" :> 100),
                            limits |-> ("cpu" :> 2000 @@ "gpu" :> 1000)]>>,
          initContainers |-> <<Asks("memory" :> 2048 @@ "gpu" :> 1000)>>,
          overhead |-> ("cpu" :> 500), ports |-> Neither]

(* Requests nothing, but has a limit. *)
Limited == [containers |-> <<[requests |-> Nothing, limits |-> ("cpu" :> 500)]>>,
            initContainers |-> <<>>, overhead |-> None, ports |-> Neither]

Cluster(controller, worker) ==
    [type \in Types |-> IF type = "Worker" THEN worker
                        ELSE [ports |-> controller]]

OneTemplate == {Cluster(Neither, Mixed)}

(* Nobody names ports; the controller names both; the workers name one;    *)
(* both types name two, the same or not.                                   *)
SomeTemplates ==
    {Cluster(Neither, Mixed), Cluster([ctl |-> p, d |-> q], Limited),
     Cluster(Neither, Plain([ctl |-> p, d |-> None])),
     Cluster([ctl |-> p, d |-> q], Plain([ctl |-> p, d |-> q])),
     Cluster([ctl |-> p, d |-> q], Plain([ctl |-> q, d |-> p]))}
==============================================================================
