---------------------------- MODULE ClusterConfig ----------------------------
(***************************************************************************)
(* The config map of a slurm cluster: its slurm.conf, with the ports that  *)
(* the daemons use and one line per node, and the pods that are created    *)
(* from it.                                                                *)
(*                                                                         *)
(* A pass reads the config map from a cache that no event announces,       *)
(* creates or fills it with one API call each, and gives the pods the      *)
(* ports it read or wrote.  The map is written once: later passes only     *)
(* read it.  Pods mount the map that exists under its name.                *)
(*                                                                         *)
(* Pods are those of one worker type; their deletion is one step           *)
(* (ReplicaControl has them one by one).                                   *)
(***************************************************************************)
EXTENDS Integers, Sequences, FiniteSetsExt

CONSTANTS MaxReplicas,  \* bound: replicas a user asks for
          MaxEdits,     \* bound: changes of the spec by users
          MaxMaps,      \* bound: incarnations of the config map
          MaxFaults,    \* bound: failed calls and restarts of the controller
          TimeOuts,     \* whether creating the config map may time out
          Ports,        \* the ports to draw from
          Templates,    \* what clusters may have as pod templates of their types
          None

ASSUME BoundsAssumption ==
    /\ MaxReplicas \in Nat /\ MaxEdits \in Nat /\ MaxMaps \in Nat /\ MaxFaults \in Nat
    /\ TimeOuts \in BOOLEAN

(* The API server refuses a template with a negative quantity. *)
IsResourceList(list) ==
    /\ list = [name \in DOMAIN list |-> list[name]]
    /\ \A name \in DOMAIN list : list[name] \in Nat
AreContainers(cs) ==
    /\ IsFiniteSet(DOMAIN cs)
    /\ \A k \in DOMAIN cs : IsResourceList(cs[k].requests) /\ IsResourceList(cs[k].limits)

(* A template names each of the two ports, or leaves it out. *)
ASSUME TemplatesAssumption ==
    /\ None \notin Ports
    /\ \A t \in Templates :
         /\ t["Controller"].ports \in [ctl : Ports \cup {None}, d : Ports \cup {None}]
         /\ t["Worker"].ports \in [ctl : Ports \cup {None}, d : Ports \cup {None}]
         /\ AreContainers(t["Worker"].containers) /\ AreContainers(t["Worker"].initContainers)
         /\ t["Worker"].overhead # None => IsResourceList(t["Worker"].overhead)

Quota == INSTANCE ResourceLists

VARIABLES templates, \* pod templates of the controller and the workers; never change
          spec,      \* [suspend, replicas, generation]
          cluster,   \* the cached copy of spec
          cm,        \* the config map in the API server, or None
          cCm,       \* the cached config map, or None
          maps,      \* incarnations of the config map so far
          pods,      \* [Indices -> pod or None]
          cPods,     \* indices of the pods in the cache
          queued, pc,
          w,         \* what the pass works with, or None
          faults

vars == <<templates, spec, cluster, cm, cCm, maps, pods, cPods, queued,
          pc, w, faults>>

Indices == 0 .. MaxReplicas - 1

-----------------------------------------------------------------------------
(* The lines of slurm.conf.                                                *)

EmptyList == [k \in {} |-> 0]

Requests(cs) == [k \in DOMAIN cs |-> cs[k].requests]

(* Mutant of getResourceRequestList: init containers run beside the others. *)
getResourceRequestListSum(t) ==
    LET all == FoldFunction(Quota!Add, EmptyList, Requests(t.containers \o t.initContainers)) IN
    IF t.overhead = None THEN all ELSE Quota!Add(all, t.overhead)

(* What a pod requests: all containers together, or more if one of the     *)
(* init containers needs it, and the overhead.  The order of the lists     *)
(* makes no difference.  Limits are not looked at.                         *)
getResourceRequestList(t) ==
    LET sum == FoldFunction(Quota!Add, EmptyList, Requests(t.containers))
        most == FoldFunction(Quota!Max, sum, Requests(t.initContainers))
    IN IF t.overhead = None THEN most ELSE Quota!Add(most, t.overhead)

Quantity(list, name) == IF name \in DOMAIN list THEN list[name] ELSE 0

(* Cpu and gpu are in thousandths, memory is in MiB: bytes * 1000 / 2^30 is *)
(* MiB * 1000 / 2^10.                                                      *)
getResourceRequest(list) ==
    LET cpu == Quantity(list, "cpu")
        memory == IF Quantity(list, "memory") = 0 THEN 32 * 1024
                  ELSE Quantity(list, "memory")
    IN [cpus |-> IF cpu = 0 THEN 8 ELSE cpu \div 1000,
        realMemory |-> (memory * 1000) \div 1024,
        gpus |-> Quantity(list, "gpu") \div 1000]

NodeOf == [t \in Templates |-> getResourceRequest(getResourceRequestList(t["Worker"]))]

(* The controller gets no line. *)
createSlurmConfNodes(s) == [i \in 0 .. s.replicas - 1 |-> NodeOf[templates]]

-----------------------------------------------------------------------------
(* The ports of slurmctld and slurmd.                                      *)

Types == {"Controller", "Worker"}
Pairs == [ctl : Ports, d : Ports]

genSlurmRandomPort == {p \in Pairs : p.ctl # p.d}

(* The ports of a type whose template names both: of the first one in the  *)
(* order of a Go map, so of any.                                           *)
getSlurmPortsFromSpec(t) ==
    {t[type].ports : type \in {x \in Types : t[x].ports.ctl # None /\ t[x].ports.d # None}}

(* Mutant of genSlurmPorts: what the workers' template names, or not.      *)
genSlurmPortsUnchecked(t) == {t["Worker"].ports}

(* The ports of a new slurm.conf: those of the spec, or else random ones.  *)
genSlurmPorts(t) ==
    IF getSlurmPortsFromSpec(t) = {} THEN genSlurmRandomPort ELSE getSlurmPortsFromSpec(t)

(* A template keeps a port that it names, and gets the other.              *)
setSlurmDefaultPorts(named, p) ==
    [ctl |-> IF named.ctl = None THEN p.ctl ELSE named.ctl,
     d |-> IF named.d = None THEN p.d ELSE named.d]

genSlurmConf(s, p) == [ports |-> p, nodes |-> createSlurmConfNodes(s)]

-----------------------------------------------------------------------------

Confs == [ports : Pairs, nodes : {[i \in 0 .. n - 1 |-> NodeOf[t]] :
                                   n \in 1 .. MaxReplicas, t \in Templates}]
Maps == [uid : 0 .. MaxMaps, owned : BOOLEAN, conf : Confs \cup {None}]
Specs == [suspend : BOOLEAN, replicas : 1 .. MaxReplicas, generation : 0 .. MaxEdits]
Stages == {"idle", "getConfigMap", "create", "fill", "pods", "endPass",
           "deletePods", "deleteConfigMap"}

TypeOK ==
    /\ templates \in Templates
    /\ spec \in Specs /\ cluster \in Specs
    /\ cm \in Maps \cup {None} /\ cCm \in Maps \cup {None} /\ maps \in 0 .. MaxMaps
    /\ pods \in [Indices -> [env : Pairs, ports : Pairs, dying : BOOLEAN] \cup {None}]
    /\ cPods \subseteq Indices
    /\ queued \in BOOLEAN /\ pc \in Stages
    /\ w \in {None} \cup
             [spec : Specs, pods : SUBSET Indices, cm : Maps \cup {None}, hasUID : BOOLEAN]
    /\ faults \in 0 .. MaxFaults

Init ==
    /\ templates \in Templates
    /\ spec \in [suspend : {FALSE}, replicas : 1 .. MaxReplicas, generation : {0}]
    /\ cluster = spec
    /\ cm = None /\ cCm = None /\ maps = 0
    /\ pods = [i \in Indices |-> None] /\ cPods = {}
    /\ queued = TRUE /\ pc = "idle" /\ w = None /\ faults = 0

-----------------------------------------------------------------------------
(* The pass.                                                               *)

To(stage) == pc' = stage /\ UNCHANGED <<w, queued>>
With(stage, work) == pc' = stage /\ w' = work /\ UNCHANGED queued
Finish == pc' = "idle" /\ w' = None /\ UNCHANGED queued
Fail == pc' = "idle" /\ w' = None /\ queued' = TRUE    \* rate-limited requeue

NoFault == UNCHANGED faults
Fault == faults < MaxFaults /\ faults' = faults + 1

StartPass ==
    /\ pc = "idle" /\ queued /\ queued' = FALSE
    /\ w' = [spec |-> cluster, pods |-> cPods, cm |-> None, hasUID |-> TRUE]
    /\ pc' = IF cluster.suspend THEN "deletePods" ELSE "getConfigMap"
    /\ UNCHANGED <<templates, spec, cluster, cm, cCm, maps, pods, cPods,
                   faults>>

(* Mutant of needReconcileConfigMap: the test for the key "ready" reversed. *)
needReconcileConfigMapReversed(c) == c.conf # None

(* slurm.conf and the key "ready" are written together.                    *)
needReconcileConfigMap(c) == c.conf = None

Reconcile(c) ==
    With(IF needReconcileConfigMap(c) THEN "fill" ELSE "pods", [w EXCEPT !.cm = c])

(* A map of that name which the cluster does not control is an error.      *)
GetConfigMapForCluster ==
    /\ pc = "getConfigMap"
    /\ \/ cCm = None /\ To("create")
       \/ cCm # None /\ cCm.owned /\ Reconcile(cCm)
       \/ cCm # None /\ ~cCm.owned /\ Fail
    /\ UNCHANGED <<templates, spec, cluster, cm, cCm, maps, pods, cPods,
                   faults>>

Born == maps < MaxMaps /\ maps' = maps + 1
        /\ cm' = [uid |-> maps + 1, owned |-> TRUE, conf |-> None]
NotBorn == UNCHANGED <<cm, maps>>

(* The pass goes on with what the API server answered; after a time-out it *)
(* goes on with the map as it was before the call, which has no resource   *)
(* version and no owner, even if the cache has missed that there is one.   *)
CreateNewConfigMap ==
    /\ pc = "create"
    /\ \/ cm = None /\ Born /\ NoFault /\ Reconcile(cm')
       \/ cm # None /\ NotBorn /\ NoFault /\ Fail
       \/ NotBorn /\ Fault /\ Fail
       \/ cm = None /\ Born /\ Fault /\ Fail
       \/ /\ TimeOuts /\ Fault
          /\ (cm = None /\ Born) \/ NotBorn
          /\ Reconcile([uid |-> 0, owned |-> FALSE, conf |-> None])
    /\ UNCHANGED <<templates, spec, cluster, cCm, pods, cPods>>

(* Mutant of Accepts: the resource version is not sent. *)
AcceptsAny(c) == cm # None

(* The API server takes an update of the version it has, or one without    *)
(* resource version.                                                       *)
Accepts(c) == cm # None /\ (c.uid = 0 \/ c = cm)

Filled(c, p) == [uid |-> cm.uid, owned |-> c.owned, conf |-> genSlurmConf(w.spec, p)]

(* Mutant of UpdateConfigMapInApiServer: works on a copy of the cluster and *)
(* does not return the error.                                              *)
UpdateConfigMapIgnoringErrors ==
    /\ pc = "fill"
    /\ \E p \in genSlurmPorts(templates) :
         /\ cm' = IF Accepts(w.cm) THEN Filled(w.cm, p) ELSE cm
         /\ With("pods", [w EXCEPT !.cm.conf = genSlurmConf(w.spec, p)])
    /\ UNCHANGED <<templates, spec, cluster, cCm, maps, pods, cPods, faults>>

(* It also clears the UID of the cluster that the pass works with.         *)
UpdateConfigMapInApiServer ==
    /\ pc = "fill"
    /\ \E p \in genSlurmPorts(templates) :
         \/ /\ Accepts(w.cm) /\ cm' = Filled(w.cm, p) /\ NoFault
            /\ With("pods", [w EXCEPT !.cm = cm', !.hasUID = FALSE])
         \/ ~Accepts(w.cm) /\ UNCHANGED cm /\ NoFault /\ Fail
         \/ UNCHANGED cm /\ Fault /\ Fail
         \/ Accepts(w.cm) /\ cm' = Filled(w.cm, p) /\ Fault /\ Fail
    /\ UNCHANGED <<templates, spec, cluster, cCm, maps, pods, cPods>>

Missing == {i \in 0 .. w.spec.replicas - 1 : i \notin w.pods}
Surplus == {i \in w.pods : i >= w.spec.replicas}

(* The pods of the indices in S get a deletion timestamp. *)
Terminate(S) ==
    pods' = [i \in Indices |-> IF i \in S /\ pods[i] # None
                               THEN [pods[i] EXCEPT !.dying = TRUE] ELSE pods[i]]

(* The lines with the two ports are looked for; without them it is an      *)
(* error.                                                                  *)
getSlurmPortsFromConf(conf) == IF conf = None THEN None ELSE conf.ports

(* A pod needs the ports of slurm.conf, an owner with a UID and a name     *)
(* that is free.  Its environment has the ports of slurm.conf, its         *)
(* container those of the template, which got the same ones if it named    *)
(* none.                                                                   *)
CreateNewPod(i) ==
    LET ports == getSlurmPortsFromConf(w.cm.conf) IN
    \/ /\ ports # None /\ w.hasUID /\ pods[i] = None /\ NoFault
       /\ pods' = [pods EXCEPT ![i] =
                     [env |-> ports, dying |-> FALSE,
                      ports |-> setSlurmDefaultPorts(templates["Worker"].ports, ports)]]
       /\ With("pods", [w EXCEPT !.pods = @ \cup {i}])
    \/ /\ ports = None \/ ~w.hasUID \/ pods[i] # None
       /\ UNCHANGED pods /\ NoFault /\ Fail
    \/ UNCHANGED pods /\ Fault /\ Fail

(* One call each, in the order of the indices.                             *)
ReconcilePods ==
    /\ pc = "pods"
    /\ \/ \E i \in Missing : (\A j \in Missing : i <= j) /\ CreateNewPod(i)
       \/ Missing = {} /\ Terminate(Surplus) /\ To("endPass") /\ NoFault
    /\ UNCHANGED <<templates, spec, cluster, cm, cCm, maps, cPods>>

(* The status is always written; that is refused if the cached cluster was *)
(* not the latest.                                                         *)
EndPass ==
    /\ pc = "endPass"
    /\ IF w.spec = spec THEN Finish ELSE Fail
    /\ UNCHANGED <<templates, spec, cluster, cm, cCm, maps, pods, cPods,
                   faults>>

(* CleanUpResources of a suspended cluster.                                *)
DeletePods ==
    /\ pc = "deletePods"
    /\ Terminate(w.pods)
    /\ To("deleteConfigMap")
    /\ UNCHANGED <<templates, spec, cluster, cm, cCm, maps, cPods, faults>>

(* Asks the API server, not the cache.  The status is written, if it does  *)
(* not say Suspended yet.                                                  *)
DeleteConfigMap ==
    /\ pc = "deleteConfigMap"
    /\ \/ cm' = None /\ NoFault /\ (Finish \/ (w.spec # spec /\ Fail))
       \/ UNCHANGED cm /\ Fault /\ Fail
    /\ UNCHANGED <<templates, spec, cluster, cCm, maps, pods, cPods>>

-----------------------------------------------------------------------------
(* Users, kubelets, informers, restarts.                                   *)

Edit(suspend, replicas) ==
    /\ spec.generation < MaxEdits
    /\ <<suspend, replicas>> # <<spec.suspend, spec.replicas>>
    /\ spec' = [suspend |-> suspend, replicas |-> replicas,
                generation |-> spec.generation + 1]
    /\ UNCHANGED <<templates, cluster, cm, cCm, maps, pods, cPods,
                   queued, pc, w, faults>>

PodGone(i) ==
    /\ pods[i] # None /\ pods[i].dying
    /\ pods' = [pods EXCEPT ![i] = None]
    /\ UNCHANGED <<templates, spec, cluster, cm, cCm, maps, cPods,
                   queued, pc, w, faults>>

DeliverCluster ==
    /\ cluster # spec
    /\ cluster' = spec /\ queued' = TRUE
    /\ UNCHANGED <<templates, spec, cm, cCm, maps, pods, cPods, pc, w,
                   faults>>

Existing == {i \in Indices : pods[i] # None}

DeliverPods ==
    /\ cPods # Existing
    /\ cPods' = Existing /\ queued' = TRUE
    /\ UNCHANGED <<templates, spec, cluster, cm, cCm, maps, pods, pc, w,
                   faults>>

(* SetupWithManager watches no config maps: the cache follows, and nobody  *)
(* is told.                                                                *)
DeliverConfigMap ==
    /\ cCm # cm
    /\ cCm' = cm
    /\ UNCHANGED <<templates, spec, cluster, cm, maps, pods, cPods,
                   queued, pc, w, faults>>

(* The informer's periodic resync sends an update event for the cluster.   *)
Resync ==
    /\ ~queued /\ pc = "idle"
    /\ queued' = TRUE
    /\ UNCHANGED <<templates, spec, cluster, cm, cCm, maps, pods, cPods,
                   pc, w, faults>>

Crash ==
    /\ Fault
    /\ cluster' = spec /\ cCm' = cm /\ cPods' = Existing
    /\ queued' = TRUE /\ pc' = "idle" /\ w' = None
    /\ UNCHANGED <<templates, spec, cm, maps, pods>>

PassStep ==
    \/ StartPass \/ GetConfigMapForCluster \/ CreateNewConfigMap
    \/ UpdateConfigMapInApiServer \/ ReconcilePods \/ EndPass
    \/ DeletePods \/ DeleteConfigMap

Next ==
    \/ PassStep
    \/ \E suspend \in BOOLEAN, replicas \in 1 .. MaxReplicas : Edit(suspend, replicas)
    \/ \E i \in Indices : PodGone(i)
    \/ DeliverCluster \/ DeliverPods \/ DeliverConfigMap \/ Resync
    \/ Crash

Spec == Init /\ [][Next]_vars

(* The worker and the informers go on, the resync comes, and kubelets end  *)
(* terminating pods.                                                       *)
FairSpec ==
    /\ Spec
    /\ WF_vars(PassStep) /\ WF_vars(\E i \in Indices : PodGone(i))
    /\ WF_vars(DeliverCluster) /\ WF_vars(DeliverPods)
    /\ WF_vars(DeliverConfigMap) /\ WF_vars(Resync)

-----------------------------------------------------------------------------
(* Properties.                                                             *)

(* A config map of the cluster, once filled, keeps its slurm.conf, though  *)
(* a pass that still sees it empty in the cache draws new ports and writes *)
(* it again (ReconcileConfigMap).  Only a pass whose creation timed out    *)
(* overwrites it, and then it is not the cluster's any more.               *)
ConfWrittenOnce ==
    [][cm # None /\ cm.conf # None /\ cm' # None /\ cm'.uid = cm.uid /\ cm'.owned
       => cm' = cm]_vars

(* The workers' template names no port, or both, and no other type two     *)
(* others.                                                                 *)
PortsAreClear(t) ==
    \/ t["Worker"].ports = [ctl |-> None, d |-> None]
    \/ getSlurmPortsFromSpec(t) = {t["Worker"].ports}

(* The environment of the pods has the ports of the slurm.conf that they   *)
(* mount, and so have their containers if the templates are clear about    *)
(* them; those of a cluster that was never scaled are nodes of it.  This   *)
(* is so while the map is the first of the cluster, and the cluster's own  *)
(* (a pass whose creation timed out may have overwritten it).  For a       *)
(* cluster that was suspended and resumed it takes one pair of ports in    *)
(* the spec: a pass may still see the map that was deleted                 *)
(* (SetClusterSpec, setSlurmPorts).                                        *)
PodsAgreeWithConf ==
    \A i \in Indices :
        /\ pods[i] # None /\ cm # None
        /\ \/ maps = 1 /\ cm.owned
           \/ cm.conf # None /\ \E p \in Pairs : getSlurmPortsFromSpec(templates) = {p}
        => /\ cm.conf # None /\ pods[i].env = cm.conf.ports
           /\ PortsAreClear(templates) => pods[i].ports = cm.conf.ports
           /\ spec.generation = 0 => i \in DOMAIN cm.conf.nodes

SumOf(lists, name) == FoldFunction(LAMBDA list, n : Quantity(list, name) + n, 0, lists)

QuantitiesOf(lists, name) == {Quantity(lists[k], name) : k \in DOMAIN lists}

(* The API server completes the requests of a pod from its limits.         *)
Completed(cs) ==
    [k \in DOMAIN cs |-> [name \in DOMAIN cs[k].requests \cup DOMAIN cs[k].limits |->
        IF name \in DOMAIN cs[k].requests THEN cs[k].requests[name] ELSE cs[k].limits[name]]]

(* What the Kubernetes scheduler reserves for a pod with these lists.      *)
Demand(lists, initLists, overhead, name) ==
    Max(QuantitiesOf(initLists, name) \cup {SumOf(lists, name)})
    + (IF overhead = None THEN 0 ELSE Quantity(overhead, name))

Resources == {"cpu", "memory", "gpu"}

Requested ==
    [t \in Templates |-> [name \in Resources |->
        Demand(Requests(t["Worker"].containers), Requests(t["Worker"].initContainers),
               t["Worker"].overhead, name)]]
Reserved ==
    [t \in Templates |-> [name \in Resources |->
        Demand(Completed(t["Worker"].containers), Completed(t["Worker"].initContainers),
               t["Worker"].overhead, name)]]

(* The node lines offer what the templates request, rounded down, and not  *)
(* more than the scheduler reserves for the pod behind the node            *)
(* (createSlurmConfNodesByReplica).  If nothing is requested they have the *)
(* defaults, though limits alone also reserve something.                   *)
NodesOfferWhatIsReserved ==
    cm # None /\ cm.conf # None => \A i \in DOMAIN cm.conf.nodes :
        LET node == cm.conf.nodes[i]
            requested == Requested[templates]
            reserved == Reserved[templates]
        IN /\ node.cpus = IF requested["cpu"] = 0 THEN 8 ELSE requested["cpu"] \div 1000
           /\ requested["cpu"] # 0 => node.cpus * 1000 <= reserved["cpu"]
           /\ requested["memory"] # 0 => node.realMemory * 1024 <= reserved["memory"] * 1000
           /\ node.gpus * 1000 <= reserved["gpu"]

Up == /\ cm # None /\ cm.owned /\ cm.conf # None
      /\ \A i \in Indices : IF i < spec.replicas
                            THEN pods[i] # None /\ ~pods[i].dying
                            ELSE pods[i] = None

(* A cluster that stays unsuspended gets its filled config map and all its *)
(* pods, though the pass that fills the map can create none of them and a  *)
(* call may fail or the controller stop between any two steps.  Except     *)
(* that a map without owner stays one.                                     *)
ConfigSettles == <>[]~spec.suspend /\ [](cm # None => cm.owned) => <>[]Up

(* The comment in CreateNewConfigMap on a creation that timed out: "If the *)
(* initialization is successful eventually, the controller will observe    *)
(* the creation via the informer."  So a time-out does not keep a cluster  *)
(* from getting its config map and its pods.                               *)
TimeOutIsOvercome == <>[]~spec.suspend => <>[]Up
==============================================================================
