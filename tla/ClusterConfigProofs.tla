------------------------- MODULE ClusterConfigProofs -------------------------
(***************************************************************************)
(* A config map keeps the slurm.conf it was filled with, and the pods agree *)
(* with it, for every number of replicas, edits, faults and pairs of ports. *)
(***************************************************************************)
EXTENDS ClusterConfig, DataProofs

(* The numbers of incarnations, and what a pass under way works with. *)
Shape ==
    /\ maps \in Nat
    /\ cm # None => cm.uid \in Nat \ {0}
    /\ cCm # None => cCm.uid \in Nat \ {0}
    /\ pc # "idle" =>
         w = [spec |-> w.spec, pods |-> w.pods, cm |-> w.cm, hasUID |-> w.hasUID]

(* A pass that is about to fill a map works with an empty one.  If that    *)
(* one has no version, because its creation timed out, it has no owner     *)
(* either.                                                                 *)
FillsEmpty ==
    pc = "fill" => w.cm.conf = None /\ (w.cm.uid = 0 => ~w.cm.owned)

ConfInv == Shape /\ FillsEmpty

LEMMA InitConf == Init => ConfInv
BY DEF Init, ConfInv, Shape, FillsEmpty

(* Steps that touch neither the config map nor the pass. *)
LEMMA OtherConf ==
    ASSUME ConfInv, UNCHANGED <<cm, cCm, maps, pc, w>>
    PROVE  ConfInv'
BY Zenon DEF ConfInv, Shape, FillsEmpty

(* Steps of the pass that leave the maps alone and do not go on to fill. *)
LEMMA PassConf ==
    ASSUME ConfInv, UNCHANGED <<cCm, maps>>, cm' = cm \/ cm' = None, pc' # "fill",
           \/ pc' = "idle"
           \/ pc # "idle" /\ w' = w
           \/ \E s, p, c, h : w' = [spec |-> s, pods |-> p, cm |-> c, hasUID |-> h]
    PROVE  ConfInv'
BY Zenon DEF ConfInv, Shape, FillsEmpty

LEMMA GetConf == ConfInv /\ GetConfigMapForCluster => ConfInv'
<1> SUFFICES ASSUME ConfInv, GetConfigMapForCluster PROVE ConfInv'
  BY Zenon
<1>1. UNCHANGED <<cm, cCm, maps>> /\ pc = "getConfigMap"
  BY Zenon DEF GetConfigMapForCluster
<1>2. CASE To("create") \/ Fail
  BY Zenon, <1>1, <1>2, PassConf DEF To, Fail
<1>3. CASE cCm # None /\ Reconcile(cCm)
  <2>1. w' = [spec |-> w.spec, pods |-> w.pods, cm |-> cCm, hasUID |-> w.hasUID]
    BY Zenon, <1>1, <1>3 DEF Reconcile, With, ConfInv, Shape
  <2>2. pc' = "fill" => cCm.conf = None
    BY Zenon, <1>3 DEF Reconcile, With, needReconcileConfigMap
  <2>3. w'.cm = cCm /\ cCm.uid \in Nat \ {0}
    BY Zenon, <1>3, <2>1 DEF ConfInv, Shape
  <2> QED
    BY Zenon, <1>1, <2>1, <2>2, <2>3 DEF ConfInv, Shape, FillsEmpty
<1> QED
  BY Zenon, <1>2, <1>3 DEF GetConfigMapForCluster

LEMMA CreateConf == ConfInv /\ CreateNewConfigMap => ConfInv'
<1> SUFFICES ASSUME ConfInv, CreateNewConfigMap PROVE ConfInv'
  BY Zenon
<1>1. UNCHANGED cCm /\ pc = "create" /\ maps \in Nat
  BY Zenon DEF CreateNewConfigMap, ConfInv, Shape
<1>2. CASE NotBorn /\ Fail
  BY Zenon, <1>1, <1>2, PassConf DEF NotBorn, Fail
<1>3. CASE Born /\ Fail
  BY <1>1, <1>3 DEF Born, Fail, ConfInv, Shape, FillsEmpty
<1>4. CASE Born /\ Reconcile(cm')
  <2>1. w' = [spec |-> w.spec, pods |-> w.pods, cm |-> cm', hasUID |-> w.hasUID]
    BY Zenon, <1>1, <1>4 DEF Reconcile, With, ConfInv, Shape
  <2>2. cm'.uid \in Nat \ {0} /\ cm'.conf = None /\ maps' \in Nat
    BY <1>1, <1>4 DEF Born
  <2> QED
    BY Zenon, <1>1, <2>1, <2>2 DEF ConfInv, Shape, FillsEmpty
<1>5. CASE (Born \/ NotBorn) /\ Reconcile([uid |-> 0, owned |-> FALSE, conf |-> None])
  <2>1. w' = [spec |-> w.spec, pods |-> w.pods,
              cm |-> [uid |-> 0, owned |-> FALSE, conf |-> None], hasUID |-> w.hasUID]
    BY Zenon, <1>1, <1>5 DEF Reconcile, With, ConfInv, Shape
  <2>2. cm' # None => cm'.uid \in Nat \ {0}
    BY <1>1, <1>5 DEF Born, NotBorn, ConfInv, Shape
  <2>3. maps' \in Nat
    BY <1>1, <1>5 DEF Born, NotBorn
  <2> QED
    BY Zenon, <1>1, <2>1, <2>2, <2>3 DEF ConfInv, Shape, FillsEmpty
<1> QED
  BY Zenon, <1>2, <1>3, <1>4, <1>5 DEF CreateNewConfigMap

(* What an accepted update replaces is empty, or else has no owner after.  *)
LEMMA AcceptedIsEmpty ==
    ASSUME ConfInv, pc = "fill", Accepts(w.cm)
    PROVE  ~w.cm.owned \/ (cm.conf = None /\ cm.owned)
BY Zenon DEF ConfInv, FillsEmpty, Accepts

LEMMA FillConf == ConfInv /\ UpdateConfigMapInApiServer => ConfInv'
<1> SUFFICES ASSUME ConfInv, UpdateConfigMapInApiServer PROVE ConfInv'
  BY Zenon
<1>1. UNCHANGED <<cCm, maps>> /\ pc = "fill"
  BY Zenon DEF UpdateConfigMapInApiServer
<1>2. CASE UNCHANGED cm /\ Fail
  BY Zenon, <1>1, <1>2, PassConf DEF Fail
<1>3. ASSUME NEW p, Accepts(w.cm), cm' = Filled(w.cm, p),
             Fail \/ With("pods", [w EXCEPT !.cm = cm', !.hasUID = FALSE])
      PROVE  ConfInv'
  <2>1. cm'.uid \in Nat \ {0}
    BY Zenon, <1>3 DEF Accepts, Filled, ConfInv, Shape
  <2>2. pc' = "idle" \/ (pc' = "pods" /\
          w' = [spec |-> w.spec, pods |-> w.pods, cm |-> cm', hasUID |-> FALSE])
    BY Zenon, <1>1, <1>3 DEF Fail, With, ConfInv, Shape
  <2> QED
    BY Zenon, <1>1, <2>1, <2>2 DEF ConfInv, Shape, FillsEmpty
<1> QED
  BY Zenon, <1>2, <1>3 DEF UpdateConfigMapInApiServer

LEMMA PodsConf == ConfInv /\ ReconcilePods => ConfInv'
<1> SUFFICES ASSUME ConfInv, ReconcilePods PROVE ConfInv'
  BY Zenon
<1>1. UNCHANGED <<cm, cCm, maps>> /\ pc = "pods"
  BY Zenon DEF ReconcilePods
<1>2. CASE Fail \/ To("endPass")
  BY Zenon, <1>1, <1>2, PassConf DEF Fail, To
<1>3. ASSUME NEW i, With("pods", [w EXCEPT !.pods = @ \cup {i}]) PROVE ConfInv'
  <2>1. w' = [spec |-> w.spec, pods |-> w.pods \cup {i}, cm |-> w.cm, hasUID |-> w.hasUID]
    BY Zenon, <1>1, <1>3 DEF With, ConfInv, Shape
  <2>2. pc' = "pods"
    BY Zenon, <1>3 DEF With
  <2> QED
    BY Zenon, <1>1, <2>1, <2>2, PassConf
<1> QED
  BY Zenon, <1>2, <1>3 DEF ReconcilePods, CreateNewPod

(* Every step keeps the invariant. *)
LEMMA NextConf == ConfInv /\ [Next]_vars => ConfInv'
<1> SUFFICES ASSUME ConfInv, [Next]_vars PROVE ConfInv'
  BY Zenon
<1>1. CASE StartPass
  BY Zenon, <1>1, PassConf DEF StartPass
<1>2. CASE EndPass \/ DeletePods
  BY Zenon, <1>2, PassConf DEF EndPass, DeletePods, To, Finish, Fail
<1>3. CASE DeleteConfigMap
  BY Zenon, <1>3, PassConf DEF DeleteConfigMap, Finish, Fail
<1>4. CASE \/ \E suspend \in BOOLEAN, replicas \in 1 .. MaxReplicas : Edit(suspend, replicas)
           \/ \E i \in Indices : PodGone(i)
           \/ DeliverCluster \/ DeliverPods \/ Resync \/ UNCHANGED vars
  BY Zenon, <1>4, OtherConf DEF Edit, PodGone, DeliverCluster, DeliverPods, Resync, vars
<1>5. CASE DeliverConfigMap
  BY Zenon, <1>5 DEF DeliverConfigMap, ConfInv, Shape, FillsEmpty
<1>6. CASE Crash
  BY Zenon, <1>6 DEF Crash, ConfInv, Shape, FillsEmpty
<1> QED
  BY Zenon, <1>1, <1>2, <1>3, <1>4, <1>5, <1>6, GetConf, CreateConf, FillConf, PodsConf
  DEF Next, PassStep

(* A step that leaves a filled config map the cluster's leaves it as it is. *)
LEMMA StepKeepsConf ==
    ASSUME ConfInv, [Next]_vars, cm # None, cm.conf # None, cm' # None, cm'.uid = cm.uid,
           cm'.owned
    PROVE  cm' = cm
<1>1. CASE CreateNewConfigMap
  BY Zenon, <1>1 DEF CreateNewConfigMap, NotBorn
<1>2. CASE UpdateConfigMapInApiServer
  <2>1. ASSUME NEW p, Accepts(w.cm), cm' = Filled(w.cm, p) PROVE FALSE
    <3>1. cm'.owned = w.cm.owned
      BY Zenon, <2>1 DEF Filled
    <3> QED
      BY Zenon, <1>2, <2>1, <3>1, AcceptedIsEmpty DEF UpdateConfigMapInApiServer
  <2> QED
    BY Zenon, <1>2, <2>1 DEF UpdateConfigMapInApiServer
<1>3. CASE DeleteConfigMap
  BY Zenon, <1>3 DEF DeleteConfigMap
<1> QED
  BY Zenon, <1>1, <1>2, <1>3
  DEF Next, PassStep, StartPass, GetConfigMapForCluster, ReconcilePods, EndPass,
      DeletePods, Edit, PodGone, DeliverCluster, DeliverPods, DeliverConfigMap,
      Resync, Crash, vars

(* A filled config map of the cluster keeps its slurm.conf, ports and      *)
(* nodes: the second write of a pass that saw it empty is refused, and     *)
(* that of a pass whose creation timed out takes the map from the cluster. *)
THEOREM FilledOnce == Spec => ConfWrittenOnce
<1>1. ConfInv /\ [Next]_vars =>
        [cm # None /\ cm.conf # None /\ cm' # None /\ cm'.uid = cm.uid /\ cm'.owned
         => cm' = cm]_vars
  BY Zenon, StepKeepsConf
<1> QED
  BY InitConf, NextConf, <1>1, PTL DEF Spec, ConfWrittenOnce

-----------------------------------------------------------------------------
(* The pods agree with the slurm.conf that they mount.                     *)

(* What the templates name, or what is drawn, are pairs of ports. *)
LEMMA PortsArePairs ==
    ASSUME NEW t \in Templates
    PROVE  genSlurmPorts(t) \subseteq Pairs
<1>1. ASSUME NEW x \in Types, t[x].ports.ctl # None, t[x].ports.d # None
      PROVE  t[x].ports \in Pairs
  <2>1. t[x].ports \in [ctl : Ports \cup {None}, d : Ports \cup {None}]
    BY Zenon, TemplatesAssumption DEF Types
  <2> QED
    BY <1>1, <2>1 DEF Pairs
<1> QED
  BY Zenon, <1>1 DEF genSlurmPorts, getSlurmPortsFromSpec, genSlurmRandomPort

(* The ports of the workers' container, given two. *)
LEMMA DefaultPorts ==
    ASSUME NEW t \in Templates, NEW p \in Pairs
    PROVE  setSlurmDefaultPorts(t["Worker"].ports, p) \in Pairs
<1>1. t["Worker"].ports \in [ctl : Ports \cup {None}, d : Ports \cup {None}]
  BY Zenon, TemplatesAssumption
<1> QED
  BY <1>1 DEF setSlurmDefaultPorts, Pairs

(* If the templates are clear, they are those of slurm.conf. *)
LEMMA ContainerPorts ==
    ASSUME NEW t \in Templates, NEW p \in genSlurmPorts(t), PortsAreClear(t)
    PROVE  setSlurmDefaultPorts(t["Worker"].ports, p) = p
<1> DEFINE named == t["Worker"].ports
<1>1. p \in Pairs /\ named \in [ctl : Ports \cup {None}, d : Ports \cup {None}]
  BY Zenon, PortsArePairs, TemplatesAssumption
<1> SUFFICES setSlurmDefaultPorts(named, p) = p
  BY Zenon
<1>2. p = [ctl |-> p.ctl, d |-> p.d] /\ named = [ctl |-> named.ctl, d |-> named.d]
  BY Zenon, <1>1 DEF Pairs
<1> HIDE DEF named
<1>3. CASE named = [ctl |-> None, d |-> None]
  <2>1. named.ctl = None /\ named.d = None
    BY <1>3
  <2> QED
    BY Zenon, <1>2, <2>1 DEF setSlurmDefaultPorts
<1>4. CASE getSlurmPortsFromSpec(t) = {named}
  <2>1. p = named
    BY Zenon, <1>4 DEF genSlurmPorts
  <2>2. setSlurmDefaultPorts(named, named) = [ctl |-> named.ctl, d |-> named.d]
    BY Zenon DEF setSlurmDefaultPorts
  <2> QED
    BY Zenon, <1>2, <2>1, <2>2
<1> QED
  BY Zenon, <1>3, <1>4 DEF PortsAreClear, named

(* A slurm.conf has ports of the spec or drawn ones and, of a cluster that *)
(* was never edited, all nodes.                                            *)
FineConf(conf) ==
    conf # None => /\ conf.ports \in genSlurmPorts(templates)
                   /\ spec.generation = 0 => DOMAIN conf.nodes = 0 .. spec.replicas - 1

Generations ==
    /\ templates \in Templates
    /\ spec.generation \in Nat
    /\ spec.generation = 0 => cluster = spec /\ (pc # "idle" => w.spec = spec)

FineConfs ==
    /\ cm # None => FineConf(cm.conf)
    /\ cCm # None => FineConf(cCm.conf)
    /\ pc = "pods" => FineConf(w.cm.conf)

WorkerPorts(t, p) == setSlurmDefaultPorts(t["Worker"].ports, p)

FinePod(i) ==
    pods[i] # None =>
        /\ pods[i] = [env |-> pods[i].env, dying |-> pods[i].dying, ports |-> pods[i].ports]
        /\ pods[i].env \in genSlurmPorts(templates)
        /\ pods[i].ports = WorkerPorts(templates, pods[i].env)
        /\ spec.generation = 0 => i \in 0 .. spec.replicas - 1

FinePods == pods = [i \in Indices |-> pods[i]] /\ \A i \in Indices : FinePod(i)

NothingYet ==
    maps = 0 => /\ cm = None /\ cCm = None /\ pc # "pods"
                /\ \A i \in Indices : pods[i] = None

(* While there has been one config map only, and it is the cluster's,      *)
(* whatever copy is filled is filled as the map is, and so is what the     *)
(* pods were created from.                                                 *)
SameMap ==
    maps = 1 /\ cm # None /\ cm.owned =>
        /\ cCm # None /\ cCm.conf # None => cm.conf = cCm.conf
        /\ pc = "pods" /\ w.cm.conf # None => cm.conf = w.cm.conf
        /\ \A i \in Indices : pods[i] # None => cm.conf # None /\ pods[i].env = cm.conf.ports

Agree == Generations /\ FineConfs /\ FinePods /\ NothingYet /\ SameMap

LEMMA AgreementSuffices == Agree => PodsAgreeWithConf
<1> SUFFICES ASSUME Agree, NEW i \in Indices, pods[i] # None, cm # None,
                    \/ maps = 1 /\ cm.owned
                    \/ cm.conf # None /\ \E p \in Pairs : getSlurmPortsFromSpec(templates) = {p}
             PROVE  /\ cm.conf # None /\ pods[i].env = cm.conf.ports
                    /\ PortsAreClear(templates) => pods[i].ports = cm.conf.ports
                    /\ spec.generation = 0 => i \in DOMAIN cm.conf.nodes
  BY Zenon DEF PodsAgreeWithConf
<1>1. cm.conf # None /\ pods[i].env = cm.conf.ports
  <2>1. CASE maps = 1 /\ cm.owned
    BY Zenon, <2>1 DEF Agree, SameMap
  <2>2. CASE cm.conf # None /\ \E p \in Pairs : getSlurmPortsFromSpec(templates) = {p}
    <3>1. PICK p : genSlurmPorts(templates) = {p}
      BY Zenon, <2>2 DEF genSlurmPorts
    <3> QED
      BY Zenon, <2>2, <3>1 DEF Agree, FineConfs, FineConf, FinePods, FinePod
  <2> QED
    BY Zenon, <2>1, <2>2
<1>2. PortsAreClear(templates) => pods[i].ports = cm.conf.ports
  BY Zenon, <1>1, ContainerPorts DEF Agree, Generations, FinePods, FinePod, WorkerPorts
<1> QED
  BY Zenon, <1>1, <1>2 DEF Agree, FineConfs, FineConf, FinePods, FinePod

LEMMA InitAgree == Init => Agree
BY DEF Init, Agree, Generations, FineConfs, FineConf, FinePods, FinePod, NothingYet, SameMap

(* Steps of the pass that change nothing but the pass. *)
LEMMA PassAgree ==
    ASSUME Agree, UNCHANGED <<templates, spec, cluster, cm, cCm, maps, pods>>, pc' # "pods",
           pc' = "idle" \/ (pc # "idle" /\ w'.spec = w.spec) \/ w'.spec = cluster
    PROVE  Agree'
<1>1. Generations' /\ FineConfs'
  BY Zenon DEF Agree, Generations, FineConfs, FineConf
<1>2. FinePods' /\ NothingYet' /\ SameMap'
  BY Zenon DEF Agree, FinePods, FinePod, NothingYet, SameMap
<1> QED
  BY Zenon, <1>1, <1>2 DEF Agree

(* Pods that are terminated keep their ports. *)
LEMMA TerminateAgree ==
    ASSUME Agree, UNCHANGED <<templates, spec, cluster, cm, cCm, maps, w>>,
           pc # "idle", pc' # "pods", NEW S, Terminate(S)
    PROVE  Agree'
<1>1. Generations' /\ FineConfs'
  BY Zenon DEF Agree, Generations, FineConfs, FineConf
<1>2. ASSUME NEW i \in Indices
      PROVE  \/ pods'[i] = pods[i]
             \/ pods[i] # None /\ pods'[i] = [pods[i] EXCEPT !.dying = TRUE]
  BY Zenon DEF Terminate
<1>3. pods' = [i \in Indices |-> pods'[i]]
  BY Zenon DEF Terminate
<1>4. FinePods'
  BY <1>2, <1>3 DEF Agree, FinePods, FinePod
<1>5. \A i \in Indices :
        pods'[i] # None => pods[i] # None /\ pods'[i].env = pods[i].env
  <2> TAKE i \in Indices
  <2>1. CASE pods'[i] = [pods[i] EXCEPT !.dying = TRUE]
    <3>1. pods'[i].env = pods[i].env
      BY <2>1
    <3> QED
      BY Zenon, <1>2, <3>1
  <2> QED
    BY Zenon, <1>2, <2>1
<1>6. NothingYet' /\ SameMap'
  BY Zenon, <1>5 DEF Agree, NothingYet, SameMap
<1> QED
  BY Zenon, <1>1, <1>4, <1>6 DEF Agree

LEMMA GetAgree == ConfInv /\ Agree /\ GetConfigMapForCluster => Agree'
<1> SUFFICES ASSUME ConfInv, Agree, GetConfigMapForCluster PROVE Agree'
  BY Zenon
<1>1. UNCHANGED <<templates, spec, cluster, cm, cCm, maps, pods>> /\ pc = "getConfigMap"
  BY Zenon DEF GetConfigMapForCluster
<1>2. CASE To("create") \/ Fail
  BY Zenon, <1>1, <1>2, PassAgree DEF To, Fail
<1>3. CASE cCm # None /\ Reconcile(cCm)
  <2>1. w' = [spec |-> w.spec, pods |-> w.pods, cm |-> cCm, hasUID |-> w.hasUID]
    BY Zenon, <1>1, <1>3 DEF Reconcile, With, ConfInv, Shape
  <2>2. w'.spec = w.spec /\ w'.cm = cCm
    BY Zenon, <2>1
  <2>3. Generations' /\ FineConfs'
    BY Zenon, <1>1, <1>3, <2>2 DEF Agree, Generations, FineConfs, FineConf
  <2>4. FinePods' /\ NothingYet' /\ SameMap'
    BY Zenon, <1>1, <1>3, <2>2 DEF Agree, FinePods, FinePod, NothingYet, SameMap
  <2> QED
    BY Zenon, <2>3, <2>4 DEF Agree
<1> QED
  BY Zenon, <1>2, <1>3 DEF GetConfigMapForCluster

(* A config map is born empty, and as the first one before any pod. *)
LEMMA BornAgree ==
    ASSUME ConfInv, Agree, Born, UNCHANGED <<templates, spec, cluster, cCm, pods>>,
           pc # "idle", pc' # "pods", pc' = "idle" \/ w'.spec = w.spec
    PROVE  Agree'
<1>1. maps \in Nat /\ maps' = maps + 1 /\ cm'.conf = None
  BY Zenon DEF Born, ConfInv, Shape
<1>2. Generations' /\ FineConfs'
  BY Zenon, <1>1 DEF Agree, Generations, FineConfs, FineConf
<1>3. FinePods' /\ NothingYet'
  BY <1>1 DEF Agree, FinePods, FinePod, NothingYet
<1>4. SameMap'
  BY <1>1 DEF Agree, NothingYet, SameMap
<1> QED
  BY Zenon, <1>2, <1>3, <1>4 DEF Agree

LEMMA CreateAgree == ConfInv /\ Agree /\ CreateNewConfigMap => Agree'
<1> SUFFICES ASSUME ConfInv, Agree, CreateNewConfigMap PROVE Agree'
  BY Zenon
<1>1. UNCHANGED <<templates, spec, cluster, cCm, pods>> /\ pc = "create"
  BY Zenon DEF CreateNewConfigMap
<1>2. CASE NotBorn /\ Fail
  BY Zenon, <1>1, <1>2, PassAgree DEF NotBorn, Fail
<1>3. CASE Born /\ Fail
  BY Zenon, <1>1, <1>3, BornAgree DEF Fail
<1>4. CASE Born /\ Reconcile(cm')
  <2>1. w' = [spec |-> w.spec, pods |-> w.pods, cm |-> cm', hasUID |-> w.hasUID]
    BY Zenon, <1>1, <1>4 DEF Reconcile, With, ConfInv, Shape
  <2>2. cm'.conf = None
    BY Zenon, <1>4 DEF Born
  <2>3. pc' = "fill" /\ w'.spec = w.spec
    BY Zenon, <1>4, <2>1, <2>2 DEF Reconcile, With, needReconcileConfigMap
  <2> QED
    BY Zenon, <1>1, <1>4, <2>3, BornAgree
<1>5. CASE (Born \/ NotBorn) /\ Reconcile([uid |-> 0, owned |-> FALSE, conf |-> None])
  <2>1. w' = [spec |-> w.spec, pods |-> w.pods,
              cm |-> [uid |-> 0, owned |-> FALSE, conf |-> None], hasUID |-> w.hasUID]
    BY Zenon, <1>1, <1>5 DEF Reconcile, With, ConfInv, Shape
  <2>2. pc' = "fill" /\ w'.spec = w.spec
    BY Zenon, <1>5, <2>1 DEF Reconcile, With, needReconcileConfigMap
  <2> QED
    BY Zenon, <1>1, <1>5, <2>2, BornAgree, PassAgree DEF NotBorn
<1> QED
  BY Zenon, <1>2, <1>3, <1>4, <1>5 DEF CreateNewConfigMap

LEMMA FillAgree == ConfInv /\ Agree /\ UpdateConfigMapInApiServer => Agree'
<1> SUFFICES ASSUME ConfInv, Agree, UpdateConfigMapInApiServer PROVE Agree'
  BY Zenon
<1>1. UNCHANGED <<templates, spec, cluster, cCm, maps, pods>> /\ pc = "fill"
  BY Zenon DEF UpdateConfigMapInApiServer
<1>2. CASE UNCHANGED cm /\ Fail
  BY Zenon, <1>1, <1>2, PassAgree DEF Fail
<1>3. ASSUME NEW p \in genSlurmPorts(templates), Accepts(w.cm), cm' = Filled(w.cm, p),
             Fail \/ With("pods", [w EXCEPT !.cm = cm', !.hasUID = FALSE])
      PROVE  Agree'
  <2>1. cm # None /\ (cm'.owned => cm.conf = None /\ cm.owned)
    BY Zenon, <1>1, <1>3, AcceptedIsEmpty DEF Accepts, Filled
  <2>2. pc' = "idle" \/ (pc' = "pods" /\
          w' = [spec |-> w.spec, pods |-> w.pods, cm |-> cm', hasUID |-> FALSE])
    BY Zenon, <1>1, <1>3 DEF Fail, With, ConfInv, Shape
  <2>3. pc' # "idle" => w'.spec = w.spec /\ w'.cm = cm'
    BY <2>2
  <2>4. cm'.conf = genSlurmConf(w.spec, p)
    BY Zenon, <1>3 DEF Filled
  <2>5. cm'.conf.ports \in genSlurmPorts(templates)
    BY <1>3, <2>4 DEF genSlurmConf
  <2>6. spec.generation = 0 => DOMAIN cm'.conf.nodes = 0 .. spec.replicas - 1
    BY <1>1, <2>4 DEF genSlurmConf, createSlurmConfNodes, Agree, Generations
  <2>7. Generations' /\ FineConfs'
    BY Zenon, <1>1, <2>3, <2>5, <2>6 DEF Agree, Generations, FineConfs, FineConf
  <2>8. FinePods' /\ NothingYet'
    BY Zenon, <1>1, <2>1 DEF Agree, FinePods, FinePod, NothingYet
  <2>9. SameMap'
    BY Zenon, <1>1, <2>1, <2>2, <2>3 DEF Agree, SameMap
  <2> QED
    BY Zenon, <2>7, <2>8, <2>9 DEF Agree
<1> QED
  BY Zenon, <1>2, <1>3 DEF UpdateConfigMapInApiServer

LEMMA PodsAgree == ConfInv /\ Agree /\ ReconcilePods => Agree'
<1> SUFFICES ASSUME ConfInv, Agree, ReconcilePods PROVE Agree'
  BY Zenon
<1>1. UNCHANGED <<templates, spec, cluster, cm, cCm, maps>> /\ pc = "pods"
  BY Zenon DEF ReconcilePods
<1>2. CASE UNCHANGED pods /\ Fail
  BY Zenon, <1>1, <1>2, PassAgree DEF Fail
<1>3. CASE Terminate(Surplus) /\ To("endPass")
  BY Zenon, <1>1, <1>3, TerminateAgree DEF To
<1>4. ASSUME NEW i \in Missing, w.cm.conf # None,
             pods' = [pods EXCEPT ![i] = [env |-> w.cm.conf.ports, dying |-> FALSE,
                                          ports |-> WorkerPorts(templates, w.cm.conf.ports)]],
             With("pods", [w EXCEPT !.pods = @ \cup {i}])
      PROVE  Agree'
  <2>1. w' = [spec |-> w.spec, pods |-> w.pods \cup {i}, cm |-> w.cm, hasUID |-> w.hasUID]
    BY Zenon, <1>1, <1>4 DEF With, ConfInv, Shape
  <2>2. pc' = "pods" /\ w'.spec = w.spec /\ w'.cm = w.cm
    BY Zenon, <1>4, <2>1 DEF With
  <2>3. pods' = [j \in Indices |->
                   IF j = i THEN [env |-> w.cm.conf.ports, dying |-> FALSE,
                                  ports |-> WorkerPorts(templates, w.cm.conf.ports)] ELSE pods[j]]
    BY Zenon, <1>4 DEF Agree, FinePods
  <2>4. spec.generation = 0 => i \in 0 .. spec.replicas - 1
    BY Zenon, <1>1 DEF Missing, Agree, Generations
  <2>5. w.cm.conf.ports \in genSlurmPorts(templates)
    BY Zenon, <1>1, <1>4 DEF Agree, FineConfs, FineConf
  <2>6. Generations' /\ FineConfs'
    BY Zenon, <1>1, <2>2 DEF Agree, Generations, FineConfs, FineConf
  <2>7. FinePods'
    BY Zenon, <1>1, <2>3, <2>4, <2>5 DEF Agree, FinePods, FinePod
  <2>8. NothingYet' /\ SameMap'
    BY <1>1, <1>4, <2>2, <2>3 DEF Agree, NothingYet, SameMap
  <2> QED
    BY Zenon, <2>6, <2>7, <2>8 DEF Agree
<1> QED
  BY Zenon, <1>2, <1>3, <1>4 DEF ReconcilePods, CreateNewPod, getSlurmPortsFromConf, WorkerPorts

(* Steps of users, kubelets and informers. *)
LEMMA OutsideAgree ==
    ASSUME Agree,
           \/ \E suspend \in BOOLEAN, replicas \in 1 .. MaxReplicas : Edit(suspend, replicas)
           \/ \E i \in Indices : PodGone(i)
           \/ DeliverCluster \/ DeliverPods \/ DeliverConfigMap \/ Resync
           \/ Crash \/ UNCHANGED vars
    PROVE  Agree'
<1>1. CASE \E suspend \in BOOLEAN, replicas \in 1 .. MaxReplicas : Edit(suspend, replicas)
  <2>1. UNCHANGED <<templates, cluster, cm, cCm, maps, pods, pc, w>>
    BY Zenon, <1>1 DEF Edit
  <2>2. spec'.generation \in Nat /\ spec'.generation # 0
    BY <1>1 DEF Edit, Agree, Generations
  <2> QED
    BY Zenon, <2>1, <2>2 DEF Agree, Generations, FineConfs, FineConf, FinePods, FinePod,
                      NothingYet, SameMap
<1>2. ASSUME NEW i \in Indices, PodGone(i) PROVE Agree'
  <2>1. UNCHANGED <<templates, spec, cluster, cm, cCm, maps, pc, w>>
    BY Zenon, <1>2 DEF PodGone
  <2>2. pods' = [j \in Indices |-> IF j = i THEN None ELSE pods[j]]
    BY Zenon, <1>2 DEF PodGone, Agree, FinePods
  <2>3. Generations' /\ FineConfs'
    BY Zenon, <2>1 DEF Agree, Generations, FineConfs, FineConf
  <2>4. FinePods' /\ NothingYet' /\ SameMap'
    BY Zenon, <2>1, <2>2 DEF Agree, FinePods, FinePod, NothingYet, SameMap
  <2> QED
    BY Zenon, <2>3, <2>4 DEF Agree
<1>3. CASE DeliverCluster \/ DeliverPods \/ Resync \/ UNCHANGED vars
  <2>1. UNCHANGED <<templates, spec, cm, cCm, maps, pods, pc, w>>
        /\ cluster' \in {cluster, spec}
    BY Zenon, <1>3 DEF DeliverCluster, DeliverPods, Resync, vars
  <2> QED
    BY ZenonT(30), <2>1 DEF Agree, Generations, FineConfs, FineConf, FinePods, FinePod,
                NothingYet, SameMap
<1>4. CASE DeliverConfigMap \/ Crash
  <2>1. UNCHANGED <<templates, spec, cm, maps, pods>> /\ cluster' \in {cluster, spec}
        /\ cCm' = cm /\ (UNCHANGED <<pc, w>> \/ pc' = "idle")
    BY Zenon, <1>4 DEF DeliverConfigMap, Crash
  <2> QED
    BY Zenon, <2>1 DEF Agree, Generations, FineConfs, FineConf, FinePods, FinePod,
                NothingYet, SameMap
<1> QED
  BY Zenon, <1>1, <1>2, <1>3, <1>4

LEMMA NextAgree == ConfInv /\ Agree /\ [Next]_vars => Agree'
<1> SUFFICES ASSUME ConfInv, Agree, [Next]_vars PROVE Agree'
  BY Zenon
<1>1. CASE StartPass
  BY Zenon, <1>1, PassAgree DEF StartPass
<1>2. CASE EndPass
  BY Zenon, <1>2, PassAgree DEF EndPass, Finish, Fail
<1>3. CASE DeletePods
  BY Zenon, <1>3, TerminateAgree DEF DeletePods, To
<1>4. CASE DeleteConfigMap
  <2>1. /\ UNCHANGED <<templates, spec, cluster, cCm, maps, pods>> /\ pc' = "idle"
        /\ cm' \in {cm, None}
    BY Zenon, <1>4 DEF DeleteConfigMap, Finish, Fail
  <2> QED
    BY Zenon, <2>1 DEF Agree, Generations, FineConfs, FineConf, FinePods, FinePod,
                NothingYet, SameMap
<1> QED
  BY Zenon, <1>1, <1>2, <1>3, <1>4, GetAgree, CreateAgree, FillAgree, PodsAgree, OutsideAgree
  DEF Next, PassStep

(* The pods have the ports of the slurm.conf that they mount, and are nodes *)
(* of it, though every pass reads the map from a cache that lags behind.   *)
THEOREM PodsAndConfAgree == Spec => []PodsAgreeWithConf
<1>1. Init => ConfInv /\ Agree
  BY Zenon, InitConf, InitAgree
<1>2. (ConfInv /\ Agree) /\ [Next]_vars => (ConfInv /\ Agree)'
  BY Zenon, NextConf, NextAgree
<1>3. ConfInv /\ Agree => PodsAgreeWithConf
  BY Zenon, AgreementSuffices
<1> QED
  BY <1>1, <1>2, <1>3, PTL DEF Spec

-----------------------------------------------------------------------------
(* The inductive form of TypeOK: a pass that is under way has its copies,  *)
(* and from the moment it has found or made the config map, that one too.  *)
PodValues == [env : Pairs, ports : Pairs, dying : BOOLEAN]
Passes == [spec : Specs, pods : SUBSET Indices, cm : Maps \cup {None}, hasUID : BOOLEAN]
Typed ==
    /\ TypeOK
    /\ pc # "idle" => w \in Passes
    /\ pc \in {"fill", "pods"} => w.cm \in Maps

(* A slurm.conf that is generated for a spec is one. *)
LEMMA GeneratedConf ==
    ASSUME TypeOK, NEW s \in Specs, NEW p \in genSlurmPorts(templates)
    PROVE  genSlurmConf(s, p) \in Confs
<1>1. p \in Pairs
  BY Zenon, PortsArePairs DEF TypeOK
<1>2. s.replicas \in 1 .. MaxReplicas /\ templates \in Templates
  BY Zenon DEF TypeOK, Specs
<1>3. createSlurmConfNodes(s) \in {[i \in 0 .. n - 1 |-> NodeOf[t]] :
                                    n \in 1 .. MaxReplicas, t \in Templates}
  BY <1>2 DEF createSlurmConfNodes
<1> QED
  BY <1>1, <1>3 DEF genSlurmConf, Confs

(* The map of a pass that has just got it. *)
LEMMA ReconcileType ==
    ASSUME Typed, pc # "idle", NEW c \in Maps, Reconcile(c)
    PROVE  pc' \in {"fill", "pods"} /\ w' \in Passes /\ w'.cm \in Maps /\ queued' \in BOOLEAN
<1>1. w \in Passes /\ w' = [w EXCEPT !.cm = c]
  BY Zenon DEF Typed, Reconcile, With
<1>2. w' \in Passes /\ w'.cm = c
  BY Zenon, <1>1 DEF Passes
<1> QED
  BY Zenon, <1>2 DEF Reconcile, With, Typed, TypeOK

LEMMA TerminateType ==
    ASSUME TypeOK, NEW S, Terminate(S) PROVE pods' \in [Indices -> PodValues \cup {None}]
<1>1. ASSUME NEW i \in Indices
      PROVE  /\ pods[i] \in PodValues \cup {None}
             /\ pods[i] # None => [pods[i] EXCEPT !.dying = TRUE] \in PodValues
  BY Zenon DEF TypeOK, PodValues
<1> QED
  BY Zenon, <1>1 DEF Terminate

LEMMA CreatePodType ==
    ASSUME Typed, pc = "pods", NEW i \in Missing, CreateNewPod(i)
    PROVE  /\ pods' \in [Indices -> PodValues \cup {None}] /\ queued' \in BOOLEAN
           /\ faults' \in 0 .. MaxFaults
           /\ \/ pc' = "idle" /\ w' = None
              \/ pc' = "pods" /\ w' \in Passes /\ w'.cm \in Maps
<1>1. w \in Passes /\ w.cm \in Maps /\ TypeOK
  BY Zenon DEF Typed
<1>2. i \in Indices
  <2>1. w.spec.replicas \in 1 .. MaxReplicas /\ i \in 0 .. w.spec.replicas - 1
    BY Zenon, <1>1 DEF Passes, Specs, Missing
  <2> QED
    BY <2>1, BoundsAssumption DEF Indices
<1>3. faults' \in 0 .. MaxFaults /\ queued' \in BOOLEAN
  <2>1. NoFault \/ Fault
    BY Zenon DEF CreateNewPod
  <2>2. faults' \in 0 .. MaxFaults
    BY <1>1, <2>1, BoundsAssumption DEF TypeOK, NoFault, Fault
  <2> QED
    BY Zenon, <1>1, <2>2 DEF TypeOK, CreateNewPod, With, Fail
<1>4. CASE UNCHANGED pods /\ Fail
  BY Zenon, <1>1, <1>3, <1>4 DEF TypeOK, Fail, PodValues
<1>5. CASE ~(UNCHANGED pods /\ Fail)
  <2> DEFINE ports == getSlurmPortsFromConf(w.cm.conf)
  <2>1. /\ ports # None
        /\ pods' = [pods EXCEPT ![i] =
                      [env |-> ports, dying |-> FALSE, ports |-> WorkerPorts(templates, ports)]]
        /\ With("pods", [w EXCEPT !.pods = @ \cup {i}])
    BY Zenon, <1>5 DEF CreateNewPod, WorkerPorts
  <2>2. ports \in Pairs
    BY <1>1, <2>1 DEF getSlurmPortsFromConf, Maps, Confs
  <2>3. [env |-> ports, dying |-> FALSE, ports |-> WorkerPorts(templates, ports)] \in PodValues
    <3>1. WorkerPorts(templates, ports) \in Pairs
      BY Zenon, <1>1, <2>2, DefaultPorts DEF TypeOK, WorkerPorts
    <3> QED
      BY Zenon, <2>2, <3>1 DEF PodValues
  <2>4. pods' \in [Indices -> PodValues \cup {None}]
    BY Zenon, <1>1, <1>2, <2>1, <2>3 DEF TypeOK, PodValues
  <2>5. w' = [w EXCEPT !.pods = w.pods \cup {i}] /\ pc' = "pods"
    BY Zenon, <2>1 DEF With
  <2>6. w' \in Passes /\ w'.cm = w.cm
    BY Zenon, <1>1, <1>2, <2>5 DEF Passes
  <2> QED
    BY Zenon, <1>1, <1>3, <2>4, <2>5, <2>6
<1> QED
  BY Zenon, <1>4, <1>5

(* ClusterConfig is type correct: a pass fills and reads only a config map *)
(* that it has, and what it fills it with is a slurm.conf of the cluster.  *)
THEOREM TypeCorrect == Spec => []TypeOK
<1>1. Init => Typed
  <2> SUFFICES ASSUME Init PROVE Typed
    BY Zenon
  <2>1. spec \in Specs
    <3>1. 0 \in 0 .. MaxEdits
      BY BoundsAssumption
    <3> QED
      BY Zenon, <3>1 DEF Init, Specs
  <2>2. 0 \in 0 .. MaxMaps /\ 0 \in 0 .. MaxFaults
    BY BoundsAssumption
  <2> QED
    BY Zenon, <2>1, <2>2 DEF Init, Typed, TypeOK, Stages
<1>2. Typed /\ [Next]_vars => Typed'
  <2> SUFFICES ASSUME Typed, [Next]_vars PROVE Typed'
    BY Zenon
  <2> DEFINE Kept == UNCHANGED <<templates, spec, cluster, cCm, cPods>>
             Map == cm' \in Maps \cup {None} /\ maps' \in 0 .. MaxMaps
             Count == faults' \in 0 .. MaxFaults
             Pods == pods' \in [Indices -> PodValues \cup {None}]
             Pass == /\ pc' \in Stages /\ queued' \in BOOLEAN /\ w' \in {None} \cup Passes
                     /\ pc' # "idle" => w' \in Passes
                     /\ pc' \in {"fill", "pods"} => w'.cm \in Maps
  <2>1. TypeOK
    BY Zenon DEF Typed
  <2>2. (NoFault => Count) /\ (Fault => Count)
    BY <2>1, BoundsAssumption DEF NoFault, Fault, TypeOK
  <2>3. (UNCHANGED pods => Pods) /\ (UNCHANGED <<cm, maps>> => Map)
    BY Zenon, <2>1 DEF TypeOK, PodValues
  <2>4. Finish \/ Fail => Pass
    BY Zenon, <2>1 DEF Finish, Fail, TypeOK, Stages
  <2>5. ASSUME pc # "idle", NEW stage \in Stages, stage \notin {"fill", "pods"}, To(stage)
        PROVE  Pass
    BY Zenon, <2>5 DEF To, Typed, TypeOK
  <2>6. ASSUME pc # "idle", NEW c \in Maps, Reconcile(c) PROVE Pass
    BY Zenon, <2>6, ReconcileType DEF Stages
  <2>7. ASSUME Kept, Map, Count, Pods, Pass PROVE Typed'
    BY Zenon, <2>1, <2>7 DEF Typed, TypeOK, Passes, PodValues
  <2>8. CASE StartPass
    <3>1. w' \in Passes
      BY Zenon, <2>1, <2>8 DEF StartPass, Passes, TypeOK
    <3>2. Pass
      BY Zenon, <2>8, <3>1 DEF StartPass, Stages
    <3> QED
      BY Zenon, <2>1, <2>3, <2>7, <2>8, <3>2 DEF StartPass, TypeOK
  <2>9. CASE GetConfigMapForCluster
    <3>1. Pass
      BY Zenon, <2>1, <2>4, <2>5, <2>6, <2>9 DEF GetConfigMapForCluster, Stages, TypeOK
    <3> QED
      BY Zenon, <2>1, <2>3, <2>7, <2>9, <3>1 DEF GetConfigMapForCluster, TypeOK
  <2>10. CASE CreateNewConfigMap
    <3>1. (Born => Map) /\ (NotBorn => Map) /\ (Born => cm' \in Maps)
      <4>1. ASSUME Born PROVE maps + 1 \in 0 .. MaxMaps
        <5>1. maps \in 0 .. MaxMaps /\ maps < MaxMaps
          BY Zenon, <2>1, <4>1 DEF Born, TypeOK
        <5> QED
          BY <5>1, BoundsAssumption
      <4>2. Born => cm' \in Maps
        BY <4>1 DEF Born, Maps
      <4> QED
        BY Zenon, <2>3, <4>1, <4>2 DEF Born, NotBorn
    <3>2. [uid |-> 0, owned |-> FALSE, conf |-> None] \in Maps
      <4>1. 0 \in 0 .. MaxMaps
        BY BoundsAssumption
      <4> QED
        BY Zenon, <4>1 DEF Maps
    <3>3. Pass
      BY Zenon, <2>4, <2>6, <2>10, <3>1, <3>2 DEF CreateNewConfigMap
    <3>4. Map /\ Count
      BY Zenon, <2>2, <2>10, <3>1 DEF CreateNewConfigMap
    <3> QED
      BY Zenon, <2>3, <2>7, <2>10, <3>3, <3>4 DEF CreateNewConfigMap
  <2>11. CASE UpdateConfigMapInApiServer
    <3>1. w \in Passes /\ w.cm \in Maps
      BY Zenon, <2>11 DEF UpdateConfigMapInApiServer, Typed
    <3>2. ASSUME NEW p \in genSlurmPorts(templates), Accepts(w.cm) PROVE Filled(w.cm, p) \in Maps
      <4>1. genSlurmConf(w.spec, p) \in Confs
        BY Zenon, <2>1, <3>1, GeneratedConf DEF Passes
      <4>2. cm.uid \in 0 .. MaxMaps /\ w.cm.owned \in BOOLEAN
        BY Zenon, <2>1, <3>1, <3>2 DEF Accepts, TypeOK, Maps
      <4> QED
        BY Zenon, <4>1, <4>2 DEF Filled, Maps
    <3>3. ASSUME cm' \in Maps, With("pods", [w EXCEPT !.cm = cm', !.hasUID = FALSE])
          PROVE  Pass
      <4>1. w' = [w EXCEPT !.cm = cm', !.hasUID = FALSE] /\ pc' = "pods" /\ queued' = queued
        BY Zenon, <3>3 DEF With
      <4>2. w' \in Passes /\ w'.cm = cm'
        BY Zenon, <3>1, <3>3, <4>1 DEF Passes
      <4> QED
        BY Zenon, <2>1, <3>3, <4>1, <4>2 DEF TypeOK, Stages
    <3>4. Map /\ Count /\ Pass
      <4>1. UNCHANGED maps /\ maps \in 0 .. MaxMaps /\ cm \in Maps \cup {None}
        BY Zenon, <2>1, <2>11 DEF UpdateConfigMapInApiServer, TypeOK
      <4> QED
        BY Zenon, <2>2, <2>4, <2>11, <3>2, <3>3, <4>1 DEF UpdateConfigMapInApiServer
    <3> QED
      BY Zenon, <2>3, <2>7, <2>11, <3>4 DEF UpdateConfigMapInApiServer
  <2>12. CASE ReconcilePods
    <3>1. ASSUME NEW i \in Missing, CreateNewPod(i) PROVE Pods /\ Count /\ Pass
      BY Zenon, <2>12, <3>1, CreatePodType DEF ReconcilePods, Stages
    <3>2. ASSUME Terminate(Surplus), To("endPass"), NoFault PROVE Pods /\ Count /\ Pass
      BY Zenon, <2>1, <2>2, <2>5, <2>12, <3>2, TerminateType DEF ReconcilePods, Stages
    <3>3. Pods /\ Count /\ Pass
      BY Zenon, <2>12, <3>1, <3>2 DEF ReconcilePods
    <3> QED
      BY Zenon, <2>3, <2>7, <2>12, <3>3 DEF ReconcilePods
  <2>13. CASE EndPass
    BY Zenon, <2>1, <2>3, <2>4, <2>7, <2>13 DEF EndPass, TypeOK
  <2>14. CASE DeletePods
    <3>1. Pods /\ Pass
      BY Zenon, <2>1, <2>5, <2>14, TerminateType DEF DeletePods, Stages
    <3> QED
      BY Zenon, <2>1, <2>3, <2>7, <2>14, <3>1 DEF DeletePods, TypeOK
  <2>15. CASE DeleteConfigMap
    <3>1. Map /\ Count /\ Pass
      BY Zenon, <2>1, <2>2, <2>4, <2>15 DEF DeleteConfigMap, TypeOK
    <3> QED
      BY Zenon, <2>3, <2>7, <2>15, <3>1 DEF DeleteConfigMap
  <2>16. CASE \E suspend \in BOOLEAN, replicas \in 1 .. MaxReplicas : Edit(suspend, replicas)
    <3>1. spec' \in Specs
      <4>1. spec.generation < MaxEdits /\ spec.generation \in 0 .. MaxEdits
        BY Zenon, <2>1, <2>16 DEF Edit, TypeOK, Specs
      <4>2. spec.generation + 1 \in 0 .. MaxEdits
        BY <4>1, BoundsAssumption
      <4> QED
        BY <2>16, <4>2 DEF Edit, Specs
    <3> QED
      BY Zenon, <2>16, <3>1 DEF Edit, Typed, TypeOK, Passes
  <2>17. ASSUME NEW i \in Indices, PodGone(i) PROVE Typed'
    BY Zenon, <2>17 DEF PodGone, Typed, TypeOK, Passes
  <2>18. CASE DeliverCluster \/ DeliverPods \/ DeliverConfigMap \/ Resync \/ UNCHANGED vars
    BY Zenon, <2>18 DEF DeliverCluster, DeliverPods, DeliverConfigMap, Resync, vars, Existing,
                 Typed, TypeOK, Passes
  <2>19. CASE Crash
    <3>1. Count
      BY Zenon, <2>2, <2>19 DEF Crash
    <3> QED
      BY Zenon, <2>1, <2>19, <3>1 DEF Crash, Existing, Typed, TypeOK, Stages
  <2> QED
    BY Zenon, <2>8, <2>9, <2>10, <2>11, <2>12, <2>13, <2>14, <2>15, <2>16, <2>17, <2>18, <2>19
    DEF Next, PassStep
<1>3. Typed => TypeOK
  BY Zenon DEF Typed
<1> QED
  BY <1>1, <1>2, <1>3, PTL DEF Spec

-----------------------------------------------------------------------------
(* What the node lines offer.                                              *)

(* A set has at most one greatest element. *)
LEMMA MaxIsUnique ==
    ASSUME NEW S \in SUBSET Int, NEW m \in S, \A y \in S : m >= y
    PROVE  Max(S) = m
<1>1. Max(S) \in S /\ \A y \in S : Max(S) >= y
  BY Zenon DEF Max
<1>2. Max(S) >= m /\ m >= Max(S) /\ Max(S) \in Int
  BY Zenon, <1>1
<1> QED
  BY <1>2

(* The greatest element, of a set that has one. *)
IsMax(S) == S \subseteq Nat /\ Max(S) \in S /\ \A y \in S : Max(S) >= y

(* The lists over some of the names in N, none of them negative. *)
NatLists(N) == UNION {[T -> Nat] : T \in SUBSET N}

LEMMA NatListShape ==
    ASSUME NEW N, NEW list \in NatLists(N)
    PROVE  /\ list = [name \in DOMAIN list |-> list[name]]
           /\ DOMAIN list \subseteq N
           /\ \A name \in DOMAIN list : list[name] \in Nat
           /\ \A name : Quantity(list, name) \in Nat
BY Zenon DEF NatLists, Quantity

LEMMA NatListIntro ==
    ASSUME NEW N, NEW list, IsResourceList(list), DOMAIN list \subseteq N
    PROVE  list \in NatLists(N)
<1>1. list \in [DOMAIN list -> Nat]
  BY Zenon DEF IsResourceList
<1> QED
  BY Zenon, <1>1 DEF NatLists

LEMMA QuotaAdd ==
    ASSUME NEW N, NEW a \in NatLists(N), NEW b \in NatLists(N), NEW name
    PROVE  /\ Quota!Add(a, b) \in NatLists(N)
           /\ Quantity(Quota!Add(a, b), name) = Quantity(a, name) + Quantity(b, name)
<1>1. Quota!Add(a, b) \in [DOMAIN a \cup DOMAIN b -> Nat]
  BY NatListShape DEF Quota!Add
<1>2. DOMAIN a \cup DOMAIN b \in SUBSET N
  BY Zenon, NatListShape
<1>3. Quantity(Quota!Add(a, b), name) = Quantity(a, name) + Quantity(b, name)
  BY NatListShape DEF Quota!Add, Quantity
<1> QED
  BY Zenon, <1>1, <1>2, <1>3 DEF NatLists

LEMMA QuotaMax ==
    ASSUME NEW N, NEW a \in NatLists(N), NEW b \in NatLists(N), NEW name
    PROVE  /\ Quota!Max(a, b) \in NatLists(N)
           /\ Quantity(Quota!Max(a, b), name) \in {Quantity(a, name), Quantity(b, name)}
           /\ Quantity(Quota!Max(a, b), name) >= Quantity(a, name)
           /\ Quantity(Quota!Max(a, b), name) >= Quantity(b, name)
<1>1. Quota!Max(a, b) \in [DOMAIN a \cup DOMAIN b -> Nat]
  BY Zenon, NatListShape DEF Quota!Max
<1>2. DOMAIN a \cup DOMAIN b \in SUBSET N
  BY Zenon, NatListShape
<1>3. /\ Quantity(Quota!Max(a, b), name) \in {Quantity(a, name), Quantity(b, name)}
      /\ Quantity(Quota!Max(a, b), name) >= Quantity(a, name)
      /\ Quantity(Quota!Max(a, b), name) >= Quantity(b, name)
  BY NatListShape DEF Quota!Max, Quantity
<1> QED
  BY Zenon, <1>1, <1>2, <1>3 DEF NatLists

AreResourceLists(lists) ==
    IsFiniteSet(DOMAIN lists) /\ \A k \in DOMAIN lists : IsResourceList(lists[k])

(* What the fold in SumOf computes, on the first lists, the first but the  *)
(* last, and so on.                                                        *)
LEMMA SumFold ==
    ASSUME NEW lists, AreResourceLists(lists), NEW name
    PROVE  \E sum :
             /\ sum = [s \in SUBSET DOMAIN lists |->
                        IF s = {} THEN 0
                        ELSE Quantity(lists[Some(s)], name) + sum[s \ {Some(s)}]]
             /\ SumOf(lists, name) = sum[DOMAIN lists]
<1> DEFINE S == DOMAIN lists
           top == [s \in SUBSET S |-> Some(s)]
           F == [p \in (SUBSET S) \X Nat |->
                    IF p[1] = {} THEN 0 ELSE Quantity(lists[Some(p[1])], name) + p[2]]
           sum == CHOOSE iter : iter = [s \in SUBSET S |->
                    IF s = {} THEN 0
                    ELSE Quantity(lists[Some(s)], name) + iter[s \ {Some(s)}]]
<1>1. IsFiniteSet(S) /\ \A k \in S : Quantity(lists[k], name) \in Nat
  BY Zenon DEF AreResourceLists, IsResourceList, Quantity
<1>2. \A s \in SUBSET S : s # {} => Some(s) \in s
  BY Zenon DEF Some
<1>3. F \in [(SUBSET S) \X Nat -> Nat]
  BY <1>1, <1>2
<1>4. CanFold(S, top, Nat, 0, F)
  BY Zenon, <1>1, <1>2, <1>3 DEF CanFold
<1>5. PICK g : IsFold(g, S, top, Nat, 0, F)
  <2> HIDE DEF S, top, F
  <2> QED
    BY Zenon, <1>4, FoldExists
<1>6. g = [s \in SUBSET S |-> IF s = {} THEN 0
                              ELSE Quantity(lists[Some(s)], name) + g[s \ {Some(s)}]]
  <2>1. ASSUME NEW s \in SUBSET S, s # {}
        PROVE  F[<<s, g[s \ {top[s]}]>>] = Quantity(lists[Some(s)], name) + g[s \ {Some(s)}]
    BY Zenon, <1>5, <2>1 DEF IsFold
  <2> HIDE DEF F, top
  <2> QED
    BY Zenon, <1>5, <2>1 DEF IsFold
<1>7. sum = [s \in SUBSET S |-> IF s = {} THEN 0
                                ELSE Quantity(lists[Some(s)], name) + sum[s \ {Some(s)}]]
  BY Zenon, <1>6
<1>8. SumOf(lists, name) = sum[S]
  BY Zenon DEF SumOf, FoldFunction, FoldFunctionOnSet, MapThenFoldSet, Some
<1> QED
  BY Zenon, <1>7, <1>8

(* What the fold with Add in getResourceRequestList computes. *)
LEMMA AddFold ==
    ASSUME NEW lists, AreResourceLists(lists), NEW N,
           \A k \in DOMAIN lists : lists[k] \in NatLists(N)
    PROVE  \E sum :
             /\ sum = [s \in SUBSET DOMAIN lists |->
                        IF s = {} THEN EmptyList
                        ELSE Quota!Add(lists[Some(s)], sum[s \ {Some(s)}])]
             /\ FoldFunction(Quota!Add, EmptyList, lists) = sum[DOMAIN lists]
<1> DEFINE S == DOMAIN lists
           V == NatLists(N)
           top == [s \in SUBSET S |-> Some(s)]
           F == [p \in (SUBSET S) \X V |->
                    IF p[1] = {} THEN EmptyList ELSE Quota!Add(lists[Some(p[1])], p[2])]
           sum == CHOOSE iter : iter = [s \in SUBSET S |->
                    IF s = {} THEN EmptyList
                    ELSE Quota!Add(lists[Some(s)], iter[s \ {Some(s)}])]
<1>1. IsFiniteSet(S)
  BY Zenon DEF AreResourceLists
<1>2. \A s \in SUBSET S : s # {} => Some(s) \in s
  BY Zenon DEF Some
<1>3. EmptyList \in V
  BY DEF EmptyList, NatLists
<1>4. F \in [(SUBSET S) \X V -> V]
  <2>1. ASSUME NEW s \in SUBSET S, NEW v \in V, s # {}
        PROVE  Quota!Add(lists[Some(s)], v) \in V
    BY Zenon, <1>2, <2>1, QuotaAdd
  <2> HIDE DEF V
  <2> QED
    BY Zenon, <1>3, <2>1
<1>5. CanFold(S, top, V, EmptyList, F)
  BY Zenon, <1>1, <1>2, <1>3, <1>4 DEF CanFold
<1>6. PICK g : IsFold(g, S, top, V, EmptyList, F)
  <2> HIDE DEF S, V, top, F
  <2> QED
    BY Zenon, <1>5, FoldExists
<1>7. g = [s \in SUBSET S |-> IF s = {} THEN EmptyList
                              ELSE Quota!Add(lists[Some(s)], g[s \ {Some(s)}])]
  <2>1. ASSUME NEW s \in SUBSET S, s # {}
        PROVE  F[<<s, g[s \ {top[s]}]>>] = Quota!Add(lists[Some(s)], g[s \ {Some(s)}])
    <3> HIDE DEF V
    <3> QED
      BY Zenon, <1>6, <2>1 DEF IsFold
  <2> HIDE DEF F, top, V
  <2> QED
    BY Zenon, <1>6, <2>1 DEF IsFold
<1>8. sum = [s \in SUBSET S |-> IF s = {} THEN EmptyList
                                ELSE Quota!Add(lists[Some(s)], sum[s \ {Some(s)}])]
  BY Zenon, <1>7
<1>9. FoldFunction(Quota!Add, EmptyList, lists) = sum[S]
  BY Zenon DEF FoldFunction, FoldFunctionOnSet, MapThenFoldSet, Some
<1> QED
  BY Zenon, <1>8, <1>9

(* What the fold with Max in getResourceRequestList computes. *)
LEMMA MaxFold ==
    ASSUME NEW lists, AreResourceLists(lists), NEW N, NEW base \in NatLists(N),
           \A k \in DOMAIN lists : lists[k] \in NatLists(N)
    PROVE  \E most :
             /\ most = [s \in SUBSET DOMAIN lists |->
                        IF s = {} THEN base
                        ELSE Quota!Max(lists[Some(s)], most[s \ {Some(s)}])]
             /\ FoldFunction(Quota!Max, base, lists) = most[DOMAIN lists]
<1> DEFINE S == DOMAIN lists
           V == NatLists(N)
           top == [s \in SUBSET S |-> Some(s)]
           F == [p \in (SUBSET S) \X V |->
                    IF p[1] = {} THEN base ELSE Quota!Max(lists[Some(p[1])], p[2])]
           most == CHOOSE iter : iter = [s \in SUBSET S |->
                    IF s = {} THEN base
                    ELSE Quota!Max(lists[Some(s)], iter[s \ {Some(s)}])]
<1>1. IsFiniteSet(S)
  BY Zenon DEF AreResourceLists
<1>2. \A s \in SUBSET S : s # {} => Some(s) \in s
  BY Zenon DEF Some
<1>3. base \in V
  BY Zenon
<1>4. F \in [(SUBSET S) \X V -> V]
  <2>1. ASSUME NEW s \in SUBSET S, NEW v \in V, s # {}
        PROVE  Quota!Max(lists[Some(s)], v) \in V
    BY Zenon, <1>2, <2>1, QuotaMax
  <2> HIDE DEF V
  <2> QED
    BY Zenon, <1>3, <2>1
<1>5. CanFold(S, top, V, base, F)
  BY Zenon, <1>1, <1>2, <1>3, <1>4 DEF CanFold
<1>6. PICK g : IsFold(g, S, top, V, base, F)
  <2> HIDE DEF S, V, top, F
  <2> QED
    BY Zenon, <1>5, FoldExists
<1>7. g = [s \in SUBSET S |-> IF s = {} THEN base
                              ELSE Quota!Max(lists[Some(s)], g[s \ {Some(s)}])]
  <2>1. ASSUME NEW s \in SUBSET S, s # {}
        PROVE  F[<<s, g[s \ {top[s]}]>>] = Quota!Max(lists[Some(s)], g[s \ {Some(s)}])
    <3> HIDE DEF V
    <3> QED
      BY Zenon, <1>6, <2>1 DEF IsFold
  <2> HIDE DEF F, top, V
  <2> QED
    BY Zenon, <1>6, <2>1 DEF IsFold
<1>8. most = [s \in SUBSET S |-> IF s = {} THEN base
                                 ELSE Quota!Max(lists[Some(s)], most[s \ {Some(s)}])]
  BY Zenon, <1>7
<1>9. FoldFunction(Quota!Max, base, lists) = most[S]
  BY Zenon DEF FoldFunction, FoldFunctionOnSet, MapThenFoldSet, Some
<1> QED
  BY Zenon, <1>8, <1>9

(* Adding up lists adds up every quantity. *)
LEMMA SumOfLists ==
    ASSUME NEW lists, AreResourceLists(lists), NEW N,
           \A k \in DOMAIN lists : lists[k] \in NatLists(N), NEW name
    PROVE  /\ FoldFunction(Quota!Add, EmptyList, lists) \in NatLists(N)
           /\ Quantity(FoldFunction(Quota!Add, EmptyList, lists), name) = SumOf(lists, name)
<1> DEFINE S == DOMAIN lists
<1>1. PICK sum : /\ sum = [s \in SUBSET S |->
                            IF s = {} THEN EmptyList
                            ELSE Quota!Add(lists[Some(s)], sum[s \ {Some(s)}])]
                 /\ FoldFunction(Quota!Add, EmptyList, lists) = sum[S]
  BY Zenon, AddFold
<1>2. PICK n : /\ n = [s \in SUBSET S |->
                        IF s = {} THEN 0
                        ELSE Quantity(lists[Some(s)], name) + n[s \ {Some(s)}]]
               /\ SumOf(lists, name) = n[S]
  BY Zenon, SumFold
<1> DEFINE G == {s \in SUBSET S : sum[s] \in NatLists(N) /\ Quantity(sum[s], name) = n[s]}
<1>3. IsFiniteSet(S)
  BY Zenon DEF AreResourceLists
<1>4. {} \in G
  <2>1. sum[{}] = EmptyList /\ n[{}] = 0
    BY Zenon, <1>1, <1>2
  <2>2. EmptyList \in NatLists(N) /\ Quantity(EmptyList, name) = 0
    BY DEF EmptyList, NatLists, Quantity
  <2> QED
    BY Zenon, <2>1, <2>2
<1>5. ASSUME NEW s \in SUBSET S, s # {}, \A x \in s : s \ {x} \in G
      PROVE  s \in G
  <2>1. Some(s) \in s
    BY Zenon, <1>5 DEF Some
  <2>2. s \ {Some(s)} \in G /\ lists[Some(s)] \in NatLists(N)
    BY Zenon, <1>5, <2>1
  <2>3. sum[s] = Quota!Add(lists[Some(s)], sum[s \ {Some(s)}])
    BY Zenon, <1>1, <1>5
  <2>4. n[s] = Quantity(lists[Some(s)], name) + n[s \ {Some(s)}]
    BY Zenon, <1>2, <1>5
  <2> QED
    BY <2>2, <2>3, <2>4, QuotaAdd
<1>6. S \in G
  <2> HIDE DEF S, G
  <2>1. \A s \in SUBSET S : s # {} /\ (\A x \in s : s \ {x} \in G) => s \in G
    BY Zenon, <1>5
  <2>2. IsFiniteSet(S)
    BY Zenon, <1>3
  <2>3. \A s \in SUBSET S : s \in G
    BY Zenon, <1>4, <2>1, <2>2, SubsetInduction
  <2> QED
    BY Zenon, <2>3
<1> QED
  BY Zenon, <1>1, <1>2, <1>6

(* The greatest of some lists has the greatest of every quantity. *)
LEMMA MostOfLists ==
    ASSUME NEW lists, AreResourceLists(lists), NEW N, NEW base \in NatLists(N),
           \A k \in DOMAIN lists : lists[k] \in NatLists(N), NEW name
    PROVE  /\ FoldFunction(Quota!Max, base, lists) \in NatLists(N)
           /\ Quantity(FoldFunction(Quota!Max, base, lists), name)
              = Max(QuantitiesOf(lists, name) \cup {Quantity(base, name)})
           /\ IsMax(QuantitiesOf(lists, name) \cup {Quantity(base, name)})
<1> DEFINE S == DOMAIN lists
           A(s) == {Quantity(lists[k], name) : k \in s} \cup {Quantity(base, name)}
<1>1. PICK most : /\ most = [s \in SUBSET S |->
                             IF s = {} THEN base
                             ELSE Quota!Max(lists[Some(s)], most[s \ {Some(s)}])]
                  /\ FoldFunction(Quota!Max, base, lists) = most[S]
  BY Zenon, MaxFold
<1> DEFINE G == {s \in SUBSET S : /\ most[s] \in NatLists(N)
                                 /\ Quantity(most[s], name) \in A(s)
                                 /\ \A q \in A(s) : Quantity(most[s], name) >= q}
<1>2. IsFiniteSet(S)
  BY Zenon DEF AreResourceLists
<1>3. \A s \in SUBSET S : A(s) \subseteq Nat
  BY NatListShape
<1>4. {} \in G
  <2>1. most[{}] = base
    BY Zenon, <1>1
  <2>2. Quantity(base, name) \in Nat
    BY Zenon, NatListShape
  <2> QED
    BY <2>1, <2>2
<1>5. ASSUME NEW s \in SUBSET S, s # {}, \A x \in s : s \ {x} \in G
      PROVE  s \in G
  <2>1. Some(s) \in s
    BY Zenon, <1>5 DEF Some
  <2> DEFINE a == most[s \ {Some(s)}]
             b == lists[Some(s)]
  <2>2. s \ {Some(s)} \in G /\ b \in NatLists(N)
    BY Zenon, <1>5, <2>1
  <2>3. most[s] = Quota!Max(b, a)
    BY Zenon, <1>1, <1>5
  <2>4. /\ most[s] \in NatLists(N)
        /\ Quantity(most[s], name) \in {Quantity(a, name), Quantity(b, name)}
        /\ Quantity(most[s], name) >= Quantity(a, name)
        /\ Quantity(most[s], name) >= Quantity(b, name)
    BY SMTT(30), <2>2, <2>3, QuotaMax
  <2>5. A(s) = A(s \ {Some(s)}) \cup {Quantity(b, name)}
    BY Zenon, <2>1
  <2>6. Quantity(most[s], name) \in A(s)
    BY Zenon, <2>2, <2>4, <2>5
  <2>7. ASSUME NEW q \in A(s) PROVE Quantity(most[s], name) >= q
    <3>1. q \in Nat /\ Quantity(a, name) \in Nat /\ Quantity(most[s], name) \in Nat
      BY ZenonT(30), <1>3, <2>2, <2>4, NatListShape
    <3>2. q = Quantity(b, name) \/ Quantity(a, name) >= q
      BY Zenon, <2>2, <2>5
    <3> HIDE DEF A, a, b
    <3> QED
      BY <2>4, <3>1, <3>2
  <2> HIDE DEF A
  <2> QED
    BY Zenon, <2>4, <2>6, <2>7
<1>6. S \in G
  <2> HIDE DEF S, G
  <2>1. \A s \in SUBSET S : s # {} /\ (\A x \in s : s \ {x} \in G) => s \in G
    BY Zenon, <1>5
  <2>2. IsFiniteSet(S)
    BY Zenon, <1>2
  <2>3. \A s \in SUBSET S : s \in G
    BY Zenon, <1>4, <2>1, <2>2, SubsetInduction
  <2> QED
    BY Zenon, <2>3
<1>7. Max(A(S)) = Quantity(most[S], name)
  <2>1. A(S) \in SUBSET Int
    BY <1>3
  <2>2. Quantity(most[S], name) \in A(S) /\ \A q \in A(S) : Quantity(most[S], name) >= q
    BY Zenon, <1>6
  <2> HIDE DEF A
  <2> QED
    BY Zenon, <2>1, <2>2, MaxIsUnique
<1> QED
  BY Zenon, <1>1, <1>3, <1>6, <1>7 DEF QuantitiesOf, IsMax

(* What is worked out from the lists of containers and init containers is  *)
(* what the scheduler works out, however many there are.                   *)
LEMMA DemandOfLists ==
    ASSUME NEW C, NEW I, NEW o, NEW name, AreResourceLists(C), AreResourceLists(I),
           o # None => IsResourceList(o)
    PROVE  LET most == FoldFunction(Quota!Max, FoldFunction(Quota!Add, EmptyList, C), I)
           IN /\ Quantity(IF o = None THEN most ELSE Quota!Add(most, o), name)
                 = Demand(C, I, o, name)
              /\ Demand(C, I, o, name) \in Nat
              /\ IsMax(QuantitiesOf(I, name) \cup {SumOf(C, name)})
<1> DEFINE N == (UNION {DOMAIN C[k] : k \in DOMAIN C})
                \cup (UNION {DOMAIN I[k] : k \in DOMAIN I}) \cup DOMAIN o
           sum == FoldFunction(Quota!Add, EmptyList, C)
           most == FoldFunction(Quota!Max, sum, I)
           inits == QuantitiesOf(I, name)
<1>2. \A k \in DOMAIN C : C[k] \in NatLists(N)
  <2>1. \A k \in DOMAIN C : IsResourceList(C[k]) /\ DOMAIN C[k] \subseteq N
    BY Zenon DEF AreResourceLists
  <2> HIDE DEF N
  <2> QED
    BY Zenon, <2>1, NatListIntro
<1>3. \A k \in DOMAIN I : I[k] \in NatLists(N)
  <2>1. \A k \in DOMAIN I : IsResourceList(I[k]) /\ DOMAIN I[k] \subseteq N
    BY Zenon DEF AreResourceLists
  <2> HIDE DEF N
  <2> QED
    BY Zenon, <2>1, NatListIntro
<1>4. o # None => o \in NatLists(N)
  <2>1. DOMAIN o \subseteq N
    BY Zenon
  <2> HIDE DEF N
  <2> QED
    BY Zenon, <2>1, NatListIntro
<1>5. sum \in NatLists(N) /\ Quantity(sum, name) = SumOf(C, name)
  <2> HIDE DEF N
  <2> QED
    BY Zenon, <1>2, SumOfLists
<1>6. /\ most \in NatLists(N)
      /\ Quantity(most, name) = Max(inits \cup {SumOf(C, name)})
      /\ IsMax(inits \cup {SumOf(C, name)})
  <2> HIDE DEF N, sum
  <2>1. /\ most \in NatLists(N)
        /\ Quantity(most, name) = Max(inits \cup {Quantity(sum, name)})
        /\ IsMax(inits \cup {Quantity(sum, name)})
    BY <1>3, <1>5, MostOfLists
  <2> QED
    BY Zenon, <1>5, <2>1
<1>7. Demand(C, I, o, name)
      = Quantity(most, name) + (IF o = None THEN 0 ELSE Quantity(o, name))
  BY Zenon, <1>6 DEF Demand
<1>8. Quantity(most, name) \in Nat
  <2> HIDE DEF N, most
  <2> QED
    BY Zenon, <1>6, NatListShape
<1> HIDE DEF N, most, inits
<1>9. CASE o = None
  BY <1>6, <1>7, <1>8, <1>9 DEF inits, most
<1>10. CASE o # None
  <2>1. Quantity(o, name) \in Nat
    BY Zenon, <1>4, <1>10, NatListShape
  <2>2. Quantity(Quota!Add(most, o), name) = Quantity(most, name) + Quantity(o, name)
    BY <1>4, <1>6, <1>10, QuotaAdd
  <2>3. /\ Quantity(IF o = None THEN most ELSE Quota!Add(most, o), name)
           = Demand(C, I, o, name)
        /\ Demand(C, I, o, name) \in Nat
    BY SMTT(30), <1>7, <1>8, <1>10, <2>1, <2>2
  <2> QED
    BY Zenon, <1>6, <2>3 DEF inits, most
<1> QED
  BY Zenon, <1>9, <1>10

(* Greater lists have a greater sum. *)
LEMMA SumGrows ==
    ASSUME NEW A, NEW B, NEW name, AreResourceLists(A), AreResourceLists(B),
           DOMAIN A = DOMAIN B,
           \A k \in DOMAIN A : Quantity(A[k], name) <= Quantity(B[k], name)
    PROVE  SumOf(A, name) <= SumOf(B, name)
<1> DEFINE S == DOMAIN A
<1>1. PICK a : /\ a = [s \in SUBSET S |->
                        IF s = {} THEN 0
                        ELSE Quantity(A[Some(s)], name) + a[s \ {Some(s)}]]
               /\ SumOf(A, name) = a[S]
  BY Zenon, SumFold
<1>2. PICK b : /\ b = [s \in SUBSET S |->
                        IF s = {} THEN 0
                        ELSE Quantity(B[Some(s)], name) + b[s \ {Some(s)}]]
               /\ SumOf(B, name) = b[S]
  BY Zenon, SumFold
<1> DEFINE G == {s \in SUBSET S : a[s] \in Nat /\ b[s] \in Nat /\ a[s] <= b[s]}
<1>3. {} \in G
  <2>1. a[{}] = 0 /\ b[{}] = 0
    BY Zenon, <1>1, <1>2
  <2> QED
    BY <2>1
<1>4. ASSUME NEW s \in SUBSET S, s # {}, \A x \in s : s \ {x} \in G
      PROVE  s \in G
  <2>1. Some(s) \in s
    BY Zenon, <1>4 DEF Some
  <2>2. s \ {Some(s)} \in G
    BY Zenon, <1>4, <2>1
  <2>3. /\ Quantity(A[Some(s)], name) \in Nat /\ Quantity(B[Some(s)], name) \in Nat
        /\ Quantity(A[Some(s)], name) <= Quantity(B[Some(s)], name)
    BY Zenon, <2>1 DEF AreResourceLists, IsResourceList, Quantity
  <2>4. /\ a[s] = Quantity(A[Some(s)], name) + a[s \ {Some(s)}]
        /\ b[s] = Quantity(B[Some(s)], name) + b[s \ {Some(s)}]
    BY Zenon, <1>1, <1>2, <1>4
  <2> QED
    BY <2>2, <2>3, <2>4
<1>5. S \in G
  <2> HIDE DEF S, G
  <2>1. \A s \in SUBSET S : s # {} /\ (\A x \in s : s \ {x} \in G) => s \in G
    BY Zenon, <1>4
  <2>2. IsFiniteSet(S)
    BY Zenon DEF AreResourceLists, S
  <2>3. \A s \in SUBSET S : s \in G
    BY Zenon, <1>3, <2>1, <2>2, SubsetInduction
  <2> QED
    BY Zenon, <2>3
<1> QED
  BY Zenon, <1>1, <1>2, <1>5

(* Greater lists are a greater demand. *)
LEMMA DemandGrows ==
    ASSUME NEW A, NEW B, NEW I, NEW J, NEW o, NEW name,
           AreResourceLists(A), AreResourceLists(B), AreResourceLists(I), AreResourceLists(J),
           DOMAIN A = DOMAIN B, DOMAIN I = DOMAIN J,
           \A k \in DOMAIN A : Quantity(A[k], name) <= Quantity(B[k], name),
           \A k \in DOMAIN I : Quantity(I[k], name) <= Quantity(J[k], name),
           o # None => IsResourceList(o)
    PROVE  Demand(A, I, o, name) <= Demand(B, J, o, name)
<1> DEFINE S == QuantitiesOf(I, name) \cup {SumOf(A, name)}
           T == QuantitiesOf(J, name) \cup {SumOf(B, name)}
           extra == IF o = None THEN 0 ELSE Quantity(o, name)
<1>1. IsMax(S) /\ IsMax(T)
  BY Zenon, DemandOfLists
<1>2. \A x \in S : \E y \in T : x <= y
  BY Zenon, SumGrows DEF QuantitiesOf
<1>3. extra \in Nat
  BY DEF IsResourceList, Quantity
<1>4. Demand(A, I, o, name) = Max(S) + extra /\ Demand(B, J, o, name) = Max(T) + extra
  BY Zenon DEF Demand
<1> HIDE DEF S, T, extra
<1>5. PICK y \in T : Max(S) <= y
  BY Zenon, <1>1, <1>2 DEF IsMax
<1>6. Max(S) \in Nat /\ Max(T) \in Nat /\ y \in Nat /\ Max(T) >= y
  BY Zenon, <1>1 DEF IsMax
<1> QED
  BY <1>3, <1>4, <1>5, <1>6

(* getResourceRequestList works out what a template requests, and the      *)
(* scheduler reserves no less.                                             *)
LEMMA RequestsAreReserved ==
    ASSUME NEW t \in Templates, NEW name \in Resources
    PROVE  /\ Requested[t][name] \in Nat /\ Reserved[t][name] \in Nat
           /\ Quantity(getResourceRequestList(t["Worker"]), name) = Requested[t][name]
           /\ Requested[t][name] <= Reserved[t][name]
<1> DEFINE C == t["Worker"].containers
           I == t["Worker"].initContainers
           o == t["Worker"].overhead
<1>1. AreContainers(C) /\ AreContainers(I) /\ (o # None => IsResourceList(o))
  BY Zenon, TemplatesAssumption
<1>2. ASSUME NEW cs, AreContainers(cs)
      PROVE  /\ AreResourceLists(Requests(cs)) /\ AreResourceLists(Completed(cs))
             /\ DOMAIN Requests(cs) = DOMAIN cs /\ DOMAIN Completed(cs) = DOMAIN cs
             /\ \A k \in DOMAIN cs :
                  Quantity(Requests(cs)[k], name) <= Quantity(Completed(cs)[k], name)
  <2>1. ASSUME NEW k \in DOMAIN cs
        PROVE  /\ IsResourceList(Requests(cs)[k]) /\ IsResourceList(Completed(cs)[k])
               /\ Quantity(Requests(cs)[k], name) <= Quantity(Completed(cs)[k], name)
    <3> DEFINE r == cs[k].requests
               l == cs[k].limits
               c == [n \in DOMAIN r \cup DOMAIN l |-> IF n \in DOMAIN r THEN r[n] ELSE l[n]]
    <3>1. Requests(cs)[k] = r /\ Completed(cs)[k] = c
      BY Zenon DEF Requests, Completed
    <3>2. IsResourceList(r) /\ IsResourceList(l)
      BY Zenon, <1>2 DEF AreContainers
    <3> HIDE DEF r, l
    <3>3. IsResourceList(c)
      BY Zenon, <3>2 DEF IsResourceList
    <3>4. Quantity(r, name) <= Quantity(c, name)
      BY <3>2 DEF IsResourceList, Quantity
    <3> QED
      BY Zenon, <3>1, <3>2, <3>3, <3>4
  <2>2. DOMAIN Requests(cs) = DOMAIN cs /\ DOMAIN Completed(cs) = DOMAIN cs
    BY Zenon DEF Requests, Completed
  <2> QED
    BY Zenon, <1>2, <2>1, <2>2 DEF AreResourceLists, AreContainers
<1>3. /\ Requested[t][name] = Demand(Requests(C), Requests(I), o, name)
      /\ Reserved[t][name] = Demand(Completed(C), Completed(I), o, name)
  BY Zenon DEF Requested, Reserved
<1>4. getResourceRequestList(t["Worker"])
      = LET most == FoldFunction(Quota!Max,
                      FoldFunction(Quota!Add, EmptyList, Requests(C)), Requests(I))
        IN IF o = None THEN most ELSE Quota!Add(most, o)
  BY Zenon DEF getResourceRequestList
<1> HIDE DEF C, I, o
<1>5. /\ Requested[t][name] \in Nat /\ Reserved[t][name] \in Nat
      /\ Quantity(getResourceRequestList(t["Worker"]), name) = Requested[t][name]
  <2>1. /\ AreResourceLists(Requests(C)) /\ AreResourceLists(Requests(I))
        /\ AreResourceLists(Completed(C)) /\ AreResourceLists(Completed(I))
    BY Zenon, <1>1, <1>2
  <2>2. /\ Demand(Requests(C), Requests(I), o, name) \in Nat
        /\ Demand(Completed(C), Completed(I), o, name) \in Nat
    BY Zenon, <1>1, <2>1, DemandOfLists
  <2>3. Quantity(LET most == FoldFunction(Quota!Max,
                               FoldFunction(Quota!Add, EmptyList, Requests(C)), Requests(I))
                 IN IF o = None THEN most ELSE Quota!Add(most, o), name)
        = Demand(Requests(C), Requests(I), o, name)
    BY Zenon, <1>1, <2>1, DemandOfLists
  <2> QED
    BY Zenon, <1>3, <1>4, <2>2, <2>3
<1>6. Requested[t][name] <= Reserved[t][name]
  BY Zenon, <1>1, <1>2, <1>3, DemandGrows
<1> QED
  BY Zenon, <1>5, <1>6

(* The node lines are those of the template. *)
NodesOfTemplates ==
    /\ templates \in Templates
    /\ cm # None /\ cm.conf # None =>
         \A i \in DOMAIN cm.conf.nodes : cm.conf.nodes[i] = NodeOf[templates]

LEMMA NodesStep == NodesOfTemplates /\ [Next]_vars => NodesOfTemplates'
<1> SUFFICES ASSUME NodesOfTemplates, [Next]_vars PROVE NodesOfTemplates'
  BY Zenon
<1>1. ASSUME templates' = templates, cm' = cm \/ cm' = None
      PROVE  NodesOfTemplates'
  BY Zenon, <1>1 DEF NodesOfTemplates
<1>2. CASE UNCHANGED vars
  BY Zenon, <1>1, <1>2 DEF vars
<1>3. CASE CreateNewConfigMap
  <2>1. templates' = templates /\ (Born \/ NotBorn)
    BY Zenon, <1>3 DEF CreateNewConfigMap
  <2>2. CASE Born
    BY Zenon, <2>1, <2>2 DEF Born, NodesOfTemplates
  <2> QED
    BY Zenon, <1>1, <2>1, <2>2 DEF NotBorn
<1>4. CASE UpdateConfigMapInApiServer
  <2>1. templates' = templates /\ (cm' = cm \/ \E p \in genSlurmPorts(templates) : cm' = Filled(w.cm, p))
    BY Zenon, <1>4 DEF UpdateConfigMapInApiServer
  <2>2. ASSUME NEW p, cm' = Filled(w.cm, p)
        PROVE  NodesOfTemplates'
    <3>1. cm'.conf = genSlurmConf(w.spec, p)
      BY Zenon, <2>2 DEF Filled
    <3>2. cm'.conf.nodes = [i \in 0 .. w.spec.replicas - 1 |-> NodeOf[templates]]
      BY <3>1 DEF genSlurmConf, createSlurmConfNodes
    <3> QED
      BY Zenon, <2>1, <3>2 DEF NodesOfTemplates
  <2> QED
    BY Zenon, <1>1, <2>1, <2>2
<1>5. CASE StartPass \/ GetConfigMapForCluster \/ EndPass
  BY Zenon, <1>1, <1>5 DEF StartPass, GetConfigMapForCluster, EndPass
<1>6. CASE ReconcilePods \/ DeletePods \/ DeleteConfigMap
  BY Zenon, <1>1, <1>6 DEF ReconcilePods, DeletePods, DeleteConfigMap
<1>7. CASE \E suspend \in BOOLEAN, replicas \in 1 .. MaxReplicas : Edit(suspend, replicas)
  BY Zenon, <1>1, <1>7 DEF Edit
<1>8. CASE \E i \in Indices : PodGone(i)
  BY Zenon, <1>1, <1>8 DEF PodGone
<1>9. CASE DeliverCluster \/ DeliverPods \/ DeliverConfigMap \/ Resync \/ Crash
  BY Zenon, <1>1, <1>9 DEF DeliverCluster, DeliverPods, DeliverConfigMap, Resync, Crash
<1> QED
  BY Zenon, <1>2, <1>3, <1>4, <1>5, <1>6, <1>7, <1>8, <1>9 DEF Next, PassStep

(* A line built from what is requested offers that much, rounded down. *)
LEMMA NodeOffersReserved ==
    ASSUME NEW t \in Templates
    PROVE  LET node == NodeOf[t]
               requested == Requested[t]
               reserved == Reserved[t]
           IN /\ node.cpus = IF requested["cpu"] = 0 THEN 8 ELSE requested["cpu"] \div 1000
              /\ requested["cpu"] # 0 => node.cpus * 1000 <= reserved["cpu"]
              /\ requested["memory"] # 0 => node.realMemory * 1024 <= reserved["memory"] * 1000
              /\ node.gpus * 1000 <= reserved["gpu"]
<1> DEFINE cpu == Requested[t]["cpu"]
           memory == Requested[t]["memory"]
           gpu == Requested[t]["gpu"]
           all == Reserved[t]
<1>1. /\ cpu \in Nat /\ memory \in Nat /\ gpu \in Nat
      /\ all["cpu"] \in Nat /\ all["memory"] \in Nat /\ all["gpu"] \in Nat
      /\ Quantity(getResourceRequestList(t["Worker"]), "cpu") = cpu
      /\ Quantity(getResourceRequestList(t["Worker"]), "memory") = memory
      /\ Quantity(getResourceRequestList(t["Worker"]), "gpu") = gpu
      /\ cpu <= all["cpu"] /\ memory <= all["memory"] /\ gpu <= all["gpu"]
  BY Zenon, RequestsAreReserved DEF Resources
<1>2. NodeOf[t] = [cpus |-> IF cpu = 0 THEN 8 ELSE cpu \div 1000,
                   realMemory |-> ((IF memory = 0 THEN 32 * 1024 ELSE memory) * 1000)
                                  \div 1024,
                   gpus |-> gpu \div 1000]
  BY <1>1 DEF NodeOf, getResourceRequest
<1> HIDE DEF cpu, memory, gpu, all
<1>3. /\ NodeOf[t].cpus = IF cpu = 0 THEN 8 ELSE cpu \div 1000
      /\ memory # 0 => NodeOf[t].realMemory = (memory * 1000) \div 1024
      /\ NodeOf[t].gpus = gpu \div 1000
  BY <1>2
<1>4. /\ (cpu \div 1000) * 1000 <= all["cpu"]
      /\ ((memory * 1000) \div 1024) * 1024 <= all["memory"] * 1000
      /\ (gpu \div 1000) * 1000 <= all["gpu"]
  BY <1>1
<1> QED
  BY <1>3, <1>4 DEF cpu, memory, gpu, all

(* createSlurmConfNodesByReplica: the node lines offer what the templates  *)
(* request, and so never more than the scheduler reserves for the pod      *)
(* behind the node, whatever the limits; except that a resource that       *)
(* nothing is requested of has its default.                                *)
THEOREM NodesOfferReserved == Spec => []NodesOfferWhatIsReserved
<1>1. Init => NodesOfTemplates
  BY Zenon DEF Init, NodesOfTemplates
<1>2. NodesOfTemplates => NodesOfferWhatIsReserved
  BY NodeOffersReserved DEF NodesOfTemplates, NodesOfferWhatIsReserved
<1> QED
  BY <1>1, <1>2, NodesStep, PTL DEF Spec
==============================================================================
