---------------------------- MODULE GangResources ----------------------------
(***************************************************************************)
(* The resources that the PodGroup of a cluster asks for when its spec     *)
(* does not say: those of as many pods as have to start together, taken    *)
(* in the order of the priorities of the replica types.                    *)
(*                                                                         *)
(* The replica types come out of a Go map, in any order, and the sort is   *)
(* not stable, so types of one priority may come in either order.          *)
(***************************************************************************)
EXTENDS Integers, Sequences, FiniteSetsExt

CONSTANT None

Quota == INSTANCE ResourceLists

IsResourceList(l) == l = [k \in DOMAIN l |-> l[k]] /\ \A k \in DOMAIN l : l[k] \in Int

(* A clusterReplicaSpec: a function from finitely many types to replica    *)
(* specs, with numbers for the replicas that are given and quantities of   *)
(* resources in the same unit for every list.                              *)
AreReplicaSpecs(specs) ==
    /\ IsFiniteSet(DOMAIN specs)
    /\ \A t \in DOMAIN specs :
         LET containers == specs[t].containers
         IN /\ specs[t].replicas = None \/ specs[t].replicas \in Int
            /\ containers \in Seq({containers[i] : i \in DOMAIN containers})
            /\ \A i \in DOMAIN containers :
                 /\ containers[i].requests = None \/ IsResourceList(containers[i].requests)
                 /\ containers[i].limits = None \/ IsResourceList(containers[i].limits)

GetTotalReplicas(specs) ==
    MapThenSumSet(LAMBDA t : IF specs[t].replicas = None THEN 1 ELSE specs[t].replicas,
                  DOMAIN specs)

(* A container's limits count if it has no requests, not even an empty map *)
(* of them.                                                                *)
AddResourceList(list, req, limit) ==
    LET what == IF req = None THEN limit ELSE req
    IN IF what = None THEN list ELSE Quota!Add(list, what)

(* classes is what pcGetFunc finds: the values of the priority classes by  *)
(* name.  A class that it does not find is ignored.                        *)
Priority(task, classes) ==
    IF task.priorityClass \in DOMAIN classes THEN classes[task.priorityClass] ELSE 0

(* The orders that the sort may end with. *)
ReplicasPriority(specs, classes) ==
    {order \in Injection(1 .. Cardinality(DOMAIN specs), DOMAIN specs) :
        \A i, j \in DOMAIN order :
            i < j => Priority(specs[order[i]], classes) >= Priority(specs[order[j]], classes)}

Times(n) == [i \in 1 .. n |-> i]

(* A loop over a sequence. *)
FoldLeft(op(_, _), base, seq) ==
    MapThenFoldSet(LAMBDA x, acc : op(acc, x), base,
                   LAMBDA i : seq[i], LAMBDA s : Max(s), DOMAIN seq)

(* The list with n more pods of a type. *)
AddPods(list, task, n) ==
    LET AddContainer(l, c) == AddResourceList(l, c.requests, c.limits)
        AddPod(l, i) == FoldLeft(AddContainer, l, task.containers)
    IN FoldLeft(AddPod, list, Times(n))

(* Mutant of CalcPGMinResources: a pod is counted before the comparison. *)
CalcPGMinResourcesOneShort(minMember, specs, order) ==
    LET Task(acc, t) ==
            LET n == IF specs[t].replicas = None THEN 0
                     ELSE Max({0, Min({specs[t].replicas, minMember - 1 - acc.podCnt})})
            IN [podCnt |-> acc.podCnt + n, list |-> AddPods(acc.list, specs[t], n)]
    IN FoldLeft(Task, [podCnt |-> 0, list |-> [k \in {} |-> 0]], order).list

CalcPGMinResources(minMember, specs, order) ==
    LET Task(acc, t) ==
            LET n == IF specs[t].replicas = None THEN 0
                     ELSE Max({0, Min({specs[t].replicas, minMember - acc.podCnt})})
            IN [podCnt |-> acc.podCnt + n, list |-> AddPods(acc.list, specs[t], n)]
    IN FoldLeft(Task, [podCnt |-> 0, list |-> [k \in {} |-> 0]], order).list

-----------------------------------------------------------------------------
(* What it promises, without an order of computation.                      *)

PodsOf(specs) ==
    UNION {{<<t, i>> : i \in 1 .. (IF specs[t].replicas = None THEN 0 ELSE specs[t].replicas)} :
             t \in DOMAIN specs}

(* The sets of n pods, or of all, that leave out none for one of lower     *)
(* priority.                                                               *)
Foremost(n, specs, classes) ==
    {S \in kSubset(Min({n, Cardinality(PodsOf(specs))}), PodsOf(specs)) :
        \A in \in S, out \in PodsOf(specs) \ S :
            Priority(specs[out[1]], classes) <= Priority(specs[in[1]], classes)}

(* What a container asks for: its requests, or else its limits. *)
Asked(c) == CASE c.requests # None -> c.requests
              [] c.requests = None /\ c.limits # None -> c.limits
              [] OTHER -> [k \in {} |-> 0]

Needs(S, specs) ==
    LET containers == UNION {{<<p, i>> : i \in DOMAIN specs[p[1]].containers} : p \in S}
        Of(x) == Asked(specs[x[1][1]].containers[x[2]])
    IN [name \in UNION {DOMAIN Of(x) : x \in containers} |->
          MapThenSumSet(LAMBDA x : IF name \in DOMAIN Of(x) THEN Of(x)[name] ELSE 0,
                        containers)]

Distinct(specs, classes) ==
    \A t, u \in DOMAIN specs :
        t # u => Priority(specs[t], classes) # Priority(specs[u], classes)

(* CalcPGMinResources gives what minMember pods need, and it passes over   *)
(* no pod for one of lower priority, whatever the order of the map.  If    *)
(* no two types have the same priority, or all pods are counted, the order *)
(* makes no difference, so that passes on one spec write one list.         *)
Promise(specs, minMember, classes) ==
    LET lists == {CalcPGMinResources(minMember, specs, order) :
                    order \in ReplicasPriority(specs, classes)}
    IN /\ lists \subseteq {Needs(S, specs) : S \in Foremost(minMember, specs, classes)}
       /\ minMember >= Cardinality(PodsOf(specs)) \/ Distinct(specs, classes)
            => Cardinality(lists) = 1
==============================================================================
