---------------------------- MODULE Expectations ----------------------------
(***************************************************************************)
(* The expectations of one cluster: the counters of creations and          *)
(* deletions a pass announces, that the informer handlers count down.      *)
(*                                                                         *)
(* Two kinds of goroutine share the store.  A pass resets the counters,    *)
(* raises them around its API calls and lowers them when a creation fails. *)
(* The informer of each kind of object lowers them as watch events arrive. *)
(* SetExpectations puts a NEW struct into the store, and a handler looks   *)
(* the struct up before it decrements it, so a handler can decrement a     *)
(* struct that is no longer in the store: hence Deliver and Observe are    *)
(* separate steps.                                                         *)
(***************************************************************************)
EXTENDS Integers

CONSTANTS Types,        \* the replica types of the spec
          MaxObjects,   \* bound: objects of one key at a time
          MaxOps,       \* bound: API calls of one pass
          MaxPending,   \* bound: undelivered events of one key and kind
          MaxFaults,    \* bound: failed calls, unannounced deletions, foreign
                        \* events and restarts
          None          \* no entry in the store, no event in a handler

ASSUME BoundsAreNaturals ==
    /\ MaxObjects \in Nat /\ MaxOps \in Nat
    /\ MaxPending \in Nat /\ MaxFaults \in Nat

Kinds == {"pods", "services"}

(* One key per replica type and kind.  The config map has a key too, but   *)
(* no SetExpectations ever stores it, and raising or lowering a key that   *)
(* is not in the store does nothing.                                       *)
Keys == Types \X Kinds
Whats == {"add", "del"}
B2N(b) == IF b THEN 1 ELSE 0

Counters == [add : Int, del : Int]
Handled == [key : Keys, what : Whats, live : BOOLEAN, own : BOOLEAN]

ASSUME NoneIsNoEntry ==
    /\ None \notin Counters
    /\ None \notin Handled /\ None \notin Keys

VARIABLES store,    \* per key: the counters, or None
          expired,  \* more than ExpectationsTimeout since the last reset
          alive,    \* per key: objects that exist and are not terminating
          dying,    \* per key: objects that are terminating
          pend,     \* per key: watch events not yet taken by an informer
          handler,  \* per kind: the event its informer is handling, or None
          pc,       \* where the pass is
          toReset,  \* keys the pass has still to reset
          cur,      \* key of the pass's current call, or None
          ops,      \* calls the pass may still make
          queued,   \* the cluster's key is in the work queue
          phantom,  \* per key: raises of this pass that no event answers
          faults    \* faults so far

vars == <<store, expired, alive, dying, pend, handler, pc, toReset, cur, ops,
          queued, phantom, faults>>

Zero == [k \in Keys |-> 0]
Nothing == [k \in Keys |-> [add |-> 0, del |-> 0]]
NewExpectations == [add |-> 0, del |-> 0]

Flags == expired \in BOOLEAN /\ queued \in BOOLEAN

TypeOK ==
    /\ store \in [Keys -> Counters \cup {None}]
    /\ alive \in [Keys -> Nat] /\ dying \in [Keys -> Nat]
    /\ pend \in [Keys -> [add : Nat, del : Nat]]
    /\ handler \in [Kinds -> Handled \cup {None}]
    /\ pc \in {"idle", "reset", "work", "create", "hit", "miss"}
    /\ toReset \in SUBSET Keys /\ cur \in Keys \cup {None}
    /\ ops \in 0 .. MaxOps
    /\ Flags
    /\ phantom \in [Keys -> [add : Nat, del : Nat]]
    /\ faults \in 0 .. MaxFaults

Init ==
    /\ store = [k \in Keys |-> None] /\ expired = FALSE
    /\ alive = Zero /\ dying = Zero /\ pend = Nothing
    /\ handler = [kd \in Kinds |-> None]
    /\ pc = "idle" /\ toReset = {} /\ cur = None /\ ops = 0
    /\ queued = TRUE
    /\ phantom = Nothing
    /\ faults = 0

-----------------------------------------------------------------------------
(* The store.                                                              *)

Fulfilled(k) == store[k] # None => store[k].add <= 0 /\ store[k].del <= 0

SatisfiedExpectations(k) ==
    store[k] # None => Fulfilled(k) \/ expired

(* Add(add, del) on the struct of a key, if there is one.                  *)
Raised(k, add, del) ==
    IF store[k] = None THEN store
    ELSE [store EXCEPT ![k] = [add |-> @.add + add, del |-> @.del + del]]

Lowered(k, add, del) == Raised(k, -add, -del)

(* SetPreSatisfiedExpectations has an empty body, so the key that          *)
(* PreSatisfiedExpectations looks up is never in the store.  With that the *)
(* counters hold no pass back: every key that is taken is reconciled.      *)
PreSatisfiedExpectations == FALSE

needReconcile ==
    ~(PreSatisfiedExpectations /\ \A k \in Keys : SatisfiedExpectations(k))

-----------------------------------------------------------------------------
(* The pass.                                                               *)

(* The worker takes the key; a pass that is not needed ends at once.       *)
StartPass ==
    /\ pc = "idle" /\ queued
    /\ queued' = FALSE
    /\ IF needReconcile
       THEN /\ pc' = "reset" /\ toReset' = Keys /\ ops' = MaxOps
            /\ expired' = FALSE
       ELSE UNCHANGED <<expired, pc, toReset, ops>>
    /\ UNCHANGED <<store, alive, dying, pend, handler, cur, phantom, faults>>

(* SetExpectations(key, 0, 0): a handler that holds the old struct of the  *)
(* key goes on with it, and its decrement is lost.                         *)
ResetExpectations(k) ==
    /\ pc = "reset" /\ k \in toReset
    /\ k[2] = "services" => <<k[1], "pods">> \notin toReset
    /\ store' = [store EXCEPT ![k] = NewExpectations]
    /\ phantom' = [phantom EXCEPT ![k] = Nothing[k]]
    /\ handler' = [kd \in Kinds |->
           IF handler[kd] # None /\ handler[kd].key = k
           THEN [handler[kd] EXCEPT !.live = FALSE]
           ELSE handler[kd]]
    /\ toReset' = toReset \ {k}
    /\ pc' = IF toReset' = {} THEN "work" ELSE pc
    /\ UNCHANGED <<expired, alive, dying, pend, cur, ops, queued, faults>>

(* The pass returns an error: the key goes back to the queue.              *)
Abort == pc' = "idle" /\ queued' = TRUE /\ cur' = None /\ ops' = 0

(* CreateNewPod and CreateNewService raise the count before they call the  *)
(* API server.                                                             *)
ExpectCreation(k) ==
    /\ pc = "work" /\ ops > 0
    /\ alive[k] + dying[k] < MaxObjects /\ pend[k].add < MaxPending
    /\ store' = Raised(k, 1, 0)
    /\ pc' = "create" /\ cur' = k /\ ops' = ops - 1
    /\ UNCHANGED <<expired, alive, dying, pend, handler, toReset, queued,
                   phantom, faults>>

(* The API server takes the object in.                                     *)
Appears(k) ==
    /\ alive' = [alive EXCEPT ![k] = @ + 1]
    /\ pend' = [pend EXCEPT ![k].add = @ + 1]

Created ==
    /\ pc = "create"
    /\ Appears(cur)
    /\ pc' = "work" /\ cur' = None
    /\ UNCHANGED <<store, expired, dying, handler, toReset, ops, queued,
                   phantom, faults>>

(* A time-out is taken for a success, whether the object appeared or not.  *)
TimedOut(effect) ==
    /\ pc = "create" /\ faults < MaxFaults
    /\ IF effect
       THEN Appears(cur) /\ UNCHANGED phantom
       ELSE /\ phantom' = [phantom EXCEPT ![cur].add = @ + 1]
            /\ UNCHANGED <<alive, pend>>
    /\ pc' = "work" /\ cur' = None
    /\ faults' = faults + 1
    /\ UNCHANGED <<store, expired, dying, handler, toReset, ops, queued>>

(* Any other error: the pass takes its expectation back and ends.  The     *)
(* object may be there all the same when only the answer was lost.         *)
CreateFailedKeepsRaise(effect) ==
    /\ pc = "create" /\ faults < MaxFaults
    /\ IF effect THEN Appears(cur) ELSE UNCHANGED <<alive, pend>>
    /\ Abort
    /\ faults' = faults + 1
    /\ UNCHANGED <<store, expired, dying, handler, toReset, phantom>>

CreateFailed(effect) ==
    /\ pc = "create" /\ faults < MaxFaults
    /\ IF effect THEN Appears(cur) ELSE UNCHANGED <<alive, pend>>
    /\ store' = Lowered(cur, 1, 0)
    /\ Abort
    /\ faults' = faults + 1
    /\ UNCHANGED <<expired, dying, handler, toReset, phantom>>

(* DeletePod looks whether the pod is there and not terminating.           *)
TerminatesUnchecked(k) ==
    /\ alive' = [alive EXCEPT ![k] = @ - 1]
    /\ dying' = [dying EXCEPT ![k] = @ + 1]

Terminates(k) ==
    /\ alive[k] > 0
    /\ alive' = [alive EXCEPT ![k] = @ - 1]
    /\ dying' = [dying EXCEPT ![k] = @ + 1]

(* ReconcilePods deletes a pod (out of range, or to restart it): DeletePod *)
(* answers nil without deleting when the pod of the pass's snapshot is     *)
(* gone or terminating already.                                            *)
DeletePod(k, hit) ==
    /\ pc = "work" /\ ops > 0 /\ k[2] = "pods"
    /\ IF hit THEN Terminates(k) ELSE UNCHANGED <<alive, dying>>
    /\ pc' = IF hit THEN "hit" ELSE "miss"
    /\ cur' = k /\ ops' = ops - 1
    /\ UNCHANGED <<store, expired, pend, handler, toReset, queued, phantom,
                   faults>>

DeletePodFailed(k, hit) ==
    /\ pc = "work" /\ ops > 0 /\ k[2] = "pods" /\ faults < MaxFaults
    /\ IF hit THEN Terminates(k) ELSE UNCHANGED <<alive, dying>>
    /\ Abort
    /\ faults' = faults + 1
    /\ UNCHANGED <<store, expired, pend, handler, toReset, phantom>>

(* The deletion is announced only after the call has returned.             *)
ExpectDeletion ==
    /\ pc \in {"hit", "miss"}
    /\ store' = Raised(cur, 0, 1)
    /\ phantom' = IF pc = "miss" THEN [phantom EXCEPT ![cur].del = @ + 1]
                  ELSE phantom
    /\ pc' = "work" /\ cur' = None
    /\ UNCHANGED <<expired, alive, dying, pend, handler, toReset, ops,
                   queued, faults>>

EndPass ==
    /\ pc = "work"
    /\ pc' = "idle" /\ ops' = 0
    /\ UNCHANGED <<store, expired, alive, dying, pend, handler, toReset, cur,
                   queued, phantom, faults>>

-----------------------------------------------------------------------------
(* The API server and the informers.                                       *)

(* A deletion no expectation announces: DeletePodAndServices, the services *)
(* out of range, or a user.                                                *)
Kill(k) ==
    /\ faults < MaxFaults
    /\ Terminates(k)
    /\ faults' = faults + 1
    /\ UNCHANGED <<store, expired, pend, handler, pc, toReset, cur, ops,
                   queued, phantom>>

Gone(k) ==
    /\ dying[k] > 0 /\ pend[k].del < MaxPending
    /\ dying' = [dying EXCEPT ![k] = @ - 1]
    /\ pend' = [pend EXCEPT ![k].del = @ + 1]
    /\ UNCHANGED <<store, expired, alive, handler, pc, toReset, cur, ops,
                   queued, phantom, faults>>

(* onDependentCreateFunc and onDependentDeleteFunc up to the look-up in    *)
(* LowerExpectations.  Objects without the labels of a cluster are         *)
(* dropped, and objects with the labels but without a controller change    *)
(* nothing, so neither is an event here.                                   *)
Handle(k, what, own) ==
    /\ handler[k[2]] = None
    /\ handler' = [handler EXCEPT ![k[2]] =
           [key |-> k, what |-> what, live |-> store[k] # None,
            own |-> own]]

Deliver(k, what) ==
    /\ IF what = "add"
       THEN pend[k].add > 0 /\ pend' = [pend EXCEPT ![k].add = @ - 1]
       ELSE pend[k].del > 0 /\ pend' = [pend EXCEPT ![k].del = @ - 1]
    /\ Handle(k, what, TRUE)
    /\ UNCHANGED <<store, expired, alive, dying, pc, toReset, cur, ops,
                   queued, phantom, faults>>

(* The key is made of the controller's name alone, so an object controlled *)
(* by a namesake of the cluster, of another kind, counts too.  It enqueues *)
(* nothing.                                                                *)
DeliverForeign(k, what) ==
    /\ faults < MaxFaults
    /\ Handle(k, what, FALSE)
    /\ faults' = faults + 1
    /\ UNCHANGED <<store, expired, alive, dying, pend, pc, toReset, cur, ops,
                   queued, phantom>>

(* CreationObserved and DeletionObserved.                                  *)
Observed(k, what) ==
    IF what = "add" THEN Lowered(k, 1, 0) ELSE Lowered(k, 0, 1)

(* The decrement, and the owner's key goes to the work queue.              *)
ObservePodsOnly(kd) ==
    /\ handler[kd] # None
    /\ store' = IF handler[kd].live /\ kd = "pods"
                THEN Observed(handler[kd].key, handler[kd].what)
                ELSE store
    /\ handler' = [handler EXCEPT ![kd] = None]
    /\ queued' = (queued \/ (handler[kd].own /\ kd = "pods"))
    /\ UNCHANGED <<expired, alive, dying, pend, pc, toReset, cur, ops,
                   phantom, faults>>

Observe(kd) ==
    /\ handler[kd] # None
    /\ store' = IF handler[kd].live
                THEN Observed(handler[kd].key, handler[kd].what)
                ELSE store
    /\ handler' = [handler EXCEPT ![kd] = None]
    /\ queued' = (queued \/ handler[kd].own)
    /\ UNCHANGED <<expired, alive, dying, pend, pc, toReset, cur, ops,
                   phantom, faults>>

(* More than ExpectationsTimeout has passed since the pass that called     *)
(* SetExpectations.  Only the next pass looks, so time passes between the  *)
(* two.                                                                    *)
isExpired ==
    /\ pc = "idle" /\ ~expired
    /\ expired' = TRUE
    /\ UNCHANGED <<store, alive, dying, pend, handler, pc, toReset, cur, ops,
                   queued, phantom, faults>>

(* A new process: an empty store, and a list that shows every object as    *)
(* created.                                                                *)
Restart ==
    /\ faults < MaxFaults
    /\ faults' = faults + 1
    /\ store' = [k \in Keys |-> None] /\ expired' = FALSE
    /\ pend' = [k \in Keys |-> [add |-> alive[k] + dying[k], del |-> 0]]
    /\ handler' = [kd \in Kinds |-> None]
    /\ pc' = "idle" /\ toReset' = {} /\ cur' = None /\ ops' = 0
    /\ queued' = TRUE
    /\ phantom' = Nothing
    /\ UNCHANGED <<alive, dying>>

-----------------------------------------------------------------------------
PassStep ==
    \/ StartPass
    \/ \E k \in Keys : ResetExpectations(k)
    \/ \E k \in Keys : ExpectCreation(k)
    \/ Created
    \/ \E effect \in BOOLEAN : TimedOut(effect) \/ CreateFailed(effect)
    \/ \E k \in Keys, hit \in BOOLEAN :
           DeletePod(k, hit) \/ DeletePodFailed(k, hit)
    \/ ExpectDeletion
    \/ EndPass

InformerStep ==
    \/ \E k \in Keys, what \in Whats : Deliver(k, what)
    \/ \E kd \in Kinds : Observe(kd)

Next ==
    \/ PassStep
    \/ InformerStep
    \/ \E k \in Keys : Kill(k) \/ Gone(k)
    \/ \E k \in Keys, what \in Whats : DeliverForeign(k, what)
    \/ isExpired
    \/ Restart

Spec == Init /\ [][Next]_vars

(* The worker and the informers are goroutines that run for ever, and a    *)
(* terminating object goes away.  Nothing is assumed of faults or of the   *)
(* expiry clock.                                                           *)
Fairness ==
    /\ WF_vars(PassStep)
    /\ \A kd \in Kinds :
           /\ WF_vars(Observe(kd))
           /\ WF_vars(\E k \in Keys, what \in Whats :
                         k[2] = kd /\ Deliver(k, what))
    /\ \A k \in Keys : WF_vars(Gone(k))

FairSpec == Spec /\ Fairness

-----------------------------------------------------------------------------
(* Properties.                                                             *)

(* Events that will still decrement the counter of k now in the store: in  *)
(* the feed, or in the hands of a handler that holds the current struct.   *)
InHandler(k, what) ==
    /\ handler[k[2]] # None /\ handler[k[2]].key = k
    /\ handler[k[2]].what = what /\ handler[k[2]].live

Covered(k) ==
    /\ store[k].add <= pend[k].add + B2N(InHandler(k, "add"))
                         + B2N(pc = "create" /\ cur = k) + phantom[k].add
    /\ store[k].del + B2N(pc = "hit" /\ cur = k)
          <= pend[k].del + dying[k] + B2N(InHandler(k, "del")) + phantom[k].del

(* No counter exceeds what will still count it down: the creations (the    *)
(* one being made included) and deletions whose event is on its way, and   *)
(* the raises that nothing answers, which are the creations that timed out *)
(* without effect and the deletions that found nothing to delete.  So a    *)
(* pod or service key can only stay above zero through those, whatever     *)
(* resets, restarts and late events do: RaiseExpectations,                 *)
(* LowerExpectations and SetExpectations against the handlers.             *)
CountsCovered == \A k \in Keys : store[k] # None => Covered(k)

(* What a pass announces is counted down or reset in the end, for all keys *)
(* at once, unless a raise was left that nothing answers: the watch events *)
(* that LowerExpectations counts and the passes they cause are enough, and *)
(* expiry is not needed for it.                                            *)
Drains ==
    (\E k \in Keys : ~Fulfilled(k))
        ~> (\A k \in Keys : Fulfilled(k) \/ phantom[k] # Nothing[k])
=============================================================================
