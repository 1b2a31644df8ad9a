--------------------------- MODULE ControllerRefs ---------------------------
(***************************************************************************)
(* Controller reference managers: several controllers sort out which pods  *)
(* and services are theirs, each from a cached view that may be old.       *)
(*                                                                         *)
(* A manager is made for the pods or for the services of one controller    *)
(* and claims the list it is given: it keeps what the controller owns and  *)
(* its selector matches, patches the reference away from what it owns and  *)
(* does not match, and patches a reference onto orphans that match.        *)
(* Between the list and a patch, users relabel and delete objects, objects *)
(* are created anew under their names, other controllers patch, and the    *)
(* controller itself may be deleted.  Nothing in the repository makes a    *)
(* manager yet: when and how often one is made is left to its callers.     *)
(***************************************************************************)
EXTENDS Naturals, FiniteSets

CONSTANTS Controllers,   \* the clusters
          Objects,       \* names of pods and services
          Checked,       \* the controllers that pass a CanAdoptFunc, not nil
          MaxCreations,  \* bound: incarnations of one name
          MaxEvents,     \* bound: relabellings, deletions and errors
          None

Kinds == {"pod", "service"}
Labels == Controllers \cup {None}

(* Which incarnation (the object's UID), whose selector its labels match,  *)
(* its controller reference, and whether it has a deletion timestamp.      *)
Object == [uid : 1 .. MaxCreations, label : Labels, owner : Labels,
           dying : BOOLEAN]

(* A manager: the objects it has still to go through, as they were listed, *)
(* whether the controller it was made with shows a deletion timestamp, and *)
(* the answer of CanAdopt, which it keeps.                                 *)
Managers == [seen : [Objects -> Object \cup {None}], todo : SUBSET Objects,
             deleting : BOOLEAN, canAdopt : {"unknown", "yes", "no"}]

ASSUME RefConstants ==
    /\ MaxCreations \in Nat /\ MaxEvents \in Nat
    /\ Checked \subseteq Controllers
    /\ None \notin Controllers /\ None \notin Object /\ None \notin Managers

VARIABLES kind,    \* per object: what it is; never changes
          obj,     \* per object: its state in the API server, or None
          uids,    \* per object: incarnations so far
          worn,    \* per object: labels its incarnation has worn (history)
          view,    \* per object: what the informer cache holds
          going,   \* controllers with a deletion timestamp
          pass,    \* per controller: its manager, or None
          events   \* what has been used of MaxEvents

vars == <<kind, obj, uids, worn, view, going, pass, events>>

TypeOK ==
    /\ kind \in [Objects -> Kinds]
    /\ obj \in [Objects -> Object \cup {None}]
    /\ uids \in [Objects -> 0 .. MaxCreations]
    /\ worn \in [Objects -> SUBSET Labels]
    /\ view \in [Objects -> Object \cup {None}]
    /\ going \in SUBSET Controllers
    /\ pass \in [Controllers -> Managers \cup {None}]
    /\ events \in 0 .. MaxEvents

Init ==
    /\ kind \in [Objects -> Kinds]
    /\ obj = [o \in Objects |-> None] /\ view = [o \in Objects |-> None]
    /\ uids = [o \in Objects |-> 0] /\ worn = [o \in Objects |-> {}]
    /\ going = {}
    /\ pass = [c \in Controllers |-> None]
    /\ events = 0

(* One of the things that happen only so often.                            *)
Event == events < MaxEvents /\ events' = events + 1

-----------------------------------------------------------------------------
(* The claim.                                                              *)

(* The manager is made from the controller as the cache shows it, which    *)
(* may not show its deletion yet; CanAdopt has not been called.            *)
NewManager(k, deleting) ==
    [seen |-> view, todo |-> {o \in Objects : kind[o] = k /\ view[o] # None},
     deleting |-> deleting, canAdopt |-> "unknown"]

(* ClaimPods or ClaimServices is called.                                   *)
StartClaim(c, k, deleting) ==
    /\ pass[c] = None
    /\ deleting => c \in going
    /\ pass' = [pass EXCEPT ![c] = NewManager(k, deleting)]
    /\ UNCHANGED <<kind, obj, uids, worn, view, going, events>>

(* What ClaimObject decides from the listed object: skip it, keep it       *)
(* (it is among the ones returned), release it or adopt it.                *)
ClaimObjectMismatchKept(c, m, o) ==
    LET s == m.seen[o] IN
    CASE s.owner = c -> "keep"
      [] s.owner = None /\ ~m.deleting /\ s.label = c /\ ~s.dying -> "adopt"
      [] OTHER -> "skip"

ClaimObject(c, m, o) ==
    LET s == m.seen[o] IN
    CASE s.owner = c /\ s.label = c -> "keep"
      [] s.owner = c /\ s.label # c /\ ~m.deleting -> "release"
      [] s.owner = None /\ ~m.deleting /\ s.label = c /\ ~s.dying -> "adopt"
      [] OTHER -> "skip"

(* The manager goes on to the next object of its list, after an error too; *)
(* errors are returned together at the end and only bring the key back.    *)
Rest(m, o) ==
    [seen |-> [m.seen EXCEPT ![o] = None], todo |-> m.todo \ {o},
     deleting |-> m.deleting, canAdopt |-> m.canAdopt]

Done(c, o) == pass' = [pass EXCEPT ![c] = Rest(pass[c], o)]

NoPatch(c, o) ==
    /\ pass[c] # None /\ o \in pass[c].todo
    /\ ClaimObject(c, pass[c], o) \in {"skip", "keep"}
    /\ Done(c, o)
    /\ UNCHANGED <<kind, obj, uids, worn, view, going, events>>

(* CanAdopt runs once per manager, before its first adoption, and keeps    *)
(* its answer.  Without a CanAdoptFunc the answer is yes; with one it is   *)
(* what the caller's function returns, which may be an error at any time.  *)
Answered(m, answer) ==
    [seen |-> m.seen, todo |-> m.todo, deleting |-> m.deleting,
     canAdopt |-> answer]

CanAdopt(c, answer) ==
    /\ pass[c] # None /\ pass[c].canAdopt = "unknown"
    /\ \E o \in pass[c].todo : ClaimObject(c, pass[c], o) = "adopt"
    /\ \/ answer = "yes" /\ UNCHANGED events
       \/ answer = "no" /\ c \in Checked /\ Event
    /\ pass' = [pass EXCEPT ![c] = Answered(pass[c], answer)]
    /\ UNCHANGED <<kind, obj, uids, worn, view, going>>

(* The API server accepts a patch only for the incarnation it names.       *)
Current(c, o) == obj[o] # None /\ obj[o].uid = pass[c].seen[o].uid

(* The patch of AdoptPod and AdoptService: refused when the object has     *)
(* another controller.                                                     *)
AdoptPatchByName(c, o) ==
    obj' = IF obj[o] # None /\ obj[o].owner = None
           THEN [obj EXCEPT ![o].owner = c] ELSE obj

AdoptPatch(c, o) ==
    obj' = IF Current(c, o) /\ obj[o].owner = None
           THEN [obj EXCEPT ![o].owner = c] ELSE obj

Adopt(c, o) ==
    /\ pass[c] # None /\ o \in pass[c].todo
    /\ ClaimObject(c, pass[c], o) = "adopt" /\ pass[c].canAdopt # "unknown"
    /\ IF pass[c].canAdopt = "yes" THEN AdoptPatch(c, o) ELSE UNCHANGED obj
    /\ Done(c, o)
    /\ UNCHANGED <<kind, uids, worn, view, going, events>>

AdoptPod(c, o) == kind[o] = "pod" /\ Adopt(c, o)
AdoptService(c, o) == kind[o] = "service" /\ Adopt(c, o)

(* The patch of ReleasePod and ReleaseService takes the controller's own   *)
(* reference away; that there is none, that the object is another          *)
(* incarnation or gone is no error.                                        *)
ReleasePatch(c, o) ==
    obj' = IF Current(c, o) /\ obj[o].owner = c
           THEN [obj EXCEPT ![o].owner = None] ELSE obj

Release(c, o) ==
    /\ pass[c] # None /\ o \in pass[c].todo
    /\ ClaimObject(c, pass[c], o) = "release"
    /\ ReleasePatch(c, o)
    /\ Done(c, o)
    /\ UNCHANGED <<kind, uids, worn, view, going, events>>

ReleasePod(c, o) == kind[o] = "pod" /\ Release(c, o)
ReleaseService(c, o) == kind[o] = "service" /\ Release(c, o)

(* A patch fails before it reaches the API server; one that fails after    *)
(* that has been applied, and differs from Adopt and Release in nothing    *)
(* but the error.                                                          *)
PatchError(c, o) ==
    /\ pass[c] # None /\ o \in pass[c].todo
    /\ \/ ClaimObject(c, pass[c], o) = "adopt" /\ pass[c].canAdopt = "yes"
       \/ ClaimObject(c, pass[c], o) = "release"
    /\ Event
    /\ Done(c, o)
    /\ UNCHANGED <<kind, obj, uids, worn, view, going>>

EndClaim(c) ==
    /\ pass[c] # None /\ pass[c].todo = {}
    /\ pass' = [pass EXCEPT ![c] = None]
    /\ UNCHANGED <<kind, obj, uids, worn, view, going, events>>

-----------------------------------------------------------------------------
(* Users, garbage collection and the informer.                             *)

(* A user makes an orphan, or a controller an object of its own.           *)
Create(o, l, c) ==
    /\ obj[o] = None /\ uids[o] < MaxCreations
    /\ c \in {l, None}
    /\ obj' = [obj EXCEPT ![o] = [uid |-> uids[o] + 1, label |-> l, owner |-> c,
                                  dying |-> FALSE]]
    /\ uids' = [uids EXCEPT ![o] = @ + 1]
    /\ worn' = [worn EXCEPT ![o] = {l}]
    /\ UNCHANGED <<kind, view, going, pass, events>>

Relabel(o, l) ==
    /\ obj[o] # None /\ Event
    /\ obj' = [obj EXCEPT ![o].label = l]
    /\ worn' = [worn EXCEPT ![o] = @ \cup {l}]
    /\ UNCHANGED <<kind, uids, view, going, pass>>

Delete(o) ==
    /\ obj[o] # None /\ ~obj[o].dying /\ Event
    /\ obj' = [obj EXCEPT ![o].dying = TRUE]
    /\ UNCHANGED <<kind, uids, worn, view, going, pass>>

Gone(o) ==
    /\ obj[o] # None /\ obj[o].dying
    /\ obj' = [obj EXCEPT ![o] = None]
    /\ worn' = [worn EXCEPT ![o] = {}]
    /\ UNCHANGED <<kind, uids, view, going, pass, events>>

DeleteController(c) ==
    /\ c \notin going /\ Event
    /\ going' = going \cup {c}
    /\ UNCHANGED <<kind, obj, uids, worn, view, pass>>

(* The cache catches up with the API server.  It may have missed states in *)
(* between (a watch that was restarted lists), and it may stay behind for  *)
(* as long as it likes.                                                    *)
Deliver(o) ==
    /\ view[o] # obj[o]
    /\ view' = [view EXCEPT ![o] = obj[o]]
    /\ UNCHANGED <<kind, obj, uids, worn, going, pass, events>>

Claims(c, k) == \E deleting \in BOOLEAN : StartClaim(c, k, deleting)

(* What a call does once it has been made.                                 *)
ClaimStep(c) ==
    \/ \E o \in Objects :
          \/ NoPatch(c, o)
          \/ AdoptPod(c, o) \/ AdoptService(c, o)
          \/ ReleasePod(c, o) \/ ReleaseService(c, o)
          \/ PatchError(c, o)
    \/ \E answer \in {"yes", "no"} : CanAdopt(c, answer)
    \/ EndClaim(c)

Next ==
    \/ \E c \in Controllers :
          \/ \E k \in Kinds : Claims(c, k)
          \/ ClaimStep(c)
          \/ DeleteController(c)
    \/ \E o \in Objects :
          \/ \E l \in Labels, c \in Labels : Create(o, l, c)
          \/ \E l \in Labels : Relabel(o, l)
          \/ Delete(o) \/ Gone(o) \/ Deliver(o)

Spec == Init /\ [][Next]_vars

(* A call that was made goes on to its end, the informer delivers, and     *)
(* terminating objects go away.  Nothing is assumed of users, of errors or *)
(* of how often a caller claims.                                           *)
FairSpec ==
    /\ Spec
    /\ \A c \in Controllers : WF_vars(ClaimStep(c))
    /\ \A o \in Objects : WF_vars(Gone(o)) /\ WF_vars(Deliver(o))

-----------------------------------------------------------------------------
(* Properties.                                                             *)

owner == [o \in Objects |-> IF obj[o] = None THEN None ELSE obj[o].owner]

O == INSTANCE Ownership WITH owner <- owner, worn <- worn

(* The claims keep what Ownership promises: adoption, release and the      *)
(* checks of the patches (ClaimObject, AdoptPod, ReleasePod and their      *)
(* service counterparts), whatever changed since the list was taken.       *)
ImplementsOwnership == O!Spec

Settled(o) ==
    obj[o] # None /\ ~obj[o].dying =>
        \/ obj[o].owner = obj[o].label
        \/ obj[o].owner \in going
        \/ obj[o].label \in going /\ obj[o].owner = None

(* For a caller that claims its pods and its services again and again, as  *)
(* the comment of ClaimObject asks ("try again later"): once users and     *)
(* errors are quiet, every living object whose labels match a controller   *)
(* is owned by it, and no controller owns an object that its selector does *)
(* not match, except for controllers being deleted.  One claim on a stale  *)
(* list is not enough, and two controllers' claims must not undo each      *)
(* other (ClaimObject, AdoptPod, ReleasePod).                              *)
Settles ==
    (\A c \in Controllers, k \in Kinds : []<><<Claims(c, k)>>_vars)
    => \A o \in Objects : <>[]Settled(o)
=============================================================================
