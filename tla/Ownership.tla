----------------------------- MODULE Ownership ------------------------------
(***************************************************************************)
(* What the reference managers promise of the objects of a namespace: an   *)
(* object has at most one controller, passes from one controller to        *)
(* another only through being an orphan, is taken only by a controller     *)
(* whose selector it has matched, and is given up by a controller only if  *)
(* it has carried labels that the controller's selector does not match.    *)
(* All of this is about one incarnation of the object: an object that is   *)
(* deleted and created anew under its name owes nothing to the old one.    *)
(***************************************************************************)
CONSTANTS Controllers,  \* the clusters
          Objects,      \* names of pods and services
          None

VARIABLES owner,  \* per object: its controller, or None
          worn    \* per object: the controllers whose labels its present
                  \* incarnation has worn (None for no one's labels); empty
                  \* when there is no such object

Labels == Controllers \cup {None}

Init ==
    /\ owner = [o \in Objects |-> None]
    /\ worn = [o \in Objects |-> {}]

Appear(o, l, c) ==
    /\ worn[o] = {} /\ c \in {l, None}
    /\ worn' = [worn EXCEPT ![o] = {l}]
    /\ owner' = [owner EXCEPT ![o] = c]

Relabel(o, l) ==
    /\ worn[o] # {}
    /\ worn' = [worn EXCEPT ![o] = @ \cup {l}]
    /\ UNCHANGED owner

Adopt(o, c) ==
    /\ owner[o] = None /\ c \in worn[o]
    /\ owner' = [owner EXCEPT ![o] = c]
    /\ UNCHANGED worn

Release(o) ==
    /\ owner[o] # None /\ worn[o] # {owner[o]}
    /\ owner' = [owner EXCEPT ![o] = None]
    /\ UNCHANGED worn

Vanish(o) ==
    /\ worn' = [worn EXCEPT ![o] = {}]
    /\ owner' = [owner EXCEPT ![o] = None]

Next ==
    \E o \in Objects :
        \/ \E l \in Labels, c \in Labels : Appear(o, l, c)
        \/ \E l \in Labels : Relabel(o, l)
        \/ \E c \in Controllers : Adopt(o, c)
        \/ Release(o)
        \/ Vanish(o)

Spec == Init /\ [][Next]_<<owner, worn>>
=============================================================================
