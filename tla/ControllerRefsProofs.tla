------------------------ MODULE ControllerRefsProofs ------------------------
(* The claims implement Ownership for any controllers, objects and bounds. *)
EXTENDS ControllerRefs, TLAPS

(* s is an old or present state of the object named o: no newer than the   *)
(* newest incarnation, and, if its incarnation is the present one, with    *)
(* labels that the incarnation has worn.                                   *)
Past(o, s) ==
    /\ s.uid <= uids[o]
    /\ obj[o] # None /\ s.uid = obj[o].uid => s.label \in worn[o]

(* The types that the argument needs.                                      *)
Shape ==
    /\ obj \in [Objects -> Object \cup {None}]
    /\ view \in [Objects -> Object \cup {None}]
    /\ uids \in [Objects -> 0 .. MaxCreations]
    /\ worn \in [Objects -> SUBSET Labels]

Managed ==
    /\ pass \in [Controllers -> Managers \cup {None}]
    /\ \A c \in Controllers : pass[c] # None =>
         \A o \in pass[c].todo : pass[c].seen[o] # None

(* What the API server holds is the newest incarnation and wears what it   *)
(* has worn; what the cache and the managers hold is past.                 *)
Present(o) ==
    IF obj[o] = None THEN worn[o] = {}
    ELSE obj[o].uid = uids[o] /\ obj[o].label \in worn[o]

Seen(o) ==
    /\ view[o] # None => Past(o, view[o])
    /\ \A c \in Controllers : pass[c] # None /\ o \in pass[c].todo =>
         Past(o, pass[c].seen[o])

IInv == Shape /\ Managed /\ \A o \in Objects : Present(o) /\ Seen(o)

LEMMA InitIInv == Init => IInv
<1> SUFFICES ASSUME Init PROVE IInv
  BY Zenon
<1>1. Shape /\ Managed
  BY RefConstants DEF Init, Shape, Managed
<1>2. \A o \in Objects : Present(o) /\ Seen(o)
  BY Zenon DEF Init, Present, Seen
<1> QED
  BY Zenon, <1>1, <1>2 DEF IInv

(* A step that leaves the API server and the cache alone and makes no      *)
(* manager see more than it saw keeps everything that is said of objects.  *)
LEMMA SameServer ==
  ASSUME IInv, UNCHANGED <<obj, uids, worn, view>>, Managed',
         \A c \in Controllers : pass'[c] # None =>
           /\ pass[c] # None
           /\ \A o \in pass'[c].todo :
                o \in pass[c].todo /\ pass'[c].seen[o] = pass[c].seen[o]
  PROVE  IInv'
<1>1. Shape'
  BY Zenon DEF IInv, Shape
<1>2. ASSUME NEW o \in Objects PROVE Present(o)' /\ Seen(o)'
  <2>1. Present(o) /\ Seen(o)
    BY Zenon DEF IInv
  <2>2. Present(o)'
    BY Zenon, <2>1 DEF Present
  <2>3. Seen(o)'
    BY Zenon, <2>1 DEF Seen, Past
  <2> QED
    BY Zenon, <2>2, <2>3
<1> QED
  BY Zenon, <1>1, <1>2 DEF IInv

(* A manager that replaces another one keeps the types and what was seen.  *)
LEMMA Replaces ==
  ASSUME IInv, NEW c \in Controllers, pass[c] # None, NEW n \in Managers,
         n.todo \subseteq pass[c].todo,
         \A o \in n.todo : n.seen[o] = pass[c].seen[o],
         pass' = [pass EXCEPT ![c] = n]
  PROVE  /\ Managed'
         /\ \A d \in Controllers : pass'[d] # None =>
              /\ pass[d] # None
              /\ \A p \in pass'[d].todo :
                   p \in pass[d].todo /\ pass'[d].seen[p] = pass[d].seen[p]
<1>1. pass'[c] = n /\ \A d \in Controllers : d # c => pass'[d] = pass[d]
  BY Zenon DEF IInv, Managed
<1>2. pass' \in [Controllers -> Managers \cup {None}]
  BY Zenon DEF IInv, Managed
<1>3. \A d \in Controllers : pass'[d] # None =>
        /\ pass[d] # None
        /\ \A p \in pass'[d].todo :
             p \in pass[d].todo /\ pass'[d].seen[p] = pass[d].seen[p]
  BY <1>1
<1> QED
  BY <1>2, <1>3 DEF IInv, Managed

LEMMA RestIs ==
  ASSUME NEW m \in Managers, NEW o \in Objects
  PROVE  /\ Rest(m, o) \in Managers
         /\ Rest(m, o).todo \subseteq m.todo
         /\ \A p \in Rest(m, o).todo : Rest(m, o).seen[p] = m.seen[p]
<1>1. Rest(m, o).seen = [m.seen EXCEPT ![o] = None] /\ Rest(m, o).todo = m.todo \ {o}
  BY Zenon DEF Rest
<1>2. Rest(m, o).seen \in [Objects -> Object \cup {None}]
  BY Zenon, <1>1 DEF Managers
<1>3. Rest(m, o) \in Managers
  BY Zenon, <1>1, <1>2 DEF Rest, Managers
<1> QED
  BY Zenon, <1>1, <1>3 DEF Managers

(* Done takes one object off the list and changes nothing else of it.      *)
LEMMA DoneIs ==
  ASSUME IInv, NEW c \in Controllers, NEW o \in Objects, pass[c] # None, Done(c, o)
  PROVE  /\ Managed'
         /\ \A d \in Controllers : pass'[d] # None =>
              /\ pass[d] # None
              /\ \A p \in pass'[d].todo :
                   p \in pass[d].todo /\ pass'[d].seen[p] = pass[d].seen[p]
<1>1. pass[c] \in Managers
  BY Zenon DEF IInv, Managed
<1> QED
  BY Zenon, <1>1, RestIs, Replaces DEF Done

(* What was past stays past in a step that changes the API server's        *)
(* objects, as long as an incarnation that goes on keeps its uid and what  *)
(* it has worn and a new one has a uid of its own.                         *)
LEMMA ServerStep ==
  ASSUME IInv, Shape', UNCHANGED view, Managed',
         \A c \in Controllers : pass'[c] # None =>
           /\ pass[c] # None
           /\ \A o \in pass'[c].todo :
                o \in pass[c].todo /\ pass'[c].seen[o] = pass[c].seen[o],
         \A o \in Objects :
           /\ Present(o)'
           /\ uids[o] <= uids'[o]
           /\ obj'[o] # None =>
                \/ obj'[o].uid > uids[o]
                \/ /\ obj[o] # None /\ obj'[o].uid = obj[o].uid
                   /\ worn[o] \subseteq worn'[o]
  PROVE  IInv'
<1>1. ASSUME NEW o \in Objects PROVE Seen(o)'
  <2>1. Seen(o) /\ uids[o] \in Nat /\ uids'[o] \in Nat
    BY RefConstants, <1>1 DEF IInv, Shape
  <2>2. ASSUME NEW s \in Object, Past(o, s) PROVE Past(o, s)'
    <3>1. s.uid \in Nat
      BY RefConstants, <2>2 DEF Object
    <3> QED
      BY <1>1, <2>1, <2>2, <3>1 DEF Past
  <2>3. view'[o] # None => Past(o, view[o])'
    BY Zenon, <1>1, <2>1, <2>2 DEF Seen, Past, IInv, Shape
  <2>4. ASSUME NEW c \in Controllers, pass'[c] # None, o \in pass'[c].todo
        PROVE  Past(o, pass[c].seen[o])'
    <3>1. pass[c].seen[o] = pass'[c].seen[o] /\ Past(o, pass[c].seen[o])
      BY Zenon, <2>1, <2>4 DEF Seen
    <3>2. pass[c].seen[o] \in Object
      BY <2>4 DEF IInv, Managed, Managers
    <3> QED
      BY Zenon, <2>2, <3>1, <3>2 DEF Past
  <2> QED
    BY Zenon, <2>3, <2>4 DEF Seen
<1> QED
  BY Zenon, <1>1 DEF IInv

(* A manager's own steps, except for the patches.                          *)
LEMMA StartKeeps ==
  ASSUME IInv, NEW c \in Controllers, NEW k \in Kinds, NEW deleting \in BOOLEAN,
         StartClaim(c, k, deleting)
  PROVE  IInv'
<1> DEFINE n == NewManager(k, deleting)
<1>1. n.seen = view /\ n.todo \subseteq Objects /\ \A o \in n.todo : view[o] # None
  BY Zenon DEF NewManager
<1>2. n \in Managers
  BY Zenon DEF NewManager, Managers, IInv, Shape
<1>3. pass' = [pass EXCEPT ![c] = n]
  BY Zenon DEF StartClaim
<1> HIDE DEF n
<1>4. Managed'
  BY Zenon, <1>1, <1>2, <1>3 DEF IInv, Managed
<1>5. Shape'
  BY Zenon DEF StartClaim, IInv, Shape
<1>6. ASSUME NEW o \in Objects PROVE Present(o)' /\ Seen(o)'
  <2>1. Present(o) /\ Seen(o) /\ UNCHANGED <<obj, uids, worn, view>>
    BY Zenon, <1>6 DEF IInv, StartClaim
  <2>2. Present(o)'
    BY Zenon, <2>1 DEF Present
  <2>3. ASSUME NEW d \in Controllers, pass'[d] # None, o \in pass'[d].todo
        PROVE  Past(o, pass[d].seen[o])'
    <3>1. CASE d = c
      BY Zenon, <1>1, <1>3, <2>1, <2>3, <3>1 DEF Seen, Past, IInv, Managed
    <3>2. CASE d # c
      BY Zenon, <1>3, <2>1, <2>3, <3>2 DEF Seen, Past, IInv, Managed
    <3> QED
      BY Zenon, <3>1, <3>2
  <2> QED
    BY Zenon, <2>1, <2>2, <2>3 DEF Seen, Past
<1> QED
  BY Zenon, <1>4, <1>5, <1>6 DEF IInv

LEMMA CanAdoptKeeps ==
  ASSUME IInv, NEW c \in Controllers, NEW answer \in {"yes", "no"},
         CanAdopt(c, answer)
  PROVE  IInv'
<1> DEFINE n == Answered(pass[c], answer)
<1>1. pass[c] # None /\ pass[c] \in Managers
  BY Zenon DEF CanAdopt, IInv, Managed
<1>2. n \in Managers
  BY Zenon, <1>1 DEF Answered, Managers
<1>3. n.todo = pass[c].todo /\ n.seen = pass[c].seen
  BY Zenon DEF Answered
<1>4. pass' = [pass EXCEPT ![c] = n] /\ UNCHANGED <<obj, uids, worn, view>>
  BY Zenon DEF CanAdopt
<1> HIDE DEF n
<1> QED
  BY Zenon, <1>1, <1>2, <1>3, <1>4, Replaces, SameServer

LEMMA EndKeeps ==
  ASSUME IInv, NEW c \in Controllers, EndClaim(c)
  PROVE  IInv'
<1>1. Managed' /\ \A d \in Controllers : pass'[d] # None => pass'[d] = pass[d]
  BY Zenon DEF EndClaim, IInv, Managed
<1> QED
  BY Zenon, <1>1, SameServer DEF EndClaim

(* The patches change the owner of a present object, or nothing.           *)
LEMMA PatchKeeps ==
  ASSUME IInv, NEW c \in Controllers, NEW o \in Objects, pass[c] # None,
         Done(c, o), UNCHANGED <<uids, worn, view>>, NEW l \in Labels,
         obj' = obj \/ (obj[o] # None /\ obj' = [obj EXCEPT ![o].owner = l])
  PROVE  IInv'
<1>1. CASE obj' = obj
  BY Zenon, <1>1, DoneIs, SameServer
<1>2. CASE obj[o] # None /\ obj' = [obj EXCEPT ![o].owner = l]
  <2>1. obj[o] \in Object
    BY Zenon, <1>2 DEF IInv, Shape
  <2>2. obj' \in [Objects -> Object \cup {None}]
    BY Zenon, <1>2, <2>1 DEF IInv, Shape, Object
  <2>3. \A p \in Objects :
          /\ obj'[p] # None => /\ obj[p] # None
                               /\ obj'[p].uid = obj[p].uid
                               /\ obj'[p].label = obj[p].label
          /\ obj'[p] = None => obj[p] = None
    BY Zenon, <1>2, <2>1, <2>2, RefConstants DEF IInv, Shape, Object
  <2>4. Shape'
    BY Zenon, <2>2 DEF IInv, Shape
  <2>5. \A p \in Objects : Present(p)'
    BY Zenon, <2>3 DEF IInv, Present
  <2>6. \A p \in Objects : uids[p] <= uids'[p]
    BY RefConstants DEF IInv, Shape
  <2> QED
    BY Zenon, <2>3, <2>4, <2>5, <2>6, DoneIs, ServerStep
<1> QED
  BY Zenon, <1>1, <1>2

LEMMA AdoptKeeps ==
  ASSUME IInv, NEW c \in Controllers, NEW o \in Objects, Adopt(c, o)
  PROVE  IInv'
<1>1. pass[c] # None /\ Done(c, o) /\ UNCHANGED <<uids, worn, view>>
  BY Zenon DEF Adopt
<1>2. obj' = obj \/ (obj[o] # None /\ obj' = [obj EXCEPT ![o].owner = c])
  BY Zenon DEF Adopt, AdoptPatch, Current
<1> QED
  BY Zenon, <1>1, <1>2, PatchKeeps DEF Labels

LEMMA ReleaseKeeps ==
  ASSUME IInv, NEW c \in Controllers, NEW o \in Objects, Release(c, o)
  PROVE  IInv'
<1>1. pass[c] # None /\ Done(c, o) /\ UNCHANGED <<uids, worn, view>>
  BY Zenon DEF Release
<1>2. obj' = obj \/ (obj[o] # None /\ obj' = [obj EXCEPT ![o].owner = None])
  BY Zenon DEF Release, ReleasePatch, Current
<1> QED
  BY Zenon, <1>1, <1>2, PatchKeeps DEF Labels

(* The users and the informer.                                             *)
LEMMA CreateKeeps ==
  ASSUME IInv, NEW o \in Objects, NEW l \in Labels, NEW c \in Labels,
         Create(o, l, c)
  PROVE  IInv'
<1> DEFINE new == [uid |-> uids[o] + 1, label |-> l, owner |-> c, dying |-> FALSE]
<1>1. uids[o] \in Nat /\ uids[o] + 1 \in 1 .. MaxCreations
  BY RefConstants DEF IInv, Shape, Create
<1>2. new \in Object /\ new.uid = uids[o] + 1 /\ new.label = l
  BY Zenon, <1>1 DEF Object
<1>3. obj' = [obj EXCEPT ![o] = new]
  BY Zenon DEF Create
<1> HIDE DEF new
<1>4. new # None
  BY Zenon, <1>2, RefConstants
<1>5. Shape'
  <2>1. uids' \in [Objects -> 0 .. MaxCreations]
    BY <1>1, RefConstants DEF Create, IInv, Shape
  <2>2. obj' \in [Objects -> Object \cup {None}]
    BY Zenon, <1>2, <1>3 DEF IInv, Shape
  <2> QED
    BY Zenon, <2>1, <2>2 DEF Create, IInv, Shape
<1>6. ASSUME NEW p \in Objects
      PROVE  /\ Present(p)'
             /\ uids[p] <= uids'[p]
             /\ obj'[p] # None =>
                  \/ obj'[p].uid > uids[p]
                  \/ /\ obj[p] # None /\ obj'[p].uid = obj[p].uid
                     /\ worn[p] \subseteq worn'[p]
  <2>1. CASE p = o
    <3>1. obj'[o] = new /\ uids'[o] = uids[o] + 1 /\ worn'[o] = {l}
      BY Zenon, <1>3 DEF Create, IInv, Shape
    <3>2. Present(o)'
      BY Zenon, <1>2, <1>4, <3>1 DEF Present
    <3> QED
      BY <1>1, <1>2, <2>1, <3>1, <3>2
  <2>2. CASE p # o
    <3>1. obj'[p] = obj[p] /\ uids'[p] = uids[p] /\ worn'[p] = worn[p]
      BY Zenon, <1>3, <2>2 DEF Create, IInv, Shape
    <3>2. Present(p)'
      BY Zenon, <3>1 DEF IInv, Present
    <3>3. uids[p] <= uids'[p]
      BY <3>1, RefConstants DEF IInv, Shape
    <3> QED
      BY Zenon, <3>1, <3>2, <3>3
  <2> QED
    BY Zenon, <2>1, <2>2
<1>7. Managed' /\ UNCHANGED <<pass, view>>
  BY Zenon DEF Create, IInv, Managed
<1> QED
  BY Zenon, <1>5, <1>6, <1>7, ServerStep

LEMMA RelabelKeeps ==
  ASSUME IInv, NEW o \in Objects, NEW l \in Labels, Relabel(o, l)
  PROVE  IInv'
<1>1. obj[o] \in Object
  BY Zenon DEF IInv, Shape, Relabel
<1>2. /\ obj' \in [Objects -> Object \cup {None}]
      /\ worn' \in [Objects -> SUBSET Labels]
  BY Zenon, <1>1 DEF Relabel, IInv, Shape, Object
<1>3. Shape'
  BY Zenon, <1>2 DEF Relabel, IInv, Shape
<1>4. obj'[o].uid = obj[o].uid /\ obj'[o].label = l /\ worn'[o] = worn[o] \cup {l}
  BY Zenon, <1>1 DEF Relabel, IInv, Shape, Object
<1>5. obj'[o] # None
  BY Zenon, <1>1, RefConstants DEF Relabel, IInv, Shape, Object
<1>6. \A p \in Objects : p # o => obj'[p] = obj[p] /\ worn'[p] = worn[p]
  BY Zenon DEF Relabel, IInv, Shape
<1>7. \A p \in Objects : Present(p)'
  BY Zenon, <1>4, <1>5, <1>6 DEF Relabel, IInv, Present
<1>8. \A p \in Objects : uids[p] <= uids'[p]
  BY RefConstants DEF Relabel, IInv, Shape
<1>9. Managed' /\ UNCHANGED <<pass, view>>
  BY Zenon DEF Relabel, IInv, Managed
<1>10. \A p \in Objects : obj'[p] # None =>
         obj[p] # None /\ obj'[p].uid = obj[p].uid /\ worn[p] \subseteq worn'[p]
  BY Zenon, <1>4, <1>6 DEF Relabel
<1> QED
  BY Zenon, <1>3, <1>7, <1>8, <1>9, <1>10, ServerStep

LEMMA DeleteKeeps ==
  ASSUME IInv, NEW o \in Objects, Delete(o)
  PROVE  IInv'
<1>1. obj[o] \in Object
  BY Zenon DEF IInv, Shape, Delete
<1>2. obj' \in [Objects -> Object \cup {None}]
  BY Zenon, <1>1 DEF Delete, IInv, Shape, Object
<1>3. Shape'
  BY Zenon, <1>2 DEF Delete, IInv, Shape
<1>4. obj'[o].uid = obj[o].uid /\ obj'[o].label = obj[o].label
  BY Zenon, <1>1 DEF Delete, IInv, Shape, Object
<1>5. obj'[o] # None
  BY Zenon, <1>1, RefConstants DEF Delete, IInv, Shape, Object
<1>6. \A p \in Objects : p # o => obj'[p] = obj[p]
  BY Zenon DEF Delete, IInv, Shape
<1>7. \A p \in Objects : Present(p)'
  BY Zenon, <1>4, <1>5, <1>6 DEF Delete, IInv, Present
<1>8. \A p \in Objects : uids[p] <= uids'[p]
  BY RefConstants DEF Delete, IInv, Shape
<1>9. Managed' /\ UNCHANGED <<pass, view, worn>>
  BY Zenon DEF Delete, IInv, Managed
<1>10. \A p \in Objects : obj'[p] # None => obj[p] # None /\ obj'[p].uid = obj[p].uid
  BY Zenon, <1>4, <1>6 DEF Delete
<1> QED
  BY Zenon, <1>3, <1>7, <1>8, <1>9, <1>10, ServerStep

LEMMA GoneKeeps ==
  ASSUME IInv, NEW o \in Objects, Gone(o)
  PROVE  IInv'
<1>1. Shape' /\ Managed' /\ UNCHANGED <<pass, view, uids>>
  BY Zenon DEF Gone, IInv, Shape, Managed
<1>2. obj'[o] = None /\ worn'[o] = {}
  BY Zenon DEF Gone, IInv, Shape
<1>3. \A p \in Objects : p # o => obj'[p] = obj[p] /\ worn'[p] = worn[p]
  BY Zenon DEF Gone, IInv, Shape
<1>4. \A p \in Objects : Present(p)'
  BY Zenon, <1>1, <1>2, <1>3 DEF IInv, Present
<1>5. \A p \in Objects : uids[p] <= uids'[p]
  BY <1>1, RefConstants DEF IInv, Shape
<1> QED
  BY Zenon, <1>1, <1>2, <1>3, <1>4, <1>5, ServerStep

LEMMA DeliverKeeps ==
  ASSUME IInv, NEW o \in Objects, Deliver(o)
  PROVE  IInv'
<1>1. Shape' /\ Managed' /\ UNCHANGED <<obj, uids, worn, pass>>
  BY Zenon DEF Deliver, IInv, Shape, Managed
<1>2. view'[o] = obj[o] /\ \A p \in Objects : p # o => view'[p] = view[p]
  BY Zenon DEF Deliver, IInv, Shape
<1>3. ASSUME NEW p \in Objects PROVE Present(p)' /\ Seen(p)'
  <2>1. Present(p) /\ Seen(p) /\ uids[p] \in Nat
    BY <1>3, RefConstants DEF IInv, Shape
  <2>2. Present(p)'
    BY Zenon, <1>1, <2>1 DEF Present
  <2>3. view'[p] # None => Past(p, view[p])'
    BY <1>1, <1>2, <2>1 DEF Present, Seen, Past
  <2> QED
    BY Zenon, <1>1, <2>1, <2>2, <2>3 DEF Seen, Past
<1> QED
  BY Zenon, <1>1, <1>3 DEF IInv

LEMMA NextIInv == IInv /\ [Next]_vars => IInv'
<1> SUFFICES ASSUME IInv, [Next]_vars PROVE IInv'
  BY Zenon
<1>1. ASSUME UNCHANGED vars PROVE IInv'
  BY Zenon, <1>1 DEF vars, IInv, Shape, Managed, Present, Seen, Past
<1>2. ASSUME NEW c \in Controllers, ClaimStep(c) PROVE IInv'
  <2>1. ASSUME NEW o \in Objects, NoPatch(c, o) \/ PatchError(c, o) PROVE IInv'
    BY Zenon, <2>1, DoneIs, SameServer DEF NoPatch, PatchError
  <2>2. ASSUME NEW o \in Objects, AdoptPod(c, o) \/ AdoptService(c, o)
        PROVE  IInv'
    BY Zenon, <2>2, AdoptKeeps DEF AdoptPod, AdoptService
  <2>3. ASSUME NEW o \in Objects, ReleasePod(c, o) \/ ReleaseService(c, o)
        PROVE  IInv'
    BY Zenon, <2>3, ReleaseKeeps DEF ReleasePod, ReleaseService
  <2> QED
    BY Zenon, <1>2, <2>1, <2>2, <2>3, CanAdoptKeeps, EndKeeps DEF ClaimStep
<1>3. ASSUME NEW c \in Controllers, DeleteController(c) PROVE IInv'
  BY Zenon, <1>3 DEF DeleteController, IInv, Shape, Managed, Present, Seen, Past
<1> QED
  BY Zenon, <1>1, <1>2, <1>3, CreateKeeps, RelabelKeeps, DeleteKeeps, GoneKeeps,
     DeliverKeeps, StartKeeps DEF Next, Claims

-----------------------------------------------------------------------------
(* The refinement.                                                         *)

(* Each step of a claim, of a user or of the informer is a step of         *)
(* Ownership or leaves owners and worn labels as they are.                 *)
LEMMA OwnersKept ==
  ASSUME UNCHANGED obj PROVE UNCHANGED owner
BY Zenon DEF owner

LEMMA PatchIs ==
  ASSUME Shape, NEW o \in Objects, obj[o] # None, NEW l \in Labels,
         obj' = [obj EXCEPT ![o].owner = l]
  PROVE  owner' = [owner EXCEPT ![o] = l]
<1>1. obj[o] \in Object
  BY Zenon DEF Shape
<1>2. obj'[o].owner = l /\ obj'[o] \in Object
  BY Zenon, <1>1 DEF Shape, Object
<1>3. \A p \in Objects : p # o => obj'[p] = obj[p]
  BY Zenon DEF Shape
<1>4. obj'[o] # None
  BY Zenon, <1>2, RefConstants
<1>5. owner' = [p \in Objects |-> IF p = o THEN l ELSE owner[p]]
  BY <1>2, <1>3, <1>4 DEF owner
<1>6. [owner EXCEPT ![o] = l] = [p \in Objects |-> IF p = o THEN l ELSE owner[p]]
  BY Zenon DEF owner
<1> QED
  BY Zenon, <1>5, <1>6

LEMMA AdoptAdopts ==
  ASSUME IInv, NEW c \in Controllers, NEW o \in Objects, Adopt(c, o)
  PROVE  O!Next \/ UNCHANGED <<owner, worn>>
<1>1. UNCHANGED worn
  BY Zenon DEF Adopt
<1>2. CASE obj' = obj
  BY Zenon, <1>1, <1>2, OwnersKept
<1>3. CASE obj' # obj
  <2>1. /\ Current(c, o) /\ obj[o].owner = None
        /\ obj' = [obj EXCEPT ![o].owner = c]
    BY Zenon, <1>3 DEF Adopt, AdoptPatch
  <2>2. owner' = [owner EXCEPT ![o] = c] /\ owner[o] = None
    BY Zenon, <2>1, PatchIs DEF IInv, Current, Labels, owner
  <2>3. pass[c].seen[o].label = c
    BY Zenon DEF Adopt, ClaimObject
  <2>4. Past(o, pass[c].seen[o])
    BY Zenon DEF IInv, Seen, Adopt
  <2>5. c \in worn[o]
    BY Zenon, <2>1, <2>3, <2>4 DEF Past, Current
  <2>6. O!Adopt(o, c)
    BY Zenon, <1>1, <2>2, <2>5 DEF O!Adopt
  <2> QED
    BY Zenon, <2>6 DEF O!Next
<1> QED
  BY Zenon, <1>2, <1>3

LEMMA ReleaseReleases ==
  ASSUME IInv, NEW c \in Controllers, NEW o \in Objects, Release(c, o)
  PROVE  O!Next \/ UNCHANGED <<owner, worn>>
<1>1. UNCHANGED worn
  BY Zenon DEF Release
<1>2. CASE obj' = obj
  BY Zenon, <1>1, <1>2, OwnersKept
<1>3. CASE obj' # obj
  <2>1. /\ Current(c, o) /\ obj[o].owner = c
        /\ obj' = [obj EXCEPT ![o].owner = None]
    BY Zenon, <1>3 DEF Release, ReleasePatch
  <2>2. owner' = [owner EXCEPT ![o] = None] /\ owner[o] = c
    BY Zenon, <2>1, PatchIs DEF IInv, Current, Labels, owner
  <2>3. pass[c].seen[o].label # c
    BY Zenon DEF Release, ClaimObject
  <2>4. Past(o, pass[c].seen[o])
    BY Zenon DEF IInv, Seen, Release
  <2>5. worn[o] # {c}
    BY Zenon, <2>1, <2>3, <2>4 DEF Past, Current
  <2>6. O!Release(o)
    BY Zenon, <1>1, <2>2, <2>5, RefConstants DEF O!Release
  <2> QED
    BY Zenon, <2>6 DEF O!Next
<1> QED
  BY Zenon, <1>2, <1>3

LEMMA UsersStep ==
  ASSUME IInv, NEW o \in Objects,
         \/ \E l \in Labels, c \in Labels : Create(o, l, c)
         \/ \E l \in Labels : Relabel(o, l)
         \/ Delete(o) \/ Gone(o)
  PROVE  O!Next \/ UNCHANGED <<owner, worn>>
<1>1. ASSUME NEW l \in Labels, NEW c \in Labels, Create(o, l, c) PROVE O!Next
  <2> DEFINE new == [uid |-> uids[o] + 1, label |-> l, owner |-> c, dying |-> FALSE]
  <2>1. obj' = [obj EXCEPT ![o] = new] /\ new.owner = c
    BY Zenon, <1>1 DEF Create
  <2>2. new # None
    <3>1. uids[o] + 1 \in 1 .. MaxCreations
      BY <1>1, RefConstants DEF IInv, Shape, Create
    <3>2. new \in Object
      BY Zenon, <3>1 DEF Object
    <3> QED
      BY Zenon, <3>2, RefConstants
  <2> HIDE DEF new
  <2>3. owner' = [owner EXCEPT ![o] = c]
    BY Zenon, <2>1, <2>2 DEF owner, IInv, Shape
  <2>4. worn[o] = {}
    BY Zenon, <1>1 DEF IInv, Present, Create
  <2>5. O!Appear(o, l, c)
    BY Zenon, <1>1, <2>3, <2>4 DEF O!Appear, Create
  <2> QED
    BY Zenon, <2>5 DEF O!Next, O!Labels, Labels
<1>2. ASSUME NEW l \in Labels, Relabel(o, l) PROVE O!Next
  <2>1. obj[o] \in Object
    BY Zenon, <1>2 DEF IInv, Shape, Relabel
  <2>2. obj'[o].owner = obj[o].owner /\ obj'[o] \in Object
    BY Zenon, <1>2, <2>1 DEF Relabel, IInv, Shape, Object
  <2>3. \A p \in Objects : p # o => obj'[p] = obj[p]
    BY Zenon, <1>2 DEF Relabel, IInv, Shape
  <2>4. UNCHANGED owner
    BY Zenon, <2>1, <2>2, <2>3, RefConstants DEF owner
  <2>5. worn[o] # {}
    BY Zenon, <1>2 DEF Relabel, IInv, Present
  <2>6. O!Relabel(o, l)
    BY Zenon, <1>2, <2>4, <2>5 DEF O!Relabel, Relabel
  <2> QED
    BY Zenon, <2>6 DEF O!Next, O!Labels, Labels
<1>3. ASSUME Delete(o) PROVE UNCHANGED <<owner, worn>>
  <2>1. obj[o] \in Object
    BY Zenon, <1>3 DEF IInv, Shape, Delete
  <2>2. obj'[o].owner = obj[o].owner /\ obj'[o] \in Object
    BY Zenon, <1>3, <2>1 DEF Delete, IInv, Shape, Object
  <2>3. \A p \in Objects : p # o => obj'[p] = obj[p]
    BY Zenon, <1>3 DEF Delete, IInv, Shape
  <2>4. UNCHANGED owner
    BY Zenon, <2>1, <2>2, <2>3, RefConstants DEF owner
  <2> QED
    BY Zenon, <1>3, <2>4 DEF Delete
<1>4. ASSUME Gone(o) PROVE O!Next
  <2>1. owner' = [owner EXCEPT ![o] = None]
    BY Zenon, <1>4 DEF Gone, owner, IInv, Shape
  <2>2. O!Vanish(o)
    BY Zenon, <1>4, <2>1 DEF O!Vanish, Gone
  <2> QED
    BY Zenon, <2>2 DEF O!Next
<1> QED
  BY Zenon, <1>1, <1>2, <1>3, <1>4

LEMMA StepSimulation ==
  IInv /\ [Next]_vars => O!Next \/ UNCHANGED <<owner, worn>>
<1> SUFFICES ASSUME IInv, [Next]_vars
             PROVE  O!Next \/ UNCHANGED <<owner, worn>>
  BY Zenon
<1>1. ASSUME UNCHANGED <<obj, worn>> PROVE UNCHANGED <<owner, worn>>
  BY Zenon, <1>1, OwnersKept
<1>2. ASSUME NEW c \in Controllers, ClaimStep(c)
      PROVE  O!Next \/ UNCHANGED <<owner, worn>>
  <2>1. CASE \E o \in Objects : Adopt(c, o)
    BY Zenon, <2>1, AdoptAdopts
  <2>2. CASE \E o \in Objects : Release(c, o)
    BY Zenon, <2>2, ReleaseReleases
  <2>3. CASE UNCHANGED <<obj, worn>>
    BY Zenon, <1>1, <2>3
  <2> QED
    BY Zenon, <1>2, <2>1, <2>2, <2>3
    DEF ClaimStep, NoPatch, AdoptPod, AdoptService, ReleasePod,
        ReleaseService, PatchError, CanAdopt, EndClaim
<1>3. ASSUME NEW c \in Controllers, DeleteController(c)
      PROVE  UNCHANGED <<owner, worn>>
  BY Zenon, <1>1, <1>3 DEF DeleteController
<1>4. ASSUME NEW o \in Objects, Deliver(o) PROVE UNCHANGED <<owner, worn>>
  BY Zenon, <1>1, <1>4 DEF Deliver
<1>5. ASSUME UNCHANGED vars PROVE UNCHANGED <<owner, worn>>
  BY Zenon, <1>1, <1>5 DEF vars
<1>6. ASSUME NEW c \in Controllers, NEW k \in Kinds, Claims(c, k)
      PROVE  UNCHANGED <<owner, worn>>
  BY Zenon, <1>1, <1>6 DEF Claims, StartClaim
<1> QED
  BY Zenon, <1>2, <1>3, <1>4, <1>5, <1>6, UsersStep DEF Next

(* However the claims of any number of controllers interleave with each    *)
(* other and with users, an object changes hands only as Ownership says.   *)
THEOREM ClaimsImplementOwnership == Spec => ImplementsOwnership
<1>1. Init => O!Init
  BY Zenon DEF Init, O!Init, owner
<1> QED
  BY <1>1, InitIInv, NextIInv, StepSimulation, PTL
  DEF Spec, ImplementsOwnership, O!Spec
=============================================================================
