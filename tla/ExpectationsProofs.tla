------------------------- MODULE ExpectationsProofs -------------------------
(* What holds of the expectation counters for every number of replica      *)
(* types, objects, calls, events and faults.                               *)
EXTENDS Expectations, TLAPS

(* The handler of a kind only ever holds events of that kind, and a call   *)
(* is only ever under way for some key.                                    *)
Shape ==
    /\ pc \in {"create", "hit", "miss"} => cur \in Keys
    /\ \A kd \in Kinds : handler[kd] # None => handler[kd].key[2] = kd

IInv == TypeOK /\ Shape /\ CountsCovered

LEMMA KeyKinds == \A k \in Keys : k[2] \in Kinds
  BY Zenon DEF Keys

(* RaiseExpectations changes the counters of one key that is in the store. *)
LEMMA RaisedIs ==
  ASSUME TypeOK, NEW k \in Keys, NEW add \in Int, NEW del \in Int
  PROVE  /\ Raised(k, add, del) \in [Keys -> Counters \cup {None}]
         /\ \A j \in Keys : store[j] = None => Raised(k, add, del)[j] = None
         /\ \A j \in Keys : j # k => Raised(k, add, del)[j] = store[j]
         /\ store[k] # None =>
              Raised(k, add, del)[k] = [add |-> store[k].add + add,
                                        del |-> store[k].del + del]
  BY DEF Raised, TypeOK, Counters

(* So does LowerExpectations.                                              *)
LEMMA LoweredIs ==
  ASSUME TypeOK, NEW k \in Keys, NEW add \in Int, NEW del \in Int
  PROVE  /\ Lowered(k, add, del) \in [Keys -> Counters \cup {None}]
         /\ \A j \in Keys : store[j] = None => Lowered(k, add, del)[j] = None
         /\ \A j \in Keys : j # k => Lowered(k, add, del)[j] = store[j]
         /\ store[k] # None =>
              Lowered(k, add, del)[k] = [add |-> store[k].add - add,
                                         del |-> store[k].del - del]
  BY RaisedIs, -add \in Int, -del \in Int, ZenonT(30) DEF Lowered, TypeOK, Counters

LEMMA InitIInv == Init => IInv
<1> SUFFICES ASSUME Init PROVE IInv
  BY Zenon
<1>1. TypeOK
  <2>1. Flags
    BY Zenon DEF Init, Flags
  <2> QED
    BY <2>1, BoundsAreNaturals DEF Init, TypeOK, Zero, Nothing
<1>2. Shape
  BY Zenon DEF Init, Shape
<1>3. CountsCovered
  BY Zenon DEF Init, CountsCovered
<1> QED
  BY Zenon, <1>1, <1>2, <1>3 DEF IInv

(* The steps of a pass.                                                    *)
LEMMA StartPassKeeps == IInv /\ StartPass => IInv'
<1> SUFFICES ASSUME IInv, StartPass PROVE IInv'
  BY Zenon
<1>1. TypeOK'
  <2>1. Flags'
    BY Zenon DEF IInv, TypeOK, Flags, StartPass
  <2> QED
    BY <2>1, BoundsAreNaturals DEF IInv, TypeOK, StartPass
<1>2. Shape'
  BY Zenon DEF IInv, TypeOK, Shape, StartPass
<1>3. CountsCovered'
  <2> SUFFICES ASSUME NEW k \in Keys, store[k] # None PROVE Covered(k)'
    BY Zenon DEF CountsCovered, StartPass
  <2>1. Covered(k)
    BY Zenon DEF IInv, CountsCovered
  <2>2. pc' \notin {"create", "hit"}
    BY Zenon DEF StartPass
  <2>3. InHandler(k, "add")' = InHandler(k, "add")
        /\ InHandler(k, "del")' = InHandler(k, "del")
    BY Zenon DEF InHandler, StartPass
  <2> QED
    BY Zenon, <2>1, <2>2, <2>3 DEF Covered, StartPass, B2N
<1> QED
  BY Zenon, <1>1, <1>2, <1>3 DEF IInv

LEMMA ResetKeeps ==
  ASSUME IInv, NEW k \in Keys, ResetExpectations(k) PROVE IInv'
<1>0. TypeOK /\ Shape
  BY Zenon DEF IInv
<1>1. TypeOK'
  <2>1. handler' \in [Kinds -> Handled \cup {None}]
    BY <1>0, ZenonT(30) DEF TypeOK, ResetExpectations, Handled
  <2>2. Flags'
    BY Zenon, <1>0 DEF TypeOK, Flags, ResetExpectations
  <2> QED
    BY <1>0, <2>1, <2>2
    DEF TypeOK, ResetExpectations, NewExpectations, Counters, Nothing
<1>2. Shape'
  BY Zenon, <1>0 DEF TypeOK, Shape, ResetExpectations, Handled
<1>3. CountsCovered'
  <2> SUFFICES ASSUME NEW j \in Keys, store'[j] # None PROVE Covered(j)'
    BY Zenon DEF CountsCovered
  <2>1. CASE j = k
    <3>1. store'[j] = [add |-> 0, del |-> 0]
      BY Zenon, <2>1, <1>0 DEF ResetExpectations, NewExpectations, TypeOK
    <3>2. pc' # "hit"
      BY Zenon DEF ResetExpectations
    <3>3. pend'[j] \in [add : Nat, del : Nat] /\ dying'[j] \in Nat
          /\ phantom'[j] \in [add : Nat, del : Nat]
      BY Zenon, <1>1 DEF TypeOK
    <3> QED
      BY <3>1, <3>2, <3>3 DEF Covered, B2N
  <2>2. CASE j # k
    <3>1. store[j] # None /\ store'[j] = store[j] /\ phantom'[j] = phantom[j]
      BY Zenon, <2>2, <1>0 DEF ResetExpectations, TypeOK
    <3>2. Covered(j)
      BY Zenon, <3>1 DEF IInv, CountsCovered
    <3>3. InHandler(j, "add")' = InHandler(j, "add")
          /\ InHandler(j, "del")' = InHandler(j, "del")
      BY <2>2, <1>0, KeyKinds DEF InHandler, ResetExpectations, TypeOK
    <3>4. pc \notin {"create", "hit"} /\ pc' \notin {"create", "hit"}
          /\ UNCHANGED <<pend, dying>>
      BY Zenon DEF ResetExpectations
    <3> QED
      BY Zenon, <3>1, <3>2, <3>3, <3>4 DEF Covered, B2N
  <2> QED
    BY Zenon, <2>1, <2>2
<1> QED
  BY Zenon, <1>1, <1>2, <1>3 DEF IInv

LEMMA ExpectCreationKeeps ==
  ASSUME IInv, NEW k \in Keys, ExpectCreation(k) PROVE IInv'
<1>0. TypeOK /\ Shape
  BY Zenon DEF IInv
<1>s. /\ store' \in [Keys -> Counters \cup {None}]
      /\ \A i \in Keys : store[i] = None => store'[i] = None
      /\ \A i \in Keys : i # k => store'[i] = store[i]
      /\ store[k] # None => store'[k] = [add |-> store[k].add + 1,
                                          del |-> store[k].del + 0]
  <2>1. store' = Raised(k, 1, 0)
    BY Zenon DEF ExpectCreation
  <2> QED
    BY <1>0, <2>1, 1 \in Int, 0 \in Int, RaisedIs
<1>1. TypeOK'
  <2>1. Flags'
    BY Zenon, <1>0 DEF TypeOK, Flags, ExpectCreation
  <2> QED
    BY <1>0, <2>1, BoundsAreNaturals, <1>s DEF TypeOK, ExpectCreation
<1>2. Shape'
  BY Zenon, <1>0 DEF TypeOK, Shape, ExpectCreation
<1>3. CountsCovered'
  <2> SUFFICES ASSUME NEW j \in Keys, store'[j] # None PROVE Covered(j)'
    BY Zenon DEF CountsCovered
  <2>1. store[j] # None /\ pc = "work" /\ pc' = "create" /\ cur' = k
        /\ UNCHANGED <<pend, dying, phantom>>
    BY Zenon, <1>0, <1>s DEF ExpectCreation
  <2>2. Covered(j) /\ store[j] \in Counters
    BY Zenon, <2>1, <1>0 DEF IInv, CountsCovered, TypeOK
  <2>3. InHandler(j, "add")' = InHandler(j, "add")
        /\ InHandler(j, "del")' = InHandler(j, "del")
    BY Zenon DEF InHandler, ExpectCreation
  <2>4. store'[j] = IF j = k THEN [add |-> store[j].add + 1, del |-> store[j].del + 0]
                    ELSE store[j]
    BY Zenon, <2>1, <1>s
  <2>5. pend[j] \in [add : Nat, del : Nat] /\ dying[j] \in Nat
        /\ phantom[j] \in [add : Nat, del : Nat]
    BY Zenon, <1>0 DEF TypeOK
  <2> QED
    BY <2>1, <2>2, <2>3, <2>4, <2>5 DEF Covered, B2N, Counters
<1> QED
  BY Zenon, <1>1, <1>2, <1>3 DEF IInv

LEMMA CreatedKeeps ==
  ASSUME IInv, Created PROVE IInv'
<1>0. TypeOK /\ Shape
  BY Zenon DEF IInv
<1>c. cur \in Keys
  BY Zenon, <1>0 DEF Shape, Created
<1>1. TypeOK'
  <2>1. Flags'
    BY Zenon, <1>0 DEF TypeOK, Flags, Created
  <2> QED
    BY <1>0, <2>1, BoundsAreNaturals, <1>c DEF TypeOK, Created, Appears
<1>2. Shape'
  BY Zenon, <1>0 DEF TypeOK, Shape, Created
<1>3. CountsCovered'
  <2> SUFFICES ASSUME NEW j \in Keys, store'[j] # None PROVE Covered(j)'
    BY Zenon DEF CountsCovered
  <2>1. store[j] # None /\ pc = "create" /\ pc' = "work"
        /\ UNCHANGED <<store, dying, phantom>>
    BY Zenon DEF Created
  <2>2. Covered(j) /\ store[j] \in Counters
    BY Zenon, <2>1, <1>0 DEF IInv, CountsCovered, TypeOK
  <2>3. InHandler(j, "add")' = InHandler(j, "add")
        /\ InHandler(j, "del")' = InHandler(j, "del")
    BY Zenon DEF InHandler, Created
  <2>4. pend'[j] = IF j = cur THEN [add |-> pend[j].add + 1, del |-> pend[j].del]
                   ELSE pend[j]
    BY <1>0, <1>c DEF Created, Appears, TypeOK
  <2>5. pend[j] \in [add : Nat, del : Nat] /\ dying[j] \in Nat
        /\ phantom[j] \in [add : Nat, del : Nat]
    BY Zenon, <1>0 DEF TypeOK
  <2> QED
    BY <2>1, <2>2, <2>3, <2>4, <2>5 DEF Covered, B2N, Counters
<1> QED
  BY Zenon, <1>1, <1>2, <1>3 DEF IInv

LEMMA TimedOutKeeps ==
  ASSUME IInv, NEW effect \in BOOLEAN, TimedOut(effect) PROVE IInv'
<1>0. TypeOK /\ Shape
  BY Zenon DEF IInv
<1>c. cur \in Keys
  BY Zenon, <1>0 DEF Shape, TimedOut
<1>1. TypeOK'
  <2>1. Flags'
    BY Zenon, <1>0 DEF TypeOK, Flags, TimedOut
  <2>2. alive' \in [Keys -> Nat] /\ pend' \in [Keys -> [add : Nat, del : Nat]]
        /\ phantom' \in [Keys -> [add : Nat, del : Nat]]
    <3>1. CASE effect
      <4>1. Appears(cur) /\ UNCHANGED phantom
        BY Zenon, <3>1 DEF TimedOut
      <4> QED
        BY <4>1, <1>0, <1>c DEF TypeOK, Appears
    <3>2. CASE ~effect
      BY <3>2, <1>0, <1>c DEF TypeOK, TimedOut
    <3> QED
      BY Zenon, <3>1, <3>2
  <2> QED
    BY <1>0, <2>1, <2>2, BoundsAreNaturals DEF TypeOK, TimedOut
<1>2. Shape'
  BY Zenon, <1>0 DEF TypeOK, Shape, TimedOut
<1>3. CountsCovered'
  <2> SUFFICES ASSUME NEW j \in Keys, store'[j] # None PROVE Covered(j)'
    BY Zenon DEF CountsCovered
  <2>1. store[j] # None /\ pc = "create" /\ pc' = "work"
        /\ UNCHANGED <<store, dying>>
    BY Zenon DEF TimedOut
  <2>2. Covered(j) /\ store[j] \in Counters
    BY Zenon, <2>1, <1>0 DEF IInv, CountsCovered, TypeOK
  <2>3. InHandler(j, "add")' = InHandler(j, "add")
        /\ InHandler(j, "del")' = InHandler(j, "del")
    BY Zenon DEF InHandler, TimedOut
  <2>4. /\ pend'[j].del = pend[j].del /\ phantom'[j].del = phantom[j].del
        /\ pend'[j].add + phantom'[j].add
             = pend[j].add + phantom[j].add + B2N(j = cur)
        /\ pend'[j].add \in Nat /\ phantom'[j].add \in Nat
    <3>1. CASE effect
      BY <3>1, <1>0, <1>c DEF TimedOut, Appears, TypeOK, B2N
    <3>2. CASE ~effect
      BY <3>2, <1>0, <1>c DEF TimedOut, TypeOK, B2N
    <3> QED
      BY Zenon, <3>1, <3>2
  <2>5. pend[j] \in [add : Nat, del : Nat] /\ dying[j] \in Nat
        /\ phantom[j] \in [add : Nat, del : Nat]
    BY Zenon, <1>0 DEF TypeOK
  <2> QED
    BY <2>1, <2>2, <2>3, <2>4, <2>5 DEF Covered, B2N, Counters
<1> QED
  BY Zenon, <1>1, <1>2, <1>3 DEF IInv

LEMMA CreateFailedKeeps ==
  ASSUME IInv, NEW effect \in BOOLEAN, CreateFailed(effect) PROVE IInv'
<1>0. TypeOK /\ Shape
  BY Zenon DEF IInv
<1>c. cur \in Keys
  BY Zenon, <1>0 DEF Shape, CreateFailed
<1>s. /\ store' \in [Keys -> Counters \cup {None}]
      /\ \A i \in Keys : store[i] = None => store'[i] = None
      /\ \A i \in Keys : i # cur => store'[i] = store[i]
      /\ store[cur] # None => store'[cur] = [add |-> store[cur].add - 1,
                                          del |-> store[cur].del - 0]
  <2>1. store' = Lowered(cur, 1, 0)
    BY Zenon DEF CreateFailed
  <2> QED
    BY <1>0, <1>c, <2>1, 1 \in Int, 0 \in Int, LoweredIs
<1>1. TypeOK'
  <2>1. Flags'
    BY Zenon, <1>0 DEF TypeOK, Flags, CreateFailed, Abort
  <2> QED
    BY <1>0, <2>1, BoundsAreNaturals, <1>c, <1>s, SMTT(30) DEF TypeOK, CreateFailed, Appears, Abort
<1>2. Shape'
  BY Zenon, <1>0 DEF TypeOK, Shape, CreateFailed, Abort
<1>3. CountsCovered'
  <2> SUFFICES ASSUME NEW j \in Keys, store'[j] # None PROVE Covered(j)'
    BY Zenon DEF CountsCovered
  <2>1. store[j] # None /\ pc = "create" /\ pc' = "idle"
        /\ UNCHANGED <<dying, phantom>>
    BY Zenon, <1>0, <1>c, <1>s DEF CreateFailed, Abort
  <2>2. Covered(j) /\ store[j] \in Counters
    BY Zenon, <2>1, <1>0 DEF IInv, CountsCovered, TypeOK
  <2>3. InHandler(j, "add")' = InHandler(j, "add")
        /\ InHandler(j, "del")' = InHandler(j, "del")
    BY Zenon DEF InHandler, CreateFailed
  <2>4. store'[j] = IF j = cur THEN [add |-> store[j].add - 1, del |-> store[j].del - 0]
                    ELSE store[j]
    BY Zenon, <1>c, <2>1, <1>s
  <2>5. pend[j] \in [add : Nat, del : Nat] /\ dying[j] \in Nat
        /\ phantom[j] \in [add : Nat, del : Nat]
    BY Zenon, <1>0 DEF TypeOK
  <2>6. pend'[j].add \in Nat /\ pend'[j].add >= pend[j].add
        /\ pend'[j].del = pend[j].del
    <3>1. CASE effect
      BY <3>1, <1>0, <1>c DEF CreateFailed, Appears, TypeOK
    <3>2. CASE ~effect
      BY <3>2, <2>5 DEF CreateFailed
    <3> QED
      BY Zenon, <3>1, <3>2
  <2> QED
    BY <2>1, <2>2, <2>3, <2>4, <2>5, <2>6 DEF Covered, B2N, Counters
<1> QED
  BY Zenon, <1>1, <1>2, <1>3 DEF IInv

LEMMA DeletePodKeeps ==
  ASSUME IInv, NEW k \in Keys, NEW hit \in BOOLEAN, 
         DeletePod(k, hit)
  PROVE  IInv'
<1>0. TypeOK /\ Shape
  BY Zenon DEF IInv
<1>d. /\ alive' \in [Keys -> Nat] /\ dying' \in [Keys -> Nat]
      /\ \A i \in Keys : dying'[i] >= dying[i]
      /\ hit => dying'[k] = dying[k] + 1
  <2>1. CASE hit
    <3>1. Terminates(k)
      BY Zenon, <2>1 DEF DeletePod
    <3> QED
      BY <3>1, <1>0 DEF Terminates, TypeOK
  <2>2. CASE ~hit
    BY <2>2, <1>0 DEF DeletePod, TypeOK
  <2> QED
    BY Zenon, <2>1, <2>2
<1>1. TypeOK'
  <2>1. Flags'
    BY Zenon, <1>0 DEF TypeOK, Flags, DeletePod
  <2> QED
    BY <1>0, <2>1, BoundsAreNaturals, <1>d DEF TypeOK, DeletePod
<1>2. Shape'
  BY Zenon, <1>0 DEF TypeOK, Shape, DeletePod
<1>3. CountsCovered'
  <2> SUFFICES ASSUME NEW j \in Keys, store'[j] # None PROVE Covered(j)'
    BY Zenon DEF CountsCovered
  <2>1. store[j] # None /\ pc = "work" /\ pc' = (IF hit THEN "hit" ELSE "miss")
        /\ cur' = k /\ UNCHANGED <<store, pend, phantom>>
    BY Zenon DEF DeletePod
  <2>2. Covered(j) /\ store[j] \in Counters
    BY Zenon, <2>1, <1>0 DEF IInv, CountsCovered, TypeOK
  <2>3. InHandler(j, "add")' = InHandler(j, "add")
        /\ InHandler(j, "del")' = InHandler(j, "del")
    BY Zenon DEF InHandler, DeletePod
  <2>4. dying'[j] \in Nat /\ dying'[j] >= dying[j]
        /\ (hit /\ j = k => dying'[j] = dying[j] + 1)
    BY Zenon, <1>d
  <2>5. pend[j] \in [add : Nat, del : Nat] /\ dying[j] \in Nat
        /\ phantom[j] \in [add : Nat, del : Nat]
    BY Zenon, <1>0 DEF TypeOK
  <2> QED
    BY <2>1, <2>2, <2>3, <2>4, <2>5 DEF Covered, B2N, Counters
<1> QED
  BY Zenon, <1>1, <1>2, <1>3 DEF IInv

LEMMA DeletePodFailedKeeps ==
  ASSUME IInv, NEW k \in Keys, NEW hit \in BOOLEAN, 
         DeletePodFailed(k, hit)
  PROVE  IInv'
<1>0. TypeOK /\ Shape
  BY Zenon DEF IInv
<1>d. /\ alive' \in [Keys -> Nat] /\ dying' \in [Keys -> Nat]
      /\ \A i \in Keys : dying'[i] >= dying[i]
      /\ hit => dying'[k] = dying[k] + 1
  <2>1. CASE hit
    <3>1. Terminates(k)
      BY Zenon, <2>1 DEF DeletePodFailed
    <3> QED
      BY <3>1, <1>0 DEF Terminates, TypeOK
  <2>2. CASE ~hit
    BY <2>2, <1>0 DEF DeletePodFailed, TypeOK
  <2> QED
    BY Zenon, <2>1, <2>2
<1>1. TypeOK'
  <2>1. Flags'
    BY Zenon, <1>0 DEF TypeOK, Flags, DeletePodFailed, Abort
  <2> QED
    BY <1>0, <2>1, BoundsAreNaturals, <1>d DEF TypeOK, DeletePodFailed, Abort
<1>2. Shape'
  BY Zenon, <1>0 DEF TypeOK, Shape, DeletePodFailed, Abort
<1>3. CountsCovered'
  <2> SUFFICES ASSUME NEW j \in Keys, store'[j] # None PROVE Covered(j)'
    BY Zenon DEF CountsCovered
  <2>1. store[j] # None /\ pc = "work" /\ pc' = "idle"
        /\ UNCHANGED <<store, pend, phantom>>
    BY Zenon DEF DeletePodFailed, Abort
  <2>2. Covered(j) /\ store[j] \in Counters
    BY Zenon, <2>1, <1>0 DEF IInv, CountsCovered, TypeOK
  <2>3. InHandler(j, "add")' = InHandler(j, "add")
        /\ InHandler(j, "del")' = InHandler(j, "del")
    BY Zenon DEF InHandler, DeletePodFailed
  <2>4. dying'[j] \in Nat /\ dying'[j] >= dying[j]
    BY Zenon, <1>d
  <2>5. pend[j] \in [add : Nat, del : Nat] /\ dying[j] \in Nat
        /\ phantom[j] \in [add : Nat, del : Nat]
    BY Zenon, <1>0 DEF TypeOK
  <2> QED
    BY <2>1, <2>2, <2>3, <2>4, <2>5 DEF Covered, B2N, Counters
<1> QED
  BY Zenon, <1>1, <1>2, <1>3 DEF IInv

LEMMA ExpectDeletionKeeps ==
  ASSUME IInv, ExpectDeletion PROVE IInv'
<1>0. TypeOK /\ Shape
  BY Zenon DEF IInv
<1>c. cur \in Keys
  BY Zenon, <1>0 DEF Shape, ExpectDeletion
<1>s. /\ store' \in [Keys -> Counters \cup {None}]
      /\ \A i \in Keys : store[i] = None => store'[i] = None
      /\ \A i \in Keys : i # cur => store'[i] = store[i]
      /\ store[cur] # None => store'[cur] = [add |-> store[cur].add + 0,
                                            del |-> store[cur].del + 1]
  <2>1. store' = Raised(cur, 0, 1)
    BY Zenon DEF ExpectDeletion
  <2> QED
    BY <1>0, <1>c, <2>1, 1 \in Int, 0 \in Int, RaisedIs
<1>1. TypeOK'
  <2>1. Flags'
    BY Zenon, <1>0 DEF TypeOK, Flags, ExpectDeletion
  <2> QED
    BY <1>0, <2>1, BoundsAreNaturals, <1>c, <1>s DEF TypeOK, ExpectDeletion
<1>2. Shape'
  BY Zenon, <1>0 DEF TypeOK, Shape, ExpectDeletion
<1>3. CountsCovered'
  <2> SUFFICES ASSUME NEW j \in Keys, store'[j] # None PROVE Covered(j)'
    BY Zenon DEF CountsCovered
  <2>1. store[j] # None /\ pc \in {"hit", "miss"} /\ pc' = "work"
        /\ UNCHANGED <<pend, dying>>
    BY Zenon, <1>s DEF ExpectDeletion
  <2>2. Covered(j) /\ store[j] \in Counters
    BY Zenon, <2>1, <1>0 DEF IInv, CountsCovered, TypeOK
  <2>3. InHandler(j, "add")' = InHandler(j, "add")
        /\ InHandler(j, "del")' = InHandler(j, "del")
    BY Zenon DEF InHandler, ExpectDeletion
  <2>4. store'[j] = (IF j = cur
                     THEN [add |-> store[j].add + 0, del |-> store[j].del + 1]
                     ELSE store[j])
        /\ phantom'[j] = (IF j = cur /\ pc = "miss"
                          THEN [add |-> phantom[j].add, del |-> phantom[j].del + 1]
                          ELSE phantom[j])
    BY <2>1, <1>0, <1>c, <1>s DEF ExpectDeletion, TypeOK
  <2>5. pend[j] \in [add : Nat, del : Nat] /\ dying[j] \in Nat
        /\ phantom[j] \in [add : Nat, del : Nat]
    BY Zenon, <1>0 DEF TypeOK
  <2> QED
    BY <2>1, <2>2, <2>3, <2>4, <2>5 DEF Covered, B2N, Counters
<1> QED
  BY Zenon, <1>1, <1>2, <1>3 DEF IInv

LEMMA EndPassKeeps ==
  ASSUME IInv, EndPass PROVE IInv'
<1>0. TypeOK /\ Shape
  BY Zenon DEF IInv
<1>1. TypeOK'
  <2>1. Flags'
    BY Zenon, <1>0 DEF TypeOK, Flags, EndPass
  <2> QED
    BY <1>0, <2>1, BoundsAreNaturals DEF TypeOK, EndPass
<1>2. Shape'
  BY Zenon, <1>0 DEF TypeOK, Shape, EndPass
<1>3. CountsCovered'
  <2> SUFFICES ASSUME NEW j \in Keys, store'[j] # None PROVE Covered(j)'
    BY Zenon DEF CountsCovered
  <2>1. store[j] # None /\ pc = "work" /\ pc' = "idle"
        /\ UNCHANGED <<store, pend, dying, phantom>>
    BY Zenon DEF EndPass
  <2>2. Covered(j) /\ store[j] \in Counters
    BY Zenon, <2>1, <1>0 DEF IInv, CountsCovered, TypeOK
  <2>3. InHandler(j, "add")' = InHandler(j, "add")
        /\ InHandler(j, "del")' = InHandler(j, "del")
    BY Zenon DEF InHandler, EndPass
  <2> QED
    BY Zenon, <2>1, <2>2, <2>3 DEF Covered, B2N
<1> QED
  BY Zenon, <1>1, <1>2, <1>3 DEF IInv

(* The API server and the informers.                                       *)
LEMMA KillKeeps ==
  ASSUME IInv, NEW k \in Keys, Kill(k) PROVE IInv'
<1>0. TypeOK /\ Shape
  BY Zenon DEF IInv
<1>d. /\ alive' \in [Keys -> Nat] /\ dying' \in [Keys -> Nat]
      /\ \A i \in Keys : dying'[i] >= dying[i]
  BY <1>0 DEF Kill, Terminates, TypeOK
<1>1. TypeOK'
  <2>1. Flags'
    BY Zenon, <1>0 DEF TypeOK, Flags, Kill
  <2> QED
    BY <1>0, <2>1, BoundsAreNaturals, <1>d DEF TypeOK, Kill
<1>2. Shape'
  BY Zenon, <1>0 DEF TypeOK, Shape, Kill
<1>3. CountsCovered'
  <2> SUFFICES ASSUME NEW j \in Keys, store'[j] # None PROVE Covered(j)'
    BY Zenon DEF CountsCovered
  <2>1. store[j] # None /\ UNCHANGED <<store, pc, cur, pend, phantom>>
    BY Zenon DEF Kill
  <2>2. Covered(j) /\ store[j] \in Counters
    BY Zenon, <2>1, <1>0 DEF IInv, CountsCovered, TypeOK
  <2>3. InHandler(j, "add")' = InHandler(j, "add")
        /\ InHandler(j, "del")' = InHandler(j, "del")
    BY Zenon DEF InHandler, Kill
  <2>4. dying'[j] \in Nat /\ dying'[j] >= dying[j]
    BY Zenon, <1>d
  <2>5. pend[j] \in [add : Nat, del : Nat] /\ dying[j] \in Nat
        /\ phantom[j] \in [add : Nat, del : Nat]
    BY Zenon, <1>0 DEF TypeOK
  <2> QED
    BY <2>1, <2>2, <2>3, <2>4, <2>5 DEF Covered, B2N, Counters
<1> QED
  BY Zenon, <1>1, <1>2, <1>3 DEF IInv

LEMMA GoneKeeps ==
  ASSUME IInv, NEW k \in Keys, Gone(k) PROVE IInv'
<1>0. TypeOK /\ Shape
  BY Zenon DEF IInv
<1>1. TypeOK'
  <2>1. Flags'
    BY Zenon, <1>0 DEF TypeOK, Flags, Gone
  <2> QED
    BY <1>0, <2>1, BoundsAreNaturals DEF TypeOK, Gone
<1>2. Shape'
  BY Zenon, <1>0 DEF TypeOK, Shape, Gone
<1>3. CountsCovered'
  <2> SUFFICES ASSUME NEW j \in Keys, store'[j] # None PROVE Covered(j)'
    BY Zenon DEF CountsCovered
  <2>1. store[j] # None /\ UNCHANGED <<store, pc, cur, phantom>>
    BY Zenon DEF Gone
  <2>2. Covered(j) /\ store[j] \in Counters
    BY Zenon, <2>1, <1>0 DEF IInv, CountsCovered, TypeOK
  <2>3. InHandler(j, "add")' = InHandler(j, "add")
        /\ InHandler(j, "del")' = InHandler(j, "del")
    BY Zenon DEF InHandler, Gone
  <2>4. pend'[j].add = pend[j].add /\ pend'[j].del + dying'[j] = pend[j].del + dying[j]
    BY <1>0 DEF Gone, TypeOK
  <2>5. pend[j] \in [add : Nat, del : Nat] /\ dying[j] \in Nat
        /\ phantom[j] \in [add : Nat, del : Nat]
    BY Zenon, <1>0 DEF TypeOK
  <2>6. pend'[j].del \in Nat /\ dying'[j] \in Nat
    BY Zenon, <1>1 DEF TypeOK
  <2> QED
    BY Zenon, <2>1, <2>2, <2>3, <2>4, <2>5, <2>6 DEF Covered, B2N, Counters
<1> QED
  BY Zenon, <1>1, <1>2, <1>3 DEF IInv

LEMMA HandleIs ==
  ASSUME TypeOK, Shape, NEW k \in Keys, NEW what \in Whats, NEW own \in BOOLEAN,
         Handle(k, what, own)
  PROVE  /\ handler' \in [Kinds -> Handled \cup {None}]
         /\ \A kd \in Kinds : handler'[kd] # None => handler'[kd].key[2] = kd
         /\ store[k] # None => InHandler(k, what)'
         /\ \A j \in Keys, w \in Whats : InHandler(j, w) => InHandler(j, w)'
<1> DEFINE h == [key |-> k, what |-> what, live |-> store[k] # None, own |-> own]
<1>1. h \in Handled
  <2>1. (store[k] # None) \in BOOLEAN
    BY Zenon
  <2> QED
    BY Zenon, <2>1 DEF Handled
<1>2. handler[k[2]] = None /\ handler' = [handler EXCEPT ![k[2]] = h]
  BY Zenon DEF Handle
<1>3. k[2] \in Kinds
  BY Zenon, KeyKinds
<1>4. h # None
  BY Zenon, <1>1, NoneIsNoEntry
<1>5. h.key = k /\ h.what = what /\ (store[k] # None => h.live)
  BY Zenon
<1>6. handler'[k[2]] = h /\ \A kd \in Kinds : kd # k[2] => handler'[kd] = handler[kd]
  BY Zenon, <1>2, <1>3 DEF TypeOK
<1> HIDE DEF h
<1>7. handler' \in [Kinds -> Handled \cup {None}]
  BY Zenon, <1>1, <1>2, <1>3 DEF TypeOK
<1>8. \A kd \in Kinds : handler'[kd] # None => handler'[kd].key[2] = kd
  BY Zenon, <1>5, <1>6 DEF Shape
<1>9. store[k] # None => InHandler(k, what)'
  BY Zenon, <1>4, <1>5, <1>6 DEF InHandler
<1>10. \A j \in Keys, w \in Whats : InHandler(j, w) => InHandler(j, w)'
  BY Zenon, <1>2, <1>6, KeyKinds DEF InHandler
<1> QED
  BY Zenon, <1>7, <1>8, <1>9, <1>10

LEMMA DeliverKeeps ==
  ASSUME IInv, NEW k \in Keys, NEW what \in Whats, Deliver(k, what) PROVE IInv'
<1>0. TypeOK /\ Shape
  BY Zenon DEF IInv
<1>h. /\ handler' \in [Kinds -> Handled \cup {None}]
      /\ \A kd \in Kinds : handler'[kd] # None => handler'[kd].key[2] = kd
      /\ store[k] # None => InHandler(k, what)'
      /\ \A j \in Keys, w \in Whats : InHandler(j, w) => InHandler(j, w)'
  BY Zenon, <1>0, HandleIs, TRUE \in BOOLEAN, FALSE \in BOOLEAN DEF Deliver
<1>p. /\ pend' \in [Keys -> [add : Nat, del : Nat]]
      /\ \A i \in Keys :
           /\ pend'[i].add = pend[i].add - B2N(i = k /\ what = "add")
           /\ pend'[i].del = pend[i].del - B2N(i = k /\ what = "del")
  <2>1. CASE what = "add"
    <3>1. pend[k].add > 0 /\ pend' = [pend EXCEPT ![k].add = @ - 1]
      BY Zenon, <2>1 DEF Deliver
    <3>2. \A i \in Keys : pend[i] \in [add : Nat, del : Nat]
      BY Zenon, <1>0 DEF TypeOK
    <3> QED
      BY <3>1, <3>2, <2>1, <1>0 DEF TypeOK, B2N
  <2>2. CASE what = "del"
    <3>1. pend[k].del > 0 /\ pend' = [pend EXCEPT ![k].del = @ - 1]
      BY Zenon, <2>2 DEF Deliver
    <3>2. \A i \in Keys : pend[i] \in [add : Nat, del : Nat]
      BY Zenon, <1>0 DEF TypeOK
    <3> QED
      BY <3>1, <3>2, <2>2, <1>0 DEF TypeOK, B2N
  <2> QED
    BY Zenon, <2>1, <2>2 DEF Whats
<1>1. TypeOK'
  <2>1. Flags'
    BY Zenon, <1>0 DEF TypeOK, Flags, Deliver
  <2> QED
    BY Zenon, <1>0, <2>1, BoundsAreNaturals, <1>p, <1>h DEF TypeOK, Deliver
<1>2. Shape'
  BY Zenon, <1>0, <1>h DEF Shape, Deliver
<1>3. CountsCovered'
  <2> SUFFICES ASSUME NEW j \in Keys, store'[j] # None PROVE Covered(j)'
    BY Zenon DEF CountsCovered
  <2>1. store[j] # None /\ UNCHANGED <<store, pc, cur, dying, phantom>>
    BY Zenon DEF Deliver
  <2>2. Covered(j) /\ store[j] \in Counters
    BY Zenon, <2>1, <1>0 DEF IInv, CountsCovered, TypeOK
  <2>3. B2N(InHandler(j, "add")') >= B2N(InHandler(j, "add")) + B2N(j = k /\ what = "add")
        /\ B2N(InHandler(j, "del")') >= B2N(InHandler(j, "del")) + B2N(j = k /\ what = "del")
    <3>1. j = k => ~InHandler(j, "add") /\ ~InHandler(j, "del")
      BY Zenon DEF Deliver, Handle, InHandler
    <3> QED
      BY <2>1, <3>1, <1>h, SMTT(30) DEF B2N, Whats
  <2>4. /\ pend'[j].add = pend[j].add - B2N(j = k /\ what = "add")
        /\ pend'[j].del = pend[j].del - B2N(j = k /\ what = "del")
    BY Zenon, <1>p
  <2>5. pend[j] \in [add : Nat, del : Nat] /\ dying[j] \in Nat
        /\ phantom[j] \in [add : Nat, del : Nat]
    BY Zenon, <1>0 DEF TypeOK
  <2> QED
    BY <2>1, <2>2, <2>3, <2>4, <2>5 DEF Covered, B2N, Counters
<1> QED
  BY Zenon, <1>1, <1>2, <1>3 DEF IInv

LEMMA DeliverForeignKeeps ==
  ASSUME IInv, NEW k \in Keys, NEW what \in Whats, DeliverForeign(k, what) PROVE IInv'
<1>0. TypeOK /\ Shape
  BY Zenon DEF IInv
<1>h. /\ handler' \in [Kinds -> Handled \cup {None}]
      /\ \A kd \in Kinds : handler'[kd] # None => handler'[kd].key[2] = kd
      /\ store[k] # None => InHandler(k, what)'
      /\ \A j \in Keys, w \in Whats : InHandler(j, w) => InHandler(j, w)'
  BY Zenon, <1>0, HandleIs, TRUE \in BOOLEAN, FALSE \in BOOLEAN DEF DeliverForeign
<1>1. TypeOK'
  <2>1. Flags'
    BY Zenon, <1>0 DEF TypeOK, Flags, DeliverForeign
  <2> QED
    BY <1>0, <2>1, BoundsAreNaturals, <1>h DEF TypeOK, DeliverForeign
<1>2. Shape'
  BY Zenon, <1>0, <1>h DEF Shape, DeliverForeign
<1>3. CountsCovered'
  <2> SUFFICES ASSUME NEW j \in Keys, store'[j] # None PROVE Covered(j)'
    BY Zenon DEF CountsCovered
  <2>1. store[j] # None /\ UNCHANGED <<store, pc, cur, pend, dying, phantom>>
    BY Zenon DEF DeliverForeign
  <2>2. Covered(j) /\ store[j] \in Counters
    BY Zenon, <2>1, <1>0 DEF IInv, CountsCovered, TypeOK
  <2>3. B2N(InHandler(j, "add")') >= B2N(InHandler(j, "add"))
        /\ B2N(InHandler(j, "del")') >= B2N(InHandler(j, "del"))
    BY <1>h DEF B2N, Whats
  <2>4. \A b : B2N(b) \in Nat
    BY Zenon DEF B2N
  <2>5. pend[j] \in [add : Nat, del : Nat] /\ dying[j] \in Nat
        /\ phantom[j] \in [add : Nat, del : Nat]
    BY Zenon, <1>0 DEF TypeOK
  <2> QED
    BY <2>1, <2>2, <2>3, <2>4, <2>5 DEF Covered, Counters
<1> QED
  BY Zenon, <1>1, <1>2, <1>3 DEF IInv

LEMMA ObserveKeeps ==
  ASSUME IInv, NEW kd \in Kinds, Observe(kd) PROVE IInv'
<1>0. TypeOK /\ Shape
  BY Zenon DEF IInv
<1>o. /\ handler[kd] \in Handled /\ handler[kd] # None
      /\ handler[kd].key \in Keys /\ handler[kd].key[2] = kd
  BY Zenon, <1>0 DEF Observe, TypeOK, Shape, Handled
<1>h. /\ handler' \in [Kinds -> Handled \cup {None}]
      /\ handler'[kd] = None
      /\ \A i \in Kinds : i # kd => handler'[i] = handler[i]
  BY Zenon, <1>0 DEF Observe, TypeOK
<1> DEFINE k == handler[kd].key
          add == B2N(handler[kd].live /\ handler[kd].what = "add")
          del == B2N(handler[kd].live /\ handler[kd].what = "del")
<1>s. /\ store' \in [Keys -> Counters \cup {None}]
      /\ \A i \in Keys : store[i] = None => store'[i] = None
      /\ \A i \in Keys : i # k => store'[i] = store[i]
      /\ store[k] # None => store'[k] = [add |-> store[k].add - add,
                                        del |-> store[k].del - del]
  <2>1. CASE ~handler[kd].live
    BY <2>1, <1>0, <1>o, SMTT(60) DEF Observe, TypeOK, Counters, B2N
  <2>2. CASE handler[kd].live /\ handler[kd].what = "add"
    <3>1. store' = Lowered(k, 1, 0) /\ add = 1 /\ del = 0
      BY Zenon, <2>2 DEF Observe, Observed, B2N
    <3> HIDE DEF k, add, del
    <3>2. k \in Keys
      BY Zenon, <1>o DEF k
    <3> QED
      BY <3>1, <3>2, <1>0, LoweredIs, 1 \in Int, 0 \in Int, SMTT(60)
  <2>3. CASE handler[kd].live /\ handler[kd].what = "del"
    <3>1. store' = Lowered(k, 0, 1) /\ add = 0 /\ del = 1
      BY Zenon, <2>3 DEF Observe, Observed, B2N
    <3> HIDE DEF k, add, del
    <3>2. k \in Keys
      BY Zenon, <1>o DEF k
    <3> QED
      BY <3>1, <3>2, <1>0, LoweredIs, 1 \in Int, 0 \in Int
  <2> QED
    BY Zenon, <2>1, <2>2, <2>3, <1>o DEF Handled, Whats
<1>1. TypeOK'
  <2>1. Flags'
    BY Zenon, <1>0, <1>o DEF TypeOK, Flags, Observe, Handled
  <2> QED
    BY Zenon, <1>0, <2>1, BoundsAreNaturals, <1>s, <1>h DEF TypeOK, Observe
<1>2. Shape'
  BY Zenon, <1>0, <1>h DEF Shape, Observe
<1>3. CountsCovered'
  <2> SUFFICES ASSUME NEW j \in Keys, store'[j] # None PROVE Covered(j)'
    BY Zenon DEF CountsCovered
  <2>1. store[j] # None /\ UNCHANGED <<pc, cur, pend, dying, phantom>>
    BY Zenon, <1>s DEF Observe
  <2>2. Covered(j) /\ store[j] \in Counters
    BY Zenon, <2>1, <1>0 DEF IInv, CountsCovered, TypeOK
  <2>3. B2N(InHandler(j, "add")') + (IF j = k THEN add ELSE 0)
          >= B2N(InHandler(j, "add"))
        /\ B2N(InHandler(j, "del")') + (IF j = k THEN del ELSE 0)
             >= B2N(InHandler(j, "del"))
    <3>1. CASE j[2] = kd
      BY <3>1, <1>h DEF InHandler, B2N
    <3>2. CASE j[2] # kd
      <4>1. j # k /\ j[2] \in Kinds
        BY Zenon, <3>2, <1>o, KeyKinds
      <4>2. InHandler(j, "add")' = InHandler(j, "add")
            /\ InHandler(j, "del")' = InHandler(j, "del")
        BY Zenon, <3>2, <4>1, <1>h DEF InHandler
      <4> QED
        BY <4>1, <4>2 DEF B2N
    <3> QED
      BY Zenon, <3>1, <3>2
  <2>4. /\ store'[j].add = store[j].add - (IF j = k THEN add ELSE 0)
        /\ store'[j].del = store[j].del - (IF j = k THEN del ELSE 0)
        /\ add \in Nat /\ del \in Nat
    BY <1>s, <2>1, <2>2 DEF Counters, B2N
  <2>5. pend[j] \in [add : Nat, del : Nat] /\ dying[j] \in Nat
        /\ phantom[j] \in [add : Nat, del : Nat]
    BY Zenon, <1>0 DEF TypeOK
  <2>6. \A b : B2N(b) \in Nat
    BY Zenon DEF B2N
  <2> HIDE DEF k, add, del
  <2> QED
    BY <2>1, <2>2, <2>3, <2>4, <2>5, <2>6, SMTT(60) DEF Covered, Counters
<1> QED
  BY Zenon, <1>1, <1>2, <1>3 DEF IInv

LEMMA ExpiryKeeps ==
  ASSUME IInv, isExpired PROVE IInv'
<1>0. TypeOK /\ Shape
  BY Zenon DEF IInv
<1>1. TypeOK'
  <2>1. Flags'
    BY Zenon, <1>0 DEF TypeOK, Flags, isExpired
  <2> QED
    BY Zenon, <1>0, <2>1, BoundsAreNaturals DEF TypeOK, isExpired
<1>2. Shape'
  BY Zenon, <1>0 DEF TypeOK, Shape, isExpired
<1>3. CountsCovered'
  <2> SUFFICES ASSUME NEW j \in Keys, store'[j] # None PROVE Covered(j)'
    BY Zenon DEF CountsCovered
  <2>1. store[j] # None /\ UNCHANGED <<store, pc, cur, pend, dying, phantom>>
    BY Zenon DEF isExpired
  <2>2. Covered(j) /\ store[j] \in Counters
    BY Zenon, <2>1, <1>0 DEF IInv, CountsCovered, TypeOK
  <2>3. InHandler(j, "add")' = InHandler(j, "add")
        /\ InHandler(j, "del")' = InHandler(j, "del")
    BY Zenon DEF InHandler, isExpired
  <2> QED
    BY Zenon, <2>1, <2>2, <2>3 DEF Covered
<1> QED
  BY Zenon, <1>1, <1>2, <1>3 DEF IInv

LEMMA RestartKeeps == IInv /\ Restart => IInv'
<1> SUFFICES ASSUME IInv, Restart PROVE IInv'
  BY Zenon
<1>0. TypeOK
  BY Zenon DEF IInv
<1>1. TypeOK'
  <2>1. Flags'
    BY Zenon DEF Restart, Flags
  <2> QED
    BY <1>0, <2>1, BoundsAreNaturals DEF Restart, TypeOK, Nothing
<1>2. Shape' /\ CountsCovered'
  BY Zenon DEF Restart, Shape, CountsCovered
<1> QED
  BY Zenon, <1>1, <1>2 DEF IInv

(* Every step of the expectations, and every stuttering step.              *)
LEMMA Inductive == IInv /\ [Next]_vars => IInv'
<1> SUFFICES ASSUME IInv, [Next]_vars PROVE IInv'
  BY Zenon
<1>1. CASE PassStep
  BY Zenon, <1>1, StartPassKeeps, ResetKeeps, ExpectCreationKeeps, CreatedKeeps,
     TimedOutKeeps, CreateFailedKeeps, DeletePodKeeps, DeletePodFailedKeeps,
     ExpectDeletionKeeps, EndPassKeeps
  DEF PassStep
<1>2. CASE InformerStep
  BY Zenon, <1>2, DeliverKeeps, ObserveKeeps DEF InformerStep
<1>3. CASE \E k \in Keys : Kill(k) \/ Gone(k)
  BY Zenon, <1>3, KillKeeps, GoneKeeps
<1>4. CASE \E k \in Keys, what \in Whats : DeliverForeign(k, what)
  BY Zenon, <1>4, DeliverForeignKeeps
<1>5. CASE isExpired \/ Restart
  BY Zenon, <1>5, ExpiryKeeps, RestartKeeps
<1>6. CASE UNCHANGED vars
  <2>1. TypeOK'
    BY Zenon, <1>6 DEF IInv, TypeOK, Flags, vars
  <2>2. Shape'
    BY Zenon, <1>6 DEF IInv, Shape, vars
  <2>3. CountsCovered'
    BY Zenon, <1>6 DEF IInv, CountsCovered, Covered, InHandler, vars
  <2> QED
    BY Zenon, <2>1, <2>2, <2>3 DEF IInv
<1> QED
  BY Zenon, <1>1, <1>2, <1>3, <1>4, <1>5, <1>6 DEF Next

(* The counters, the objects and the handlers keep their types: no object  *)
(* is deleted twice and no event is delivered that was not sent.           *)
THEOREM ExpectationTypes == Spec => []TypeOK
<1>1. IInv => TypeOK
  BY Zenon DEF IInv
<1> QED
  BY <1>1, InitIInv, Inductive, PTL DEF Spec

(* For any number of replica types, objects, calls per pass, undelivered   *)
(* events and faults, no counter ever exceeds the events on their way plus *)
(* the raises that nothing answers: RaiseExpectations before a creation    *)
(* and after a deletion, LowerExpectations from the handlers (also on a    *)
(* struct that SetExpectations has replaced), failed calls and restarts.   *)
THEOREM CountsAreCovered == Spec => []CountsCovered
<1>1. IInv => CountsCovered
  BY Zenon DEF IInv
<1> QED
  BY <1>1, InitIInv, Inductive, PTL DEF Spec
=============================================================================
