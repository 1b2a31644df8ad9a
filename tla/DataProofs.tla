------------------------------ MODULE DataProofs ------------------------------
(***************************************************************************)
(* Facts about the data that the models compute with: folds over finite    *)
(* sets, and the operators on resource lists, for any lists over any       *)
(* finite set of names.                                                    *)
(***************************************************************************)
EXTENDS Integers, FiniteSets, FiniteSetTheorems, WellFoundedInduction, TLAPS

Lists == INSTANCE ResourceLists

-----------------------------------------------------------------------------
(* Folds.                                                                  *)

(* Induction over the naturals, for a set. *)
LEMMA NatSetInduction ==
    ASSUME NEW G, 0 \in G, \A n \in Nat : n \in G => n + 1 \in G
    PROVE  \A n \in Nat : n \in G
<1> SUFFICES ASSUME NEW n \in Nat, n \notin G PROVE FALSE
  BY Zenon
<1> DEFINE B == Nat \ G
           less == {ss \in Nat \X Nat : ss[1] < ss[2]}
<1>0. IsWellFoundedOn(less, Nat)
  BY NatLessThanWellFounded, Zenon DEF OpToRel
<1>1. B \subseteq Nat /\ B # {}
  BY Zenon
<1>2. PICK m \in B : \A k \in B : <<k, m>> \notin less
  <2> HIDE DEF B, less
  <2> QED
    BY Zenon, <1>0, <1>1, WFMin
<1>3. m \in Nat /\ m # 0 /\ m - 1 \in Nat /\ m - 1 < m
  OBVIOUS
<1>4. m - 1 \notin B
  BY Zenon, <1>2, <1>3
<1> QED
  BY <1>3, <1>4

(* Induction over the subsets of a finite set, an element less at a time. *)
LEMMA SubsetInduction ==
    ASSUME NEW S, IsFiniteSet(S), NEW G, {} \in G,
           \A T \in SUBSET S : T # {} /\ (\A x \in T : T \ {x} \in G) => T \in G
    PROVE  \A T \in SUBSET S : T \in G
<1> SUFFICES ASSUME NEW U \in SUBSET S, U \notin G PROVE FALSE
  BY Zenon
<1> DEFINE B == (SUBSET S) \ G
<1>1. B \subseteq FiniteSubsetsOf(S) /\ B # {}
  BY Zenon, FS_FiniteSubsetsOfFinite
<1>2. PICK T \in B : \A R \in B : <<R, T>> \notin StrictSubsetOrdering(S)
  <2> HIDE DEF B
  <2> QED
    BY Zenon, <1>1, FS_StrictSubsetOrderingWellFounded, WFMin
<1>3. ASSUME NEW x \in T PROVE T \ {x} \in G
  <2>1. T \ {x} \subseteq T /\ T \ {x} # T /\ T \ {x} \in SUBSET S
    BY Zenon
  <2>2. T \ {x} \notin B
    BY Zenon, <1>2, <2>1 DEF StrictSubsetOrdering
  <2> QED
    BY Zenon, <2>1, <2>2
<1> QED
  BY Zenon, <1>2, <1>3

(* A fold over the subsets of S, which takes out one element at a time,    *)
(* c[s] from s, and ends with b: what it needs, and what it is.            *)
CanFold(S, c, V, b, F) ==
    /\ IsFiniteSet(S) /\ \A s \in SUBSET S : s # {} => c[s] \in s
    /\ b \in V /\ F \in [(SUBSET S) \X V -> V]
IsFold(g, S, c, V, b, F) ==
    /\ g \in [SUBSET S -> V]
    /\ \A s \in SUBSET S : g[s] = IF s = {} THEN b ELSE F[<<s, g[s \ {c[s]}]>>]

(* The element that the folds of the library take out of a set first. *)
Some(s) == CHOOSE x \in s : TRUE

(* Such a fold is well defined. *)
LEMMA FoldExists ==
    ASSUME NEW S, NEW c, NEW V, NEW b, NEW F, CanFold(S, c, V, b, F)
    PROVE  \E g : IsFold(g, S, c, V, b, F)
<1> /\ IsFiniteSet(S) /\ \A s \in SUBSET S : s # {} => c[s] \in s
    /\ b \in V /\ F \in [(SUBSET S) \X V -> V]
  BY Zenon DEF CanFold
<1> DEFINE D(n) == {s \in SUBSET S : Cardinality(s) <= n}
           Eq(g, n) == \A s \in D(n) : g[s] = IF s = {} THEN b ELSE F[<<s, g[s \ {c[s]}]>>]
           G == {n \in Nat : \E g \in [D(n) -> V] : Eq(g, n)}
<1>1. \A s \in SUBSET S : /\ IsFiniteSet(s) /\ Cardinality(s) \in Nat
                          /\ Cardinality(s) <= Cardinality(S) /\ Cardinality(S) \in Nat
                          /\ (Cardinality(s) = 0 <=> s = {})
  BY Zenon, FS_Subset, FS_CardinalityType, FS_EmptySet
<1>2. \A s \in SUBSET S : s # {} => /\ s \ {c[s]} \in SUBSET S
                                    /\ Cardinality(s \ {c[s]}) = Cardinality(s) - 1
  BY Zenon, <1>1, FS_RemoveElement
<1>3. 0 \in G
  <2>1. D(0) = {{}}
    BY <1>1
  <2> DEFINE g == [s \in D(0) |-> b]
  <2>2. g \in [D(0) -> V] /\ Eq(g, 0)
    BY Zenon, <2>1
  <2> QED
    BY Zenon, <2>2
<1>4. ASSUME NEW n \in Nat, n \in G PROVE n + 1 \in G
  <2>1. PICK g \in [D(n) -> V] : Eq(g, n)
    BY Zenon, <1>4
  <2> DEFINE h == [s \in D(n + 1) |-> IF s \in D(n) THEN g[s] ELSE F[<<s, g[s \ {c[s]}]>>]]
  <2>2. ASSUME NEW s \in D(n + 1), s # {} PROVE s \ {c[s]} \in D(n) /\ s \ {c[s]} \in D(n + 1)
    <3>1. Cardinality(s) <= n + 1 /\ Cardinality(s) \in Nat /\ s \in SUBSET S
      BY Zenon, <1>1
    <3>2. s \ {c[s]} \in SUBSET S /\ Cardinality(s \ {c[s]}) = Cardinality(s) - 1
      BY Zenon, <1>2, <2>2, <3>1
    <3> QED
      BY <3>1, <3>2
  <2>3. {} \in D(n)
    BY <1>1
  <2>4. h \in [D(n + 1) -> V]
    <3>1. ASSUME NEW s \in D(n + 1) PROVE h[s] \in V
      <4>1. CASE s \in D(n)
        BY Zenon, <2>1, <4>1
      <4>2. CASE s \notin D(n)
        <5>1. s \ {c[s]} \in D(n)
          BY Zenon, <2>2, <2>3, <4>2
        <5>2. g[s \ {c[s]}] \in V /\ s \in SUBSET S
          BY Zenon, <2>1, <5>1
        <5>3. <<s, g[s \ {c[s]}]>> \in (SUBSET S) \X V
          BY Zenon, <5>2
        <5>4. F[<<s, g[s \ {c[s]}]>>] \in V
          BY Zenon, <5>3
        <5> QED
          BY Zenon, <4>2, <5>4
      <4> QED
        BY Zenon, <4>1, <4>2
    <3> QED
      BY Zenon, <3>1
  <2>5. ASSUME NEW s \in D(n + 1)
        PROVE  h[s] = IF s = {} THEN b ELSE F[<<s, h[s \ {c[s]}]>>]
    <3>1. s # {} => h[s \ {c[s]}] = g[s \ {c[s]}]
      BY Zenon, <2>2
    <3>2. CASE s \in D(n)
      <4>1. h[s] = g[s]
        BY Zenon, <3>2
      <4>2. g[s] = IF s = {} THEN b ELSE F[<<s, g[s \ {c[s]}]>>]
        BY Zenon, <2>1, <3>2
      <4> HIDE DEF h
      <4> QED
        BY Zenon, <3>1, <4>1, <4>2
    <3>3. CASE s \notin D(n)
      BY Zenon, <2>3, <3>1, <3>3
    <3> QED
      BY Zenon, <3>2, <3>3
  <2>6. Eq(h, n + 1)
    BY Zenon, <2>5
  <2>7. n + 1 \in Nat
    OBVIOUS
  <2> HIDE DEF h, D, Eq
  <2> QED
    BY Zenon, <2>4, <2>6, <2>7
<1>5. \A n \in Nat : n \in G
  <2> HIDE DEF G
  <2> QED
    BY Zenon, <1>3, <1>4, NatSetInduction
<1>6. Cardinality(S) \in G /\ D(Cardinality(S)) = SUBSET S
  BY Zenon, <1>1, <1>5
<1>7. PICK g \in [D(Cardinality(S)) -> V] : Eq(g, Cardinality(S))
  BY Zenon, <1>6
<1>8. g \in [SUBSET S -> V]
  BY Zenon, <1>6, <1>7
<1>9. \A s \in SUBSET S : g[s] = IF s = {} THEN b ELSE F[<<s, g[s \ {c[s]}]>>]
  BY Zenon, <1>6, <1>7
<1> QED
  BY Zenon, <1>8, <1>9 DEF IsFold

-----------------------------------------------------------------------------
(* Resource lists.                                                         *)

LEMMA ListShape ==
    ASSUME NEW N, NEW a \in Lists!ListsOver(N)
    PROVE  /\ DOMAIN a \subseteq N
           /\ a = [k \in DOMAIN a |-> a[k]]
           /\ \A k \in DOMAIN a : a[k] \in Int
BY Zenon DEF Lists!ListsOver

LEMMA ListIntro ==
    ASSUME NEW N, NEW S \in SUBSET N, NEW a \in [S -> Int]
    PROVE  a \in Lists!ListsOver(N)
BY Zenon DEF Lists!ListsOver

(* The operators yield lists over the same names. *)
THEOREM ListsAreClosed ==
    ASSUME NEW N, NEW a \in Lists!ListsOver(N), NEW b \in Lists!ListsOver(N), NEW names
    PROVE  /\ Lists!Max(a, b) \in Lists!ListsOver(N) /\ Lists!Add(a, b) \in Lists!ListsOver(N)
           /\ Lists!Subtract(a, b) \in Lists!ListsOver(N)
           /\ Lists!SubtractWithNonNegativeResult(a, b) \in Lists!ListsOver(N)
           /\ Lists!Mask(a, names) \in Lists!ListsOver(N)
<1> DEFINE S == DOMAIN a \cup DOMAIN b
<1>1. /\ S \in SUBSET N /\ DOMAIN a \cap names \in SUBSET N
      /\ \A k \in DOMAIN a : a[k] \in Int
      /\ \A k \in DOMAIN b : b[k] \in Int
  BY Zenon, ListShape
<1>2. /\ Lists!Max(a, b) \in [S -> Int] /\ Lists!Add(a, b) \in [S -> Int]
      /\ Lists!Subtract(a, b) \in [S -> Int]
  BY <1>1 DEF Lists!Max, Lists!Add, Lists!Subtract
<1>3. Lists!SubtractWithNonNegativeResult(a, b) \in [S -> Int]
  BY <1>1 DEF Lists!SubtractWithNonNegativeResult
<1>4. Lists!Mask(a, names) \in [DOMAIN a \cap names -> Int]
  BY Zenon, <1>1 DEF Lists!Mask
<1> HIDE DEF S
<1> QED
  BY Zenon, <1>1, <1>2, <1>3, <1>4, ListIntro

(* Equals, which counts the names and then looks up those of one list      *)
(* only, is equality.                                                      *)
THEOREM EqualsIsEquality ==
    ASSUME NEW N, IsFiniteSet(N), NEW a \in Lists!ListsOver(N), NEW b \in Lists!ListsOver(N)
    PROVE  Lists!Equals(a, b) <=> a = b
<1>1. DOMAIN a \subseteq N /\ DOMAIN b \subseteq N
  BY Zenon, ListShape
<1>2. IsFiniteSet(DOMAIN a) /\ IsFiniteSet(DOMAIN b)
  BY Zenon, <1>1, FS_Subset
<1>3. ASSUME Lists!Equals(a, b) PROVE a = b
  <2>1. DOMAIN a \subseteq DOMAIN b /\ Cardinality(DOMAIN a) = Cardinality(DOMAIN b)
    <3>1. \A S : Lists!Cardinality(S) = Cardinality(S)
      BY Zenon DEF Lists!Cardinality, Cardinality, Lists!IsFiniteSet, IsFiniteSet
    <3> QED
      BY Zenon, <1>3, <3>1 DEF Lists!Equals
  <2>2. DOMAIN a = DOMAIN b
    BY Zenon, <1>2, <2>1, FS_Subset
  <2>3. \A k \in DOMAIN a : a[k] = b[k]
    BY Zenon, <1>3 DEF Lists!Equals
  <2> QED
    BY <2>2, <2>3, ListShape
<1>4. ASSUME a = b PROVE Lists!Equals(a, b)
  BY Zenon, <1>4 DEF Lists!Equals
<1> QED
  BY Zenon, <1>3, <1>4

(* Max is the least list that both stay within: what a pod requests covers *)
(* its containers and its init containers, and nothing less does.          *)
THEOREM MaxIsLeastBound ==
    ASSUME NEW N, NEW a \in Lists!ListsOver(N), NEW b \in Lists!ListsOver(N)
    PROVE  /\ Lists!LessThanOrEqual(a, Lists!Max(a, b))
           /\ Lists!LessThanOrEqual(b, Lists!Max(a, b))
           /\ \A c \in Lists!ListsOver(N) :
                DOMAIN c \subseteq DOMAIN a \cup DOMAIN b
                  /\ Lists!LessThanOrEqual(a, c) /\ Lists!LessThanOrEqual(b, c)
                  => Lists!LessThanOrEqual(Lists!Max(a, b), c)
<1>1. /\ \A k \in DOMAIN a : a[k] \in Int
      /\ \A k \in DOMAIN b : b[k] \in Int
  BY Zenon, ListShape
<1>2. Lists!LessThanOrEqual(a, Lists!Max(a, b))
  BY <1>1 DEF Lists!LessThanOrEqual, Lists!Exceeded, Lists!Max
<1>3. Lists!LessThanOrEqual(b, Lists!Max(a, b))
  BY <1>1 DEF Lists!LessThanOrEqual, Lists!Exceeded, Lists!Max
<1>4. ASSUME NEW c \in Lists!ListsOver(N), DOMAIN c \subseteq DOMAIN a \cup DOMAIN b,
             Lists!LessThanOrEqual(a, c), Lists!LessThanOrEqual(b, c)
      PROVE  Lists!LessThanOrEqual(Lists!Max(a, b), c)
  <2>1. \A k \in DOMAIN c : c[k] \in Int
    BY Zenon, ListShape
  <2>2. \A k \in DOMAIN c : /\ k \in DOMAIN a => ~(a[k] > c[k])
                            /\ k \in DOMAIN b => ~(b[k] > c[k])
    BY Zenon, <1>4 DEF Lists!LessThanOrEqual, Lists!Exceeded
  <2> QED
    BY Zenon, <1>1, <1>4, <2>1, <2>2 DEF Lists!LessThanOrEqual, Lists!Exceeded, Lists!Max
<1> QED
  BY Zenon, <1>2, <1>3, <1>4

(* Adding is independent of the order of the containers.                   *)
THEOREM AddIsCommutativeAndAssociative ==
    ASSUME NEW N, NEW a \in Lists!ListsOver(N), NEW b \in Lists!ListsOver(N),
           NEW c \in Lists!ListsOver(N)
    PROVE  /\ Lists!Add(a, b) = Lists!Add(b, a)
           /\ Lists!Add(Lists!Add(a, b), c) = Lists!Add(a, Lists!Add(b, c))
<1>1. /\ \A k \in DOMAIN a : a[k] \in Int
      /\ \A k \in DOMAIN b : b[k] \in Int
      /\ \A k \in DOMAIN c : c[k] \in Int
  BY Zenon, ListShape
<1>2. Lists!Add(a, b) = Lists!Add(b, a)
  BY <1>1 DEF Lists!Add
<1>3. Lists!Add(Lists!Add(a, b), c) = Lists!Add(a, Lists!Add(b, c))
  <2> DEFINE L == Lists!Add(Lists!Add(a, b), c)
             M == Lists!Add(a, Lists!Add(b, c))
             S == DOMAIN a \cup DOMAIN b \cup DOMAIN c
  <2>1. /\ DOMAIN Lists!Add(a, b) = DOMAIN a \cup DOMAIN b
        /\ DOMAIN Lists!Add(b, c) = DOMAIN b \cup DOMAIN c
    BY Zenon DEF Lists!Add
  <2>2. DOMAIN L = S /\ DOMAIN M = S
    BY Zenon, <2>1 DEF Lists!Add
  <2>3. ASSUME NEW k \in S PROVE L[k] = M[k]
    <3>1. k \in DOMAIN a \cup DOMAIN b =>
            Lists!Add(a, b)[k] = IF k \notin DOMAIN a THEN b[k]
                           ELSE IF k \in DOMAIN b THEN a[k] + b[k] ELSE a[k]
      BY Zenon DEF Lists!Add
    <3>2. k \in DOMAIN b \cup DOMAIN c =>
            Lists!Add(b, c)[k] = IF k \notin DOMAIN b THEN c[k]
                           ELSE IF k \in DOMAIN c THEN b[k] + c[k] ELSE b[k]
      BY Zenon DEF Lists!Add
    <3>3. L[k] = IF k \notin DOMAIN a \cup DOMAIN b THEN c[k]
                 ELSE IF k \in DOMAIN c THEN Lists!Add(a, b)[k] + c[k] ELSE Lists!Add(a, b)[k]
      BY Zenon, <2>1 DEF Lists!Add
    <3>4. M[k] = IF k \notin DOMAIN a THEN Lists!Add(b, c)[k]
                 ELSE IF k \in DOMAIN b \cup DOMAIN c THEN a[k] + Lists!Add(b, c)[k] ELSE a[k]
      BY Zenon, <2>1 DEF Lists!Add
    <3> HIDE DEF L, M
    <3> QED
      BY <1>1, <3>1, <3>2, <3>3, <3>4
  <2>4. L = [k \in S |-> L[k]] /\ M = [k \in S |-> M[k]]
    BY Zenon, <2>2 DEF Lists!Add
  <2> HIDE DEF L, M
  <2>5. L = M
    BY Zenon, <2>3, <2>4
  <2> QED
    BY Zenon, <2>5 DEF L, M
<1> QED
  BY Zenon, <1>2, <1>3

(* Subtracting takes back what was added; names that only the other list   *)
(* has stay, with quantity 0.                                              *)
THEOREM SubtractUndoesAdd ==
    ASSUME NEW N, NEW a \in Lists!ListsOver(N), NEW b \in Lists!ListsOver(N)
    PROVE  Lists!Subtract(Lists!Add(a, b), b) =
             [k \in DOMAIN a \cup DOMAIN b |-> IF k \in DOMAIN a THEN a[k] ELSE 0]
<1>1. /\ \A k \in DOMAIN a : a[k] \in Int
      /\ \A k \in DOMAIN b : b[k] \in Int
  BY Zenon, ListShape
<1>2. DOMAIN Lists!Add(a, b) = DOMAIN a \cup DOMAIN b
  BY Zenon DEF Lists!Add
<1>3. Lists!Subtract(Lists!Add(a, b), b) =
        [k \in DOMAIN a \cup DOMAIN b |->
           IF k \in DOMAIN b THEN Lists!Add(a, b)[k] - b[k] ELSE Lists!Add(a, b)[k]]
  BY Zenon, <1>2 DEF Lists!Subtract
<1>4. \A k \in DOMAIN a \cup DOMAIN b :
        (IF k \in DOMAIN b THEN Lists!Add(a, b)[k] - b[k] ELSE Lists!Add(a, b)[k])
          = (IF k \in DOMAIN a THEN a[k] ELSE 0)
  BY <1>1 DEF Lists!Add
<1> QED
  BY Zenon, <1>3, <1>4

(* SubtractWithNonNegativeResult is what its name says: Subtract, with 0   *)
(* where that is negative.                                                 *)
THEOREM NonNegativeResult ==
    ASSUME NEW N, NEW a \in Lists!ListsOver(N), NEW b \in Lists!ListsOver(N),
           \A k \in DOMAIN b : b[k] >= 0
    PROVE  /\ Lists!IsNegative(Lists!SubtractWithNonNegativeResult(a, b)) = {}
           /\ \A k \in DOMAIN a \cup DOMAIN b :
                Lists!SubtractWithNonNegativeResult(a, b)[k]
                  = IF k \in Lists!IsNegative(Lists!Subtract(a, b))
                    THEN 0 ELSE Lists!Subtract(a, b)[k]
<1>1. /\ \A k \in DOMAIN a : a[k] \in Int
      /\ \A k \in DOMAIN b : b[k] \in Int
  BY Zenon, ListShape
<1>2. Lists!IsNegative(Lists!SubtractWithNonNegativeResult(a, b)) = {}
  BY <1>1 DEF Lists!IsNegative, Lists!SubtractWithNonNegativeResult
<1>3. DOMAIN Lists!Subtract(a, b) = DOMAIN a \cup DOMAIN b
  BY Zenon DEF Lists!Subtract
<1>4. ASSUME NEW k \in DOMAIN a \cup DOMAIN b
      PROVE  Lists!SubtractWithNonNegativeResult(a, b)[k]
               = IF k \in Lists!IsNegative(Lists!Subtract(a, b))
                    THEN 0 ELSE Lists!Subtract(a, b)[k]
  BY <1>1, <1>3 DEF Lists!IsNegative, Lists!Subtract, Lists!SubtractWithNonNegativeResult
<1> QED
  BY Zenon, <1>2, <1>4
===============================================================================
