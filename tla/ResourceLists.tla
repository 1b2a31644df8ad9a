---------------------------- MODULE ResourceLists ----------------------------
(***************************************************************************)
(* The arithmetic on resource lists of pkg/util/quota.  A list maps the    *)
(* names it has to quantities; a name it does not have is not the same as  *)
(* one with quantity 0.                                                    *)
(***************************************************************************)
EXTENDS Integers, FiniteSets

(* The lists over some of the names in N. *)
ListsOver(N) == UNION {[S -> Int] : S \in SUBSET N}

Equals(a, b) ==
    /\ Cardinality(DOMAIN a) = Cardinality(DOMAIN b)
    /\ \A k \in DOMAIN a : k \in DOMAIN b /\ a[k] = b[k]

(* The names that a has more of than b. *)
Exceeded(a, b) == {k \in DOMAIN b : k \in DOMAIN a /\ a[k] > b[k]}
LessThanOrEqual(a, b) == Exceeded(a, b) = {}

Max(a, b) ==
    [k \in DOMAIN a \cup DOMAIN b |->
        IF k \in DOMAIN a /\ (k \in DOMAIN b => a[k] > b[k]) THEN a[k] ELSE b[k]]

Add(a, b) ==
    [k \in DOMAIN a \cup DOMAIN b |->
        IF k \notin DOMAIN a THEN b[k]
        ELSE IF k \in DOMAIN b THEN a[k] + b[k] ELSE a[k]]

Subtract(a, b) ==
    [k \in DOMAIN a \cup DOMAIN b |->
        IF k \notin DOMAIN a THEN -b[k]
        ELSE IF k \in DOMAIN b THEN a[k] - b[k] ELSE a[k]]

SubtractWithNonNegativeResult(a, b) ==
    [k \in DOMAIN a \cup DOMAIN b |->
        IF k \notin DOMAIN a THEN 0
        ELSE LET left == IF k \in DOMAIN b THEN a[k] - b[k] ELSE a[k] IN
             IF left > 0 THEN left ELSE 0]

Mask(a, names) == [k \in DOMAIN a \cap names |-> a[k]]

IsZero(a) == \A k \in DOMAIN a : a[k] = 0

IsNegative(a) == {k \in DOMAIN a : a[k] < 0}
==============================================================================
