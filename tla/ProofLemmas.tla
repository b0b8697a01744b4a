----------------------------- MODULE ProofLemmas -----------------------------
(***************************************************************************)
(* Lemmas that the proofs about several components need: least numbers,    *)
(* and sums over finite sets, by induction on how many elements a set has. *)
(***************************************************************************)
EXTENDS Integers, FiniteSetTheorems, TLAPS

(* The least of a set of numbers.                                          *)
Below == {p \in Nat \X Nat : p[1] < p[2]}

LEMMA LeastNatural ==
  ASSUME NEW T \in SUBSET Nat, T # {}
  PROVE  \E k \in T : \A y \in T : k <= y
<1>1. IsWellFoundedOn(Below, Nat)
  BY NatLessThanWellFounded DEF OpToRel, Below
<1>2. PICK k \in T : \A y \in T : ~(<<y, k>> \in Below)
  BY <1>1, WFMin
<1>3. \A y \in T : ~(y < k)
  BY <1>2 DEF Below
<1> QED
  BY <1>3

-----------------------------------------------------------------------------
(* Sums.                                                                   *)

(* One element of a set, the one that a sum over the set begins with.      *)
Pick(s) == CHOOSE x \in s : TRUE

(* Sum adds up f over the sets of D.                                       *)
IsSum(sum, D, f) ==
  sum = [s \in D |-> IF s = {} THEN 0 ELSE f[Pick(s)] + sum[s \ {Pick(s)}]]

(* Subsets of S of at most n elements.                                     *)
UpTo(S, n) == {s \in SUBSET S : Cardinality(s) <= n}

LEMMA PickIsIn ==
  ASSUME NEW s, s # {}, IsFiniteSet(s)
  PROVE  /\ Pick(s) \in s
         /\ IsFiniteSet(s \ {Pick(s)})
         /\ Cardinality(s \ {Pick(s)}) = Cardinality(s) - 1
         /\ Cardinality(s) \in Nat \ {0}
<1>1. Pick(s) \in s
  BY DEF Pick
<1>2. Cardinality(s) \in Nat /\ Cardinality(s) # 0
  BY FS_CardinalityType, FS_EmptySet
<1> QED
  BY <1>1, <1>2, FS_RemoveElement

LEMMA SumExists ==
  ASSUME NEW S, IsFiniteSet(S), NEW f
  PROVE  \E sum : IsSum(sum, SUBSET S, f)
<1> DEFINE Holds(n) == \E sum : IsSum(sum, UpTo(S, n), f)
           T == {n \in Nat : ~Holds(n)}
<1>1. Holds(0)
  <2>1. \A s \in UpTo(S, 0) : s = {}
    <3> TAKE s \in UpTo(S, 0)
    <3>1. IsFiniteSet(s) /\ Cardinality(s) <= 0
      BY FS_Subset DEF UpTo
    <3> QED
      BY <3>1, FS_CardinalityType, FS_EmptySet
  <2> DEFINE g == [s \in UpTo(S, 0) |-> 0]
  <2>2. IsSum(g, UpTo(S, 0), f)
    BY <2>1 DEF IsSum
  <2> QED
    BY <2>2
<1>2. ASSUME NEW k \in Nat, Holds(k)
      PROVE  Holds(k + 1)
  <2>1. PICK g : IsSum(g, UpTo(S, k), f)
    BY <1>2
  <2> DEFINE h == [s \in UpTo(S, k + 1) |->
                     IF s = {} THEN 0 ELSE f[Pick(s)] + g[s \ {Pick(s)}]]
  <2>2. ASSUME NEW s \in UpTo(S, k + 1), s # {}
        PROVE  s \ {Pick(s)} \in UpTo(S, k)
    <3>1. IsFiniteSet(s) /\ Cardinality(s) <= k + 1
      BY FS_Subset DEF UpTo
    <3>2. Cardinality(s \ {Pick(s)}) = Cardinality(s) - 1 /\ Cardinality(s) \in Nat
      BY <2>2, <3>1, PickIsIn
    <3> QED
      BY <3>1, <3>2 DEF UpTo
  <2>3. UpTo(S, k) \subseteq UpTo(S, k + 1)
    <3> SUFFICES ASSUME NEW s \in UpTo(S, k)
                 PROVE  Cardinality(s) <= k + 1
      BY DEF UpTo
    <3>1. IsFiniteSet(s)
      BY FS_Subset DEF UpTo
    <3> QED
      BY <3>1, FS_CardinalityType DEF UpTo
  <2>4. \A t \in UpTo(S, k) : h[t] = g[t]
    BY <2>1, <2>3 DEF IsSum
  <2>5. h = [s \in UpTo(S, k + 1) |-> IF s = {} THEN 0 ELSE f[Pick(s)] + h[s \ {Pick(s)}]]
    BY <2>2, <2>4
  <2> QED
    BY <2>5 DEF IsSum
<1>3. ASSUME T # {}
      PROVE  FALSE
  <2>1. PICK k \in T : \A y \in T : k <= y
    BY <1>3, LeastNatural
  <2>2. k \in Nat /\ k # 0 /\ ~Holds(k)
    BY <1>1, <2>1
  <2>3. k - 1 \in Nat /\ ~(k <= k - 1)
    BY <2>2
  <2>4. Holds(k - 1)
    BY <2>1, <2>3
  <2>5. Holds((k - 1) + 1)
    BY <1>2, <2>3, <2>4
  <2>6. (k - 1) + 1 = k
    BY <2>2
  <2> QED
    BY <2>2, <2>5, <2>6
<1>4. Holds(Cardinality(S))
  BY <1>3, FS_CardinalityType
<1>5. UpTo(S, Cardinality(S)) = SUBSET S
  BY FS_Subset DEF UpTo
<1> QED
  BY <1>4, <1>5

(* Within finite sets, whichever element comes first.                      *)
LEMMA SumIsNatural ==
  ASSUME NEW S, IsFiniteSet(S), NEW f, \A x \in S : f[x] \in Nat,
         NEW sum, IsSum(sum, SUBSET S, f)
  PROVE  \A s \in SUBSET S : sum[s] \in Nat
<1> DEFINE T == {n \in Nat : \E s \in SUBSET S : Cardinality(s) = n /\ sum[s] \notin Nat}
<1>1. ASSUME T # {}
      PROVE  FALSE
  <2>1. PICK k \in T : \A y \in T : k <= y
    BY <1>1, LeastNatural
  <2>2. PICK s \in SUBSET S : Cardinality(s) = k /\ sum[s] \notin Nat
    BY <2>1
  <2>3. s # {} /\ sum[s] = f[Pick(s)] + sum[s \ {Pick(s)}]
    <3>1. sum[s] = IF s = {} THEN 0 ELSE f[Pick(s)] + sum[s \ {Pick(s)}]
      BY DEF IsSum
    <3> QED
      BY <2>2, <3>1
  <2>4. /\ Pick(s) \in S /\ s \ {Pick(s)} \in SUBSET S
        /\ Cardinality(s \ {Pick(s)}) = k - 1 /\ k - 1 \in Nat
    BY <2>2, <2>3, PickIsIn, FS_Subset
  <2>5. ~(k <= k - 1)
    BY <2>1
  <2>6. sum[s \ {Pick(s)}] \in Nat
    BY <2>1, <2>4, <2>5
  <2> QED
    BY <2>2, <2>3, <2>4, <2>6
<1> QED
  BY <1>1, FS_Subset, FS_CardinalityType

(* Two sums agree over the subsets of S.                                   *)
Agree(low, high, S) == \A s \in SUBSET S : low[s] = high[s]

(* A sum over a set is any of its elements and the sum over the rest.      *)
Takes(sum, S, f) == \A s \in SUBSET S : \A x \in s : sum[s] = f[x] + sum[s \ {x}]

(* Sums over a set and over a larger one agree where both are defined.     *)
LEMMA SumsAgree ==
  ASSUME NEW T, IsFiniteSet(T), NEW S \in SUBSET T, NEW f,
         NEW low, IsSum(low, SUBSET S, f), NEW high, IsSum(high, SUBSET T, f)
  PROVE  Agree(low, high, S)
<1> DEFINE K == {n \in Nat : \E s \in SUBSET S : Cardinality(s) = n /\ low[s] # high[s]}
<1>1. ASSUME K # {}
      PROVE  FALSE
  <2>1. PICK k \in K : \A y \in K : k <= y
    BY <1>1, LeastNatural
  <2>2. PICK s \in SUBSET S : Cardinality(s) = k /\ low[s] # high[s]
    BY <2>1
  <2>3. /\ low[s] = IF s = {} THEN 0 ELSE f[Pick(s)] + low[s \ {Pick(s)}]
        /\ high[s] = IF s = {} THEN 0 ELSE f[Pick(s)] + high[s \ {Pick(s)}]
    BY DEF IsSum
  <2>4. s # {}
    BY <2>2, <2>3
  <2>5. /\ s \ {Pick(s)} \in SUBSET S
        /\ Cardinality(s \ {Pick(s)}) = k - 1 /\ k - 1 \in Nat
    <3>1. IsFiniteSet(s)
      BY FS_Subset
    <3>2. /\ Cardinality(s \ {Pick(s)}) = Cardinality(s) - 1
          /\ Cardinality(s) \in Nat \ {0}
      BY <2>4, <3>1, PickIsIn
    <3> QED
      BY <2>2, <3>2
  <2>6. ~(k <= k - 1)
    BY <2>1
  <2>7. low[s \ {Pick(s)}] = high[s \ {Pick(s)}]
    BY <2>1, <2>5, <2>6
  <2> QED
    BY <2>2, <2>3, <2>4, <2>7
<1> QED
  BY <1>1, FS_Subset, FS_CardinalityType DEF Agree

(* A sum does not depend on the element that it begins with.               *)
LEMMA SumTakes ==
  ASSUME NEW S, IsFiniteSet(S), NEW f, \A x \in S : f[x] \in Nat,
         NEW sum, IsSum(sum, SUBSET S, f)
  PROVE  Takes(sum, S, f)
<1> DEFINE From(s) == \A x \in s : sum[s] = f[x] + sum[s \ {x}]
           K == {n \in Nat : \E s \in SUBSET S : Cardinality(s) = n /\ ~From(s)}
<1>1. \A s \in SUBSET S : s # {} => sum[s] = f[Pick(s)] + sum[s \ {Pick(s)}]
  BY DEF IsSum
<1>2. ASSUME K # {}
      PROVE  FALSE
  <2>1. PICK k \in K : \A y \in K : k <= y
    BY <1>2, LeastNatural
  <2>2. PICK s \in SUBSET S : Cardinality(s) = k /\ ~From(s)
    BY <2>1
  <2>3. PICK x \in s : sum[s] # f[x] + sum[s \ {x}]
    BY <2>2
  <2> DEFINE p == Pick(s)
  <2>4. IsFiniteSet(s) /\ p \in s /\ sum[s] = f[p] + sum[s \ {p}]
    BY <1>1, <2>3, FS_Subset, PickIsIn
  <2>5. p # x
    BY <2>3, <2>4
  <2>6. \A y \in s : Cardinality(s \ {y}) = k - 1 /\ k - 1 \in Nat /\ IsFiniteSet(s \ {y})
    <3> TAKE y \in s
    <3>1. Cardinality(s) \in Nat /\ Cardinality(s) # 0
      BY <2>4, FS_CardinalityType, FS_EmptySet
    <3>2. IsFiniteSet(s \ {y}) /\ Cardinality(s \ {y}) = Cardinality(s) - 1
      BY <2>4, FS_RemoveElement
    <3> QED
      BY <2>2, <3>1, <3>2
  <2>7. ~(k <= k - 1)
    BY <2>1
  <2>8. From(s \ {p}) /\ From(s \ {x})
    BY <2>1, <2>4, <2>6, <2>7
  <2>9. /\ sum[s \ {p}] = f[x] + sum[(s \ {p}) \ {x}]
        /\ sum[s \ {x}] = f[p] + sum[(s \ {x}) \ {p}]
    BY <2>4, <2>5, <2>8
  <2>10. (s \ {p}) \ {x} = (s \ {x}) \ {p} /\ (s \ {p}) \ {x} \in SUBSET S
    OBVIOUS
  <2>11. f[x] \in Nat /\ f[p] \in Nat /\ sum[(s \ {p}) \ {x}] \in Nat
    BY <2>4, <2>10, SumIsNatural
  <2>12. \A a, b, c \in Nat : a + (b + c) = b + (a + c)
    OBVIOUS
  <2>13. /\ sum[s] = f[p] + (f[x] + sum[(s \ {p}) \ {x}])
         /\ f[x] + sum[s \ {x}] = f[x] + (f[p] + sum[(s \ {p}) \ {x}])
    BY <2>4, <2>9, <2>10
  <2>14. f[p] + (f[x] + sum[(s \ {p}) \ {x}]) = f[x] + (f[p] + sum[(s \ {p}) \ {x}])
    BY <2>11, <2>12
  <2> QED
    BY <2>3, <2>13, <2>14
<1> QED
  BY <1>2, FS_Subset, FS_CardinalityType DEF Takes
=============================================================================
