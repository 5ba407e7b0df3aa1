------------------------------ MODULE Intervals -----------------------------
(***************************************************************************)
(* Induction over the natural numbers, functions that are defined by       *)
(* recursion over an interval, how many values a function over an interval *)
(* has, and when it ascends.  Each is stated of a set or a function, as    *)
(* the provers cannot instantiate a theorem about an operator.             *)
(***************************************************************************)
EXTENDS Integers, FiniteSetTheorems, WellFoundedInduction, TLAPS

-----------------------------------------------------------------------------
(* Induction, by the least number that is not in a set.                    *)

LEMMA LeastNumber ==
  ASSUME NEW T, T \subseteq Nat, T # {}
  PROVE  \E x \in T : \A y \in T : x <= y
<1> DEFINE R == {ss \in Nat \X Nat : ss[1] < ss[2]}
<1>1. IsWellFoundedOn(R, Nat)
  BY NatLessThanWellFounded DEF OpToRel
<1> HIDE DEF R
<1>2. PICK x \in T : \A y \in T : <<y, x>> \notin R
  BY <1>1, WFMin
<1>3. ASSUME NEW y \in T PROVE x <= y
  <2>1. ~(y < x)
    BY <1>2 DEF R
  <2> QED
    BY <2>1
<1> QED
  BY <1>3

LEMMA InductionOnSet ==
  ASSUME NEW T, 0 \in T, \A n \in Nat : n \in T => n + 1 \in T
  PROVE  \A n \in Nat : n \in T
<1> SUFFICES ASSUME \E n \in Nat : n \notin T PROVE FALSE
  OBVIOUS
<1> DEFINE Outside == {n \in Nat : n \notin T}
<1>1. Outside \subseteq Nat /\ Outside # {}
  OBVIOUS
<1> HIDE DEF Outside
<1>2. PICK x \in Outside : \A y \in Outside : x <= y
  BY <1>1, LeastNumber
<1>3. x \in Nat /\ x \notin T
  BY DEF Outside
<1>4. x # 0
  BY <1>3
<1>5. x - 1 \in Nat /\ x - 1 \notin Outside
  BY <1>2, <1>3, <1>4
<1>6. x - 1 \in T
  BY <1>5 DEF Outside
<1>7. (x - 1) + 1 = x
  BY <1>3
<1> QED
  BY <1>3, <1>5, <1>6, <1>7

-----------------------------------------------------------------------------
(* Functions defined by recursion.                                         *)

Recursive(f, m, first, step) ==
  f = [n \in 0 .. m |-> IF n = 0 THEN first ELSE step[n][f[n - 1]]]

(* A recursion over 0 .. m whose steps stay in S defines a function.       *)
LEMMA RecursionExists ==
  ASSUME NEW S, NEW m \in Nat, NEW first \in S, NEW step \in [1 .. m -> [S -> S]]
  PROVE  \E f \in [0 .. m -> S] : Recursive(f, m, first, step)
<1> DEFINE Upto(k, f) == \A n \in 0 .. k : f[n] = IF n = 0 THEN first ELSE step[n][f[n - 1]]
           T == {k \in Nat : k <= m => \E f \in [0 .. k -> S] : Upto(k, f)}
<1>1. 0 \in T
  <2> DEFINE f == [n \in 0 .. 0 |-> first]
  <2>1. f \in [0 .. 0 -> S] /\ Upto(0, f)
    OBVIOUS
  <2> QED
    BY <2>1
<1>2. ASSUME NEW k \in Nat, k \in T PROVE k + 1 \in T
  <2> SUFFICES ASSUME k + 1 <= m PROVE \E f \in [0 .. k + 1 -> S] : Upto(k + 1, f)
    OBVIOUS
  <2>1. PICK f \in [0 .. k -> S] : Upto(k, f)
    BY <1>2
  <2> DEFINE g == [n \in 0 .. k + 1 |-> IF n = k + 1 THEN step[k + 1][f[k]] ELSE f[n]]
  <2>2. g \in [0 .. k + 1 -> S]
    OBVIOUS
  <2>3. ASSUME NEW n \in 0 .. k + 1
        PROVE  g[n] = IF n = 0 THEN first ELSE step[n][g[n - 1]]
    <3>1. CASE n = k + 1
      BY <3>1
    <3>2. CASE n # k + 1
      <4>1. n \in 0 .. k
        BY <3>2
      <4>2. f[n] = IF n = 0 THEN first ELSE step[n][f[n - 1]]
        BY <2>1, <4>1
      <4>3. n # 0 => n - 1 \in 0 .. k /\ n - 1 # k + 1
        BY <4>1
      <4> QED
        BY <3>2, <4>1, <4>2, <4>3
    <3> QED
      BY <3>1, <3>2
  <2>4. Upto(k + 1, g)
    BY <2>3
  <2> QED
    BY <2>2, <2>4
<1> HIDE DEF T
<1>3. m \in T
  BY <1>1, <1>2, InductionOnSet
<1>4. PICK f \in [0 .. m -> S] : Upto(m, f)
  BY <1>3 DEF T
<1>5. Recursive(f, m, first, step)
  BY <1>4 DEF Recursive
<1> QED
  BY <1>5

(* Induction over an interval.                                             *)
LEMMA InductionUpto ==
  ASSUME NEW T, NEW m \in Nat, 0 \in T, \A n \in 1 .. m : n - 1 \in T => n \in T
  PROVE  \A n \in 0 .. m : n \in T
<1> DEFINE U == {n \in Nat : n <= m => n \in T}
<1>1. 0 \in U
  OBVIOUS
<1>2. \A n \in Nat : n \in U => n + 1 \in U
  <2> SUFFICES ASSUME NEW n \in Nat, n \in U, n + 1 <= m PROVE n + 1 \in T
    OBVIOUS
  <2>1. n \in T /\ n + 1 \in 1 .. m /\ (n + 1) - 1 = n
    OBVIOUS
  <2> QED
    BY <2>1
<1> HIDE DEF U
<1>3. \A n \in Nat : n \in U
  BY <1>1, <1>2, InductionOnSet
<1> QED
  BY <1>3 DEF U

-----------------------------------------------------------------------------
(* Counting.                                                               *)

LEMMA IntervalSize ==
  ASSUME NEW n \in Nat
  PROVE  IsFiniteSet(1 .. n) /\ Cardinality(1 .. n) = n
<1>1. 1 \in Int /\ n \in Int
  OBVIOUS
<1>2. IsFiniteSet(1 .. n) /\ Cardinality(1 .. n) = IF 1 > n THEN 0 ELSE n - 1 + 1
  BY <1>1, FS_Interval
<1> QED
  BY <1>2

(* As many values as places: no value is at two of them.                   *)
LEMMA AllDistinct ==
  ASSUME NEW n \in Nat, NEW f, DOMAIN f = 1 .. n, f = [i \in 1 .. n |-> f[i]]
  PROVE  /\ IsFiniteSet({f[i] : i \in 1 .. n})
         /\ Cardinality({f[i] : i \in 1 .. n}) = n
              <=> \A i, j \in 1 .. n : f[i] = f[j] => i = j
<1> DEFINE T == {f[i] : i \in 1 .. n}
<1>1. f \in Surjection(1 .. n, T)
  BY DEF Surjection
<1>2. IsFiniteSet(1 .. n) /\ Cardinality(1 .. n) = n
  BY IntervalSize
<1>3. f \in Injection(1 .. n, T) <=> \A i, j \in 1 .. n : f[i] = f[j] => i = j
  BY <1>1 DEF Injection, IsInjective
<1> HIDE DEF T
<1>4. IsFiniteSet(T) /\ (Cardinality(T) = n <=> f \in Injection(1 .. n, T))
  BY <1>1, <1>2, FS_Surjection
<1> QED
  BY <1>3, <1>4 DEF T

(* A permutation of 1 .. n meets every place.                              *)
LEMMA PermutationIsOnto ==
  ASSUME NEW n \in Nat, NEW p \in [1 .. n -> 1 .. n],
         \A i, j \in 1 .. n : i # j => p[i] # p[j]
  PROVE  \A k \in 1 .. n : \E i \in 1 .. n : p[i] = k
<1>1. IsFiniteSet(1 .. n) /\ Cardinality(1 .. n) = n
  BY IntervalSize
<1>2. p \in Injection(1 .. n, 1 .. n)
  BY DEF Injection, IsInjective
<1>3. p \in Surjection(1 .. n, 1 .. n)
  BY <1>1, <1>2, FS_Injection
<1> QED
  BY <1>3 DEF Surjection

-----------------------------------------------------------------------------
(* Ascending sequences of numbers.                                         *)

LEMMA AdjacentAscends ==
  ASSUME NEW n \in Nat, NEW f \in [1 .. n -> Nat],
         \A k \in 1 .. n : k + 1 \in 1 .. n => f[k] < f[k + 1]
  PROVE  \A i, j \in 1 .. n : i < j => f[i] < f[j]
<1> DEFINE T == {j \in Nat : j \in 1 .. n => \A i \in 1 .. n : i < j => f[i] < f[j]}
<1>1. 0 \in T
  OBVIOUS
<1>2. ASSUME NEW j \in Nat, j \in T PROVE j + 1 \in T
  <2> SUFFICES ASSUME j + 1 \in 1 .. n, NEW i \in 1 .. n, i < j + 1 PROVE f[i] < f[j + 1]
    OBVIOUS
  <2>1. j \in 1 .. n
    OBVIOUS
  <2>2. f[j] < f[j + 1] /\ f[i] \in Nat /\ f[j] \in Nat /\ f[j + 1] \in Nat
    BY <2>1
  <2>3. CASE i = j
    BY <2>2, <2>3
  <2>4. CASE i < j
    <3>1. f[i] < f[j]
      BY <1>2, <2>1, <2>4
    <3> QED
      BY <2>2, <3>1
  <2> QED
    BY <2>1, <2>3, <2>4
<1> HIDE DEF T
<1>3. \A j \in Nat : j \in T
  BY <1>1, <1>2, InductionOnSet
<1> QED
  BY <1>3 DEF T

LEMMA AscendingIsIdentity ==
  ASSUME NEW n \in Nat, NEW f \in [1 .. n -> 1 .. n],
         \A k \in 1 .. n : k + 1 \in 1 .. n => f[k] < f[k + 1]
  PROVE  \A i \in 1 .. n : f[i] = i
<1> DEFINE U == {j \in Nat : j \in 1 .. n => j <= f[j]}
           D == {j \in Nat : j < n => f[n - j] <= n - j}
<1>1. 0 \in U
  OBVIOUS
<1>2. ASSUME NEW j \in Nat, j \in U PROVE j + 1 \in U
  <2> SUFFICES ASSUME j + 1 \in 1 .. n PROVE j + 1 <= f[j + 1]
    OBVIOUS
  <2>1. f[j + 1] \in 1 .. n
    OBVIOUS
  <2>2. CASE j = 0
    BY <2>1, <2>2
  <2>3. CASE j # 0
    <3>1. j \in 1 .. n
      BY <2>3
    <3>2. j <= f[j] /\ f[j] < f[j + 1] /\ f[j] \in 1 .. n
      BY <1>2, <3>1
    <3> QED
      BY <2>1, <3>2
  <2> QED
    BY <2>2, <2>3
<1>3. 0 \in D
  <2> SUFFICES ASSUME 0 < n PROVE f[n - 0] <= n - 0
    OBVIOUS
  <2>1. n - 0 = n /\ n \in 1 .. n
    OBVIOUS
  <2> QED
    BY <2>1
<1>4. ASSUME NEW j \in Nat, j \in D PROVE j + 1 \in D
  <2> SUFFICES ASSUME j + 1 < n PROVE f[n - (j + 1)] <= n - (j + 1)
    OBVIOUS
  <2> DEFINE m == n - (j + 1)
  <2>1. m \in 1 .. n /\ m + 1 \in 1 .. n /\ m + 1 = n - j /\ j < n
    OBVIOUS
  <2>2. f[m + 1] <= m + 1
    BY <1>4, <2>1
  <2> HIDE DEF m
  <2>3. f[m] < f[m + 1] /\ f[m] \in 1 .. n /\ f[m + 1] \in 1 .. n
    BY <2>1
  <2>4. f[m] <= m
    BY <2>1, <2>2, <2>3
  <2> QED
    BY <2>4 DEF m
<1> HIDE DEF U, D
<1>5. \A j \in Nat : j \in U
  BY <1>1, <1>2, InductionOnSet
<1>6. \A j \in Nat : j \in D
  BY <1>3, <1>4, InductionOnSet
<1>7. ASSUME NEW i \in 1 .. n PROVE f[i] = i
  <2>1. i <= f[i]
    BY <1>5 DEF U
  <2>2. n - i \in Nat /\ n - i < n /\ n - (n - i) = i
    OBVIOUS
  <2>3. f[i] <= i
    BY <1>6, <2>2 DEF D
  <2> QED
    BY <2>1, <2>3
<1> QED
  BY <1>7
=============================================================================
