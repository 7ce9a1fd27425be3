----------------------------- MODULE NatLemmas ------------------------------
(***************************************************************************)
(* Facts about the naturals that the proofs of several components need:    *)
(* least and greatest elements (findLowHigh, the pods of a host), the      *)
(* powers of two of the pauses between attempts, and the quotient that     *)
(* GetRestartDuration rounds up.                                           *)
(*                                                                         *)
(* Induction is had in the form of sets: a set of naturals that is not     *)
(* empty has a least element.                                              *)
(***************************************************************************)
EXTENDS Integers, FiniteSetTheorems, WellFoundedInduction, TLAPS

(* A set of naturals that is not empty has a least element.                *)
LEMMA Least ==
    ASSUME NEW T \in SUBSET Nat, T # {}
    PROVE  \E x \in T : \A y \in T : x <= y
  <1>1. PICK x \in T : \A y \in T : ~(<<y, x>> \in OpToRel(<, Nat))
    BY NatLessThanWellFounded, WFMin
  <1>2. ASSUME NEW y \in T, y < x PROVE FALSE
    <2>1. <<y, x>> \in Nat \X Nat
      OBVIOUS
    <2>2. <<y, x>>[1] < <<y, x>>[2]
      BY <1>2
    <2>3. <<y, x>> \in OpToRel(<, Nat)
      BY <2>1, <2>2 DEF OpToRel
    <2> QED
      BY <1>1, <2>3
  <1> QED
    BY <1>2

(* A set with 0 that has with each natural the next one has them all.      *)
LEMMA SetInduction ==
    ASSUME NEW S, 0 \in S, \A n \in Nat : n \in S => n + 1 \in S
    PROVE  Nat \subseteq S
  <1> SUFFICES ASSUME Nat \ S # {} PROVE FALSE
    OBVIOUS
  <1>1. PICK x \in Nat \ S : \A y \in Nat \ S : x <= y
    BY Least
  <1>2. x # 0 /\ x - 1 \in Nat
    OBVIOUS
  <1>3. x - 1 \in S
    BY <1>1, <1>2
  <1>4. (x - 1) + 1 \in S
    BY <1>2, <1>3
  <1> QED
    BY <1>4

(* A bounded set of naturals has a least and a greatest element.           *)
LEMMA LeastAndGreatest ==
    ASSUME NEW b \in Nat, NEW S \in SUBSET (0..b), S # {}
    PROVE  \E low, high \in S : \A x \in S : low <= x /\ x <= high
  <1>1. PICK low \in S : \A x \in S : low <= x
    <2>1. S \in SUBSET Nat
      OBVIOUS
    <2> QED
      BY <2>1, Least
  <1> DEFINE T == {b - x : x \in S}
  <1>2. T \in SUBSET Nat /\ T # {}
    OBVIOUS
  <1>3. PICK d \in T : \A y \in T : d <= y
    BY <1>2, Least
  <1>4. PICK high \in S : d = b - high
    OBVIOUS
  <1>5. \A x \in S : x <= high
    BY <1>3, <1>4
  <1> QED
    BY <1>1, <1>5

(* A finite set of naturals is bounded.                                    *)
LEMMA FiniteIsBounded ==
    ASSUME NEW S \in SUBSET Nat, IsFiniteSet(S)
    PROVE  \E b \in Nat : S \subseteq 0..b
  <1> DEFINE Sizes ==
        {k \in Nat : \A T \in SUBSET S :
            Cardinality(T) = k => \E b \in Nat : T \subseteq 0..b}
  <1>1. 0 \in Sizes
    <2> SUFFICES ASSUME NEW T \in SUBSET S, Cardinality(T) = 0
                 PROVE  T \subseteq 0..0
      OBVIOUS
    <2>1. IsFiniteSet(T)
      BY FS_Subset
    <2> QED
      BY <2>1, FS_EmptySet
  <1>2. ASSUME NEW k \in Nat, k \in Sizes PROVE k + 1 \in Sizes
    <2> SUFFICES ASSUME NEW T \in SUBSET S, Cardinality(T) = k + 1
                 PROVE  \E b \in Nat : T \subseteq 0..b
      OBVIOUS
    <2>1. IsFiniteSet(T)
      BY FS_Subset
    <2> HIDE DEF Sizes
    <2>2. T # {}
      <3>1. k + 1 # 0
        OBVIOUS
      <3> QED
        BY <2>1, <3>1, FS_EmptySet
    <2>3. PICK x \in T : TRUE
      BY <2>2
    <2>4. Cardinality(T \ {x}) = k /\ T \ {x} \in SUBSET S
      <3>1. Cardinality(T \ {x}) = (k + 1) - 1
        BY <2>1, FS_RemoveElement
      <3> QED
        BY <3>1
    <2>5. PICK b \in Nat : T \ {x} \subseteq 0..b
      <3>1. \A U \in SUBSET S :
                Cardinality(U) = k => \E b \in Nat : U \subseteq 0..b
        BY <1>2 DEF Sizes
      <3> QED
        BY <2>4, <3>1
    <2> DEFINE c == IF x <= b THEN b ELSE x
    <2>6. c \in Nat /\ T \subseteq 0..c
      <3>1. x \in Nat
        OBVIOUS
      <3> QED
        BY <2>5, <3>1
    <2> HIDE DEF c
    <2> QED
      BY <2>6
  <1>3. Nat \subseteq Sizes
    <2> HIDE DEF Sizes
    <2> QED
      BY <1>1, <1>2, SetInduction
  <1>4. Cardinality(S) \in Nat
    BY FS_CardinalityType
  <1> QED
    BY <1>3, <1>4

(* So is, then, what findLowHigh looks for, in whatever the CMS lists.     *)
LEMMA FiniteExtremes ==
    ASSUME NEW S \in SUBSET Nat, IsFiniteSet(S), S # {}
    PROVE  \E low, high \in S : \A x \in S : low <= x /\ x <= high
  <1>1. PICK b \in Nat : S \subseteq 0..b
    BY FiniteIsBounded
  <1> QED
    BY <1>1, LeastAndGreatest

-----------------------------------------------------------------------------
(* The recursion of the powers of two has a solution, so that its CHOOSE   *)
(* is one.                                                                 *)
LEMMA DoublingSolved ==
    ASSUME NEW p,
           p = CHOOSE g : g = [n \in Nat |-> IF n = 0 THEN 1 ELSE 2 * g[n - 1]]
    PROVE  p = [n \in Nat |-> IF n = 0 THEN 1 ELSE 2 * p[n - 1]]
  <1> DEFINE Upto(h, n) == /\ h \in [0..n -> Nat]
                           /\ h[0] = 1
                           /\ \A i \in 1..n : h[i] = 2 * h[i - 1]
             Reached == {n \in Nat : \E h : Upto(h, n)}
             Agreed == {i \in Nat :
                           \A n, m \in Nat : \A h, k :
                              /\ i <= n /\ i <= m
                              /\ Upto(h, n) /\ Upto(k, m)
                              => h[i] = k[i]}
             some(n) == CHOOSE h : Upto(h, n)
             solution == [n \in Nat |-> some(n)[n]]
  <1>1. Nat \subseteq Reached
    <2>1. 0 \in Reached
      <3>1. Upto([i \in 0..0 |-> 1], 0)
        OBVIOUS
      <3> QED
        BY <3>1
    <2>2. ASSUME NEW n \in Nat, n \in Reached PROVE n + 1 \in Reached
      <3>1. PICK h : Upto(h, n)
        BY <2>2
      <3> DEFINE k == [i \in 0..(n + 1) |-> IF i = n + 1 THEN 2 * h[n] ELSE h[i]]
      <3>2. k \in [0..(n + 1) -> Nat]
        BY <3>1
      <3>3. k[0] = 1
        BY <3>1
      <3>4. ASSUME NEW i \in 1..(n + 1) PROVE k[i] = 2 * k[i - 1]
        <4>1. i - 1 \in 0..n
          OBVIOUS
        <4>2. CASE i = n + 1
          BY <4>1, <4>2
        <4>3. CASE i # n + 1
          BY <3>1, <4>1, <4>3
        <4> QED
          BY <4>2, <4>3
      <3>5. Upto(k, n + 1)
        BY <3>2, <3>3, <3>4
      <3> HIDE DEF Upto, k
      <3> QED
        BY <3>5
    <2> HIDE DEF Reached
    <2> QED
      BY <2>1, <2>2, SetInduction
  <1>2. Nat \subseteq Agreed
    <2>1. 0 \in Agreed
      OBVIOUS
    <2>2. ASSUME NEW i \in Nat, i \in Agreed PROVE i + 1 \in Agreed
      <3> SUFFICES ASSUME NEW n \in Nat, NEW m \in Nat, NEW h, NEW k,
                          i + 1 <= n, i + 1 <= m, Upto(h, n), Upto(k, m)
                   PROVE  h[i + 1] = k[i + 1]
        <4> HIDE DEF Upto
        <4> QED
          OBVIOUS
      <3>1. i <= n /\ i <= m
        OBVIOUS
      <3>2. h[i] = k[i]
        <4> HIDE DEF Upto
        <4> QED
          BY <2>2, <3>1
      <3>3. i + 1 \in 1..n /\ i + 1 \in 1..m /\ (i + 1) - 1 = i
        OBVIOUS
      <3>4. h[i + 1] = 2 * h[i] /\ k[i + 1] = 2 * k[i]
        BY <3>3
      <3> QED
        BY <3>2, <3>4
    <2> HIDE DEF Agreed
    <2> QED
      BY <2>1, <2>2, SetInduction
  <1>3. ASSUME NEW n \in Nat PROVE Upto(some(n), n)
    <2>1. \E h : Upto(h, n)
      BY <1>1
    <2> HIDE DEF Upto
    <2> QED
      BY <2>1
  <1>4. solution[0] = 1
    BY <1>3
  <1>5. ASSUME NEW n \in Nat, n # 0
        PROVE  solution[n] = 2 * solution[n - 1]
    <2>1. n - 1 \in Nat /\ n \in 1..n
      BY <1>5
    <2>2. Upto(some(n), n) /\ Upto(some(n - 1), n - 1)
      BY <1>3, <2>1
    <2>3. some(n)[n] = 2 * some(n)[n - 1]
      BY <2>1, <2>2
    <2>4. some(n)[n - 1] = some(n - 1)[n - 1]
      <3>1. n - 1 \in Agreed
        BY <1>2, <2>1
      <3>2. n - 1 <= n /\ n - 1 <= n - 1
        BY <2>1
      <3> HIDE DEF Upto, some
      <3> QED
        BY <2>1, <2>2, <3>1, <3>2
    <2> HIDE DEF some
    <2> QED
      BY <2>1, <2>3, <2>4
  <1>6. solution = [n \in Nat |-> IF n = 0 THEN 1 ELSE 2 * solution[n - 1]]
    <2> HIDE DEF some
    <2>1. solution = [n \in Nat |-> solution[n]]
      OBVIOUS
    <2> HIDE DEF solution
    <2> QED
      BY <1>4, <1>5, <2>1
  <1>7. \E g : g = [n \in Nat |-> IF n = 0 THEN 1 ELSE 2 * g[n - 1]]
    <2> HIDE DEF solution
    <2> QED
      BY <1>6
  <1> QED
    BY <1>7

(* What the solution does. *)
LEMMA Doubling ==
    ASSUME NEW p,
           p = CHOOSE g : g = [n \in Nat |-> IF n = 0 THEN 1 ELSE 2 * g[n - 1]]
    PROVE  /\ p[0] = 1
           /\ \A n \in Nat : p[n] \in Nat /\ p[n] >= 1 /\ p[n + 1] = 2 * p[n]
  <1>1. p = [n \in Nat |-> IF n = 0 THEN 1 ELSE 2 * p[n - 1]]
    BY DoublingSolved
  <1>2. p[0] = 1
    BY <1>1
  <1>3. ASSUME NEW n \in Nat PROVE p[n + 1] = 2 * p[n]
    <2>1. n + 1 \in Nat /\ n + 1 # 0 /\ (n + 1) - 1 = n
      OBVIOUS
    <2> QED
      BY <1>1, <2>1
  <1> DEFINE Positive == {n \in Nat : p[n] \in Nat /\ p[n] >= 1}
  <1>4. 0 \in Positive
    BY <1>2
  <1>5. ASSUME NEW n \in Nat, n \in Positive PROVE n + 1 \in Positive
    BY <1>3, <1>5
  <1>6. Nat \subseteq Positive
    <2> HIDE DEF Positive
    <2> QED
      BY <1>4, <1>5, SetInduction
  <1> QED
    BY <1>2, <1>3, <1>6

LEMMA DoublingGrows ==
    ASSUME NEW p,
           p = CHOOSE g : g = [n \in Nat |-> IF n = 0 THEN 1 ELSE 2 * g[n - 1]],
           NEW m \in Nat, NEW n \in Nat, m <= n
    PROVE  p[m] <= p[n]
  <1> DEFINE Above == {k \in Nat : p[m] <= p[m + k]}
  <1>1. 0 \in Above
    BY Doubling
  <1>2. ASSUME NEW k \in Nat, k \in Above PROVE k + 1 \in Above
    <2>1. m + k \in Nat /\ m + (k + 1) = (m + k) + 1
      OBVIOUS
    <2>2. /\ p[m] \in Nat /\ p[m + k] \in Nat
          /\ p[(m + k) + 1] = 2 * p[m + k]
      BY <2>1, Doubling
    <2> QED
      BY <1>2, <2>1, <2>2
  <1>3. Nat \subseteq Above
    <2> HIDE DEF Above
    <2> QED
      BY <1>1, <1>2, SetInduction
  <1>4. n - m \in Nat /\ m + (n - m) = n
    OBVIOUS
  <1> QED
    BY <1>3, <1>4

-----------------------------------------------------------------------------
(* The quotient rounded up is the number of rounds: the one count that is  *)
(* enough for n nodes, d at a time, without a round to spare.              *)
LEMMA RoundedUp ==
    ASSUME NEW n \in Nat \ {0}, NEW d \in Nat \ {0}
    PROVE  LET q == (n + d - 1) \div d IN
           /\ q \in 1..n
           /\ q * d >= n /\ (q - 1) * d < n
           /\ \A r \in Nat : r * d >= n /\ (r - 1) * d < n => r = q
  <1> DEFINE q == (n + d - 1) \div d
  <1>1. q \in Int /\ q * d <= n + d - 1 /\ n + d - 1 < q * d + d
    OBVIOUS
  <1> HIDE DEF q
  <1>2. (q - 1) * d = q * d - d
    BY <1>1
  <1>3. q * d >= n /\ (q - 1) * d < n
    BY <1>1, <1>2
  <1>4. q >= 1
    <2> SUFFICES ASSUME q <= 0 PROVE FALSE
      BY <1>1
    <2>1. q * d <= 0
      BY <1>1
    <2>2. q * d \in Int
      BY <1>1
    <2> QED
      BY <1>3, <2>1, <2>2
  <1>5. q <= n
    <2> SUFFICES ASSUME q - 1 >= n PROVE FALSE
      BY <1>1
    <2>1. (q - 1) * d >= q - 1
      BY <1>1, <1>4
    <2> QED
      BY <1>1, <1>3, <2>1
  <1>6. ASSUME NEW r \in Nat, r * d >= n, (r - 1) * d < n PROVE r = q
    <2>1. (r - 1) * d = r * d - d
      OBVIOUS
    <2>2. CASE r < q
      <3>1. r <= q - 1
        BY <1>1, <2>2
      <3>2. r * d <= (q - 1) * d
        BY <1>1, <3>1
      <3> QED
        BY <1>1, <1>3, <1>6, <3>2
    <2>3. CASE q < r
      <3>1. q <= r - 1
        BY <1>1, <2>3
      <3>2. q * d <= (r - 1) * d
        BY <1>1, <3>1
      <3> QED
        BY <1>1, <1>3, <1>6, <3>2
    <2> QED
      BY <1>1, <2>2, <2>3
  <1> QED
    BY <1>1, <1>3, <1>4, <1>5, <1>6 DEF q
=============================================================================
