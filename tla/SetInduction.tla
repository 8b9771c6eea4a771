---------------------------- MODULE SetInduction ----------------------------
(***************************************************************************)
(* Induction over the natural numbers in a form without operators as       *)
(* parameters: what is proved of all numbers is put as a set of numbers.   *)
(***************************************************************************)
EXTENDS Integers, WellFoundedInduction, TLAPS

(* A set of natural numbers has a least element. *)
LEMMA LeastElement ==
  ASSUME NEW T \in SUBSET Nat, T # {}
  PROVE  \E n \in T : \A m \in T : n <= m
<1> DEFINE R == OpToRel(<, Nat)
<1>1. \A x, y \in Nat : y < x => <<y, x>> \in R
  BY DEF OpToRel
<1>2. IsWellFoundedOn(R, Nat)
  BY NatLessThanWellFounded
<1> HIDE DEF R
<1>3. PICK x \in T : \A y \in T : ~(<<y, x>> \in R)
  BY <1>2, WFMin
<1>4. \A y \in T : x <= y
  <2> SUFFICES ASSUME NEW y \in T, y < x PROVE FALSE
    OBVIOUS
  <2> QED
    BY <1>1, <1>3
<1> QED
  BY <1>4

(* One with a bound has a greatest element. *)
LEMMA GreatestElement ==
  ASSUME NEW T \in SUBSET Nat, T # {}, NEW m \in Nat, \A n \in T : n <= m
  PROVE  \E n \in T : \A k \in T : k <= n
<1> DEFINE Rest == {m - n : n \in T}
<1>1. Rest \in SUBSET Nat /\ Rest # {}
  <2>1. \A n \in T : n \in Nat /\ m - n \in Nat
    OBVIOUS
  <2> QED
    BY <2>1
<1>2. PICK r \in Rest : \A s \in Rest : r <= s
  BY <1>1, LeastElement
<1>3. PICK n \in T : r = m - n
  OBVIOUS
<1>4. ASSUME NEW k \in T PROVE k <= n
  <2>1. m - n <= m - k
    BY <1>2, <1>3
  <2> QED
    BY <2>1
<1> QED
  BY <1>4

(* A set that has zero, and with a number the next one, has all of them. *)
LEMMA NumberInduction ==
  ASSUME NEW T, 0 \in T, \A n \in Nat : n \in T => n + 1 \in T
  PROVE  \A n \in Nat : n \in T
<1> SUFFICES ASSUME NEW k \in Nat, k \notin T PROVE FALSE
  OBVIOUS
<1> DEFINE Out == {n \in Nat : n \notin T}
<1>1. Out \in SUBSET Nat /\ Out # {}
  OBVIOUS
<1> HIDE DEF Out
<1>2. PICK n \in Out : \A m \in Out : n <= m
  BY <1>1, LeastElement
<1>3. n \in Nat /\ n \notin T /\ n # 0
  BY <1>2 DEF Out
<1>4. n - 1 \in Nat /\ n - 1 \notin Out
  BY <1>1, <1>2, <1>3
<1>5. n - 1 \in T /\ (n - 1) + 1 = n
  BY <1>3, <1>4 DEF Out
<1> QED
  BY <1>3, <1>4, <1>5

\* F starts with b, and goes on as the next function of S takes the value before.
Repeats(F, D, b, S) ==
  F \in [Nat -> D] /\ F[0] = b /\ \A n \in Nat : F[n + 1] = S[n][F[n]]

(* A function on the numbers can be defined from the value before.         *)
LEMMA SequencesOfSteps ==
  ASSUME NEW D, NEW b \in D, NEW S \in [Nat -> [D -> D]]
  PROVE  \E F : Repeats(F, D, b, S)
<1> DEFINE Upto(n, g) ==
      g \in [0..n -> D] /\ g[0] = b /\ \A m \in Nat : m < n => g[m + 1] = S[m][g[m]]
<1>1. \A n \in Nat : \E g : Upto(n, g)
  <2> DEFINE Ns == {n \in Nat : \E g : Upto(n, g)}
  <2>1. 0 \in Ns
    <3>1. Upto(0, [m \in 0..0 |-> b])
      OBVIOUS
    <3> QED
      BY <3>1
  <2>2. ASSUME NEW n \in Nat, n \in Ns PROVE n + 1 \in Ns
    <3>1. PICK g : Upto(n, g)
      BY <2>2
    <3> DEFINE k == [m \in 0..(n + 1) |-> IF m <= n THEN g[m] ELSE S[n][g[n]]]
    <3>2. k \in [0..(n + 1) -> D] /\ k[0] = b
      BY <3>1
    <3>3. ASSUME NEW m \in Nat, m < n + 1 PROVE k[m + 1] = S[m][k[m]]
      <4>1. k[m] = g[m]
        BY <3>3
      <4>2. CASE m = n
        BY <4>1, <4>2
      <4>3. CASE m # n
        <5>1. m < n /\ k[m + 1] = g[m + 1]
          BY <3>3, <4>3
        <5> QED
          BY <5>1, <4>1, <3>1
      <4> QED
        BY <4>2, <4>3
    <3> HIDE DEF k
    <3>4. Upto(n + 1, k)
      BY <3>2, <3>3
    <3> QED
      BY <3>4
  <2> HIDE DEF Ns
  <2>3. \A n \in Nat : n \in Ns
    BY <2>1, <2>2, NumberInduction
  <2> QED
    BY <2>3 DEF Ns
<1>2. ASSUME NEW n \in Nat, NEW m \in Nat, NEW g, NEW k, Upto(n, g), Upto(m, k)
      PROVE  \A j \in Nat : j <= n /\ j <= m => g[j] = k[j]
  <2> DEFINE Ns == {j \in Nat : j <= n /\ j <= m => g[j] = k[j]}
  <2>1. 0 \in Ns
    BY <1>2
  <2>2. ASSUME NEW j \in Nat, j \in Ns PROVE j + 1 \in Ns
    <3> SUFFICES ASSUME j + 1 <= n, j + 1 <= m PROVE g[j + 1] = k[j + 1]
      OBVIOUS
    <3>1. g[j + 1] = S[j][g[j]] /\ k[j + 1] = S[j][k[j]]
      BY <1>2
    <3>2. g[j] = k[j]
      BY <2>2
    <3> QED
      BY <3>1, <3>2
  <2> HIDE DEF Ns
  <2>3. \A j \in Nat : j \in Ns
    BY <2>1, <2>2, NumberInduction
  <2> QED
    BY <2>3 DEF Ns
<1> DEFINE A(n) == CHOOSE g : Upto(n, g)
<1> DEFINE F == [n \in Nat |-> A(n)[n]]
<1>3. \A n \in Nat : Upto(n, A(n))
  BY <1>1
<1> HIDE DEF A
<1>4. F \in [Nat -> D] /\ F[0] = b
  BY <1>3
<1>5. ASSUME NEW n \in Nat PROVE F[n + 1] = S[n][F[n]]
  <2>1. A(n + 1)[n + 1] = S[n][A(n + 1)[n]]
    BY <1>3
  <2>2. A(n + 1)[n] = A(n)[n]
    <3>1. Upto(n + 1, A(n + 1)) /\ Upto(n, A(n)) /\ n + 1 \in Nat /\ n <= n + 1 /\ n <= n
      BY <1>3
    <3> HIDE DEF Upto
    <3> QED
      BY <3>1, <1>2
  <2> QED
    BY <2>1, <2>2
<1> HIDE DEF F
<1> QED
  BY <1>4, <1>5 DEF Repeats
=============================================================================
