------------------------------ MODULE Recursion -------------------------------
(***************************************************************************)
(* Recursive functions on the numbers. CHOOSE makes one of any equation;   *)
(* that this one solves it is what has to be proved before anything can be *)
(* said of it.                                                             *)
(***************************************************************************)
EXTENDS SetInduction

CONSTANTS Base,    \* its value at 0
          Step(_)  \* the next value, from the one before

Rec[n \in Nat] == IF n = 0 THEN Base ELSE Step(Rec[n - 1])

(* The function Rec solves its equation. *)
LEMMA RecUnfolds == Rec = [n \in Nat |-> IF n = 0 THEN Base ELSE Step(Rec[n - 1])]
<1> DEFINE Upto(n, g) == g = [m \in 0..n |-> IF m = 0 THEN Base ELSE Step(g[m - 1])]
<1>1. \A n \in Nat : \E g : Upto(n, g)
  <2> DEFINE S == {n \in Nat : \E g : Upto(n, g)}
  <2>1. 0 \in S
    <3> DEFINE g == [m \in 0..0 |-> Base]
    <3>1. Upto(0, g)
      OBVIOUS
    <3> QED
      BY <3>1
  <2>2. ASSUME NEW n \in Nat, n \in S PROVE n + 1 \in S
    <3>1. PICK g : Upto(n, g)
      BY <2>2
    <3> DEFINE k == [m \in 0..(n + 1) |-> IF m \in 0..n THEN g[m] ELSE Step(g[n])]
    <3>2. ASSUME NEW m \in 0..(n + 1) PROVE k[m] = IF m = 0 THEN Base ELSE Step(k[m - 1])
      <4>1. CASE m = n + 1
        <5>1. k[m] = Step(g[n]) /\ m - 1 = n /\ k[n] = g[n]
          BY <4>1
        <5> QED
          BY <5>1, <4>1
      <4>2. CASE m \in 0..n
        <5>1. k[m] = g[m]
          BY <4>2
        <5>2. g[m] = IF m = 0 THEN Base ELSE Step(g[m-1])
          BY <3>1, <4>2
        <5>3. m # 0 => m - 1 \in 0..n /\ k[m-1] = g[m-1]
          BY <4>2
        <5> QED
          BY <5>1, <5>2, <5>3
      <4> QED
        BY <4>1, <4>2
    <3>3. k = [m \in 0..(n + 1) |-> k[m]]
      OBVIOUS
    <3> HIDE DEF k
    <3>4. Upto(n + 1, k)
      BY <3>2, <3>3
    <3> QED
      BY <3>4
  <2> HIDE DEF S
  <2>3. \A n \in Nat : n \in S
    BY <2>1, <2>2, NumberInduction
  <2> QED
    BY <2>3 DEF S
<1>2. ASSUME NEW n \in Nat, NEW m \in Nat, NEW g, NEW k, Upto(n, g), Upto(m, k)
      PROVE \A j \in Nat : j <= n /\ j <= m => g[j] = k[j]
  <2> DEFINE S == {j \in Nat : j <= n /\ j <= m => g[j] = k[j]}
  <2>1. 0 \in S
    <3>1. 0 \in 0..n /\ 0 \in 0..m
      OBVIOUS
    <3>2. g[0] = Base
      BY <1>2, <3>1
    <3>3. k[0] = Base
      BY <1>2, <3>1
    <3> QED
      BY <3>2, <3>3
  <2>2. ASSUME NEW j \in Nat, j \in S PROVE j + 1 \in S
    <3> SUFFICES ASSUME j + 1 <= n, j + 1 <= m PROVE g[j + 1] = k[j + 1]
      OBVIOUS
    <3>1. j + 1 \in 0..n /\ j + 1 \in 0..m /\ j + 1 # 0 /\ (j + 1) - 1 = j
      OBVIOUS
    <3>2. g[j + 1] = Step(g[j])
      BY <1>2, <3>1
    <3>3. k[j + 1] = Step(k[j])
      BY <1>2, <3>1
    <3>4. g[j] = k[j]
      BY <2>2
    <3> QED
      BY <3>2, <3>3, <3>4
  <2> HIDE DEF S
  <2>3. \A j \in Nat : j \in S
    BY <2>1, <2>2, NumberInduction
  <2> QED
    BY <2>3 DEF S
<1> DEFINE F == [n \in Nat |-> (CHOOSE g : Upto(n, g))[n]]
<1> HIDE DEF Upto
<1>3. ASSUME NEW n \in Nat PROVE F[n] = IF n = 0 THEN Base ELSE Step(F[n - 1])
  <2>1. PICK g : g = CHOOSE h : Upto(n, h)
    OBVIOUS
  <2>2. Upto(n, g)
    BY <1>1, <2>1
  <2>3. F[n] = g[n]
    BY <2>1
  <2>4. g[n] = IF n = 0 THEN Base ELSE Step(g[n - 1])
    BY <2>2 DEF Upto
  <2>5. n # 0 => F[n - 1] = g[n - 1]
    <3> SUFFICES ASSUME n # 0 PROVE F[n - 1] = g[n - 1]
      OBVIOUS
    <3>1. n - 1 \in Nat
      OBVIOUS
    <3>2. PICK k : k = CHOOSE h : Upto(n - 1, h)
      OBVIOUS
    <3>3. Upto(n - 1, k)
      BY <1>1, <3>1, <3>2
    <3>4. F[n - 1] = k[n - 1]
      BY <3>1, <3>2
    <3>5. g[n - 1] = k[n - 1]
      BY <1>2, <2>2, <3>3, <3>1
    <3> QED
      BY <3>4, <3>5
  <2> QED
    BY <2>3, <2>4, <2>5
<1>4. \E f : f = [n \in Nat |-> IF n = 0 THEN Base ELSE Step(f[n - 1])]
  <2>1. F = [n \in Nat |-> F[n]]
    OBVIOUS
  <2> HIDE DEF F
  <2>2. F = [n \in Nat |-> IF n = 0 THEN Base ELSE Step(F[n - 1])]
    BY <1>3, <2>1
  <2> QED
    BY <2>2
<1> QED
  BY <1>4 DEF Rec
=============================================================================
