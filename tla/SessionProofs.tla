--------------------------- MODULE SessionProofs ----------------------------
(***************************************************************************)
(* Theorems about a session, for every set of queries, every number of     *)
(* rows and every size of a byte and of a string: what the statements do   *)
(* to the tables, and what the queries answer.                             *)
(***************************************************************************)
EXTENDS Session, SequenceTheorems, SetInduction, FiniteSetTheorems, TLAPS

-----------------------------------------------------------------------------
(***************************************************************************)
(* KeyCodec, for every size of a byte, a key and a block.                  *)
(***************************************************************************)

(* Division with remainder.                                                *)
LEMMA DivMod ==
  ASSUME NEW u \in Nat, NEW B \in Nat, B > 0
  PROVE  /\ u \div B \in Nat
         /\ u % B \in 0..(B - 1)
         /\ u = (B * (u \div B)) + (u % B)
OBVIOUS

(* A larger factor makes a product larger by a whole multiple.             *)
LEMMA Monotone ==
  ASSUME NEW B \in Nat, B > 0, NEW x \in Nat, NEW y \in Nat, x < y
  PROVE  (B * x) + B <= B * y
<1>1. y = x + 1 + (y - x - 1) /\ y - x - 1 \in Nat
  OBVIOUS
<1>2. \A k \in Nat : B * (x + 1 + k) = (B * x) + B + (B * k) /\ B * k >= 0
  OBVIOUS
<1> QED
  BY <1>1, <1>2

(* Numbers are compared by what stands before the last digit, then by it.  *)
LEMMA LastDigit ==
  ASSUME NEW B \in Nat, B > 0, NEW q \in Nat, NEW s \in Nat,
         NEW d \in 0..(B - 1), NEW e \in 0..(B - 1)
  PROVE  (B * q) + d < (B * s) + e <=> q < s \/ (q = s /\ d < e)
<1>0. B * q \in Nat /\ B * s \in Nat
  OBVIOUS
<1>1. CASE q < s
  BY <1>0, <1>1, Monotone
<1>2. CASE s < q
  BY <1>0, <1>2, Monotone
<1>3. CASE q = s
  BY <1>0, <1>3
<1> QED
  BY <1>1, <1>2, <1>3

(* The parts of a number and its lowest byte.                              *)
LEMMA Parts ==
  ASSUME NEW u \in Nat
  PROVE  Shift(u) \in Nat /\ Low(u) \in Byte /\ u = (Base * Shift(u)) + Low(u)
BY DivMod, BaseAssumption DEF Shift, Low, Byte

(* What is left of a number below Base * m after a shift is below m.       *)
LEMMA ShiftBelow ==
  ASSUME NEW u \in Nat, NEW m \in Nat, u < Base * m
  PROVE  Shift(u) < m
<1> DEFINE q == Shift(u)
           P == Base * q
           Q == Base * m
<1>1. q \in Nat /\ Low(u) \in Nat /\ P \in Nat /\ Q \in Nat /\ u = P + Low(u) /\ u < Q
  <2>1. q \in Nat /\ Low(u) \in 0..(Base - 1) /\ u = P + Low(u)
    BY Parts DEF Byte
  <2> QED
    BY <2>1, BaseAssumption
<1>2. m < q => Q + Base <= P
  <2> HIDE DEF q
  <2> QED
    BY <1>1, Monotone, BaseAssumption
<1>3. m = q => Q = P
  OBVIOUS
<1> HIDE DEF q, P, Q
<1>4. q < m
  BY <1>1, <1>2, <1>3, BaseAssumption
<1> QED
  BY <1>4 DEF q

(* The range of an int32_t and that of a uint32_t.                         *)
LEMMA WordsType == Words \in Nat /\ Half \in Nat /\ Half <= Words /\ Words > 0
<1>1. Base * Base \in Nat /\ Base * Base > 0
  BY BaseAssumption
<1> DEFINE C == Base * (Base * Base)
<1>2. C \in Nat /\ C > 0
  BY <1>1, BaseAssumption
<1>3. Base \div 2 \in Nat /\ Base \div 2 <= Base
  BY BaseAssumption
<1>4. (Base \div 2) * C \in Nat /\ Base * C \in Nat /\ Base * C > 0
  BY <1>2, <1>3, BaseAssumption
<1>5. (Base \div 2) * C <= Base * C
  <2>1. Base = (Base \div 2) + (Base - (Base \div 2)) /\ Base - (Base \div 2) \in Nat
    BY <1>3, BaseAssumption
  <2>2. \A a, b \in Nat : (a + b) * C = (a * C) + (b * C) /\ b * C >= 0
    BY <1>2
  <2>3. Base * C = ((Base \div 2) * C) + ((Base - (Base \div 2)) * C)
    BY <2>1, <2>2, <1>3
  <2>4. (Base - (Base \div 2)) * C >= 0
    BY <2>1, <2>2, <1>3
  <2> HIDE DEF C
  <2> QED
    BY <1>4, <2>1, <2>2, <2>3, <2>4, <1>2
<1> QED
  BY <1>4, <1>5 DEF Words, Half

(* A key plus 0x80000000 does not wrap around.                             *)
LEMMA BiasType ==
  ASSUME NEW k \in Ints
  PROVE  Biased(k) = k + Half /\ Biased(k) \in 0..(Words - 1)
<1>1. k + Half \in 0..(Words - 1)
  BY WordsType DEF Ints
<1>2. \A x \in 0..(Words - 1) : x % Words = x
  BY WordsType
<1> QED
  BY <1>1, <1>2 DEF Biased

(* The four bytes of a word, from the lowest up.                           *)
LEMMA FourBytes ==
  ASSUME NEW u \in 0..(Words - 1)
  PROVE  LET u1 == Shift(u)
             u2 == Shift(u1)
             u3 == Shift(u2)
         IN  /\ u1 \in Nat /\ u2 \in Nat /\ u3 \in Byte /\ Low(u3) = u3
             /\ Low(u) \in Byte /\ Low(u1) \in Byte /\ Low(u2) \in Byte
             /\ u = (Base * u1) + Low(u)
             /\ u1 = (Base * u2) + Low(u1)
             /\ u2 = (Base * u3) + Low(u2)
<1> DEFINE u1 == Shift(u)
           u2 == Shift(u1)
           u3 == Shift(u2)
<1>0. u \in Nat /\ u < Words
  BY WordsType
<1>1. u1 \in Nat /\ Low(u) \in Byte /\ u = (Base * u1) + Low(u)
  BY <1>0, Parts
<1>2. u2 \in Nat /\ Low(u1) \in Byte /\ u1 = (Base * u2) + Low(u1)
  BY <1>1, Parts
<1>3. u3 \in Nat /\ Low(u2) \in Byte /\ u2 = (Base * u3) + Low(u2)
  BY <1>2, Parts
<1>4. Base * Base \in Nat /\ Base * (Base * Base) \in Nat
  BY BaseAssumption
<1>5. u1 < Base * (Base * Base)
  BY <1>0, <1>4, ShiftBelow DEF Words
<1>6. u2 < Base * Base
  BY <1>1, <1>4, <1>5, ShiftBelow
<1>7. u3 < Base
  BY <1>2, <1>6, ShiftBelow, BaseAssumption
<1>8. u3 \in Byte
  BY <1>3, <1>7, BaseAssumption DEF Byte
<1>9. \A x \in Byte : x % Base = x
  BY BaseAssumption DEF Byte
<1> QED
  BY <1>1, <1>2, <1>3, <1>8, <1>9 DEF Low

(* The order of strings of four bytes.                                     *)
LEMMA FourBefore ==
  ASSUME NEW s, NEW t, Len(s) = 4, Len(t) = 4,
         s[1] \in Nat, s[2] \in Nat, s[3] \in Nat, s[4] \in Nat,
         t[1] \in Nat, t[2] \in Nat, t[3] \in Nat, t[4] \in Nat
  PROVE  Before(s, t) <=>
           \/ s[1] < t[1]
           \/ s[1] = t[1] /\ s[2] < t[2]
           \/ s[1] = t[1] /\ s[2] = t[2] /\ s[3] < t[3]
           \/ s[1] = t[1] /\ s[2] = t[2] /\ s[3] = t[3] /\ s[4] < t[4]
<1> DEFINE Differs(i) == /\ i <= Len(s) + 1
                         /\ \A j \in 1..(i - 1) : s[j] = t[j]
                         /\ i <= Len(s) => s[i] < t[i]
<1>1. Before(s, t) <=> Differs(1) \/ Differs(2) \/ Differs(3) \/ Differs(4)
  <2>1. 1..Len(t) = {1, 2, 3, 4}
    OBVIOUS
  <2> QED
    BY <2>1 DEF Before
<1>2. /\ 1..(1 - 1) = {} /\ 1..(2 - 1) = {1} /\ 1..(3 - 1) = {1, 2}
      /\ 1..(4 - 1) = {1, 2, 3}
  OBVIOUS
<1>3. /\ Differs(1) <=> s[1] < t[1]
      /\ Differs(2) <=> s[1] = t[1] /\ s[2] < t[2]
      /\ Differs(3) <=> s[1] = t[1] /\ s[2] = t[2] /\ s[3] < t[3]
      /\ Differs(4) <=> s[1] = t[1] /\ s[2] = t[2] /\ s[3] = t[3] /\ s[4] < t[4]
  BY <1>2
<1> QED
  BY <1>1, <1>3

(* The tree orders integer keys as the integers are, whatever their sign.  *)
THEOREM IntegerOrder == KeysInOrder
<1> SUFFICES ASSUME NEW j \in Ints, NEW k \in Ints
             PROVE  Before(intKeyToString(j), intKeyToString(k)) <=> j < k
  BY DEF KeysInOrder
<1> DEFINE u == Biased(j)
           u1 == Shift(u)
           u2 == Shift(u1)
           u3 == Shift(u2)
           v == Biased(k)
           v1 == Shift(v)
           v2 == Shift(v1)
           v3 == Shift(v2)
<1>1. u \in 0..(Words - 1) /\ v \in 0..(Words - 1) /\ (j < k <=> u < v)
  BY BiasType, WordsType DEF Ints
<1>2. /\ u1 \in Nat /\ u2 \in Nat /\ u3 \in Byte /\ Low(u3) = u3
      /\ Low(u) \in Byte /\ Low(u1) \in Byte /\ Low(u2) \in Byte
      /\ u = (Base * u1) + Low(u) /\ u1 = (Base * u2) + Low(u1) /\ u2 = (Base * u3) + Low(u2)
  BY <1>1, FourBytes
<1>3. /\ v1 \in Nat /\ v2 \in Nat /\ v3 \in Byte /\ Low(v3) = v3
      /\ Low(v) \in Byte /\ Low(v1) \in Byte /\ Low(v2) \in Byte
      /\ v = (Base * v1) + Low(v) /\ v1 = (Base * v2) + Low(v1) /\ v2 = (Base * v3) + Low(v2)
  BY <1>1, FourBytes
<1>4. /\ intKeyToString(j) = <<u3, Low(u2), Low(u1), Low(u)>>
      /\ intKeyToString(k) = <<v3, Low(v2), Low(v1), Low(v)>>
  BY <1>2, <1>3 DEF intKeyToString
<1>5. Byte \subseteq Nat /\ Byte = 0..(Base - 1) /\ Base \in Nat /\ Base > 0
  BY BaseAssumption DEF Byte
<1>t. /\ u \in Nat /\ u1 \in Nat /\ u2 \in Nat /\ u3 \in Nat /\ u3 \in Byte
      /\ v \in Nat /\ v1 \in Nat /\ v2 \in Nat /\ v3 \in Nat /\ v3 \in Byte
      /\ Low(u) \in Nat /\ Low(u1) \in Nat /\ Low(u2) \in Nat /\ Low(u2) \in Byte
      /\ Low(v) \in Nat /\ Low(v1) \in Nat /\ Low(v2) \in Nat /\ Low(v2) \in Byte
  BY <1>1, <1>2, <1>3, <1>5, WordsType
<1> HIDE DEF u, u1, u2, u3, v, v1, v2, v3
<1>e. /\ u2 = (Base * u3) + Low(u2)
      /\ v2 = (Base * v3) + Low(v2)
  BY <1>2, <1>3
<1>a. ASSUME NEW q \in Nat, NEW s \in Nat, NEW d \in Byte, NEW e \in Byte,
             NEW x, NEW y, x = (Base * q) + d, y = (Base * s) + e
      PROVE  x < y <=> q < s \/ (q = s /\ d < e)
  <2>1. (Base * q) + d < (Base * s) + e <=> q < s \/ (q = s /\ d < e)
    BY <1>5, LastDigit
  <2> QED
    BY <1>a, <2>1
<1>6. u < v <=> u1 < v1 \/ (u1 = v1 /\ Low(u) < Low(v))
  BY <1>2, <1>3, <1>a
<1>7. u1 < v1 <=> u2 < v2 \/ (u2 = v2 /\ Low(u1) < Low(v1))
  BY <1>2, <1>3, <1>a
<1>8. u2 < v2 <=> u3 < v3 \/ (u3 = v3 /\ Low(u2) < Low(v2))
  BY <1>t, <1>e, <1>a
<1>9. v1 < u1 <=> v2 < u2 \/ (v2 = u2 /\ Low(v1) < Low(u1))
  BY <1>2, <1>3, <1>a
<1>10. v2 < u2 <=> v3 < u3 \/ (v3 = u3 /\ Low(v2) < Low(u2))
  BY <1>t, <1>e, <1>a
<1>11. u2 = v2 <=> u3 = v3 /\ Low(u2) = Low(v2)
  BY <1>t, <1>8, <1>10
<1>12. u1 = v1 <=> u2 = v2 /\ Low(u1) = Low(v1)
  BY <1>t, <1>7, <1>9
<1> DEFINE s == intKeyToString(j)
           t == intKeyToString(k)
<1>13. /\ Len(s) = 4 /\ s[1] = u3 /\ s[2] = Low(u2) /\ s[3] = Low(u1) /\ s[4] = Low(u)
       /\ Len(t) = 4 /\ t[1] = v3 /\ t[2] = Low(v2) /\ t[3] = Low(v1) /\ t[4] = Low(v)
  BY <1>4
<1> HIDE DEF s, t
<1>14. Before(s, t) <=>
         \/ u3 < v3
         \/ u3 = v3 /\ Low(u2) < Low(v2)
         \/ u3 = v3 /\ Low(u2) = Low(v2) /\ Low(u1) < Low(v1)
         \/ u3 = v3 /\ Low(u2) = Low(v2) /\ Low(u1) = Low(v1) /\ Low(u) < Low(v)
  BY <1>t, <1>13, FourBefore
<1> QED
  BY <1>1, <1>6, <1>7, <1>8, <1>11, <1>12, <1>14 DEF s, t

(* An integer that is cast is of 32 bits, and one of 32 bits stays.        *)
LEMMA CastType == ASSUME NEW k \in Int PROVE Cast32(k) \in Ints
<1>1. k % Words \in 0..(Words - 1)
  BY WordsType
<1> DEFINE m == k % Words
<1> HIDE DEF m
<1>2. m \in 0..(Words - 1) => (IF m < Words - Half THEN m ELSE m - Words) \in Ints
  BY WordsType DEF Ints
<1> QED
  BY <1>1, <1>2 DEF Cast32, m

(* An integer that fits into a cell is the same after it was cast to one.  *)
LEMMA CastOfInts == ASSUME NEW k \in Ints PROVE Cast32(k) = k
<1>1. CASE k >= 0
  <2>1. k % Words = k
    BY <1>1, WordsType DEF Ints
  <2> QED
    BY <1>1, <2>1, WordsType DEF Cast32, Ints
<1>2. CASE k < 0
  <2>1. k % Words = k + Words
    BY <1>2, WordsType DEF Ints
  <2> QED
    BY <1>2, <2>1, WordsType DEF Cast32, Ints
<1> QED
  BY <1>1, <1>2 DEF Ints

(* An integer key survives the way to disk and back.                       *)
THEOREM IntegersComeBack == IntsComeBack
<1> SUFFICES ASSUME NEW k \in Ints
             PROVE  stringKeyToInt(intKeyToString(k)) = k
  BY DEF IntsComeBack
<1> DEFINE u == Biased(k)
           u1 == Shift(u)
           u2 == Shift(u1)
           u3 == Shift(u2)
<1>1. u \in 0..(Words - 1) /\ u = k + Half
  BY BiasType
<1>2. /\ Low(u3) = u3
      /\ u = (Base * u1) + Low(u) /\ u1 = (Base * u2) + Low(u1) /\ u2 = (Base * u3) + Low(u2)
  BY <1>1, FourBytes
<1>3. Joined(intKeyToString(k)) = u
  <2>1. intKeyToString(k) = <<Low(u3), Low(u2), Low(u1), Low(u)>>
    BY DEF intKeyToString
  <2> HIDE DEF u, u1, u2, u3
  <2>2. Joined(<<Low(u3), Low(u2), Low(u1), Low(u)>>)
          = (Base * ((Base * ((Base * Low(u3)) + Low(u2))) + Low(u1))) + Low(u)
    BY DEF Joined
  <2>3. (Base * ((Base * ((Base * Low(u3)) + Low(u2))) + Low(u1))) + Low(u) = u
    BY <1>2, Zenon
  <2> QED
    BY <2>1, <2>2, <2>3
<1> HIDE DEF u
<1>4. Joined(intKeyToString(k)) - Half = k
  BY <1>1, <1>3, WordsType DEF Ints
<1>5. Cast32(k) = k
  BY CastOfInts
<1> QED
  BY <1>4, <1>5 DEF stringKeyToInt

(* A node of the degree that calculateT() chooses fits into its block, for *)
(* every size of blocks and keys.                                          *)
THEOREM NodesFit == NodeFits
<1> SUFFICES ASSUME NEW b \in BlockSizes, NEW k \in KeySizes, calculateT(b, k) # 0
             PROVE  calculateT(b, k) >= 2 /\ NodeSize(calculateT(b, k), k) <= b
  BY DEF NodeFits
<1> DEFINE available == b - HeaderSize
           most == Room(available, k)
           keys == IF most % 2 = 0 THEN most - 1 ELSE most
           t == calculateT(b, k)
<1>1. b \in Nat /\ k \in Nat /\ HeaderSize \in Nat
  BY SizesAssumption
<1>2. available \in Int /\ ~(available <= 8) /\ ~(most < 3) /\ t = (keys + 1) \div 2
  BY <1>1 DEF calculateT
<1>3. available - 8 \in Nat /\ k + 12 \in Nat /\ k + 12 > 0
  BY <1>1, <1>2
<1>4. most \in Nat /\ (k + 12) * most <= available - 8
  <2> DEFINE A == available - 8
             K == k + 12
             m == A \div K
  <2>1. A \in Nat /\ K \in Nat /\ K > 0 /\ most = m
    BY <1>3 DEF Room
  <2> HIDE DEF A, K, most
  <2>2. m \in Nat /\ A % K \in 0..(K - 1) /\ A = (K * m) + (A % K)
    BY <2>1, DivMod
  <2> HIDE DEF m
  <2>3. K * m \in Nat
    BY <2>1, <2>2
  <2>4. most \in Nat /\ K * most <= A
    BY <2>1, <2>2, <2>3
  <2> QED
    BY <2>4 DEF A, K
<1>5. t \in Nat /\ t >= 2 /\ (2 * t) - 1 = keys /\ keys <= most
  <2> HIDE DEF most
  <2> QED
    BY <1>2, <1>4
<1>6. (k + 12) * ((2 * t) - 1) <= available - 8
  <2>1. CASE (2 * t) - 1 = most
    BY <2>1, <1>4
  <2>2. CASE (2 * t) - 1 < most
    <3>1. ((k + 12) * ((2 * t) - 1)) + (k + 12) <= (k + 12) * most
      <4> HIDE DEF most, t, keys
      <4> QED
        BY <2>2, <1>3, <1>4, <1>5, Monotone
    <3> HIDE DEF most, t, keys, available
    <3>2. (2 * t) - 1 \in Nat
      BY <1>5
    <3>3. (k + 12) * ((2 * t) - 1) \in Nat /\ (k + 12) * most \in Nat
      BY <1>3, <1>4, <3>2
    <3> QED
      BY <1>3, <1>4, <3>1, <3>3
  <2> HIDE DEF most, t, keys
  <2> QED
    BY <1>4, <1>5, <2>1, <2>2
<1> HIDE DEF t
<1>7. NodeSize(t, k) = HeaderSize + 8 + ((k + 12) * ((2 * t) - 1))
  BY <1>1, <1>5 DEF NodeSize
<1> QED
  <2>1. (2 * t) - 1 \in Nat /\ (k + 12) * ((2 * t) - 1) \in Nat
    BY <1>3, <1>5
  <2>2. NodeSize(t, k) <= b
    BY <1>1, <1>6, <1>7, <2>1
  <2> QED
    BY <1>5, <2>2 DEF t

(* The keys of integers are byte strings, and those of two are two.        *)
LEMMA IntegerKeys ==
  /\ \A k \in Ints : intKeyToString(k) \in Seq(Byte)
  /\ \A j, k \in Ints : intKeyToString(j) = intKeyToString(k) => j = k
<1>1. ASSUME NEW k \in Ints PROVE intKeyToString(k) \in Seq(Byte)
  <2> DEFINE u == Biased(k)
             u1 == Shift(u)
             u2 == Shift(u1)
             u3 == Shift(u2)
  <2>1. Low(u3) \in Byte /\ Low(u2) \in Byte /\ Low(u1) \in Byte /\ Low(u) \in Byte
    BY BiasType, FourBytes
  <2>2. intKeyToString(k) = <<Low(u3), Low(u2), Low(u1), Low(u)>>
    BY DEF intKeyToString
  <2> HIDE DEF u, u1, u2, u3
  <2> QED
    BY <2>1, <2>2
<1>2. ASSUME NEW j \in Ints, NEW k \in Ints, intKeyToString(j) = intKeyToString(k)
      PROVE  j = k
  BY <1>2, IntegersComeBack, Zenon DEF IntsComeBack
<1> QED
  BY <1>1, <1>2

(* The key of a string is a byte string with room for a zero behind it,    *)
(* and is the string if that was one.                                      *)
LEMMA StringKeys ==
  ASSUME NEW s \in Seq(Byte)
  PROVE  /\ keyToString(s) \in Seq(Byte) /\ Len(keyToString(s)) < MaxString
         /\ \A i \in 1..Len(keyToString(s)) : i \in 1..Len(s) /\ keyToString(s)[i] = s[i]
         /\ Len(s) < MaxString => keyToString(s) = s
<1>1. CASE Len(s) < MaxString
  BY <1>1, StringAssumption DEF keyToString
<1>2. CASE Len(s) >= MaxString
  <2> DEFINE m == MaxString - 1
             u == SubSeq(s, 1, m)
  <2>1. m \in Nat /\ m <= Len(s) /\ m < MaxString /\ keyToString(s) = u
    BY <1>2, StringAssumption DEF keyToString
  <2> HIDE DEF m
  <2>2. u \in Seq(Byte) /\ Len(u) = m /\ \A i \in 1..m : u[i] = s[i]
    BY <2>1
  <2> QED
    BY <1>2, <2>1, <2>2, StringAssumption
<1> QED
  BY <1>1, <1>2, StringAssumption

(* The bytes of a string in its room end at the first zero, or with it.    *)
LEMMA LengthIs ==
  ASSUME NEW b \in [1..MaxString -> Byte]
  PROVE  /\ Length(b) \in 0..MaxString
         /\ \A i \in 1..Length(b) : b[i] # 0
         /\ Length(b) < MaxString => b[Length(b) + 1] = 0
<1> DEFINE Ends(n) == (\A i \in 1..n : b[i] # 0) /\ (n < MaxString => b[n + 1] = 0)
           Zeros == {n \in 0..MaxString : n < MaxString => b[n + 1] = 0}
<1>1. Zeros \in SUBSET Nat /\ MaxString \in Zeros
  BY StringAssumption
<1>2. PICK n \in Zeros : \A m \in Zeros : n <= m
  BY <1>1, LeastElement
<1>3. n \in 0..MaxString /\ Ends(n)
  <2>1. ASSUME NEW i \in 1..n, b[i] = 0 PROVE FALSE
    <3> DEFINE m == i - 1
    <3>1. m \in 0..MaxString /\ m + 1 = i /\ m < n /\ n \in 0..MaxString
      BY StringAssumption
    <3>2. m \in Zeros
      BY <2>1, <3>1
    <3> QED
      BY <1>2, <3>1, <3>2
  <2> QED
    BY <2>1
<1>4. Length(b) = CHOOSE m \in 0..MaxString : Ends(m)
  BY DEF Length
<1> HIDE DEF Ends
<1>5. Length(b) \in 0..MaxString /\ Ends(Length(b))
  BY <1>3, <1>4
<1> QED
  BY <1>5 DEF Ends

(* There is one such length.                                               *)
LEMMA LengthOnly ==
  ASSUME NEW b \in [1..MaxString -> Byte], NEW n \in 0..MaxString,
         \A i \in 1..n : b[i] # 0, n < MaxString => b[n + 1] = 0
  PROVE  Length(b) = n
<1> DEFINE m == Length(b)
<1>1. m \in 0..MaxString /\ (\A i \in 1..m : b[i] # 0) /\ (m < MaxString => b[m + 1] = 0)
  BY LengthIs
<1> HIDE DEF m
<1>2. ~(m < n)
  <2> SUFFICES ASSUME m < n PROVE FALSE
    OBVIOUS
  <2>1. m + 1 \in 1..n /\ m < MaxString
    BY <1>1, StringAssumption
  <2> QED
    BY <1>1, <2>1
<1>3. ~(n < m)
  <2> SUFFICES ASSUME n < m PROVE FALSE
    OBVIOUS
  <2>1. n + 1 \in 1..m /\ n < MaxString
    BY <1>1, StringAssumption
  <2> QED
    BY <1>1, <2>1
<1> QED
  BY <1>1, <1>2, <1>3 DEF m

(* What is read of the bytes of a string.                                  *)
LEMMA ReadBytes ==
  ASSUME NEW b \in [1..MaxString -> Byte]
  PROVE  /\ deserialized(b) \in Seq(Byte) /\ Len(deserialized(b)) = Length(b)
         /\ \A i \in 1..Length(b) : deserialized(b)[i] = b[i] /\ b[i] # 0
<1> DEFINE n == Length(b)
<1>1. n \in 0..MaxString /\ \A i \in 1..n : b[i] # 0
  BY LengthIs
<1>2. deserialized(b) = SubSeq(b, 1, n)
  BY DEF deserialized
<1> HIDE DEF n
<1>3. b \in Seq(Byte) /\ Len(b) = MaxString /\ n \in Nat /\ n <= Len(b)
  BY <1>1, StringAssumption
<1>4. /\ SubSeq(b, 1, n) \in Seq(Byte) /\ Len(SubSeq(b, 1, n)) = n
      /\ \A i \in 1..n : SubSeq(b, 1, n)[i] = b[i]
  BY <1>3
<1> QED
  BY <1>1, <1>2, <1>4 DEF n

(* A string that is read from its column has no zero bytes and is not      *)
(* longer than the room for it, and its key is the one that is read from   *)
(* the node, where there is room for a byte less; if it was such a string  *)
(* before, it is the same.                                                 *)
LEMMA ColumnBytes ==
  ASSUME NEW s \in Seq(Byte)
  PROVE  LET u == deserialized(Column(s))
         IN  /\ u \in Seq(Byte) /\ Len(u) <= MaxString /\ \A i \in 1..Len(u) : u[i] # 0
             /\ keyToString(u) = deserialized(serialized(keyToString(s)))
             /\ Len(s) <= MaxString /\ (\A i \in 1..Len(s) : s[i] # 0) => u = s
<1> DEFINE b == Column(s)
           key == keyToString(s)
           c == serialized(key)
           u == deserialized(b)
           v == deserialized(c)
           most == MaxString - 1
<1>0. most \in Nat /\ MaxString = most + 1 /\ 0 \in Byte /\ DOMAIN s = 1..Len(s) /\ Len(s) \in Nat
  BY StringAssumption, BaseAssumption DEF Byte
<1>1. b \in [1..MaxString -> Byte] /\ \A i \in 1..MaxString : b[i] = IF i \in DOMAIN s THEN s[i] ELSE 0
  BY <1>0 DEF Column
<1>2. /\ key \in Seq(Byte) /\ \A i \in 1..most : i \in DOMAIN key <=> i \in DOMAIN s
      /\ \A i \in DOMAIN key : key[i] = s[i]
  <2>1. CASE Len(s) < MaxString
    BY <2>1, <1>0 DEF keyToString
  <2>2. CASE Len(s) >= MaxString
    <3>1. key = SubSeq(s, 1, most) /\ most <= Len(s)
      BY <2>2, <1>0 DEF keyToString
    <3>2. /\ SubSeq(s, 1, most) \in Seq(Byte) /\ Len(SubSeq(s, 1, most)) = most
          /\ \A i \in 1..most : SubSeq(s, 1, most)[i] = s[i]
      BY <1>0, <3>1
    <3> HIDE DEF key, most
    <3> QED
      BY <1>0, <3>1, <3>2
  <2> QED
    BY <1>0, <2>1, <2>2
<1> HIDE DEF key, b, most
<1>3. /\ c \in [1..MaxString -> Byte] /\ c[MaxString] = 0
      /\ \A i \in 1..most : c[i] = b[i]
  <2>1. \A i \in DOMAIN key : key[i] \in Byte
    BY <1>2
  <2>2. /\ c \in [1..MaxString -> Byte]
        /\ \A i \in 1..MaxString : c[i] = IF i \in DOMAIN key /\ i < MaxString THEN key[i] ELSE 0
    BY <1>0, <2>1 DEF serialized
  <2> HIDE DEF c
  <2> QED
    BY <1>0, <1>1, <1>2, <2>2
<1> HIDE DEF c
<1> DEFINE n == Length(b)
<1>4. n \in 0..MaxString /\ (\A i \in 1..n : b[i] # 0) /\ (n < MaxString => b[n + 1] = 0)
  BY <1>1, LengthIs
<1>5. u \in Seq(Byte) /\ Len(u) = n /\ \A i \in 1..n : u[i] = b[i] /\ b[i] # 0
  BY <1>1, ReadBytes
<1>6. v \in Seq(Byte) /\ Len(v) = Length(c) /\ \A i \in 1..Length(c) : v[i] = c[i]
  BY <1>3, ReadBytes
<1> HIDE DEF n, u, v
<1>7. keyToString(u) = v
  <2>1. CASE n < MaxString
    <3>1. c[n + 1] = 0 /\ \A i \in 1..n : c[i] # 0
      <4>1. n + 1 = MaxString \/ n + 1 \in 1..most
        BY <1>0, <1>4, <2>1
      <4>2. \A i \in 1..n : i \in 1..most
        BY <1>0, <1>4, <2>1
      <4> QED
        BY <1>3, <1>4, <2>1, <4>1, <4>2
    <3>2. Length(c) = n
      BY <1>3, <1>4, <3>1, LengthOnly
    <3>3. \A i \in 1..n : v[i] = u[i]
      <4>1. \A i \in 1..n : i \in 1..most
        BY <1>0, <1>4, <2>1
      <4> QED
        BY <1>3, <1>5, <1>6, <3>2, <4>1
    <3>4. v = u
      BY <1>5, <1>6, <3>2, <3>3, SeqEqual
    <3> QED
      BY <1>5, <2>1, <3>4, StringKeys
  <2>2. CASE n = MaxString
    <3>1. most \in 0..MaxString /\ (\A i \in 1..most : c[i] # 0) /\ c[most + 1] = 0
      BY <1>0, <1>3, <1>4, <2>2
    <3>2. Length(c) = most
      BY <1>3, <3>1, LengthOnly
    <3>3. keyToString(u) = SubSeq(u, 1, most)
      BY <1>5, <2>2, StringAssumption DEF keyToString, most
    <3>4. /\ SubSeq(u, 1, most) \in Seq(Byte) /\ Len(SubSeq(u, 1, most)) = most
          /\ \A i \in 1..most : SubSeq(u, 1, most)[i] = u[i]
      BY <1>0, <1>5, <2>2
    <3>5. \A i \in 1..most : SubSeq(u, 1, most)[i] = v[i]
      BY <1>0, <1>3, <1>5, <1>6, <2>2, <3>2, <3>4
    <3> QED
      BY <1>6, <3>2, <3>3, <3>4, <3>5, SeqEqual
  <2> QED
    BY <1>0, <1>4, <2>1, <2>2
<1>8. ASSUME Len(s) <= MaxString, \A i \in 1..Len(s) : s[i] # 0 PROVE u = s
  <2>1. /\ Len(s) \in 0..MaxString /\ \A i \in 1..Len(s) : b[i] = s[i] /\ b[i] # 0
        /\ Len(s) < MaxString => b[Len(s) + 1] = 0
    BY <1>0, <1>1, <1>8
  <2>2. n = Len(s)
    BY <1>1, <2>1, LengthOnly DEF n
  <2>3. \A i \in 1..Len(s) : u[i] = s[i]
    BY <1>5, <2>1, <2>2
  <2> QED
    BY <1>5, <2>2, <2>3, SeqEqual
<1>9. Len(u) <= MaxString /\ \A i \in 1..Len(u) : u[i] # 0
  BY <1>0, <1>4, <1>5
<1> QED
  BY <1>5, <1>7, <1>8, <1>9 DEF u, v, b, c, key

(* A key of a string without zero bytes is read from a node as it was.     *)
LEMMA StringBack ==
  ASSUME NEW s \in Seq(Byte), \A i \in 1..Len(s) : s[i] # 0
  PROVE  deserialized(serialized(keyToString(s))) = keyToString(s)
<1> DEFINE key == keyToString(s)
           bytes == serialized(key)
<1>1. key \in Seq(Byte) /\ Len(key) < MaxString /\ \A i \in 1..Len(key) : key[i] # 0
  BY StringKeys
<1> HIDE DEF key
<1>2. /\ \A i \in 1..Len(key) : bytes[i] = key[i]
      /\ Len(key) + 1 \in 1..MaxString /\ bytes[Len(key) + 1] = 0
  BY <1>1, StringAssumption DEF serialized
<1>3. bytes \in Seq(Byte) /\ Len(bytes) = MaxString
  <2>1. 0 \in Byte /\ \A i \in DOMAIN key : key[i] \in Byte
    BY <1>1, BaseAssumption DEF Byte
  <2>2. bytes \in [1..MaxString -> Byte]
    BY <2>1 DEF serialized
  <2> QED
    BY <2>2, StringAssumption
<1> HIDE DEF bytes
<1>4. Length(bytes) = Len(key)
  <2>1. bytes \in [1..MaxString -> Byte] /\ Len(key) \in 0..MaxString
    BY <1>1, <1>3, StringAssumption
  <2>2. \A i \in 1..Len(key) : bytes[i] # 0
    BY <1>1, <1>2
  <2> QED
    BY <1>2, <2>1, <2>2, LengthOnly
<1>5. SubSeq(bytes, 1, Len(key)) = key
  <2> DEFINE n == Len(key)
             u == SubSeq(bytes, 1, n)
  <2>1. n \in Nat /\ n <= Len(bytes)
    BY <1>1, <1>3, StringAssumption
  <2>2. u \in Seq(Byte) /\ Len(u) = n /\ \A i \in 1..n : u[i] = key[i]
    BY <1>2, <1>3, <2>1
  <2> HIDE DEF u
  <2>3. u = key
    BY <1>1, <2>2, SeqEqual
  <2> QED
    BY <2>3 DEF u
<1> QED
  BY <1>4, <1>5 DEF deserialized, bytes, key

(* The order of keys is a strict one, and total.                           *)
LEMMA BeforeIrreflexive == ASSUME NEW s \in Seq(Byte) PROVE ~Before(s, s)
BY BaseAssumption DEF Before, Byte

(* The order of byte strings is transitive.                                *)
LEMMA BeforeTransitive ==
  ASSUME NEW s \in Seq(Byte), NEW t \in Seq(Byte), NEW u \in Seq(Byte),
         Before(s, t), Before(t, u)
  PROVE  Before(s, u)
<1>0. /\ Len(s) \in Nat /\ Len(t) \in Nat /\ Len(u) \in Nat
      /\ \A i \in 1..Len(s) : s[i] \in Nat
      /\ \A i \in 1..Len(t) : t[i] \in Nat
      /\ \A i \in 1..Len(u) : u[i] \in Nat
  BY BaseAssumption DEF Byte
<1>1. PICK i \in 1..Len(t) : /\ i <= Len(s) + 1
                             /\ \A j \in 1..(i - 1) : s[j] = t[j]
                             /\ i <= Len(s) => s[i] < t[i]
  BY DEF Before
<1>2. PICK k \in 1..Len(u) : /\ k <= Len(t) + 1
                             /\ \A j \in 1..(k - 1) : t[j] = u[j]
                             /\ k <= Len(t) => t[k] < u[k]
  BY DEF Before
<1> DEFINE m == IF i < k THEN i ELSE k
<1>3. m \in 1..Len(u) /\ m <= i /\ m <= k /\ m <= Len(s) + 1
  BY <1>0, <1>1, <1>2
<1>4. \A j \in 1..(m - 1) : s[j] = u[j]
  BY <1>0, <1>1, <1>2, <1>3
<1>5. m <= Len(s) => s[m] < u[m]
  <2> SUFFICES ASSUME m <= Len(s) PROVE s[m] < u[m]
    OBVIOUS
  <2>1. m \in 1..Len(s) /\ m \in 1..Len(t) /\ m \in 1..Len(u)
    BY <1>0, <1>1, <1>2, <1>3
  <2>2. CASE i < k
    <3>1. m = i /\ i \in 1..(k - 1)
      BY <1>0, <1>1, <1>2, <2>2
    <3> QED
      BY <1>0, <1>1, <1>2, <2>1, <3>1
  <2>3. CASE i = k
    <3>1. m = i /\ m = k
      BY <2>3
    <3>2. s[m] < t[m] /\ t[m] < u[m]
      BY <1>0, <1>1, <1>2, <2>1, <3>1
    <3> HIDE DEF m
    <3> QED
      BY <1>0, <2>1, <3>2
  <2>4. CASE k < i
    <3>1. m = k /\ k \in 1..(i - 1)
      BY <1>0, <1>1, <1>2, <2>4
    <3>2. s[m] = t[m] /\ t[m] < u[m]
      BY <1>0, <1>1, <1>2, <2>1, <3>1
    <3> QED
      BY <3>2
  <2> QED
    BY <1>1, <1>2, <2>2, <2>3, <2>4
<1> HIDE DEF m
<1> QED
  BY <1>3, <1>4, <1>5 DEF Before

(* Of two different byte strings one is before the other.                  *)
LEMMA BeforeTotal ==
  ASSUME NEW s \in Seq(Byte), NEW t \in Seq(Byte), s # t
  PROVE  Before(s, t) \/ Before(t, s)
<1>0. /\ Len(s) \in Nat /\ Len(t) \in Nat
      /\ \A i \in 1..Len(s) : s[i] \in Nat
      /\ \A i \in 1..Len(t) : t[i] \in Nat
  BY BaseAssumption DEF Byte
<1> DEFINE Differ(i) == \/ i <= Len(s) /\ i <= Len(t) /\ s[i] # t[i]
                        \/ i = Len(s) + 1 /\ i <= Len(t)
                        \/ i = Len(t) + 1 /\ i <= Len(s)
           D == {i \in Nat \ {0} : Differ(i)}
<1>1. D \in SUBSET Nat /\ D # {}
  <2>1. CASE Len(s) < Len(t)
    <3>1. Len(s) + 1 \in D
      BY <1>0, <2>1
    <3> QED
      BY <3>1
  <2>2. CASE Len(t) < Len(s)
    <3>1. Len(t) + 1 \in D
      BY <1>0, <2>2
    <3> QED
      BY <3>1
  <2>3. CASE Len(s) = Len(t)
    <3>1. PICK i \in 1..Len(s) : s[i] # t[i]
      BY <2>3, SeqEqual
    <3>2. i \in D
      BY <1>0, <2>3, <3>1
    <3> QED
      BY <3>2
  <2> QED
    BY <1>0, <2>1, <2>2, <2>3
<1> HIDE DEF D
<1>2. PICK i \in D : \A j \in D : i <= j
  BY <1>1, LeastElement
<1> USE DEF D
<1>3. i \in Nat \ {0} /\ i <= Len(s) + 1 /\ i <= Len(t) + 1 /\ Differ(i)
  BY <1>0, <1>2
<1>4. \A j \in 1..(i - 1) : s[j] = t[j] /\ t[j] = s[j]
  BY <1>0, <1>2, <1>3, SMTT(30)
<1>5. CASE i <= Len(s) /\ i <= Len(t)
  <2>1. s[i] \in Nat /\ t[i] \in Nat /\ i \in 1..Len(s) /\ i \in 1..Len(t) /\ s[i] # t[i]
    BY <1>0, <1>3, <1>5
  <2>2. s[i] < t[i] \/ t[i] < s[i]
    BY <2>1
  <2> QED
    BY <1>3, <1>4, <2>1, <2>2 DEF Before
<1>6. CASE ~(i <= Len(s))
  <2>1. i \in 1..Len(t)
    BY <1>0, <1>3, <1>6
  <2> QED
    BY <1>3, <1>4, <1>6, <2>1 DEF Before
<1>7. CASE ~(i <= Len(t))
  <2>1. i \in 1..Len(s)
    BY <1>0, <1>3, <1>7
  <2> QED
    BY <1>3, <1>4, <1>7, <2>1 DEF Before
<1> QED
  BY <1>5, <1>6, <1>7

-----------------------------------------------------------------------------
(***************************************************************************)
(* A session: values, rows, tables, and what the queries answer.           *)
(***************************************************************************)

(* A value is a number or a string of bytes.                               *)
LEMMA ValueForms ==
  ASSUME NEW v \in Value
  PROVE  \/ TypeOf(v) = "INT" /\ v.int \in Int /\ v = Number(v.int)
         \/ TypeOf(v) = "STR" /\ v.str \in Seq(Byte) /\ v = Literal(v.str)
BY DEF Value, TypeOf, Number, Literal

(* Numbers and strings are values.                                         *)
LEMMA FormsOfValues ==
  /\ \A k \in Int : Number(k) \in Value /\ TypeOf(Number(k)) = "INT" /\ Number(k).int = k
  /\ \A s \in Seq(Byte) : Literal(s) \in Value /\ TypeOf(Literal(s)) = "STR" /\ Literal(s).str = s
BY DEF Value, TypeOf, Number, Literal

(* Zeros are values.                                                       *)
LEMMA ZeroForms ==
  ASSUME NEW type
  PROVE  Zero(type) \in Value /\ (type \in {"INT", "STR"} => TypeOf(Zero(type)) = type)
<1>1. <<>> \in Seq(Byte)
  OBVIOUS
<1>2. CASE type = "INT"
  <2>1. Zero(type) = Number(0)
    BY <1>2 DEF Zero
  <2> QED
    BY <1>2, <2>1, FormsOfValues
<1>3. CASE type # "INT"
  <2>1. Zero(type) = Literal(<<>>)
    BY <1>3 DEF Zero
  <2> QED
    BY <1>1, <1>3, <2>1, FormsOfValues
<1> QED
  BY <1>2, <1>3

-----------------------------------------------------------------------------
(* What the parser hands over: the values of a command are values.         *)
TypedCommand(c) ==
  /\ c.do = "INSERT_ROW" => \A n \in DOMAIN c.values : c.values[n] \in Value
  /\ c.do = "UPDATE_ROW" => \A n \in DOMAIN c.set : c.set[n] \in Value
  /\ c.do \in {"UPDATE_ROW", "DELETE_ROW"} => c.where.value \in Value
  /\ c.do = "SELECT" =>
       /\ c.where.kind = "point" => c.where.value \in Value
       /\ c.where.kind = "range" => c.where.val_low \in Value /\ c.where.val_high \in Value

(* A token that is taken for a value is one.                               *)
LEMMA ValueTokens == ASSUME NEW t \in Token, IsValue(t) PROVE t \in Value
BY DEF Token, IsValue

(* A block is a sequence of parts.                                         *)
LEMMA BlockParts ==
  ASSUME NEW q \in Seq(Item), NEW i \in 1..Len(q), IsBlock(q[i])
  PROVE  q[i].block \in Seq(Seq(Token))
<1>1. q[i] \in Item
  OBVIOUS
<1> QED
  BY <1>1 DEF Item, IsBlock

(* The values of an insert or an update.                                   *)
LEMMA PairsTyped ==
  ASSUME NEW parts \in Seq(Seq(Token)), ArePairs(parts), NEW n \in DOMAIN parse_value_pairs(parts)
  PROVE  parse_value_pairs(parts)[n] \in Value
<1> DEFINE given == {i \in DOMAIN parts : parts[i] # <<>>}
           of(m) == {i \in given : parts[i][1].word = m}
           Latest(m, i) == /\ parts[i][1].word = m
                         /\ \A j \in given : parts[j][1].word = m => j <= i
           last(m) == CHOOSE i \in given : Latest(m, i)
<1>1. /\ n \in {parts[i][1].word : i \in given}
      /\ parse_value_pairs(parts)[n] = parts[last(n)][3]
  BY DEF parse_value_pairs
<1>2. \E i \in given : Latest(n, i)
  <2>1. DOMAIN parts = 1..Len(parts) /\ Len(parts) \in Nat
    OBVIOUS
  <2>2. \A i \in of(n) : i \in 1..Len(parts)
    BY <2>1
  <2>3. of(n) # {}
    BY <1>1
  <2> HIDE DEF of
  <2>4. of(n) \in SUBSET Nat /\ \A i \in of(n) : i <= Len(parts)
    BY <2>1, <2>2
  <2>5. PICK i \in of(n) : \A j \in of(n) : j <= i
    BY <2>1, <2>3, <2>4, GreatestElement
  <2> QED
    BY <2>5 DEF of
<1>3. last(n) \in given
  BY <1>2
<1> HIDE DEF last
<1> DEFINE p == parts[last(n)]
<1>4. p \in Range(parts) \ {<<>>} /\ p \in Seq(Token)
  BY <1>3 DEF Range
<1>5. Len(p) >= 3 /\ IsValue(p[3])
  BY <1>4 DEF ArePairs
<1>6. p[3] \in Token
  BY <1>4, <1>5
<1> QED
  BY <1>1, <1>5, <1>6, ValueTokens

(* The value of a clause that names one.                                   *)
LEMMA PointTyped ==
  ASSUME NEW parts \in Seq(Seq(Token)), IsPoint(parts)
  PROVE  Predicate(parts[1]).value \in Value /\ Predicate(parts[1]).kind = "point"
<1>1. parts[1] \in Seq(Token) /\ Len(parts[1]) = 3 /\ IsValue(parts[1][3])
  BY DEF IsPoint, IsPredicate
<1>2. parts[1][3] \in Token
  BY <1>1
<1> QED
  BY <1>1, <1>2, ValueTokens DEF Predicate

(* The values of a clause that names two.                                  *)
LEMMA RangeTyped ==
  ASSUME NEW parts \in Seq(Seq(Token)), IsRange(parts)
  PROVE  /\ RangePredicate(parts[1]).kind = "range"
         /\ RangePredicate(parts[1]).val_low \in Value
         /\ RangePredicate(parts[1]).val_high \in Value
<1>0. Len(parts) = 1 /\ IsRangePredicate(parts[1])
  BY DEF IsRange
<1>1. /\ parts[1] \in Seq(Token) /\ Len(parts[1]) >= 7
      /\ IsValue(parts[1][3]) /\ IsValue(parts[1][7])
  <2>1. 1 \in 1..Len(parts)
    BY <1>0
  <2>2. parts[1] \in Seq(Token)
    BY <2>1
  <2>3. Len(parts[1]) >= 7 /\ IsValue(parts[1][3]) /\ IsValue(parts[1][7])
    BY <1>0, Zenon DEF IsRangePredicate
  <2> QED
    BY <2>2, <2>3
<1>2. parts[1][3] \in Token /\ parts[1][7] \in Token
  BY <1>1
<1> QED
  BY <1>1, <1>2, ValueTokens DEF RangePredicate

(* Each statement is parsed by the function for its first word.            *)
LEMMA ParsedBy ==
  ASSUME NEW q
  PROVE  parse(q) \in {Rejected, parse_create_db(q), parse_create_table(q), parse_insert_row(q),
                       parse_select(q), parse_delete_row(q), parse_update_row(q)}
<1>1. ASSUME NEW a, NEW b, W(a) = W(b) PROVE a = b
  <2>1. W(a).word = a /\ W(b).word = b
    BY DEF W
  <2> QED
    BY <1>1, <2>1
<1> DEFINE first(w) == q # <<>> /\ q[1] = W(w)
<1>2. \A a, b \in {"CREATE_DB", "CREATE_TABLE", "INSERT_ROW", "SELECT", "DELETE_ROW", "UPDATE_ROW"} :
        first(a) /\ first(b) => a = b
  BY <1>1
<1> QED
  BY <1>2 DEF parse

(* The parts of a statement of seven items, and of one of eight.           *)
LEMMA Shapes ==
  ASSUME NEW a, NEW b, NEW c, NEW d, NEW e, NEW f, NEW g, NEW h
  PROVE  /\ Len(<<a, b, c, d, e, f, g>>) = 7 /\ 7 \in DOMAIN <<a, b, c, d, e, f, g>>
         /\ <<a, b, c, d, e, f, g>>[7] = g
         /\ Len(<<a, b, c, d, e, f, g, h>>) = 8
         /\ 6 \in DOMAIN <<a, b, c, d, e, f, g, h>> /\ 8 \in DOMAIN <<a, b, c, d, e, f, g, h>>
         /\ <<a, b, c, d, e, f, g, h>>[6] = f /\ <<a, b, c, d, e, f, g, h>>[8] = h
OBVIOUS

(* What is not behind the end of a statement is in it.                     *)
LEMMA PositionThere ==
  ASSUME NEW q \in Seq(Item)
  PROVE  /\ Len(q) >= 7 => 7 \in 1..Len(q)
         /\ Len(q) >= 8 => 6 \in 1..Len(q) /\ 8 \in 1..Len(q)
OBVIOUS

(* Where a statement has a block there is one.                             *)
LEMMA BlockThere ==
  ASSUME NEW q, NEW shape, Fits(q, shape)
  PROVE  /\ Len(q) >= Len(shape)
         /\ \A i \in DOMAIN shape : shape[i] = Braces => IsBlock(q[i])
BY Zenon DEF Fits

(* The commands of the queries have values where they should.              *)
LEMMA ParsedTyped == ASSUME NEW q \in Seq(Item) PROVE TypedCommand(parse(q))
<1>1. TypedCommand(Rejected)
  BY DEF TypedCommand, Rejected
<1>2. TypedCommand(parse_create_db(q))
  BY <1>1 DEF TypedCommand, parse_create_db
<1>3. TypedCommand(parse_create_table(q))
  BY <1>1 DEF TypedCommand, parse_create_table
<1>4. TypedCommand(parse_insert_row(q))
  <2> SUFFICES ASSUME Fits(q, <<"INSERT_ROW", "INTO", Braces, "IN", Braces, "VALUES", Braces>>),
                      ArePairs(q[7].block)
               PROVE  TypedCommand([do |-> "INSERT_ROW", table |-> Text(q[3].block),
                                    db |-> Text(q[5].block),
                                    values |-> parse_value_pairs(q[7].block)])
    BY <1>1 DEF parse_insert_row
  <2>1. 7 \in 1..Len(q) /\ IsBlock(q[7])
    <3> DEFINE shape == <<"INSERT_ROW", "INTO", Braces, "IN", Braces, "VALUES", Braces>>
    <3>1. Len(shape) = 7 /\ 7 \in DOMAIN shape /\ shape[7] = Braces
      BY Shapes, Zenon
    <3>2. Fits(q, shape)
      BY Zenon
    <3> HIDE DEF shape
    <3>3. Len(q) >= 7 /\ IsBlock(q[7])
      BY <3>1, <3>2, BlockThere, Zenon
    <3> QED
      BY <3>3, PositionThere, Zenon
  <2>2. \A n \in DOMAIN parse_value_pairs(q[7].block) :
          parse_value_pairs(q[7].block)[n] \in Value
    BY <2>1, BlockParts, PairsTyped
  <2> QED
    BY <2>2 DEF TypedCommand
<1>5. TypedCommand(parse_select(q))
  <2> DEFINE command(where) ==
        [do |-> "SELECT", columns |-> parse_col_list(q[2].block),
         table |-> Text(q[4].block), db |-> Text(q[6].block), where |-> where]
  <2>1. TypedCommand(command(Everything))
    BY DEF TypedCommand, Everything
  <2>2. ASSUME IsBlock(q[8]), 8 \in 1..Len(q), IsPoint(q[8].block)
        PROVE  TypedCommand(command(Predicate(q[8].block[1])))
    <3>1. /\ Predicate(q[8].block[1]).value \in Value
          /\ Predicate(q[8].block[1]).kind = "point"
      BY <2>2, BlockParts, PointTyped
    <3> QED
      BY <3>1 DEF TypedCommand
  <2>3. ASSUME IsBlock(q[8]), 8 \in 1..Len(q), IsRange(q[8].block)
        PROVE  TypedCommand(command(RangePredicate(q[8].block[1])))
    <3>1. /\ RangePredicate(q[8].block[1]).kind = "range"
          /\ RangePredicate(q[8].block[1]).val_low \in Value
          /\ RangePredicate(q[8].block[1]).val_high \in Value
      BY <2>3, BlockParts, RangeTyped
    <3> QED
      BY <3>1 DEF TypedCommand
  <2>4. Continues(q, 7, "WHERE_INDEX_IS") => IsBlock(q[8]) /\ 8 \in 1..Len(q)
    BY DEF Continues
  <2> QED
    BY <1>1, <2>1, <2>2, <2>3, <2>4 DEF parse_select
<1>6. TypedCommand(parse_delete_row(q))
  <2> SUFFICES ASSUME Fits(q, <<"DELETE_ROW", "FROM", Braces, "IN", Braces, "WHERE_INDEX_IS", Braces>>),
                      IsPoint(q[7].block)
               PROVE  TypedCommand([do |-> "DELETE_ROW", table |-> Text(q[3].block),
                                    db |-> Text(q[5].block),
                                    where |-> Predicate(q[7].block[1])])
    BY <1>1 DEF parse_delete_row
  <2>1. 7 \in 1..Len(q) /\ IsBlock(q[7])
    <3> DEFINE shape == <<"DELETE_ROW", "FROM", Braces, "IN", Braces, "WHERE_INDEX_IS", Braces>>
    <3>1. Len(shape) = 7 /\ 7 \in DOMAIN shape /\ shape[7] = Braces
      BY Shapes, Zenon
    <3>2. Fits(q, shape)
      BY Zenon
    <3> HIDE DEF shape
    <3>3. Len(q) >= 7 /\ IsBlock(q[7])
      BY <3>1, <3>2, BlockThere, Zenon
    <3> QED
      BY <3>3, PositionThere, Zenon
  <2>2. Predicate(q[7].block[1]).value \in Value
    BY <2>1, BlockParts, PointTyped
  <2> QED
    BY <2>2 DEF TypedCommand
<1>7. TypedCommand(parse_update_row(q))
  <2> SUFFICES ASSUME Fits(q, <<"UPDATE_ROW", Braces, "IN", Braces, "SET", Braces, "WHERE_INDEX_IS", Braces>>),
                      ArePairs(q[6].block), IsPoint(q[8].block)
               PROVE  TypedCommand([do |-> "UPDATE_ROW", table |-> Text(q[2].block),
                                    db |-> Text(q[4].block),
                                    set |-> parse_value_pairs(q[6].block),
                                    where |-> Predicate(q[8].block[1])])
    BY <1>1 DEF parse_update_row
  <2>1. 6 \in 1..Len(q) /\ IsBlock(q[6]) /\ 8 \in 1..Len(q) /\ IsBlock(q[8])
    <3> DEFINE shape == <<"UPDATE_ROW", Braces, "IN", Braces, "SET", Braces, "WHERE_INDEX_IS", Braces>>
    <3>1. Len(shape) = 8 /\ 6 \in DOMAIN shape /\ shape[6] = Braces /\ 8 \in DOMAIN shape /\ shape[8] = Braces
      BY Shapes, Zenon
    <3>2. Fits(q, shape)
      BY Zenon
    <3> HIDE DEF shape
    <3>3. Len(q) >= 8 /\ IsBlock(q[6]) /\ IsBlock(q[8])
      BY <3>1, <3>2, BlockThere, Zenon
    <3> QED
      BY <3>3, PositionThere, Zenon
  <2>2. Predicate(q[8].block[1]).value \in Value
    BY <2>1, BlockParts, PointTyped
  <2>3. \A n \in DOMAIN parse_value_pairs(q[6].block) :
          parse_value_pairs(q[6].block)[n] \in Value
    BY <2>1, BlockParts, PairsTyped
  <2> QED
    BY <2>2, <2>3 DEF TypedCommand
<1> QED
  BY <1>1, <1>2, <1>3, <1>4, <1>5, <1>6, <1>7, ParsedBy

(* The command of each query that is asked.                                *)
LEMMA CommandsTyped ==
  ASSUME NEW q \in Queries
  PROVE  Command[q] = parse(q) /\ TypedCommand(Command[q])
BY ParsedTyped, QueriesAssumption DEF Command

-----------------------------------------------------------------------------
(* What is in a column: its zero, or a value of its type, not longer than  *)
(* the room for it and without zero bytes.                                 *)
Holds(type, v) ==
  /\ v \in Value
  /\ v = Zero(type) \/ TypeOf(v) = type
  /\ TypeOf(v) = "STR" => Len(v.str) <= MaxString /\ \A i \in 1..Len(v.str) : v.str[i] # 0

IsRow(columns, row) ==
  /\ row \in [Names(columns) -> Value]
  /\ \A n \in Names(columns) : Holds(Type(columns, n), row[n])

\* What is read of a value that was written.
ReadOf(v) == IF TypeOf(v) = "STR" THEN Literal(deserialized(Column(v.str))) ELSE v

(* Numbers and strings are different.                                      *)
LEMMA StringsDiffer ==
  ASSUME NEW s, NEW t, Literal(s) = Literal(t)
  PROVE  s = t
<1>1. Literal(s).str = s /\ Literal(t).str = t
  BY DEF Literal
<1> QED
  BY <1>1

(* Zeros are in their columns.                                             *)
LEMMA ZeroHolds == ASSUME NEW type PROVE Holds(type, Zero(type))
<1>1. Zero(type) \in Value
  BY ZeroForms
<1>2. TypeOf(Zero(type)) = "STR" =>
        /\ Len(Zero(type).str) <= MaxString
        /\ \A i \in 1..Len(Zero(type).str) : Zero(type).str[i] # 0
  <2>1. CASE type = "INT"
    BY <2>1, FormsOfValues DEF Zero
  <2>2. CASE type # "INT"
    <3>1. <<>> \in Seq(Byte) /\ Len(<<>>) = 0
      OBVIOUS
    <3>2. Zero(type).str = <<>>
      BY <2>2, <3>1, FormsOfValues DEF Zero
    <3> QED
      BY <3>1, <3>2, StringAssumption
  <2> QED
    BY <2>1, <2>2
<1> QED
  BY <1>1, <1>2 DEF Holds

(* A value that is read from its column has the key that is in the index.  *)
LEMMA ReadHolds ==
  ASSUME NEW v \in Value
  PROVE  /\ Holds(TypeOf(v), ReadOf(v)) /\ TypeOf(ReadOf(v)) = TypeOf(v)
         /\ KeyOf(ReadOf(v)) = InNode(v)
<1>1. CASE TypeOf(v) = "STR"
  <2> DEFINE u == deserialized(Column(v.str))
  <2>1. v.str \in Seq(Byte) /\ ReadOf(v) = Literal(u)
    BY <1>1, ValueForms DEF ReadOf
  <2>2. /\ u \in Seq(Byte) /\ Len(u) <= MaxString /\ \A i \in 1..Len(u) : u[i] # 0
        /\ keyToString(u) = deserialized(serialized(keyToString(v.str)))
    BY <2>1, ColumnBytes
  <2> HIDE DEF u
  <2>3. ReadOf(v) \in Value /\ TypeOf(ReadOf(v)) = "STR" /\ ReadOf(v).str = u
    BY <2>1, <2>2, FormsOfValues
  <2>4. Holds(TypeOf(v), ReadOf(v))
    BY <1>1, <2>2, <2>3 DEF Holds
  <2>5. KeyOf(ReadOf(v)) = InNode(v)
    BY <1>1, <2>2, <2>3 DEF KeyOf, InNode
  <2> QED
    BY <1>1, <2>3, <2>4, <2>5
<1>2. CASE TypeOf(v) = "INT"
  BY <1>2 DEF ReadOf, Holds, InNode
<1> QED
  BY <1>1, <1>2, ValueForms

(* A row that is written is one that can be read.                          *)
LEMMA StoredRow ==
  ASSUME NEW columns, NEW values, \A n \in DOMAIN values : values[n] \in Value
  PROVE  /\ IsRow(columns, Stored(columns, values))
         /\ \A n \in Names(columns) :
              Stored(columns, values)[n] =
                IF n \in DOMAIN values /\ TypeOf(values[n]) = Type(columns, n)
                  THEN ReadOf(values[n]) ELSE Zero(Type(columns, n))
<1> DEFINE row == Stored(columns, values)
           fits(n) == n \in DOMAIN values /\ TypeOf(values[n]) = Type(columns, n)
<1>1. row = [n \in Names(columns) |->
               IF fits(n) THEN ReadOf(values[n]) ELSE Zero(Type(columns, n))]
  BY DEF Stored, ReadOf
<1> HIDE DEF row
<1>2. ASSUME NEW n \in Names(columns) PROVE Holds(Type(columns, n), row[n])
  <2>1. CASE fits(n)
    <3>1. row[n] = ReadOf(values[n])
      BY <1>1, <2>1
    <3> QED
      BY <2>1, <3>1, ReadHolds
  <2>2. CASE ~fits(n)
    <3>1. row[n] = Zero(Type(columns, n))
      BY <1>1, <2>2
    <3> QED
      BY <3>1, ZeroHolds
  <2> QED
    BY <2>1, <2>2
<1>3. IsRow(columns, row)
  <2>1. \A n \in Names(columns) : row[n] \in Value
    BY <1>2 DEF Holds
  <2>2. row = [n \in Names(columns) |-> row[n]]
    BY <1>1
  <2> QED
    BY <1>2, <2>1, <2>2 DEF IsRow
<1> QED
  BY <1>1, <1>3 DEF row

(* What was in a row comes back when it is written again.                  *)
LEMMA StoredAgain ==
  ASSUME NEW columns, NEW row, IsRow(columns, row), NEW values,
         \A n \in DOMAIN values : values[n] \in Value,
         NEW n \in Names(columns), n \in DOMAIN values, values[n] = row[n]
  PROVE  Stored(columns, values)[n] = row[n]
<1>1. Stored(columns, values)[n] =
        IF TypeOf(row[n]) = Type(columns, n) THEN ReadOf(row[n]) ELSE Zero(Type(columns, n))
  BY StoredRow
<1>2. Holds(Type(columns, n), row[n])
  BY DEF IsRow
<1>3. ReadOf(row[n]) = row[n]
  <2>1. CASE TypeOf(row[n]) = "STR"
    <3> DEFINE s == row[n].str
    <3>1. /\ row[n] = Literal(s) /\ s \in Seq(Byte)
          /\ Len(s) <= MaxString /\ \A i \in 1..Len(s) : s[i] # 0
      BY <1>2, <2>1, ValueForms DEF Holds
    <3>2. deserialized(Column(s)) = s
      BY <3>1, ColumnBytes
    <3> QED
      BY <2>1, <3>1, <3>2 DEF ReadOf
  <2>2. CASE TypeOf(row[n]) # "STR"
    BY <2>2 DEF ReadOf
  <2> QED
    BY <2>1, <2>2
<1> QED
  BY <1>1, <1>2, <1>3 DEF Holds

(* A row that is wiped.                                                    *)
LEMMA BlankRow ==
  ASSUME NEW columns
  PROVE  /\ IsRow(columns, Blank(columns))
         /\ \A n \in Names(columns) : Blank(columns)[n] = Zero(Type(columns, n))
<1>1. \A n \in Names(columns) : Zero(Type(columns, n)) \in Value
  BY ZeroHolds DEF Holds
<1>2. Blank(columns) \in [Names(columns) -> Value]
  BY <1>1 DEF Blank
<1>3. \A n \in Names(columns) : Blank(columns)[n] = Zero(Type(columns, n))
  BY DEF Blank
<1> QED
  BY <1>2, <1>3, ZeroHolds DEF IsRow

-----------------------------------------------------------------------------
(* A data file and its index. An entry leads to a row with a key, the one  *)
(* it was made for; no two are for one key; every row that has a key has   *)
(* one, and what has none is zero.                                         *)
Leads(columns, index, rows, keyed, e) ==
  /\ e = <<e[1], e[2]>>
  /\ e[2] \in DOMAIN rows /\ e[2] \in keyed
  /\ TypeOf(rows[e[2]][index]) = Type(columns, index)
  /\ e[1] = KeyOf(rows[e[2]][index])

Good(columns, index, rows, entries, keyed) ==
  /\ index \in Names(columns)
  /\ rows \in Seq([Names(columns) -> Value])
  /\ \A i \in DOMAIN rows : IsRow(columns, rows[i])
  /\ IsFiniteSet(entries)
  /\ \A e \in entries : Leads(columns, index, rows, keyed, e)
  /\ \A d, e \in entries : d[1] = e[1] => d = e
  /\ keyed \subseteq DOMAIN rows
  /\ \A i \in keyed : <<KeyOf(rows[i][index]), i>> \in entries
  /\ \A i \in DOMAIN rows \ keyed : rows[i][index] = Zero(Type(columns, index))

(* A new table is good.                                                    *)
LEMMA GoodEmpty ==
  ASSUME NEW columns, NEW index \in Names(columns)
  PROVE  Good(columns, index, <<>>, {}, {})
<1>1. IsFiniteSet({})
  BY FS_EmptySet
<1>2. <<>> \in Seq([Names(columns) -> Value]) /\ DOMAIN <<>> = {}
  OBVIOUS
<1> QED
  BY <1>1, <1>2 DEF Good

(* A table stays good when a row is added with an entry for a key that no  *)
(* entry had.                                                              *)
LEMMA GoodInserted ==
  ASSUME NEW columns, NEW index, NEW rows, NEW entries, NEW slots,
         Good(columns, index, rows, entries, slots),
         NEW values, \A n \in DOMAIN values : values[n] \in Value,
         NEW keyed, keyed <=> index \in DOMAIN values /\ TypeOf(values[index]) = Type(columns, index),
         keyed => \A e \in entries : e[1] # InNode(values[index])
  PROVE  Good(columns, index, Append(rows, Stored(columns, values)),
              IF keyed THEN entries \cup {<<InNode(values[index]), Len(rows) + 1>>} ELSE entries,
              IF keyed THEN slots \cup {Len(rows) + 1} ELSE slots)
<1> DEFINE row == Stored(columns, values)
           type == Type(columns, index)
           n == Len(rows) + 1
           entry == <<InNode(values[index]), n>>
           after == Append(rows, row)
           kept == IF keyed THEN entries \cup {entry} ELSE entries
           has == IF keyed THEN slots \cup {n} ELSE slots
<1>1. /\ IsRow(columns, row) /\ index \in Names(columns)
      /\ row[index] = IF keyed THEN ReadOf(values[index]) ELSE Zero(type)
  BY StoredRow DEF Good
<1> HIDE DEF row
<1>2. /\ rows \in Seq([Names(columns) -> Value]) /\ row \in [Names(columns) -> Value]
      /\ Len(rows) \in Nat /\ DOMAIN rows = 1..Len(rows) /\ slots \subseteq DOMAIN rows
  BY <1>1 DEF Good, IsRow
<1>3. /\ after \in Seq([Names(columns) -> Value]) /\ DOMAIN after = DOMAIN rows \cup {n}
      /\ n \notin DOMAIN rows /\ after[n] = row /\ \A i \in DOMAIN rows : after[i] = rows[i]
  BY <1>2
<1> HIDE DEF after, n
<1>4. \A i \in DOMAIN after : IsRow(columns, after[i])
  BY <1>1, <1>3 DEF Good
<1>5. IsFiniteSet(kept)
  BY FS_AddElement DEF Good
<1>6. ASSUME NEW e \in entries PROVE Leads(columns, index, after, has, e)
  <2>1. Leads(columns, index, rows, slots, e)
    BY DEF Good
  <2>2. e[2] \in DOMAIN after /\ after[e[2]] = rows[e[2]] /\ e[2] \in has
    BY <1>3, <2>1 DEF Leads
  <2> QED
    BY <2>1, <2>2 DEF Leads
<1>7. ASSUME keyed PROVE TypeOf(row[index]) = type /\ KeyOf(row[index]) = InNode(values[index])
  <2>1. values[index] \in Value /\ TypeOf(values[index]) = type /\ row[index] = ReadOf(values[index])
    BY <1>1, <1>7
  <2> QED
    BY <2>1, ReadHolds
<1>8. ASSUME keyed PROVE Leads(columns, index, after, has, entry)
  <2>1. entry = <<entry[1], entry[2]>> /\ entry[1] = InNode(values[index]) /\ entry[2] = n
    OBVIOUS
  <2>2. n \in has /\ n \in DOMAIN after /\ after[n] = row
    BY <1>3, <1>8
  <2> HIDE DEF entry, has
  <2> QED
    BY <1>7, <1>8, <2>1, <2>2 DEF Leads, type
<1>9. \A e \in kept : Leads(columns, index, after, has, e)
  BY <1>6, <1>8
<1>10. \A d, e \in kept : d[1] = e[1] => d = e
  <2>1. entry[1] = InNode(values[index])
    OBVIOUS
  <2>2. \A d, e \in entries : d[1] = e[1] => d = e
    BY DEF Good
  <2> HIDE DEF entry
  <2> QED
    BY <2>1, <2>2
<1>11. ASSUME NEW i \in has PROVE <<KeyOf(after[i][index]), i>> \in kept
  <2>1. CASE i \in slots
    <3>1. after[i] = rows[i]
      BY <1>2, <1>3, <2>1
    <3>2. <<KeyOf(rows[i][index]), i>> \in entries
      BY <2>1 DEF Good
    <3> QED
      BY <3>1, <3>2
  <2>2. CASE keyed /\ i = n
    BY <1>3, <1>7, <2>2
  <2> QED
    BY <2>1, <2>2
<1>12. has \subseteq DOMAIN after
  BY <1>2, <1>3
<1>13. ASSUME NEW i \in DOMAIN after \ has PROVE after[i][index] = Zero(type)
  <2>1. CASE i = n
    BY <1>1, <1>3, <1>13, <2>1
  <2>2. CASE i \in DOMAIN rows
    BY <1>3, <1>13, <2>2 DEF Good
  <2> QED
    BY <1>3, <2>1, <2>2
<1> HIDE DEF kept, has
<1>14. Good(columns, index, after, kept, has)
  BY <1>1, <1>3, <1>4, <1>5, <1>9, <1>10, <1>11, <1>12, <1>13 DEF Good
<1> QED
  BY <1>14 DEF after, kept, has, row, n

(* Two entries for one row are one.                                        *)
LEMMA OneEntry ==
  ASSUME NEW columns, NEW index, NEW rows, NEW entries, NEW keyed,
         Good(columns, index, rows, entries, keyed),
         NEW d \in entries, NEW e \in entries, d[2] = e[2]
  PROVE  d = e
<1>1. Leads(columns, index, rows, keyed, d) /\ Leads(columns, index, rows, keyed, e)
  BY DEF Good
<1>2. d[1] = e[1]
  BY <1>1 DEF Leads
<1> QED
  BY <1>2 DEF Good

(* A table stays good when an entry is removed and its row wiped.          *)
LEMMA GoodDeleted ==
  ASSUME NEW columns, NEW index, NEW rows, NEW entries, NEW keyed,
         Good(columns, index, rows, entries, keyed),
         NEW e \in entries
  PROVE  Good(columns, index, [rows EXCEPT ![e[2]] = Blank(columns)], entries \ {e},
              keyed \ {e[2]})
<1> DEFINE type == Type(columns, index)
           after == [rows EXCEPT ![e[2]] = Blank(columns)]
           kept == entries \ {e}
           has == keyed \ {e[2]}
<1>1. /\ rows \in Seq([Names(columns) -> Value]) /\ index \in Names(columns)
      /\ DOMAIN rows = 1..Len(rows) /\ e[2] \in DOMAIN rows
  BY DEF Good, Leads
<1>2. /\ IsRow(columns, Blank(columns)) /\ Blank(columns) \in [Names(columns) -> Value]
      /\ Blank(columns)[index] = Zero(type)
  BY <1>1, BlankRow DEF IsRow
<1>3. /\ after \in Seq([Names(columns) -> Value]) /\ DOMAIN after = DOMAIN rows
      /\ after[e[2]] = Blank(columns) /\ \A i \in DOMAIN rows \ {e[2]} : after[i] = rows[i]
  BY <1>1, <1>2
<1> HIDE DEF after
<1>4. \A i \in DOMAIN after : IsRow(columns, after[i])
  BY <1>2, <1>3 DEF Good
<1>5. IsFiniteSet(kept)
  BY FS_RemoveElement DEF Good
<1>6. ASSUME NEW d \in kept PROVE Leads(columns, index, after, has, d)
  <2>1. Leads(columns, index, rows, keyed, d)
    BY DEF Good
  <2>2. d[2] # e[2]
    BY OneEntry
  <2>3. d[2] \in DOMAIN after /\ after[d[2]] = rows[d[2]] /\ d[2] \in has
    BY <1>3, <2>1, <2>2 DEF Leads
  <2> QED
    BY <2>1, <2>3 DEF Leads
<1>7. \A c, d \in kept : c[1] = d[1] => c = d
  BY DEF Good
<1>8. ASSUME NEW i \in has PROVE <<KeyOf(after[i][index]), i>> \in kept
  <2>1. i # e[2] /\ after[i] = rows[i]
    BY <1>3 DEF Good
  <2>2. <<KeyOf(rows[i][index]), i>> \in entries
    BY DEF Good
  <2>3. <<KeyOf(rows[i][index]), i>>[2] = i
    OBVIOUS
  <2> QED
    BY <2>1, <2>2, <2>3
<1>9. has \subseteq DOMAIN after
  BY <1>3 DEF Good
<1>10. ASSUME NEW i \in DOMAIN after \ has PROVE after[i][index] = Zero(type)
  BY <1>2, <1>3 DEF Good
<1> HIDE DEF kept, has
<1>11. Good(columns, index, after, kept, has)
  BY <1>1, <1>3, <1>4, <1>5, <1>6, <1>7, <1>8, <1>9, <1>10 DEF Good
<1> QED
  BY <1>11 DEF after, kept, has

(* A table stays good when a row is changed but its key.                   *)
LEMMA GoodUpdated ==
  ASSUME NEW columns, NEW index, NEW rows, NEW entries, NEW keyed,
         Good(columns, index, rows, entries, keyed),
         NEW h \in DOMAIN rows, NEW row, IsRow(columns, row), row[index] = rows[h][index]
  PROVE  Good(columns, index, [rows EXCEPT ![h] = row], entries, keyed)
<1> DEFINE after == [rows EXCEPT ![h] = row]
<1>1. /\ rows \in Seq([Names(columns) -> Value]) /\ index \in Names(columns)
      /\ DOMAIN rows = 1..Len(rows) /\ row \in [Names(columns) -> Value]
  BY DEF Good, IsRow
<1>2. /\ after \in Seq([Names(columns) -> Value]) /\ DOMAIN after = DOMAIN rows
      /\ after[h] = row /\ \A i \in DOMAIN rows \ {h} : after[i] = rows[i]
  BY <1>1
<1> HIDE DEF after
<1>3. \A i \in DOMAIN after : IsRow(columns, after[i]) /\ after[i][index] = rows[i][index]
  BY <1>2 DEF Good
<1>4. \A e \in entries : Leads(columns, index, after, keyed, e)
  BY <1>2, <1>3 DEF Good, Leads
<1>5. /\ keyed \subseteq DOMAIN after
      /\ \A i \in keyed : <<KeyOf(after[i][index]), i>> \in entries
      /\ \A i \in DOMAIN after \ keyed : after[i][index] = Zero(Type(columns, index))
  BY <1>2, <1>3 DEF Good
<1>6. Good(columns, index, after, entries, keyed)
  BY <1>1, <1>2, <1>3, <1>4, <1>5 DEF Good
<1> QED
  BY <1>6 DEF after

-----------------------------------------------------------------------------
(* The invariant of a session: every table is in a database there is, and  *)
(* is good.                                                                *)
IsTable(t) ==
  t = [columns |-> t.columns, index |-> t.index, next |-> t.next, rows |-> t.rows,
       entries |-> t.entries, keyed |-> t.keyed]

TableInv(t) ==
  /\ IsTable(t)
  /\ t.next \in Nat \ {0}
  /\ Good(t.columns, t.index, t.rows, t.entries, t.keyed)

SessionInv ==
  /\ tables = [n \in DOMAIN tables |-> tables[n]]
  /\ \A n \in DOMAIN tables : n[1] \in databases /\ TableInv(tables[n])

(* A table whose counter, rows, entries and keys are changed, and the same *)
(* of one in its database.                                                 *)
With(t, next, rows, entries, keyed) ==
  [columns |-> t.columns, index |-> t.index, next |-> next, rows |-> rows, entries |-> entries,
   keyed |-> keyed]

Kept(set, old, new) == \A c \in DOMAIN old \ DOMAIN set : new[c] = old[c]

Becomes(h, u) ==
  /\ h \in DOMAIN tables
  /\ TableInv(u)
  /\ tables' = [tables EXCEPT ![h] = u]

(* What With() leaves of a table and what it sets.                         *)
LEMMA Fields ==
  ASSUME NEW t, NEW a, NEW b, NEW c, NEW d, NEW u, u = With(t, a, b, c, d)
  PROVE  /\ IsTable(u) /\ u.columns = t.columns /\ u.index = t.index
         /\ u.next = a /\ u.rows = b /\ u.entries = c /\ u.keyed = d
<1>1. /\ u.columns = t.columns /\ u.index = t.index
      /\ u.next = a /\ u.rows = b /\ u.entries = c /\ u.keyed = d
  BY DEF With
<1>2. IsTable(u)
  BY <1>1 DEF IsTable, With
<1> QED
  BY <1>1, <1>2

(* A row that is added, with the counter and the entry that go with it.    *)
LEMMA InsertEffect ==
  ASSUME SessionInv, NEW q \in Queries, exec_insert_row(q, Command[q])
  PROVE  \E u, row : /\ Becomes(Here(Command[q]), u)
                     /\ u.rows = Append(tables[Here(Command[q])].rows, row)
<1> DEFINE cmd == Command[q]
           h == Here(cmd)
           t == tables[h]
           numbered == t.index = "row_num" /\ t.index \notin DOMAIN cmd.values
           values == IF numbered THEN Numbered(cmd.values, t) ELSE cmd.values
           keyed == t.index \in DOMAIN values /\ TypeOf(values[t.index]) = KeyType(t)
           entry == <<InNode(values[t.index]), Len(t.rows) + 1>>
           row == Stored(t.columns, values)
           next == IF numbered THEN t.next + 1 ELSE t.next
           entries == IF keyed THEN t.entries \cup {entry} ELSE t.entries
           slots == IF keyed THEN t.keyed \cup {entry[2]} ELSE t.keyed
           u == [t EXCEPT !.next = next, !.rows = Append(t.rows, row), !.entries = entries,
                          !.keyed = slots]
<1>1. h \in DOMAIN tables /\ cmd.do = "INSERT_ROW"
  BY DEF exec_insert_row, Opens
<1>2. TableInv(t) /\ tables = [n \in DOMAIN tables |-> tables[n]]
  BY <1>1 DEF SessionInv
<1>3. \A n \in DOMAIN cmd.values : cmd.values[n] \in Value
  BY <1>1, CommandsTyped DEF TypedCommand
<1>4. \A n \in DOMAIN values : values[n] \in Value
  <2>1. CASE numbered
    <3>1. /\ DOMAIN values = DOMAIN cmd.values \cup {t.index}
          /\ \A n \in DOMAIN values : values[n] = IF n = t.index THEN Number(t.next)
                                                                 ELSE cmd.values[n]
      BY <2>1 DEF Numbered
    <3>2. Number(t.next) \in Value
      BY <1>2, FormsOfValues DEF TableInv
    <3> HIDE DEF values
    <3> QED
      BY <1>3, <3>1, <3>2
  <2>2. CASE ~numbered
    BY <1>3, <2>2
  <2> QED
    BY <2>1, <2>2
<1>5. /\ keyed => \A e \in t.entries : e[1] # entry[1]
      /\ tables' = [tables EXCEPT
            ![h].next = IF numbered THEN @ + 1 ELSE @,
            ![h].rows = Append(@, Stored(t.columns, values)),
            ![h].entries = IF keyed THEN @ \cup {entry} ELSE @,
            ![h].keyed = IF keyed THEN @ \cup {entry[2]} ELSE @]
  BY Zenon DEF exec_insert_row
<1> HIDE DEF numbered, values
<1>6. /\ entry[1] = InNode(values[t.index]) /\ entry[2] = Len(t.rows) + 1
      /\ keyed => \A e \in t.entries : e[1] # InNode(values[t.index])
  BY <1>5
<1>7. Good(t.columns, t.index, Append(t.rows, row), entries, slots)
  <2>1. Good(t.columns, t.index, t.rows, t.entries, t.keyed)
    BY <1>2 DEF TableInv
  <2>2. keyed <=> t.index \in DOMAIN values /\ TypeOf(values[t.index]) = Type(t.columns, t.index)
    BY DEF KeyType
  <2> HIDE DEF keyed, t
  <2> QED
    BY <1>4, <1>6, <2>1, <2>2, GoodInserted
<1> HIDE DEF keyed, entry, row
<1>8. tables' = [tables EXCEPT ![h] = u]
  <2> HIDE DEF h
  <2> QED
    BY <1>1, <1>2, <1>5 DEF row
<1> HIDE DEF entries, next, slots
<1>9. /\ IsTable(u) /\ u.columns = t.columns /\ u.index = t.index
      /\ u.next = next /\ u.rows = Append(t.rows, row) /\ u.entries = entries
      /\ u.keyed = slots
  <2>1. IsTable(t)
    BY <1>2 DEF TableInv
  <2> DEFINE rows == Append(t.rows, row)
  <2>2. u = [t EXCEPT !.next = next, !.rows = rows, !.entries = entries, !.keyed = slots]
    OBVIOUS
  <2> HIDE DEF t, rows, u
  <2>4. u = With(t, next, rows, entries, slots)
    BY <2>1, <2>2 DEF IsTable, With
  <2>5. /\ IsTable(u) /\ u.columns = t.columns /\ u.index = t.index
        /\ u.next = next /\ u.rows = rows /\ u.entries = entries /\ u.keyed = slots
    BY <2>4, Fields
  <2> QED
    BY <2>5 DEF rows
<1> HIDE DEF u
<1>10. TableInv(u)
  <2>1. next \in Nat \ {0}
    BY <1>2 DEF TableInv, next
  <2> QED
    BY <1>2, <1>7, <1>9, <2>1 DEF TableInv
<1>11. Becomes(h, u)
  BY <1>1, <1>8, <1>10 DEF Becomes
<1> QED
  BY <1>9, <1>11, Zenon

(* A row that is wiped, with its entry.                                    *)
LEMMA DeleteEffect ==
  ASSUME SessionInv, NEW q \in Queries, exec_delete_row(q, Command[q])
  PROVE  LET t == tables[Here(Command[q])]
         IN  \E u : \E e \in Found(t, Command[q].where.value) :
               /\ Becomes(Here(Command[q]), u)
               /\ u.rows = [t.rows EXCEPT ![e[2]] = Blank(t.columns)]
<1> DEFINE cmd == Command[q]
           h == Here(cmd)
           t == tables[h]
<1>1. h \in DOMAIN tables
  BY DEF exec_delete_row, Opens
<1>2. TableInv(t) /\ tables = [n \in DOMAIN tables |-> tables[n]]
  BY <1>1 DEF SessionInv
<1>3. PICK e \in Found(t, cmd.where.value) :
        tables' = [tables EXCEPT ![h].entries = EntryRemoved(@, e),
                                 ![h].keyed = @ \ {e[2]},
                                 ![h].rows[e[2]] = Blank(t.columns)]
  BY Zenon DEF exec_delete_row
<1> DEFINE rows == [t.rows EXCEPT ![e[2]] = Blank(t.columns)]
           entries == t.entries \ {e}
           keyed == t.keyed \ {e[2]}
           u == [t EXCEPT !.entries = entries, !.keyed = keyed, !.rows = rows]
<1>4. e \in t.entries
  BY <1>3 DEF Found
<1>5. Good(t.columns, t.index, rows, entries, keyed)
  <2>1. Good(t.columns, t.index, t.rows, t.entries, t.keyed)
    BY <1>2 DEF TableInv
  <2> HIDE DEF t
  <2> QED
    BY <1>4, <2>1, GoodDeleted
<1>6. IsTable(t)
  BY <1>2 DEF TableInv
<1>7. tables' = [tables EXCEPT ![h] = u]
  <2> HIDE DEF h
  <2> QED
    BY <1>1, <1>2, <1>3 DEF EntryRemoved
<1> HIDE DEF entries, keyed, rows
<1>8. /\ IsTable(u) /\ u.columns = t.columns /\ u.index = t.index
      /\ u.next = t.next /\ u.rows = rows /\ u.entries = entries /\ u.keyed = keyed
  <2> HIDE DEF t
  <2>1. u = [t EXCEPT !.entries = entries, !.keyed = keyed, !.rows = rows]
    OBVIOUS
  <2> HIDE DEF u
  <2>2. u = With(t, t.next, rows, entries, keyed)
    BY <1>6, <2>1 DEF IsTable, With
  <2> QED
    BY <2>2, Fields
<1> HIDE DEF u
<1>9. TableInv(u)
  BY <1>2, <1>5, <1>8 DEF TableInv
<1>10. Becomes(h, u)
  BY <1>1, <1>7, <1>9 DEF Becomes
<1> QED
  BY <1>3, <1>8, <1>10, Zenon DEF rows

(* A row that is changed, but its key.                                     *)
LEMMA UpdateEffect ==
  ASSUME SessionInv, NEW q \in Queries, exec_update_row(q, Command[q])
  PROVE  LET t == tables[Here(Command[q])]
         IN  \E u, row : \E e \in Found(t, Command[q].where.value) :
               /\ Becomes(Here(Command[q]), u)
               /\ u.rows = [t.rows EXCEPT ![e[2]] = row]
               /\ Kept(Command[q].set, t.rows[e[2]], row)
<1> DEFINE cmd == Command[q]
           h == Here(cmd)
           t == tables[h]
<1>1. h \in DOMAIN tables /\ cmd.do = "UPDATE_ROW" /\ NotItsIndex(t, cmd.set)
  BY DEF exec_update_row, Opens
<1>2. TableInv(t) /\ tables = [n \in DOMAIN tables |-> tables[n]]
  BY <1>1 DEF SessionInv
<1>3. PICK e \in Found(t, cmd.where.value) :
        tables' = [tables EXCEPT ![h].rows[e[2]] = Stored(t.columns, Updated(@, cmd.set))]
  BY Zenon DEF exec_update_row
<1> DEFINE old == t.rows[e[2]]
           values == Updated(old, cmd.set)
           row == Stored(t.columns, values)
           rows == [t.rows EXCEPT ![e[2]] = row]
           u == [t EXCEPT !.rows = rows]
<1>4. e \in t.entries /\ Good(t.columns, t.index, t.rows, t.entries, t.keyed) /\ IsTable(t)
  BY <1>2, <1>3 DEF Found, TableInv
<1>5. e[2] \in DOMAIN t.rows /\ IsRow(t.columns, old) /\ t.index \in Names(t.columns)
  <2> HIDE DEF t
  <2> QED
    BY <1>4 DEF Good, Leads
<1> HIDE DEF old
<1>6. \A n \in DOMAIN cmd.set : cmd.set[n] \in Value
  BY <1>1, CommandsTyped DEF TypedCommand
<1>7. /\ DOMAIN values = Names(t.columns) /\ DOMAIN old = Names(t.columns)
      /\ \A n \in DOMAIN values : values[n] \in Value
      /\ \A n \in DOMAIN old \ DOMAIN cmd.set : values[n] = old[n]
  <2> HIDE DEF t, cmd
  <2>1. old \in [Names(t.columns) -> Value]
    BY <1>5 DEF IsRow
  <2> QED
    BY <1>6, <2>1 DEF Updated
<1> HIDE DEF values
<1>8. IsRow(t.columns, row) /\ \A c \in DOMAIN old \ DOMAIN cmd.set : row[c] = old[c]
  <2> HIDE DEF t, cmd
  <2> QED
    BY <1>5, <1>7, StoredRow, StoredAgain
<1> HIDE DEF row
<1>9. row[t.index] = old[t.index]
  BY <1>1, <1>5, <1>7, <1>8 DEF NotItsIndex
<1>10. Good(t.columns, t.index, rows, t.entries, t.keyed)
  <2> HIDE DEF t
  <2> QED
    BY <1>4, <1>5, <1>8, <1>9, GoodUpdated DEF old
<1>11. tables' = [tables EXCEPT ![h] = u]
  <2> HIDE DEF h, cmd
  <2> QED
    BY <1>1, <1>2, <1>3 DEF row, values, old
<1> HIDE DEF rows
<1>12. /\ IsTable(u) /\ u.columns = t.columns /\ u.index = t.index
       /\ u.next = t.next /\ u.rows = rows /\ u.entries = t.entries
       /\ u.keyed = t.keyed
  <2> HIDE DEF t
  <2>1. u = [t EXCEPT !.rows = rows]
    OBVIOUS
  <2> HIDE DEF u
  <2>2. u = With(t, t.next, rows, t.entries, t.keyed)
    BY <1>4, <2>1 DEF IsTable, With
  <2> QED
    BY <2>2, Fields
<1> HIDE DEF u
<1>13. TableInv(u)
  BY <1>2, <1>10, <1>12 DEF TableInv
<1>14. Becomes(h, u)
  BY <1>1, <1>11, <1>13 DEF Becomes
<1>15. /\ u.rows = [t.rows EXCEPT ![e[2]] = row]
       /\ Kept(cmd.set, t.rows[e[2]], row)
  BY <1>8, <1>12 DEF rows, old, Kept
<1> QED
  BY <1>3, <1>14, <1>15, Zenon

(* A table that is made again counts from one.                             *)
LEMMA RecreateEffect ==
  ASSUME SessionInv, NEW q \in Queries, Recreate(q, Command[q])
  PROVE  \E u : Becomes(Here(Command[q]), u) /\ u.rows = tables[Here(Command[q])].rows
<1> DEFINE h == Here(Command[q])
           t == tables[h]
           u == [t EXCEPT !.next = 1]
<1>1. h \in DOMAIN tables /\ tables' = [tables EXCEPT ![h].next = 1]
  BY Zenon DEF Recreate, Opens
<1>2. TableInv(t) /\ tables = [n \in DOMAIN tables |-> tables[n]]
  BY <1>1 DEF SessionInv
<1>3. tables' = [tables EXCEPT ![h] = u]
  <2> HIDE DEF h
  <2> QED
    BY <1>1, <1>2
<1>4. /\ IsTable(u) /\ u.columns = t.columns /\ u.index = t.index
      /\ u.next = 1 /\ u.rows = t.rows /\ u.entries = t.entries
      /\ u.keyed = t.keyed
  <2> HIDE DEF t
  <2>1. u = [t EXCEPT !.next = 1]
    OBVIOUS
  <2> HIDE DEF u
  <2>2. u = With(t, 1, t.rows, t.entries, t.keyed)
    BY <1>2, <2>1 DEF TableInv, IsTable, With
  <2> QED
    BY <2>2, Fields
<1> HIDE DEF u
<1>5. TableInv(u)
  BY <1>2, <1>4 DEF TableInv
<1>6. Becomes(h, u)
  BY <1>1, <1>3, <1>5 DEF Becomes
<1> QED
  BY <1>4, <1>6, Zenon

(* A table that is made.                                                   *)
LEMMA CreateEffect ==
  ASSUME SessionInv, NEW q \in Queries, exec_create_table(q, Command[q])
  PROVE  LET h == Here(Command[q])
         IN  /\ h \notin DOMAIN tables /\ h[1] \in databases
             /\ \E u : /\ TableInv(u)
                      /\ tables' = [n \in DOMAIN tables \cup {h} |-> IF n = h THEN u ELSE tables[n]]
<1> DEFINE cmd == Command[q]
           h == Here(cmd)
           u == Empty(ColumnsOf(cmd), IndexOf(cmd))
<1>1. /\ cmd.do = "CREATE_TABLE" /\ h \notin DOMAIN tables
      /\ cmd.db \in databases /\ IndexOf(cmd) \in Names(ColumnsOf(cmd))
  BY DEF exec_create_table, Opens, Creates
<1>2. tables' = [n \in DOMAIN tables \cup {h} |-> IF n = h THEN u ELSE tables[n]]
  BY Zenon DEF exec_create_table
<1>3. h[1] = cmd.db
  BY DEF Here
<1>4. /\ IsTable(u) /\ u.columns = ColumnsOf(cmd) /\ u.index = IndexOf(cmd)
      /\ u.next = 1 /\ u.rows = <<>> /\ u.entries = {} /\ u.keyed = {}
  BY DEF Empty, IsTable
<1> HIDE DEF u
<1>5. TableInv(u)
  BY <1>1, <1>4, GoodEmpty DEF TableInv
<1> QED
  BY <1>1, <1>2, <1>3, <1>5, Zenon

(* A change of one table keeps the invariant.                              *)
LEMMA BecomesKeeps ==
  ASSUME SessionInv, NEW h, NEW u, Becomes(h, u), databases' = databases
  PROVE  SessionInv'
<1>1. /\ tables = [n \in DOMAIN tables |-> tables[n]] /\ h \in DOMAIN tables /\ TableInv(u)
      /\ tables' = [tables EXCEPT ![h] = u]
  BY DEF Becomes, SessionInv
<1>2. /\ DOMAIN tables' = DOMAIN tables /\ tables'[h] = u
      /\ \A n \in DOMAIN tables \ {h} : tables'[n] = tables[n]
      /\ tables' = [n \in DOMAIN tables' |-> tables'[n]]
  BY <1>1
<1>3. \A n \in DOMAIN tables' : n[1] \in databases' /\ TableInv(tables'[n])
  BY <1>1, <1>2 DEF SessionInv
<1> QED
  BY <1>2, <1>3 DEF SessionInv

(* Every statement keeps the invariant.                                    *)
LEMMA SessionStep == SessionInv /\ [Next]_vars => SessionInv'
<1> SUFFICES ASSUME SessionInv, [Next]_vars PROVE SessionInv'
  OBVIOUS
<1>1. ASSUME tables' = tables, databases \subseteq databases' PROVE SessionInv'
  <2>1. \A n \in DOMAIN tables' : n[1] \in databases' /\ TableInv(tables'[n])
    BY <1>1 DEF SessionInv
  <2>2. tables' = [n \in DOMAIN tables' |-> tables'[n]]
    BY <1>1 DEF SessionInv
  <2> QED
    BY <2>1, <2>2 DEF SessionInv
<1>2. ASSUME NEW q \in Queries, Reject(q, Command[q]) PROVE SessionInv'
  BY <1>1, <1>2 DEF Reject
<1>3. ASSUME NEW q \in Queries, NotFound(q, Command[q]) PROVE SessionInv'
  BY <1>1, <1>3 DEF NotFound
<1>4. ASSUME NEW q \in Queries, exec_create_db(q, Command[q]) PROVE SessionInv'
  BY <1>1, <1>4 DEF exec_create_db
<1>5. ASSUME NEW q \in Queries, CreateFails(q, Command[q]) PROVE SessionInv'
  BY <1>1, <1>5 DEF CreateFails
<1>6. ASSUME NEW q \in Queries, exec_create_table(q, Command[q]) PROVE SessionInv'
  <2> DEFINE h == Here(Command[q])
  <2>1. PICK u : TableInv(u)
          /\ tables' = [n \in DOMAIN tables \cup {h} |-> IF n = h THEN u ELSE tables[n]]
    BY <1>6, CreateEffect
  <2>2. h[1] \in databases /\ databases' = databases
    BY <1>6, CreateEffect DEF exec_create_table
  <2> HIDE DEF h
  <2>3. /\ DOMAIN tables' = DOMAIN tables \cup {h} /\ tables'[h] = u
        /\ \A n \in DOMAIN tables \ {h} : tables'[n] = tables[n]
        /\ tables' = [n \in DOMAIN tables' |-> tables'[n]]
    BY <2>1
  <2>4. \A n \in DOMAIN tables' : n[1] \in databases' /\ TableInv(tables'[n])
    BY <2>1, <2>2, <2>3 DEF SessionInv
  <2> QED
    BY <2>3, <2>4 DEF SessionInv
<1>7. ASSUME NEW q \in Queries, Recreate(q, Command[q]) PROVE SessionInv'
  BY <1>7, RecreateEffect, BecomesKeeps DEF Recreate
<1>8. ASSUME NEW q \in Queries, exec_insert_row(q, Command[q]) PROVE SessionInv'
  BY <1>8, InsertEffect, BecomesKeeps DEF exec_insert_row
<1>9. ASSUME NEW q \in Queries, exec_select(q, Command[q]) PROVE SessionInv'
  BY <1>1, <1>9 DEF exec_select
<1>10. ASSUME NEW q \in Queries, exec_delete_row(q, Command[q]) PROVE SessionInv'
  BY <1>10, DeleteEffect, BecomesKeeps DEF exec_delete_row
<1>11. ASSUME NEW q \in Queries, exec_update_row(q, Command[q]) PROVE SessionInv'
  BY <1>11, UpdateEffect, BecomesKeeps DEF exec_update_row
<1>12. ASSUME NEW q \in Queries, MutationFails(q, Command[q]) PROVE SessionInv'
  BY <1>1, <1>12 DEF MutationFails
<1>13. CASE UNCHANGED vars
  BY <1>1, <1>13 DEF vars
<1> QED
  BY <1>2, <1>3, <1>4, <1>5, <1>6, <1>7, <1>8, <1>9, <1>10, <1>11, <1>12, <1>13 DEF Next

(* The invariant of a session is one.                                      *)
LEMMA SessionInvariant == Spec => []SessionInv
<1>1. Init => SessionInv
  <2> SUFFICES ASSUME tables = <<>> PROVE SessionInv
    BY DEF Init
  <2> QED
    BY DEF SessionInv
<1> QED
  BY <1>1, SessionStep, PTL DEF Spec

-----------------------------------------------------------------------------
(* Keys are byte strings, and those of values that are apart are two.      *)
LEMMA KeysAreBytes == ASSUME NEW v \in Value PROVE KeyOf(v) \in Seq(Byte)
<1>1. CASE TypeOf(v) = "INT"
  <2>1. Cast32(v.int) \in Ints
    BY <1>1, ValueForms, CastType
  <2> QED
    BY <1>1, <2>1, IntegerKeys DEF KeyOf
<1>2. CASE TypeOf(v) = "STR"
  BY <1>2, ValueForms, StringKeys DEF KeyOf
<1> QED
  BY <1>1, <1>2, ValueForms

(* Two values of one type with the same key are one, if they are apart.    *)
LEMMA KeysApartDiffer ==
  ASSUME NEW v \in Value, NEW w \in Value, Apart(v), Apart(w), TypeOf(v) = TypeOf(w),
         KeyOf(v) = KeyOf(w)
  PROVE  v = w
<1>1. CASE TypeOf(v) = "INT"
  <2>1. v = Number(v.int) /\ w = Number(w.int) /\ v.int \in Ints /\ w.int \in Ints
    BY <1>1, ValueForms DEF Apart
  <2>2. intKeyToString(v.int) = intKeyToString(w.int)
    BY <1>1, <2>1, CastOfInts DEF KeyOf
  <2>3. v.int = w.int
    BY <2>1, <2>2, IntegerKeys
  <2> QED
    BY <2>1, <2>3
<1>2. CASE TypeOf(v) = "STR"
  <2>1. /\ v = Literal(v.str) /\ w = Literal(w.str)
        /\ v.str \in Seq(Byte) /\ w.str \in Seq(Byte)
        /\ Len(v.str) < MaxString /\ Len(w.str) < MaxString
    BY <1>2, ValueForms DEF Apart
  <2>2. KeyOf(v) = v.str /\ KeyOf(w) = w.str
    BY <1>2, <2>1, StringKeys DEF KeyOf
  <2> QED
    BY <2>1, <2>2
<1> QED
  BY <1>1, <1>2, ValueForms

(* What a good table says of its entries.                                  *)
LEMMA EntryFacts ==
  ASSUME NEW t, TableInv(t), NEW e \in t.entries
  PROVE  LET v == t.rows[e[2]][t.index]
         IN  /\ e[2] \in DOMAIN t.rows /\ v \in Value /\ TypeOf(v) = KeyType(t)
             /\ e[1] = KeyOf(v) /\ e[1] \in Seq(Byte) /\ e = <<KeyOf(v), e[2]>>
             /\ e[2] \in t.keyed
             /\ TypeOf(v) = "STR" => \A i \in 1..Len(v.str) : v.str[i] # 0
<1> DEFINE v == t.rows[e[2]][t.index]
<1>1. Good(t.columns, t.index, t.rows, t.entries, t.keyed)
  BY DEF TableInv
<1>2. Leads(t.columns, t.index, t.rows, t.keyed, e) /\ t.index \in Names(t.columns)
  BY <1>1 DEF Good
<1>3. e[2] \in DOMAIN t.rows
  BY <1>2 DEF Leads
<1>4. IsRow(t.columns, t.rows[e[2]])
  BY <1>1, <1>3 DEF Good
<1>5. v \in Value /\ (TypeOf(v) = "STR" => \A i \in 1..Len(v.str) : v.str[i] # 0)
  BY <1>2, <1>4 DEF IsRow, Holds
<1>6. e[1] \in Seq(Byte)
  BY <1>2, <1>5, KeysAreBytes DEF Leads
<1> QED
  BY <1>2, <1>3, <1>5, <1>6 DEF Leads, KeyType

(* What it says of its rows.                                               *)
LEMMA RowFacts ==
  ASSUME NEW t, TableInv(t), NEW i \in DOMAIN t.rows
  PROVE  LET v == t.rows[i][t.index]
         IN  /\ t.rows[i] = [n \in Names(t.columns) |-> t.rows[i][n]]
             /\ v \in Value
             /\ IF i \in t.keyed THEN TypeOf(v) = KeyType(t) /\ <<KeyOf(v), i>> \in t.entries
                ELSE v = Zero(KeyType(t))
<1>1. Good(t.columns, t.index, t.rows, t.entries, t.keyed)
  BY DEF TableInv
<1>2. IsRow(t.columns, t.rows[i]) /\ t.index \in Names(t.columns)
  BY <1>1 DEF Good
<1>3. t.rows[i] = [n \in Names(t.columns) |-> t.rows[i][n]] /\ t.rows[i][t.index] \in Value
  BY <1>2 DEF IsRow
<1>4. ASSUME i \in t.keyed
      PROVE  /\ TypeOf(t.rows[i][t.index]) = KeyType(t)
             /\ <<KeyOf(t.rows[i][t.index]), i>> \in t.entries
  <2> DEFINE e == <<KeyOf(t.rows[i][t.index]), i>>
  <2>1. e \in t.entries /\ e[2] = i
    BY <1>1, <1>4 DEF Good
  <2> HIDE DEF e
  <2>2. TypeOf(t.rows[i][t.index]) = KeyType(t)
    BY <1>1, <2>1 DEF Good, Leads, KeyType
  <2> QED
    BY <2>1, <2>2 DEF e
<1>5. i \notin t.keyed => t.rows[i][t.index] = Zero(KeyType(t))
  BY <1>1 DEF Good, KeyType
<1> QED
  BY <1>3, <1>4, <1>5

(* The tables keep their form: a table is in a database, its key is one of *)
(* its columns, every row has all the columns, every entry leads to a row; *)
(* and rows are shown by a SELECT only.                                    *)
THEOREM SessionTypes == Spec => []TypeOK
<1> DEFINE Said == /\ answer.says \in {"nothing", "done", "failed", "error", "rows"}
                   /\ answer.rows # <<>> => answer.says = "rows"
<1>1. Init => Said
  BY DEF Init
<1>2. Said /\ [Next]_vars => Said'
  <2> SUFFICES ASSUME Said, [Next]_vars PROVE Said'
    OBVIOUS
  <2>1. ASSUME NEW w \in {"done", "failed", "error"}, Says(w) PROVE Said'
    BY <2>1 DEF Says
  <2>2. ASSUME NEW rows, Shows(rows) PROVE Said'
    BY <2>2 DEF Shows
  <2> HIDE DEF Said
  <2>3. ASSUME NEW q \in Queries, NEW cmd, exec_select(q, cmd) PROVE Said'
    BY <2>1, <2>2, <2>3, Zenon DEF exec_select
  <2>4. ASSUME NEW q \in Queries, NEW cmd,
               exec_delete_row(q, cmd) \/ exec_update_row(q, cmd) \/ exec_create_table(q, cmd)
                 \/ Recreate(q, cmd)
        PROVE  Said'
    BY <2>1, <2>4, Zenon DEF exec_delete_row, exec_update_row, exec_create_table, Recreate
  <2>5. ASSUME NEW q \in Queries, NEW cmd,
               Reject(q, cmd) \/ NotFound(q, cmd) \/ MutationFails(q, cmd)
        PROVE  Said'
    BY <2>1, <2>5, Zenon DEF Reject, NotFound, MutationFails
  <2>6. ASSUME NEW q \in Queries, NEW cmd, exec_create_db(q, cmd) PROVE Said'
    BY <2>1, <2>6 DEF exec_create_db
  <2>7. ASSUME NEW q \in Queries, NEW cmd, CreateFails(q, cmd) PROVE Said'
    BY <2>1, <2>7 DEF CreateFails
  <2>8. ASSUME NEW q \in Queries, NEW cmd, exec_insert_row(q, cmd) PROVE Said'
    BY <2>1, <2>8 DEF exec_insert_row
  <2>9. CASE UNCHANGED vars
    BY <2>9 DEF vars, Said
  <2> QED
    BY <2>3, <2>4, <2>5, <2>6, <2>7, <2>8, <2>9 DEF Next
<1>3. SessionInv /\ Said => TypeOK
  <2> SUFFICES ASSUME SessionInv, Said PROVE TypeOK
    OBVIOUS
  <2>1. ASSUME NEW n \in DOMAIN tables
        PROVE  LET t == tables[n]
               IN  /\ n[1] \in databases
                   /\ t.index \in Names(t.columns)
                   /\ t.next \in Nat \ {0}
                   /\ \A i \in DOMAIN t.rows : DOMAIN t.rows[i] = Names(t.columns)
                   /\ \A e \in t.entries : e[1] \in Seq(Byte) /\ e[2] \in DOMAIN t.rows
                   /\ t.keyed \subseteq DOMAIN t.rows
    <3> DEFINE t == tables[n]
    <3>1. TableInv(t) /\ n[1] \in databases
      BY DEF SessionInv
    <3> HIDE DEF t
    <3>2. \A i \in DOMAIN t.rows : DOMAIN t.rows[i] = Names(t.columns)
      <4> SUFFICES ASSUME NEW i \in DOMAIN t.rows PROVE DOMAIN t.rows[i] = Names(t.columns)
        OBVIOUS
      <4>1. t.rows[i] = [m \in Names(t.columns) |-> t.rows[i][m]]
        BY <3>1, RowFacts
      <4> QED
        BY <4>1
    <3>3. \A e \in t.entries : e[1] \in Seq(Byte) /\ e[2] \in DOMAIN t.rows
      BY <3>1, EntryFacts
    <3>4. t.index \in Names(t.columns) /\ t.next \in Nat \ {0} /\ t.keyed \subseteq DOMAIN t.rows
      BY <3>1 DEF TableInv, Good
    <3> QED
      BY <3>1, <3>2, <3>3, <3>4 DEF t
  <2> QED
    BY <2>1 DEF TypeOK
<1> QED
  BY <1>1, <1>2, <1>3, SessionInvariant, PTL DEF Spec

(* Whatever is asked in whatever order, the rows that were given a key and *)
(* are not deleted, and they alone, have one entry, for the key they hold; *)
(* the others hold zeros.                                                  *)
THEOREM IndexFollowsRows == Spec => []IndexMatchesRows
<1>1. SessionInv => IndexMatchesRows
  <2> SUFFICES ASSUME SessionInv, NEW n \in DOMAIN tables
               PROVE  LET t == tables[n]
                          key(i) == t.rows[i][t.index]
                      IN  /\ t.entries = {<<KeyOf(key(i)), i>> : i \in t.keyed}
                          /\ \A i \in DOMAIN t.rows \ t.keyed : key(i) = Zero(KeyType(t))
    BY DEF IndexMatchesRows
  <2> DEFINE t == tables[n]
  <2>1. TableInv(t)
    BY DEF SessionInv
  <2> HIDE DEF t
  <2>2. \A e \in t.entries : e[2] \in t.keyed /\ e = <<KeyOf(t.rows[e[2]][t.index]), e[2]>>
    BY <2>1, EntryFacts
  <2>3. \A i \in t.keyed : <<KeyOf(t.rows[i][t.index]), i>> \in t.entries
    BY <2>1 DEF TableInv, Good
  <2>4. t.entries = {<<KeyOf(t.rows[i][t.index]), i>> : i \in t.keyed}
    BY <2>2, <2>3
  <2>5. \A i \in DOMAIN t.rows \ t.keyed : t.rows[i][t.index] = Zero(KeyType(t))
    BY <2>1, RowFacts
  <2> QED
    BY <2>4, <2>5 DEF t
<1> QED
  BY <1>1, SessionInvariant, PTL

(* The keys in the tree are those that come back from its nodes on disk:   *)
(* integers of 32 bits are the ones in their rows, and strings, which end  *)
(* at their first zero byte there, have none in their rows.                *)
THEOREM KeysReadBack == Spec => []KeysComeBack
<1>1. SessionInv => KeysComeBack
  <2> SUFFICES ASSUME SessionInv, NEW n \in DOMAIN tables
               PROVE  LET t == tables[n]
                          key(e) == t.rows[e[2]][t.index]
                      IN  IF KeyType(t) = "STR" THEN StringsComeBack({key(e).str : e \in t.entries})
                          ELSE \A e \in t.entries : stringKeyToInt(e[1]) = Cast32(key(e).int)
    BY DEF KeysComeBack
  <2> DEFINE t == tables[n]
  <2>1. TableInv(t)
    BY DEF SessionInv
  <2> HIDE DEF t
  <2>2. CASE KeyType(t) = "STR"
    <3>1. ASSUME NEW e \in t.entries
          PROVE  LET k == t.rows[e[2]][t.index].str
                 IN  deserialized(serialized(keyToString(k))) = keyToString(k)
      <4> DEFINE v == t.rows[e[2]][t.index]
      <4>1. v \in Value /\ TypeOf(v) = "STR" /\ \A i \in 1..Len(v.str) : v.str[i] # 0
        BY <2>1, <2>2, EntryFacts
      <4> HIDE DEF v
      <4>2. deserialized(serialized(keyToString(v.str))) = keyToString(v.str)
        BY <4>1, ValueForms, StringBack
      <4> QED
        BY <4>2 DEF v
    <3> QED
      BY <2>2, <3>1 DEF StringsComeBack, t
  <2>3. CASE KeyType(t) # "STR"
    <3>1. ASSUME NEW e \in t.entries
          PROVE  stringKeyToInt(e[1]) = Cast32(t.rows[e[2]][t.index].int)
      <4> DEFINE v == t.rows[e[2]][t.index]
      <4>1. v \in Value /\ TypeOf(v) = KeyType(t) /\ e[1] = KeyOf(v)
        BY <2>1, EntryFacts
      <4> HIDE DEF v
      <4>2. TypeOf(v) = "INT" /\ v.int \in Int
        BY <2>3, <4>1, ValueForms
      <4>3. e[1] = intKeyToString(Cast32(v.int)) /\ Cast32(v.int) \in Ints
        BY <4>1, <4>2, CastType DEF KeyOf
      <4>4. stringKeyToInt(e[1]) = Cast32(v.int)
        BY <4>3, IntegersComeBack DEF IntsComeBack
      <4> QED
        BY <4>4 DEF v
    <3> QED
      BY <2>3, <3>1 DEF t
  <2> QED
    BY <2>2, <2>3
<1> QED
  BY <1>1, SessionInvariant, PTL

-----------------------------------------------------------------------------
(* Rows are the answer to a SELECT on a table there is, and to nothing     *)
(* else.                                                                   *)
LEMMA AnsweredBySelect ==
  ASSUME Next, NEW kind, Answered(kind)'
  PROVE  \E q \in Queries :
           /\ query' = q /\ tables' = tables /\ Here(Command[q]) \in DOMAIN tables
           /\ exec_select(q, Command[q]) /\ answer'.says = "rows"
           /\ Command[q].do = "SELECT" /\ Command[q].where.kind = kind
           /\ Command[q].columns = {"*"} /\ KeysApart(tables[Here(Command[q])])
<1>1. PICK q \in Queries :
        \/ Reject(q, Command[q]) \/ NotFound(q, Command[q]) \/ exec_create_db(q, Command[q])
        \/ CreateFails(q, Command[q]) \/ exec_create_table(q, Command[q])
        \/ Recreate(q, Command[q]) \/ exec_insert_row(q, Command[q])
        \/ exec_select(q, Command[q]) \/ exec_delete_row(q, Command[q])
        \/ exec_update_row(q, Command[q]) \/ MutationFails(q, Command[q])
  BY DEF Next
<1> DEFINE cmd == Command[q]
<1>2. query' = q
  BY <1>1 DEF Reject, NotFound, exec_create_db, CreateFails, exec_create_table, Recreate,
              exec_insert_row, exec_select, exec_delete_row, exec_update_row, MutationFails
<1>3. /\ cmd.do = "SELECT" /\ cmd.where.kind = kind /\ cmd.columns = {"*"}
      /\ answer'.says = "rows" /\ KeysApart(tables'[Here(cmd)])
  BY <1>2 DEF Answered, Here
<1>4. ~Reject(q, cmd)
  BY <1>3 DEF Reject, Rejected
<1>5. ~NotFound(q, cmd)
  BY <1>3 DEF NotFound, Says
<1>6. exec_select(q, cmd)
  BY <1>1, <1>3, <1>4, <1>5
     DEF exec_create_db, CreateFails, exec_create_table, Recreate,
         exec_insert_row, exec_delete_row, exec_update_row, MutationFails
<1>7. tables' = tables /\ Here(cmd) \in DOMAIN tables
  BY <1>6 DEF exec_select, Opens
<1> QED
  BY <1>2, <1>3, <1>6, <1>7

(* Whole rows are shown as they are.                                       *)
LEMMA ShownWhole ==
  ASSUME NEW t, TableInv(t), NEW slots, \A i \in DOMAIN slots : slots[i] \in DOMAIN t.rows
  PROVE  Shown(t, slots, {"*"}) = [i \in DOMAIN slots |-> t.rows[slots[i]]]
<1>1. Shown(t, slots, {"*"}) =
        [i \in DOMAIN slots |-> [n \in Names(t.columns) |-> t.rows[slots[i]][n]]]
  BY DEF Shown
<1>2. \A i \in DOMAIN slots :
        [n \in Names(t.columns) |-> t.rows[slots[i]][n]] = t.rows[slots[i]]
  BY RowFacts
<1> QED
  BY <1>1, <1>2

(* The entry for a key leads to the row with the key, if there is one.     *)
LEMMA PointAnswer ==
  ASSUME NEW t, TableInv(t), KeysApart(t), NEW value \in Value, Apart(value)
  PROVE  /\ Found(t, value) = {} => \A j \in t.keyed : t.rows[j][t.index] # value
         /\ \A e \in Found(t, value) :
              /\ e[2] \in DOMAIN t.rows /\ e[2] \in t.keyed
              /\ \A j \in t.keyed : t.rows[j][t.index] = value <=> j = e[2]
<1>1. ASSUME NEW j \in t.keyed, t.rows[j][t.index] = value
      PROVE  <<KeyOf(value), j>> \in Found(t, value)
  <2>1. j \in DOMAIN t.rows
    BY DEF TableInv, Good
  <2>2. TypeOf(value) = KeyType(t) /\ <<KeyOf(value), j>> \in t.entries
    BY <1>1, <2>1, RowFacts
  <2>3. <<KeyOf(value), j>>[1] = KeyOf(value)
    OBVIOUS
  <2> QED
    BY <2>2, <2>3 DEF Found
<1>2. ASSUME NEW e \in Found(t, value)
      PROVE  /\ e[2] \in DOMAIN t.rows /\ e[2] \in t.keyed
             /\ t.rows[e[2]][t.index] = value
             /\ \A d \in Found(t, value) : d = e
  <2>1. e \in t.entries /\ e[1] = KeyOf(value) /\ TypeOf(value) = KeyType(t)
    BY DEF Found
  <2> DEFINE v == t.rows[e[2]][t.index]
  <2>2. /\ e[2] \in DOMAIN t.rows /\ e[2] \in t.keyed /\ v \in Value
        /\ TypeOf(v) = TypeOf(value) /\ KeyOf(v) = KeyOf(value)
    BY <2>1, EntryFacts
  <2>3. Apart(v)
    BY <2>2 DEF KeysApart
  <2> HIDE DEF v
  <2>4. v = value
    BY <2>2, <2>3, KeysApartDiffer
  <2>5. \A d \in Found(t, value) : d \in t.entries /\ d[1] = e[1]
    BY <2>1 DEF Found
  <2>6. \A c, d \in t.entries : c[1] = d[1] => c = d
    BY DEF TableInv, Good
  <2> QED
    BY <2>1, <2>2, <2>4, <2>5, <2>6 DEF v
<1>3. ASSUME NEW e \in Found(t, value), NEW j \in t.keyed
      PROVE  t.rows[j][t.index] = value <=> j = e[2]
  <2>1. ASSUME t.rows[j][t.index] = value PROVE j = e[2]
    <3>1. <<KeyOf(value), j>> = e
      BY <1>1, <1>2, <2>1
    <3> QED
      BY <3>1
  <2> QED
    BY <1>2, <2>1
<1> QED
  BY <1>1, <1>2, <1>3

(* Whatever has been done to a table before, a SELECT for a key is         *)
(* answered with the row that has it, or with nothing if none has: one row *)
(* never stands in the way of another.                                     *)
THEOREM PointsFound == Spec => []PointExact
<1>1. Init => PointExact
  <2>1. Command[<<>>].do = "REJECTED"
    BY DEF Command, parse, Rejected
  <2> QED
    BY <2>1 DEF Init, PointExact, Answered
<1>2. SessionInv /\ PointExact /\ [Next]_vars => PointExact'
  <2> SUFFICES ASSUME SessionInv, PointExact, [Next]_vars, Answered("point")'
               PROVE  PointExact'
    BY DEF PointExact
  <2>1. CASE UNCHANGED vars
    <3>1. query' = query /\ answer' = answer /\ tables' = tables
      BY <2>1 DEF vars
    <3>2. Answered("point")
      BY <3>1 DEF Answered
    <3> QED
      BY <3>1, <3>2 DEF PointExact
  <2>2. CASE Next
    <3>1. PICK q \in Queries :
            /\ query' = q /\ tables' = tables /\ Here(Command[q]) \in DOMAIN tables
            /\ exec_select(q, Command[q]) /\ answer'.says = "rows"
            /\ Command[q].do = "SELECT" /\ Command[q].where.kind = "point"
            /\ Command[q].columns = {"*"} /\ KeysApart(tables[Here(Command[q])])
      BY <2>2, AnsweredBySelect
    <3> DEFINE cmd == Command[q]
               t == tables[Here(cmd)]
               value == cmd.where.value
               has == {t.rows[i] : i \in {j \in t.keyed : t.rows[j][t.index] = value}}
    <3>2. TableInv(t) /\ value \in Value
      BY <3>1, CommandsTyped DEF SessionInv, TypedCommand
    <3>3. \/ Found(t, value) = {} /\ answer'.rows = <<>>
          \/ \E e \in Found(t, value) : answer'.rows = Shown(t, <<e[2]>>, {"*"})
      <4>1. /\ cmd.where.kind = "point" /\ cmd.columns = {"*"}
            /\ ~(cmd.where.kind = "scan") /\ ~(cmd.where.kind = "range")
        BY <3>1
      <4>2. \/ /\ Found(t, value) = {}
               /\ Shows(<<>>)
            \/ \E e \in Found(t, value) : Shows(Shown(t, <<e[2]>>, cmd.columns))
        BY <3>1, <4>1, Zenon DEF exec_select
      <4> HIDE DEF t, value, cmd
      <4> QED
        BY <4>1, <4>2 DEF Shows
    <3>4. Apart(value) => Range(answer'.rows) = has
      <4> HIDE DEF t, value, cmd
      <4> SUFFICES ASSUME Apart(value) PROVE Range(answer'.rows) = has
        OBVIOUS
      <4>0. KeysApart(t)
        BY <3>1 DEF t, cmd
      <4>1. CASE Found(t, value) = {} /\ answer'.rows = <<>>
        <5>1. has = {}
          BY <3>2, <4>0, <4>1, PointAnswer
        <5>2. Range(<<>>) = {}
          BY DEF Range
        <5> QED
          BY <4>1, <5>1, <5>2
      <4>2. ASSUME NEW e \in Found(t, value), answer'.rows = Shown(t, <<e[2]>>, {"*"})
            PROVE  Range(answer'.rows) = has
        <5>1. /\ e[2] \in DOMAIN t.rows /\ e[2] \in t.keyed
              /\ \A j \in t.keyed : t.rows[j][t.index] = value <=> j = e[2]
          BY <3>2, <4>0, PointAnswer
        <5> DEFINE slots == <<e[2]>>
        <5>2. DOMAIN slots = {1} /\ slots[1] = e[2]
          OBVIOUS
        <5> HIDE DEF slots
        <5>3. Shown(t, slots, {"*"}) = [i \in DOMAIN slots |-> t.rows[slots[i]]]
          BY <3>2, <5>1, <5>2, ShownWhole
        <5>4. Range(answer'.rows) = {t.rows[e[2]]}
          BY <4>2, <5>2, <5>3 DEF Range, slots
        <5>5. has = {t.rows[e[2]]}
          BY <5>1
        <5> QED
          BY <5>4, <5>5
      <4> QED
        BY <3>3, <4>1, <4>2
    <3> QED
      BY <3>1, <3>4 DEF PointExact, Apart, KeyType, Here, TypeOf
  <2> QED
    BY <2>1, <2>2
<1> QED
  BY <1>1, <1>2, SessionInvariant, PTL DEF Spec

-----------------------------------------------------------------------------
(* A change of one table is none of another.                               *)
LEMMA OthersStay ==
  ASSUME SessionInv, NEW h, NEW u, Becomes(h, u), NEW n \in DOMAIN tables
  PROVE  IF n = h THEN tables'[n] = u ELSE tables'[n] = tables[n]
BY DEF Becomes, SessionInv

(* A deletion and an update reach one row, that of the key they name, and  *)
(* of it an update changes only the columns it sets; an INSERT only adds;  *)
(* nothing else changes a row, whatever it says.                           *)
THEOREM MutationsReachOne == Spec => MutationsExact
<1> DEFINE Exact(n) ==
             LET cmd == Command[query']
                 old == tables[n].rows
                 new == tables'[n].rows
                 key(row) == row[tables[n].index]
             IN  \/ new = old
                 \/ /\ cmd.do = "INSERT_ROW"
                    /\ SubSeq(new, 1, Len(old)) = old
                 \/ /\ cmd.do \in {"DELETE_ROW", "UPDATE_ROW"} /\ Here(cmd) = n
                    /\ answer'.says = "done"
                    /\ \E i \in DOMAIN old :
                         /\ KeyOf(key(old[i])) = KeyOf(cmd.where.value)
                         /\ \A j \in DOMAIN old \ {i} : new[j] = old[j]
                         /\ IF cmd.do = "DELETE_ROW" THEN new[i] = Blank(tables[n].columns)
                            ELSE \A c \in DOMAIN old[i] \ DOMAIN cmd.set : new[i][c] = old[i][c]
<1>1. SessionInv /\ [Next]_vars => [\A n \in DOMAIN tables : Exact(n)]_vars
  <2> SUFFICES ASSUME SessionInv, Next, NEW n \in DOMAIN tables PROVE Exact(n)
    OBVIOUS
  <2>0. TableInv(tables[n])
    BY DEF SessionInv
  <2>1. ASSUME tables'[n].rows = tables[n].rows PROVE Exact(n)
    BY <2>1
  <2>2. ASSUME NEW q \in Queries,
               Reject(q, Command[q]) \/ NotFound(q, Command[q]) \/ exec_create_db(q, Command[q])
                 \/ CreateFails(q, Command[q]) \/ exec_select(q, Command[q])
                 \/ MutationFails(q, Command[q])
        PROVE  Exact(n)
    <3>1. tables' = tables
      BY <2>2 DEF Reject, NotFound, exec_create_db, CreateFails, exec_select, MutationFails
    <3> HIDE DEF Exact
    <3> QED
      BY <2>1, <3>1
  <2>3. ASSUME NEW q \in Queries, exec_create_table(q, Command[q]) PROVE Exact(n)
    <3> DEFINE h == Here(Command[q])
    <3>1. h \notin DOMAIN tables
          /\ \E u : tables' = [m \in DOMAIN tables \cup {h} |-> IF m = h THEN u ELSE tables[m]]
      BY <2>3, CreateEffect
    <3> HIDE DEF h, Exact
    <3>2. tables'[n] = tables[n]
      BY <3>1
    <3> QED
      BY <2>1, <3>2
  <2>4. ASSUME NEW q \in Queries, Recreate(q, Command[q]) PROVE Exact(n)
    <3> HIDE DEF Exact
    <3>1. tables'[n].rows = tables[n].rows
      BY <2>4, RecreateEffect, OthersStay
    <3> QED
      BY <2>1, <3>1
  <2>5. ASSUME NEW q \in Queries, exec_insert_row(q, Command[q]) PROVE Exact(n)
    <3> DEFINE h == Here(Command[q])
               old == tables[n].rows
               new == tables'[n].rows
    <3>1. PICK u, row : Becomes(h, u) /\ u.rows = Append(tables[h].rows, row)
      BY <2>5, InsertEffect
    <3>2. query' = q /\ Command[q].do = "INSERT_ROW"
      BY <2>5 DEF exec_insert_row
    <3>3. IF n = h THEN tables'[n] = u ELSE tables'[n] = tables[n]
      BY <3>1, OthersStay
    <3>4. CASE n = h
      <4>1. new = Append(old, row)
        BY <3>1, <3>3, <3>4
      <4>2. old \in Seq([Names(tables[n].columns) -> Value])
        BY <2>0 DEF TableInv, Good
      <4> HIDE DEF new, old
      <4>3. SubSeq(new, 1, Len(old)) = old
        <5> DEFINE S == [Names(tables[n].columns) -> Value] \cup {row}
        <5>1. old \in Seq(S) /\ row \in S
          BY <4>2
        <5> HIDE DEF S
        <5>2. Append(old, row) \in Seq(S) /\ Len(old) \in Nat
          BY <5>1
        <5>3. /\ SubSeq(new, 1, Len(old)) \in Seq(S) /\ Len(SubSeq(new, 1, Len(old))) = Len(old)
              /\ \A i \in 1..Len(old) : SubSeq(new, 1, Len(old))[i] = old[i]
          BY <4>1, <5>1, <5>2
        <5> QED
          BY <5>1, <5>3, SeqEqual
      <4> QED
        BY <3>2, <4>3 DEF new, old
    <3>5. CASE n # h
      BY <2>1, <3>3, <3>5
    <3> QED
      BY <3>4, <3>5
  <2>6. ASSUME NEW q \in Queries, exec_delete_row(q, Command[q]) PROVE Exact(n)
    <3> DEFINE h == Here(Command[q])
               value == Command[q].where.value
    <3>1. PICK u : \E e \in Found(tables[h], value) :
            /\ Becomes(h, u)
            /\ u.rows = [tables[h].rows EXCEPT ![e[2]] = Blank(tables[h].columns)]
      BY <2>6, DeleteEffect
    <3>2. PICK e \in Found(tables[h], value) :
            /\ Becomes(h, u)
            /\ u.rows = [tables[h].rows EXCEPT ![e[2]] = Blank(tables[h].columns)]
      BY <3>1
    <3>3. query' = q /\ Command[q].do = "DELETE_ROW" /\ answer'.says = "done"
      BY <2>6 DEF exec_delete_row, Says
    <3>4. IF n = h THEN tables'[n] = u ELSE tables'[n] = tables[n]
      BY <3>2, OthersStay
    <3>5. CASE n = h
      <4> DEFINE t == tables[n]
                 i == e[2]
      <4>1. e \in t.entries /\ e[1] = KeyOf(value)
        BY <3>5 DEF Found
      <4>2. i \in DOMAIN t.rows /\ KeyOf(t.rows[i][t.index]) = KeyOf(value)
        BY <2>0, <4>1, EntryFacts
      <4>3. tables'[n].rows = [t.rows EXCEPT ![i] = Blank(t.columns)]
        BY <3>2, <3>4, <3>5
      <4>4. t.rows = [j \in DOMAIN t.rows |-> t.rows[j]]
        BY <2>0 DEF TableInv, Good
      <4> HIDE DEF t, i, value
      <4>5. /\ tables'[n].rows[i] = Blank(t.columns)
            /\ \A j \in DOMAIN t.rows \ {i} : tables'[n].rows[j] = t.rows[j]
        BY <4>2, <4>3, <4>4
      <4> QED
        BY <3>3, <3>5, <4>2, <4>5 DEF t, value
    <3>6. CASE n # h
      BY <2>1, <3>4, <3>6
    <3> QED
      BY <3>5, <3>6
  <2>7. ASSUME NEW q \in Queries, exec_update_row(q, Command[q]) PROVE Exact(n)
    <3> DEFINE h == Here(Command[q])
               value == Command[q].where.value
               set == Command[q].set
    <3>1. PICK u, row : \E e \in Found(tables[h], value) :
            /\ Becomes(h, u) /\ u.rows = [tables[h].rows EXCEPT ![e[2]] = row]
            /\ Kept(set, tables[h].rows[e[2]], row)
      BY <2>7, UpdateEffect
    <3>2. PICK e \in Found(tables[h], value) :
            /\ Becomes(h, u) /\ u.rows = [tables[h].rows EXCEPT ![e[2]] = row]
            /\ Kept(set, tables[h].rows[e[2]], row)
      BY <3>1
    <3>3. query' = q /\ Command[q].do = "UPDATE_ROW" /\ answer'.says = "done"
      BY <2>7 DEF exec_update_row, Says
    <3>4. IF n = h THEN tables'[n] = u ELSE tables'[n] = tables[n]
      BY <3>2, OthersStay
    <3>5. CASE n = h
      <4> DEFINE t == tables[n]
                 i == e[2]
      <4>1. e \in t.entries /\ e[1] = KeyOf(value)
        BY <3>5 DEF Found
      <4>2. i \in DOMAIN t.rows /\ KeyOf(t.rows[i][t.index]) = KeyOf(value)
        BY <2>0, <4>1, EntryFacts
      <4>3. tables'[n].rows = [t.rows EXCEPT ![i] = row] /\ Kept(set, t.rows[i], row)
        BY <3>2, <3>4, <3>5
      <4>4. t.rows = [j \in DOMAIN t.rows |-> t.rows[j]]
        BY <2>0 DEF TableInv, Good
      <4> HIDE DEF t, i, value, set
      <4>5. /\ tables'[n].rows[i] = row
            /\ \A j \in DOMAIN t.rows \ {i} : tables'[n].rows[j] = t.rows[j]
        BY <4>2, <4>3, <4>4
      <4>6. \A c \in DOMAIN t.rows[i] \ DOMAIN set : tables'[n].rows[i][c] = t.rows[i][c]
        BY <4>3, <4>5 DEF Kept
      <4> QED
        BY <3>3, <3>5, <4>2, <4>5, <4>6 DEF t, value, set
    <3>6. CASE n # h
      BY <2>1, <3>4, <3>6
    <3> QED
      BY <3>5, <3>6
  <2> HIDE DEF Exact
  <2> QED
    BY <2>2, <2>3, <2>4, <2>5, <2>6, <2>7 DEF Next
<1> QED
  BY <1>1, SessionInvariant, PTL DEF Spec, MutationsExact

-----------------------------------------------------------------------------
(* A finite set of entries for different keys can be put in the order of   *)
(* the keys.                                                               *)
Sorted(s) == \A i, j \in DOMAIN s : i < j => Before(s[i][1], s[j][1])
Different(S) ==
  /\ \A e \in S : e[1] \in Seq(Byte)
  /\ \A d, e \in S : d[1] = e[1] => d = e

(* A sequence that has each entry once has them all.                       *)
LEMMA HasAll ==
  ASSUME NEW S, IsFiniteSet(S), NEW s \in SetToSeqs(S)
  PROVE  /\ Cardinality(S) \in Nat /\ DOMAIN s = 1..Cardinality(S)
         /\ \A i \in DOMAIN s : s[i] \in S
         /\ \A x \in S : \E i \in DOMAIN s : s[i] = x
<1> DEFINE D == 1..Cardinality(S)
<1>1. Cardinality(S) \in Nat
  BY FS_CardinalityType
<1>2. IsFiniteSet(D) /\ Cardinality(D) = Cardinality(S)
  BY <1>1, FS_Interval
<1>3. s \in [D -> S] /\ \A i, j \in D : i # j => s[i] # s[j]
  BY DEF SetToSeqs
<1> HIDE DEF D
<1>4. s \in Injection(D, S)
  BY <1>3 DEF Injection, IsInjective
<1>5. s \in Surjection(D, S)
  BY <1>2, <1>4, FS_Injection
<1>6. \A x \in S : \E i \in D : s[i] = x
  BY <1>5 DEF Surjection
<1> QED
  BY <1>1, <1>3, <1>6 DEF D

(* One more entry goes in before the first that it is before.              *)
LEMMA OneMoreSorted ==
  ASSUME NEW S, Different(S), IsFiniteSet(S), NEW x \in S,
         NEW s \in SetToSeqs(S \ {x}), Sorted(s)
  PROVE  \E u \in SetToSeqs(S) : Sorted(u)
<1> DEFINE R == S \ {x}
           n == Cardinality(R)
           At(i) == i = n + 1 \/ Before(x[1], s[i][1])
           P == {i \in 1..(n + 1) : At(i)}
<1>1. IsFiniteSet(R) /\ n \in Nat /\ Cardinality(S) = n + 1
  <2>1. IsFiniteSet(R) /\ Cardinality(R) = Cardinality(S) - 1
    BY FS_RemoveElement
  <2>2. Cardinality(R) \in Nat /\ Cardinality(S) \in Nat
    BY <2>1, FS_CardinalityType
  <2> QED
    BY <2>1, <2>2
<1>2. /\ DOMAIN s = 1..n /\ \A i \in 1..n : s[i] \in S /\ s[i] # x
      /\ \A i, j \in 1..n : i # j => s[i] # s[j]
  BY <1>1, HasAll DEF SetToSeqs
<1> HIDE DEF R, n
<1>3. P \in SUBSET Nat /\ P # {}
  BY <1>1
<1>4. PICK p \in P : \A i \in P : p <= i
  BY <1>3, LeastElement
<1> DEFINE u == [i \in 1..(n + 1) |-> IF i < p THEN s[i] ELSE IF i = p THEN x ELSE s[i - 1]]
<1>5. p \in 1..(n + 1) /\ At(p) /\ \A i \in 1..n : i < p => ~Before(x[1], s[i][1])
  BY <1>1, <1>4
<1>6. x[1] \in Seq(Byte) /\ \A i \in 1..n : s[i][1] \in Seq(Byte) /\ s[i][1] # x[1]
  BY <1>2 DEF Different
<1>7. \A i \in 1..n : i < p => Before(s[i][1], x[1])
  BY <1>5, <1>6, BeforeTotal
<1>8. \A i \in 1..n : i >= p => Before(x[1], s[i][1])
  <2> SUFFICES ASSUME NEW i \in 1..n, i >= p PROVE Before(x[1], s[i][1])
    OBVIOUS
  <2>1. p \in 1..n /\ Before(x[1], s[p][1])
    BY <1>1, <1>5
  <2>2. i = p \/ Before(s[p][1], s[i][1])
    BY <1>1, <1>2, <2>1 DEF Sorted
  <2> QED
    BY <1>6, <2>1, <2>2, BeforeTransitive
<1> HIDE DEF P
<1>9. /\ u[p] = x
      /\ \A i \in 1..(n + 1) : i < p => i \in 1..n /\ u[i] = s[i]
      /\ \A i \in 1..(n + 1) : i > p => i - 1 \in 1..n /\ i - 1 >= p /\ u[i] = s[i - 1]
      /\ DOMAIN u = 1..(n + 1)
  BY <1>1, <1>5
<1> HIDE DEF u
<1>10. u \in SetToSeqs(S)
  <2>1. ASSUME NEW i \in 1..(n + 1) PROVE u[i] \in S
    <3>1. CASE i < p
      BY <1>2, <1>9, <3>1
    <3>2. CASE i = p
      BY <1>9, <3>2
    <3>3. CASE i > p
      BY <1>2, <1>9, <3>3
    <3> QED
      BY <1>1, <1>5, <3>1, <3>2, <3>3
  <2>2. ASSUME NEW i \in 1..(n + 1), NEW j \in 1..(n + 1), i < j PROVE u[i] # u[j]
    <3>1. CASE j < p
      <4>1. i < p
        BY <1>1, <1>5, <2>2, <3>1
      <4> QED
        BY <1>2, <1>9, <2>2, <3>1, <4>1
    <3>2. CASE j = p
      BY <1>2, <1>9, <2>2, <3>2
    <3>3. CASE j > p /\ i = p
      BY <1>2, <1>9, <3>3
    <3>4. CASE j > p /\ i < p
      <4>1. i # j - 1 /\ u[i] = s[i] /\ u[j] = s[j - 1] /\ i \in 1..n /\ j - 1 \in 1..n
        BY <1>1, <1>5, <1>9, <3>4
      <4> QED
        BY <1>2, <4>1
    <3>5. CASE j > p /\ i > p
      <4>1. i - 1 # j - 1 /\ u[i] = s[i - 1] /\ u[j] = s[j - 1]
            /\ i - 1 \in 1..n /\ j - 1 \in 1..n
        BY <1>1, <1>5, <1>9, <2>2, <3>5
      <4> QED
        BY <1>2, <4>1
    <3> QED
      BY <1>1, <1>5, <3>1, <3>2, <3>3, <3>4, <3>5
  <2>3. u = [i \in 1..(n + 1) |-> u[i]]
    BY DEF u
  <2>4. u \in [1..(n + 1) -> S]
    BY <2>1, <2>3
  <2>5. \A i, j \in 1..(n + 1) : i # j => u[i] # u[j]
    BY <1>1, <2>2
  <2> QED
    BY <1>1, <2>4, <2>5 DEF SetToSeqs
<1>11. Sorted(u)
  <2> SUFFICES ASSUME NEW i \in 1..(n + 1), NEW j \in 1..(n + 1), i < j
               PROVE  Before(u[i][1], u[j][1])
    BY <1>9 DEF Sorted
  <2>0. \A k, m \in 1..n : k < m => Before(s[k][1], s[m][1])
    BY <1>2 DEF Sorted
  <2>1. CASE j < p
    <3>1. i < p
      BY <1>1, <1>5, <2>1
    <3> QED
      BY <1>9, <2>0, <2>1, <3>1
  <2>2. CASE j = p
    BY <1>7, <1>9, <2>2
  <2>3. CASE j > p /\ i = p
    BY <1>8, <1>9, <2>3
  <2>4. CASE j > p /\ i < p
    <3>1. i < j - 1 \/ i = j - 1
      BY <1>1, <1>5
    <3>2. u[i] = s[i] /\ u[j] = s[j - 1] /\ i \in 1..n /\ j - 1 \in 1..n /\ i < p /\ j - 1 >= p
      BY <1>9, <2>4
    <3>3. i < j - 1
      BY <1>1, <1>5, <3>2
    <3> QED
      BY <2>0, <3>2, <3>3
  <2>5. CASE j > p /\ i > p
    <3>1. /\ u[i] = s[i - 1] /\ u[j] = s[j - 1]
          /\ i - 1 \in 1..n /\ j - 1 \in 1..n /\ i - 1 < j - 1
      BY <1>1, <1>9, <2>5
    <3> QED
      BY <2>0, <3>1
  <2> QED
    BY <1>1, <1>5, <2>1, <2>2, <2>3, <2>4, <2>5
<1> QED
  BY <1>10, <1>11

(* A finite set of entries for different keys can be listed in their order.*)
LEMMA CanBeSorted ==
  ASSUME NEW F, IsFiniteSet(F), Different(F)
  PROVE  \E s \in SetToSeqs(F) : Sorted(s)
<1> DEFINE Sortable(S) == \E s \in SetToSeqs(S) : Sorted(s)
           T == {n \in Nat : \A S : IsFiniteSet(S) /\ Different(S) /\ Cardinality(S) = n => Sortable(S)}
<1>1. 0 \in T
  <2> SUFFICES ASSUME NEW S, IsFiniteSet(S), Cardinality(S) = 0 PROVE Sortable(S)
    OBVIOUS
  <2>1. 1..Cardinality(S) = {}
    OBVIOUS
  <2>2. <<>> \in SetToSeqs(S)
    BY <2>1 DEF SetToSeqs
  <2>3. Sorted(<<>>)
    BY DEF Sorted
  <2> QED
    BY <2>2, <2>3
<1>2. ASSUME NEW n \in Nat, n \in T PROVE n + 1 \in T
  <2> SUFFICES ASSUME NEW S, IsFiniteSet(S), Different(S), Cardinality(S) = n + 1
               PROVE  Sortable(S)
    OBVIOUS
  <2>1. PICK x : x \in S
    <3>1. Cardinality(S) # 0
      OBVIOUS
    <3> QED
      BY <3>1, FS_EmptySet
  <2>2. /\ IsFiniteSet(S \ {x}) /\ Different(S \ {x}) /\ Cardinality(S \ {x}) = n
    <3>1. IsFiniteSet(S \ {x}) /\ Cardinality(S \ {x}) = (n + 1) - 1
      BY <2>1, FS_RemoveElement
    <3>2. Different(S \ {x})
      BY DEF Different
    <3> QED
      BY <3>1, <3>2
  <2>3. Sortable(S \ {x})
    BY <1>2, <2>2
  <2> QED
    BY <2>1, <2>3, OneMoreSorted
<1> HIDE DEF T
<1>3. \A n \in Nat : n \in T
  BY <1>1, <1>2, NumberInduction
<1>4. Cardinality(F) \in T
  BY <1>3, FS_CardinalityType
<1> QED
  BY <1>4 DEF T

\* The order of values.
AtMost(v, w) ==
  IF TypeOf(v) = "INT" THEN v.int <= w.int ELSE v = w \/ Before(v.str, w.str)

(* The order of keys is that of the values they stand for. *)
LEMMA KeyOrder ==
  ASSUME NEW v \in Value, NEW w \in Value, Apart(v), Apart(w), TypeOf(v) = TypeOf(w)
  PROVE  AtMost(v, w) <=> ~Before(KeyOf(w), KeyOf(v))
<1>1. CASE TypeOf(v) = "INT"
  <2>1. v.int \in Ints /\ w.int \in Ints
    BY <1>1 DEF Apart
  <2>2. KeyOf(v) = intKeyToString(v.int) /\ KeyOf(w) = intKeyToString(w.int)
    BY <1>1, <2>1, CastOfInts DEF KeyOf
  <2>3. Before(KeyOf(w), KeyOf(v)) <=> w.int < v.int
    BY <2>1, <2>2, IntegerOrder DEF KeysInOrder
  <2>4. AtMost(v, w) <=> v.int <= w.int
    BY <1>1 DEF AtMost
  <2>5. v.int <= w.int <=> ~(w.int < v.int)
    <3>1. \A j, k \in Int : j <= k <=> ~(k < j)
      OBVIOUS
    <3>2. v.int \in Int /\ w.int \in Int
      BY <1>1, ValueForms
    <3> QED
      BY <3>1, <3>2, Zenon
  <2> QED
    BY <2>3, <2>4, <2>5, Zenon
<1>2. CASE TypeOf(v) = "STR"
  <2> DEFINE a == v.str
             b == w.str
  <2>1. /\ v = Literal(a) /\ w = Literal(b) /\ a \in Seq(Byte) /\ b \in Seq(Byte)
        /\ KeyOf(v) = a /\ KeyOf(w) = b
    BY <1>2, ValueForms, StringKeys DEF Apart, KeyOf
  <2>2. AtMost(v, w) <=> v = w \/ Before(a, b)
    BY <1>2 DEF AtMost
  <2> HIDE DEF a, b
  <2>3. v = w <=> a = b
    BY <2>1, StringsDiffer
  <2>4. ~(Before(a, b) /\ Before(b, a)) /\ ~Before(a, a)
    BY <2>1, BeforeIrreflexive, BeforeTransitive
  <2>5. a # b => Before(a, b) \/ Before(b, a)
    BY <2>1, BeforeTotal
  <2>6. a = b \/ Before(a, b) <=> ~Before(b, a)
    BY <2>4, <2>5
  <2>7. AtMost(v, w) <=> ~Before(b, a)
    BY <2>2, <2>3, <2>6
  <2>8. KeyOf(v) = a /\ KeyOf(w) = b
    BY <2>1
  <2> QED
    BY <2>7, <2>8
<1> QED
  BY <1>1, <1>2, ValueForms

(* The slots of a range are those of the entries in it, in the order of    *)
(* their keys.                                                             *)
LEMMA RangeSlots ==
  ASSUME NEW t, TableInv(t), NEW low, NEW high, TypeOf(low) = KeyType(t)
  PROVE  LET slots == InRange(t, low, high)
             found == {e \in t.entries : Within(e[1], KeyOf(low), KeyOf(high))}
         IN  \E s \in [DOMAIN slots -> found] :
               /\ \A i \in DOMAIN slots : slots[i] = s[i][2]
               /\ \A e \in found : \E i \in DOMAIN slots : s[i] = e
               /\ \A i, j \in DOMAIN slots : i < j => Before(s[i][1], s[j][1])
               /\ DOMAIN slots \subseteq Nat
<1> DEFINE slots == InRange(t, low, high)
           found == {e \in t.entries : Within(e[1], KeyOf(low), KeyOf(high))}
           s == CHOOSE u \in SetToSeqs(found) : Sorted(u)
<1>1. IsFiniteSet(t.entries) /\ \A d, e \in t.entries : d[1] = e[1] => d = e
  BY DEF TableInv, Good
<1>2. \A e \in t.entries : e[1] \in Seq(Byte)
  BY EntryFacts
<1>3. IsFiniteSet(found) /\ Different(found)
  BY <1>1, <1>2, FS_Subset DEF Different
<1>4. slots = [i \in DOMAIN s |-> s[i][2]]
  BY DEF InRange, Sorted
<1> HIDE DEF found, slots
<1>5. s \in SetToSeqs(found) /\ Sorted(s)
  BY <1>3, CanBeSorted
<1> HIDE DEF s
<1>6. /\ Cardinality(found) \in Nat /\ DOMAIN s = 1..Cardinality(found)
      /\ \A e \in found : \E i \in DOMAIN s : s[i] = e
  BY <1>3, <1>5, HasAll
<1>7. s \in [DOMAIN s -> found]
  BY <1>5, <1>6 DEF SetToSeqs
<1>8. DOMAIN slots = DOMAIN s /\ \A i \in DOMAIN slots : slots[i] = s[i][2]
  BY <1>4
<1>9. \A i, j \in DOMAIN slots : i < j => Before(s[i][1], s[j][1])
  BY <1>5, <1>8 DEF Sorted
<1>10. DOMAIN slots \subseteq Nat
  BY <1>6, <1>8
<1>11. \E u \in [DOMAIN slots -> found] :
         /\ \A i \in DOMAIN slots : slots[i] = u[i][2]
         /\ \A e \in found : \E i \in DOMAIN slots : u[i] = e
         /\ \A i, j \in DOMAIN slots : i < j => Before(u[i][1], u[j][1])
         /\ DOMAIN slots \subseteq Nat
  <2>1. s \in [DOMAIN slots -> found]
    BY <1>7, <1>8
  <2> WITNESS s \in [DOMAIN slots -> found]
  <2>2. \A e \in found : \E i \in DOMAIN slots : s[i] = e
    BY <1>6, <1>8
  <2> QED
    BY <1>8, <1>9, <1>10, <2>2
<1> QED
  BY <1>11 DEF slots, found

(* The rows that a range search shows.                                     *)
LEMMA RangeAnswer ==
  ASSUME NEW t, TableInv(t), KeysApart(t), NEW low \in Value, NEW high \in Value,
         TypeOf(low) = TypeOf(high), Apart(low), Apart(high)
  PROVE  LET rows == Shown(t, InRange(t, low, high), {"*"})
             within(v) == TypeOf(v) = TypeOf(low) /\ AtMost(low, v) /\ AtMost(v, high)
         IN  /\ Range(rows) = {t.rows[i] : i \in {j \in t.keyed : within(t.rows[j][t.index])}}
             /\ \A i, j \in DOMAIN rows :
                  i < j => AtMost(rows[i][t.index], rows[j][t.index])
<1> DEFINE slots == InRange(t, low, high)
           rows == Shown(t, slots, {"*"})
           key(i) == t.rows[i][t.index]
           within(v) == TypeOf(v) = TypeOf(low) /\ AtMost(low, v) /\ AtMost(v, high)
           In == {j \in t.keyed : within(key(j))}
           has == {t.rows[i] : i \in In}
<1>0. t.keyed \subseteq DOMAIN t.rows
  BY DEF TableInv, Good
<1>1. CASE TypeOf(low) # KeyType(t)
  <2>1. slots = <<>>
    BY <1>1 DEF InRange
  <2>2. rows = <<>>
    BY <2>1 DEF Shown
  <2>3. \A j \in t.keyed : TypeOf(key(j)) = KeyType(t)
    BY <1>0, RowFacts
  <2>4. has = {}
    BY <1>1, <2>3
  <2>5. Range(<<>>) = {} /\ DOMAIN <<>> = {}
    BY DEF Range
  <2> HIDE DEF slots, rows, has
  <2>6. Range(rows) = has /\ DOMAIN rows = {}
    BY <2>2, <2>4, <2>5
  <2> QED
    BY <2>6 DEF has, rows, slots
<1>2. CASE TypeOf(low) = KeyType(t)
  <2> DEFINE found == {e \in t.entries : Within(e[1], KeyOf(low), KeyOf(high))}
  <2>1. PICK s \in [DOMAIN slots -> found] :
          /\ \A i \in DOMAIN slots : slots[i] = s[i][2]
          /\ \A e \in found : \E i \in DOMAIN slots : s[i] = e
          /\ \A i, j \in DOMAIN slots : i < j => Before(s[i][1], s[j][1])
          /\ DOMAIN slots \subseteq Nat
    BY <1>2, RangeSlots
  <2> HIDE DEF slots
  <2>2. \A e \in t.entries :
          /\ e[2] \in DOMAIN t.rows /\ e[2] \in t.keyed /\ key(e[2]) \in Value
          /\ TypeOf(key(e[2])) = TypeOf(low) /\ e[1] = KeyOf(key(e[2])) /\ Apart(key(e[2]))
    BY <1>2, EntryFacts DEF KeysApart
  <2>3. \A e \in t.entries : e \in found <=> within(key(e[2]))
    <3> SUFFICES ASSUME NEW e \in t.entries PROVE e \in found <=> within(key(e[2]))
      OBVIOUS
    <3> DEFINE v == key(e[2])
    <3>1. v \in Value /\ Apart(v) /\ TypeOf(v) = TypeOf(low) /\ e[1] = KeyOf(v)
      BY <2>2
    <3> HIDE DEF v
    <3>2. AtMost(low, v) <=> ~Before(KeyOf(v), KeyOf(low))
      BY <3>1, KeyOrder
    <3>3. AtMost(v, high) <=> ~Before(KeyOf(high), KeyOf(v))
      BY <3>1, KeyOrder
    <3>4. within(v) <=> Within(e[1], KeyOf(low), KeyOf(high))
      BY <3>1, <3>2, <3>3 DEF Within
    <3> QED
      BY <3>4 DEF v
  <2>4. \A j \in t.keyed : j \in DOMAIN t.rows /\ <<KeyOf(key(j)), j>> \in t.entries
    BY <1>0, RowFacts
  <2>5. found \subseteq t.entries
    OBVIOUS
  <2> HIDE DEF found, key, within
  <2>6. \A i \in DOMAIN slots : slots[i] \in DOMAIN t.rows
    BY <2>1, <2>2, <2>5
  <2>7. rows = [i \in DOMAIN slots |-> t.rows[slots[i]]]
    BY <2>6, ShownWhole
  <2> HIDE DEF rows
  <2>8. Range(rows) = has
    <3>1. ASSUME NEW i \in DOMAIN rows PROVE rows[i] \in has
      <4>1. i \in DOMAIN slots /\ rows[i] = t.rows[slots[i]]
        BY <2>7
      <4>2. s[i] \in found /\ slots[i] = s[i][2]
        BY <2>1, <4>1
      <4>3. slots[i] \in In
        BY <2>2, <2>3, <2>5, <4>2
      <4> QED
        BY <4>1, <4>3
    <3>2. ASSUME NEW j \in In PROVE \E i \in DOMAIN rows : rows[i] = t.rows[j]
      <4> DEFINE e == <<KeyOf(key(j)), j>>
      <4>1. e \in t.entries /\ e[2] = j /\ within(key(j))
        BY <2>4
      <4> HIDE DEF e
      <4>2. e \in found
        BY <2>3, <4>1
      <4>3. PICK i \in DOMAIN slots : s[i] = e
        BY <2>1, <4>2
      <4>4. slots[i] = j
        BY <2>1, <4>1, <4>3
      <4> QED
        BY <2>7, <4>4
    <3>3. Range(rows) = {rows[i] : i \in DOMAIN rows}
      BY DEF Range
    <3> HIDE DEF In
    <3> QED
      BY <3>1, <3>2, <3>3
  <2>9. ASSUME NEW i \in DOMAIN rows, NEW j \in DOMAIN rows, i < j
        PROVE  AtMost(rows[i][t.index], rows[j][t.index])
    <3>1. /\ i \in DOMAIN slots /\ j \in DOMAIN slots
          /\ rows[i] = t.rows[slots[i]] /\ rows[j] = t.rows[slots[j]]
      BY <2>7
    <3> DEFINE d == s[i]
               e == s[j]
               v == key(d[2])
               w == key(e[2])
    <3>2. d \in t.entries /\ e \in t.entries /\ slots[i] = d[2] /\ slots[j] = e[2]
      BY <2>1, <2>5, <3>1
    <3>3. Before(d[1], e[1])
      BY <2>1, <2>9, <3>1
    <3> HIDE DEF d, e
    <3>4. /\ v \in Value /\ w \in Value /\ Apart(v) /\ Apart(w) /\ TypeOf(v) = TypeOf(w)
          /\ d[1] = KeyOf(v) /\ e[1] = KeyOf(w)
      BY <2>2, <3>2
    <3>5. rows[i][t.index] = v /\ rows[j][t.index] = w
      BY <3>1, <3>2 DEF key
    <3> HIDE DEF v, w
    <3>6. ~Before(KeyOf(w), KeyOf(v))
      <4>1. KeyOf(v) \in Seq(Byte) /\ KeyOf(w) \in Seq(Byte)
        BY <3>4, KeysAreBytes
      <4> QED
        BY <3>3, <3>4, <4>1, BeforeIrreflexive, BeforeTransitive
    <3> QED
      BY <3>4, <3>5, <3>6, KeyOrder
  <2> QED
    BY <2>8, <2>9 DEF has, In, rows, slots, key, within
<1> QED
  BY <1>1, <1>2

(* Of a range of integers those are the rows that its operators ask for,   *)
(* and the rows at its ends.                                               *)
LEMMA IntegerRange ==
  ASSUME NEW t, TableInv(t), KeysApart(t), KeyType(t) = "INT",
         NEW c, c.val_low \in Value, c.val_high \in Value,
         TypeOf(c.val_low) = "INT", TypeOf(c.val_low) = TypeOf(c.val_high),
         Apart(c.val_low), Apart(c.val_high),
         c.op_low \in {">", ">="}, c.op_high \in {"<", "<="},
         NEW rows, rows = Shown(t, InRange(t, c.val_low, c.val_high), {"*"})
  PROVE  /\ RowsAsked(t, c) \subseteq Range(rows)
         /\ Range(rows) \subseteq RowsClosed(t, c)
         /\ \A i, j \in DOMAIN rows : i < j => rows[i][t.index].int <= rows[j][t.index].int
<1> DEFINE low == c.val_low
           high == c.val_high
           a == low.int
           b == high.int
           key(i) == t.rows[i][t.index]
           within(v) == TypeOf(v) = TypeOf(low) /\ AtMost(low, v) /\ AtMost(v, high)
           In == {j \in t.keyed : within(key(j))}
           Strictly == {j \in t.keyed : Meets(key(j).int, c.op_low, a) /\ Meets(key(j).int, c.op_high, b)}
           AtEnds == {j \in t.keyed : Meets(key(j).int, ">=", a) /\ Meets(key(j).int, "<=", b)}
<1>1. /\ low \in Value /\ high \in Value /\ a \in Int /\ b \in Int /\ TypeOf(low) = "INT"
      /\ TypeOf(low) = TypeOf(high) /\ Apart(low) /\ Apart(high)
      /\ rows = Shown(t, InRange(t, low, high), {"*"})
  BY ValueForms
<1>2. /\ Range(rows) = {t.rows[i] : i \in In}
      /\ \A i, j \in DOMAIN rows : i < j => AtMost(rows[i][t.index], rows[j][t.index])
  <2> HIDE DEF low, high
  <2> QED
    BY <1>1, RangeAnswer
<1>3. \A j \in t.keyed : TypeOf(key(j)) = "INT" /\ key(j).int \in Int
  <2> SUFFICES ASSUME NEW j \in t.keyed PROVE TypeOf(key(j)) = "INT" /\ key(j).int \in Int
    OBVIOUS
  <2>1. j \in DOMAIN t.rows
    BY DEF TableInv, Good
  <2>2. TypeOf(key(j)) = "INT" /\ key(j) \in Value
    BY <2>1, RowFacts
  <2> HIDE DEF key
  <2> QED
    BY <2>2, ValueForms
<1>4. RowsAsked(t, c) = {t.rows[i] : i \in Strictly}
  BY DEF RowsAsked
<1>5. RowsClosed(t, c) = {t.rows[i] : i \in AtEnds}
  <2> DEFINE d == [c EXCEPT !.op_low = ">=", !.op_high = "<="]
  <2>1. d.op_low = ">=" /\ d.op_high = "<=" /\ d.val_low = low /\ d.val_high = high
    OBVIOUS
  <2> HIDE DEF d
  <2>2. RowsAsked(t, d) = {t.rows[i] : i \in AtEnds}
    BY <2>1 DEF RowsAsked
  <2> QED
    BY <2>2 DEF RowsClosed, d
<1> HIDE DEF low, high, a, b, key
<1>6. ASSUME NEW j \in t.keyed
      PROVE  /\ within(key(j)) <=> a <= key(j).int /\ key(j).int <= b
             /\ j \in Strictly => a <= key(j).int /\ key(j).int <= b
             /\ j \in AtEnds <=> a <= key(j).int /\ key(j).int <= b
  <2> DEFINE k == key(j).int
  <2>1. TypeOf(key(j)) = "INT" /\ k \in Int
    BY <1>3
  <2>2. within(key(j)) <=> a <= k /\ k <= b
    BY <1>1, <2>1 DEF AtMost, a, b
  <2> HIDE DEF k
  <2>3. Meets(k, c.op_low, a) => a <= k
    <3>1. (Meets(k, ">", a) => a <= k) /\ (Meets(k, ">=", a) => a <= k)
      BY <1>1, <2>1 DEF Meets
    <3> QED
      BY <3>1
  <2>4. Meets(k, c.op_high, b) => k <= b
    <3>1. (Meets(k, "<", b) => k <= b) /\ (Meets(k, "<=", b) => k <= b)
      BY <1>1, <2>1 DEF Meets
    <3> QED
      BY <3>1
  <2>5. (Meets(k, ">=", a) <=> a <= k) /\ (Meets(k, "<=", b) <=> k <= b)
    BY <1>1, <2>1 DEF Meets
  <2> QED
    BY <2>2, <2>3, <2>4, <2>5 DEF k
<1> HIDE DEF within
<1>7. Strictly \subseteq In /\ In \subseteq AtEnds
  BY <1>6
<1>8. ASSUME NEW i \in DOMAIN rows, NEW j \in DOMAIN rows, i < j
      PROVE  rows[i][t.index].int <= rows[j][t.index].int
  <2>1. rows[i] \in Range(rows) /\ AtMost(rows[i][t.index], rows[j][t.index])
    BY <1>2, <1>8 DEF Range
  <2>2. PICK m \in In : rows[i] = t.rows[m]
    BY <1>2, <2>1
  <2>3. TypeOf(rows[i][t.index]) = "INT"
    BY <1>3, <2>2 DEF key
  <2> QED
    BY <2>1, <2>3 DEF AtMost
<1> HIDE DEF In, Strictly, AtEnds
<1> QED
  BY <1>2, <1>4, <1>5, <1>7, <1>8

(* A range of integers is answered in the order of its keys, whatever sign *)
(* they have and whatever has been done to the table before: with every    *)
(* row that was asked for, and with no others but those at its ends.       *)
THEOREM RangesFound == Spec => []RangeExact
<1>1. Init => RangeExact
  <2>1. Command[<<>>].do = "REJECTED"
    BY DEF Command, parse, Rejected
  <2> QED
    BY <2>1 DEF Init, RangeExact, AnsweredRange, Answered
<1>2. SessionInv /\ RangeExact /\ [Next]_vars => RangeExact'
  <2> SUFFICES ASSUME SessionInv, RangeExact, [Next]_vars, AnsweredRange'
               PROVE  RangeExact'
    BY DEF RangeExact
  <2>1. CASE UNCHANGED vars
    BY <2>1 DEF vars, RangeExact, AnsweredRange, Answered
  <2>2. CASE Next
    <3>0. Answered("range")'
      BY DEF AnsweredRange
    <3>1. PICK q \in Queries :
            /\ query' = q /\ tables' = tables /\ Here(Command[q]) \in DOMAIN tables
            /\ exec_select(q, Command[q]) /\ answer'.says = "rows"
            /\ Command[q].do = "SELECT" /\ Command[q].where.kind = "range"
            /\ Command[q].columns = {"*"} /\ KeysApart(tables[Here(Command[q])])
      BY <2>2, <3>0, AnsweredBySelect
    <3> DEFINE cmd == Command[q]
               t == tables[Here(cmd)]
               c == cmd.where
               rows == answer'.rows
    <3>2. TableInv(t) /\ c.val_low \in Value /\ c.val_high \in Value
      BY <3>1, CommandsTyped DEF SessionInv, TypedCommand
    <3>3. /\ KeyType(t) = "INT" /\ TypeOf(c.val_low) = "INT"
          /\ Apart(c.val_low) /\ Apart(c.val_high)
          /\ c.op_low \in {">", ">="} /\ c.op_high \in {"<", "<="}
      BY <3>1 DEF AnsweredRange, Here
    <3>4. /\ TypeOf(c.val_low) = TypeOf(c.val_high)
          /\ rows = Shown(t, InRange(t, c.val_low, c.val_high), {"*"})
      <4>1. /\ c.kind = "range" /\ cmd.columns = {"*"}
            /\ ~(c.kind = "scan") /\ ~(c.kind = "point")
        BY <3>1
      <4>2. \/ /\ TypeOf(c.val_low) = TypeOf(c.val_high)
               /\ Shows(Shown(t, InRange(t, c.val_low, c.val_high), cmd.columns))
            \/ Says("error")
        BY <3>1, <4>1, Zenon DEF exec_select
      <4>3. answer'.says = "rows"
        BY <3>1
      <4> HIDE DEF t, c, cmd
      <4> QED
        BY <4>1, <4>2, <4>3 DEF Shows, Says
    <3>5. KeysApart(t)
      BY <3>1
    <3> HIDE DEF t, c, cmd, rows
    <3>6. /\ RowsAsked(t, c) \subseteq Range(rows)
          /\ Range(rows) \subseteq RowsClosed(t, c)
          /\ \A i, j \in DOMAIN rows : i < j => rows[i][t.index].int <= rows[j][t.index].int
      BY <3>2, <3>3, <3>4, <3>5, IntegerRange
    <3> QED
      BY <3>1, <3>6 DEF RangeExact, Here, t, c, cmd, rows
  <2> QED
    BY <2>1, <2>2
<1> QED
  BY <1>1, <1>2, SessionInvariant, PTL DEF Spec

-----------------------------------------------------------------------------
(***************************************************************************)
(* The parser: what is written as the README writes it is read as it was   *)
(* meant, for all names, columns, values and clauses.                      *)
(***************************************************************************)

(* The sequence that lists a set has each of its elements once.            *)
LEMMA Listed ==
  ASSUME NEW S, IsFiniteSet(S)
  PROVE  /\ SetToSeq(S) \in [1..Cardinality(S) -> S]
         /\ Cardinality(S) \in Nat
         /\ \A x \in S : \E i \in 1..Cardinality(S) : SetToSeq(S)[i] = x
         /\ \A i, j \in 1..Cardinality(S) : SetToSeq(S)[i] = SetToSeq(S)[j] => i = j
<1> DEFINE D == 1..Cardinality(S)
           L == SetToSeq(S)
<1>1. Cardinality(S) \in Nat /\ ExistsBijection(D, S)
  BY FS_CardinalityType
<1>2. \E f \in [D -> S] : IsInjective(f)
  BY <1>1 DEF ExistsBijection, Bijection, Injection, IsInjective
<1>3. L \in [D -> S] /\ IsInjective(L)
  BY <1>2 DEF SetToSeq
<1> HIDE DEF L
<1>4. L \in Injection(D, S)
  BY <1>3 DEF Injection, IsInjective
<1>5. IsFiniteSet(D) /\ Cardinality(D) = Cardinality(S)
  BY <1>1, FS_Interval
<1>6. L \in Surjection(D, S)
  BY <1>4, <1>5, FS_Injection
<1>7. \A x \in S : \E i \in D : L[i] = x
  BY <1>6 DEF Surjection
<1> QED
  BY <1>1, <1>3, <1>7 DEF IsInjective, L

-----------------------------------------------------------------------------
(* Keywords are words, which are not blocks and begin no value.            *)
LEMMA WordsAndBlocks ==
  /\ \A t : ~IsBlock(W(t)) /\ ~IsValue(W(t)) /\ W(t).word = t
  /\ \A p : IsBlock(Block(p)) /\ Block(p).block = p
  /\ \A t : IsBlock(Name(t)) /\ Text(Name(t).block) = t
  /\ \A s, t : W(s) = W(t) => s = t
  /\ \A p, t : Block(p) # W(t)
  /\ \A v \in Value : IsValue(v)
<1>1. \A t : ~IsBlock(W(t)) /\ ~IsValue(W(t)) /\ W(t).word = t
  BY DEF IsBlock, IsValue, W
<1>2. \A p : IsBlock(Block(p)) /\ Block(p).block = p
  BY DEF IsBlock, Block
<1>3. \A t : IsBlock(Name(t)) /\ Text(Name(t).block) = t
  <2> TAKE t
  <2>1. Name(t).block = << <<W(t)>> >>
    BY <1>2 DEF Name
  <2> QED
    BY <1>1, <1>2, <2>1 DEF Name, Text
<1>4. \A s, t : W(s) = W(t) => s = t
  BY <1>1
<1>5. \A p, t : Block(p) # W(t)
  BY <1>1, <1>2
<1>6. \A v \in Value : IsValue(v)
  BY DEF Value, IsValue
<1> QED
  BY <1>1, <1>2, <1>3, <1>4, <1>5, <1>6

(* The columns of a table. *)
LEMMA ColumnsComeBack ==
  ASSUME NEW defs \in Seq([type : {"INT", "STR"}, name : Identifiers])
  PROVE  /\ AreColDefs(Columns(defs).block)
         /\ parse_col_defs(Columns(defs).block) = defs
<1> DEFINE Def == [type : {"INT", "STR"}, name : Identifiers]
<1> HIDE DEF Def
<1>0. \A i \in DOMAIN defs : defs[i] \in Def
  <2>1. defs \in Seq(Def)
    BY DEF Def
  <2> QED
    BY <2>1
<1> DEFINE b == [i \in DOMAIN defs |-> <<W(defs[i].type), W(defs[i].name)>>]
<1>1. Columns(defs).block = b
  BY WordsAndBlocks DEF Columns
<1>2. DOMAIN b = DOMAIN defs /\ DOMAIN defs = 1..Len(defs)
  OBVIOUS
<1>3. \A i \in DOMAIN defs :
        /\ Len(b[i]) = 2 /\ b[i] # <<>>
        /\ b[i][1] = W(defs[i].type) /\ b[i][2] = W(defs[i].name)
  OBVIOUS
<1>4. \A i \in DOMAIN defs :
        /\ defs[i].type \in {"INT", "STR"}
        /\ defs[i] = [type |-> defs[i].type, name |-> defs[i].name]
  BY <1>0 DEF Def
<1> HIDE DEF b
<1>5. AreColDefs(b)
  BY <1>2, <1>3, <1>4 DEF AreColDefs
<1>6. {j \in DOMAIN b : b[j] # <<>>} = DOMAIN defs
  BY <1>2, <1>3
<1>7. parse_col_defs(b) = [i \in DOMAIN defs |-> [type |-> b[i][1].word, name |-> b[i][2].word]]
  BY <1>6 DEF parse_col_defs
<1>8. \A i \in DOMAIN defs : [type |-> b[i][1].word, name |-> b[i][2].word] = defs[i]
  <2> TAKE i \in DOMAIN defs
  <2>1. b[i][1].word = defs[i].type /\ b[i][2].word = defs[i].name
    BY <1>3, WordsAndBlocks
  <2> QED
    BY <1>4, <2>1
<1>9. defs = [i \in DOMAIN defs |-> defs[i]]
  OBVIOUS
<1>10. parse_col_defs(b) = defs
  BY <1>7, <1>8, <1>9
<1> QED
  BY <1>1, <1>5, <1>10

(* The columns that a SELECT shows. *)
LEMMA ListComesBack ==
  ASSUME NEW S \in SUBSET Identifiers, IsFiniteSet(S)
  PROVE  parse_col_list(List(S).block) = S
<1> DEFINE L == SetToSeq(S)
           b == [i \in DOMAIN L |-> <<W(L[i])>>]
<1>1. List(S).block = b
  BY WordsAndBlocks DEF List
<1>2. /\ DOMAIN L = 1..Cardinality(S)
      /\ \A i \in DOMAIN L : L[i] \in S
      /\ \A x \in S : \E i \in DOMAIN L : L[i] = x
  BY Listed
<1> HIDE DEF L
<1>3. DOMAIN b = DOMAIN L /\ \A i \in DOMAIN L : b[i] # <<>> /\ b[i][1].word = L[i]
  BY WordsAndBlocks
<1> HIDE DEF b
<1>4. Range(b) \ {<<>>} = {b[i] : i \in DOMAIN L}
  BY <1>3 DEF Range
<1>5. parse_col_list(b) = {b[i][1].word : i \in DOMAIN L}
  BY <1>4 DEF parse_col_list
<1>6. parse_col_list(b) = S
  BY <1>2, <1>3, <1>5
<1> QED
  BY <1>1, <1>6

(* The values for the columns of a row: of each column there is one.       *)
LEMMA PairsComeBack ==
  ASSUME NEW values, AreValues(values)
  PROVE  /\ ArePairs(Pairs(values).block)
         /\ parse_value_pairs(Pairs(values).block) = values
<1> DEFINE S == DOMAIN values
           L == SetToSeq(S)
           equals == W("=")
           b == [i \in DOMAIN L |-> <<W(L[i]), equals, values[L[i]]>>]
<1>1. Pairs(values).block = b
  BY WordsAndBlocks DEF Pairs
<1>2. /\ DOMAIN L = 1..Cardinality(S) /\ Cardinality(S) \in Nat
      /\ \A i \in DOMAIN L : L[i] \in S
      /\ \A x \in S : \E i \in DOMAIN L : L[i] = x
      /\ \A i, j \in DOMAIN L : L[i] = L[j] => i = j
  <2>1. IsFiniteSet(S)
    BY DEF AreValues
  <2> HIDE DEF S
  <2>2. L \in [1..Cardinality(S) -> S] /\ DOMAIN L = 1..Cardinality(S)
    BY <2>1, Listed
  <2> QED
    BY <2>1, <2>2, Listed
<1>3. \A x \in S : values[x] \in Value
  BY DEF AreValues
<1>4. values = [x \in S |-> values[x]]
  BY DEF AreValues
<1> HIDE DEF L, S, equals
<1>5. /\ DOMAIN b = DOMAIN L
      /\ \A i \in DOMAIN L : b[i] = <<W(L[i]), equals, values[L[i]]>>
  OBVIOUS
<1> HIDE DEF b
<1>6. \A i \in DOMAIN L :
        /\ b[i] # <<>> /\ Len(b[i]) = 3
        /\ b[i][1].word = L[i] /\ b[i][2] = equals /\ b[i][3] = values[L[i]]
  <2> TAKE i \in DOMAIN L
  <2>1. b[i] = <<W(L[i]), equals, values[L[i]]>>
    BY <1>5
  <2>2. W(L[i]).word = L[i]
    BY WordsAndBlocks
  <2> QED
    BY <2>1, <2>2
<1>7. ArePairs(b)
  <2> SUFFICES ASSUME NEW p \in Range(b) \ {<<>>}
               PROVE  Len(p) = 3 /\ p[2] = equals /\ IsValue(p[3])
    BY DEF ArePairs, equals
  <2>1. PICK i \in DOMAIN L : p = b[i]
    BY <1>5 DEF Range
  <2> QED
    BY <1>2, <1>3, <1>6, <2>1, WordsAndBlocks
<1> DEFINE given == {i \in DOMAIN b : b[i] # <<>>}
           last(n) == CHOOSE i \in given :
             /\ b[i][1].word = n
             /\ \A j \in given : b[j][1].word = n => j <= i
<1>8. parse_value_pairs(b) = [n \in {b[i][1].word : i \in given} |-> b[last(n)][3]]
  BY DEF parse_value_pairs
<1>9. given = DOMAIN L
  BY <1>5, <1>6
<1> HIDE DEF given
<1>10. {b[i][1].word : i \in given} = S
  BY <1>2, <1>6, <1>9
<1>11. \A n \in S : b[last(n)][3] = values[n]
  <2> TAKE n \in S
  <2>1. PICK i \in given : L[i] = n
    BY <1>2, <1>9
  <2>2. /\ b[i][1].word = n
        /\ \A j \in given : b[j][1].word = n => j <= i
    BY <1>2, <1>6, <1>9, <2>1
  <2>3. last(n) \in given /\ b[last(n)][1].word = n
    BY <2>2
  <2> HIDE DEF last
  <2>4. last(n) = i
    BY <1>2, <1>6, <1>9, <2>1, <2>3
  <2> QED
    BY <1>6, <1>9, <2>1, <2>4
<1> HIDE DEF last
<1>12. parse_value_pairs(b) = values
  BY <1>4, <1>8, <1>10, <1>11
<1> QED
  BY <1>1, <1>7, <1>12

(* Clauses, with one value and with two. *)
LEMMA PointComesBack ==
  ASSUME NEW c \in Points
  PROVE  IsPoint(Where(c).block) /\ Predicate(Where(c).block[1]) = c
<1> DEFINE ts == <<W(c.column), W(c.op), c.value>>
<1>1. Where(c).block = <<ts>>
  BY WordsAndBlocks DEF Where, Points
<1>2. Len(ts) = 3 /\ IsValue(ts[3])
  BY WordsAndBlocks DEF Points
<1>3. IsPoint(<<ts>>)
  BY <1>2 DEF IsPoint, IsPredicate
<1>4. ts[1].word = c.column /\ ts[2].word = c.op /\ ts[3] = c.value
  BY WordsAndBlocks
<1>5. c = [kind |-> "point", column |-> c.column, op |-> c.op, value |-> c.value]
  BY DEF Points
<1> HIDE DEF ts
<1>6. Predicate(ts) = c
  BY <1>4, <1>5 DEF Predicate
<1> QED
  BY <1>1, <1>3, <1>6

(* A range is read as it was written.                                      *)
LEMMA RangeComesBack ==
  ASSUME NEW c \in Ranges
  PROVE  /\ ~IsPoint(Where(c).block)
         /\ IsRange(Where(c).block) /\ RangePredicate(Where(c).block[1]) = c
<1> DEFINE ts == <<W(c.column), W(c.op_low), c.val_low, W("AND"),
                   W(c.column), W(c.op_high), c.val_high>>
<1>1. Where(c).block = <<ts>>
  BY WordsAndBlocks DEF Where, Ranges
<1>2. Len(ts) = 7 /\ IsValue(ts[3]) /\ IsValue(ts[7]) /\ ts[4] = W("AND") /\ ts[5] = ts[1]
  BY WordsAndBlocks DEF Ranges
<1>3. IsRange(<<ts>>) /\ ~IsPoint(<<ts>>)
  BY <1>2 DEF IsPoint, IsPredicate, IsRange, IsRangePredicate
<1>4. /\ ts[1].word = c.column /\ ts[2].word = c.op_low /\ ts[3] = c.val_low
      /\ ts[6].word = c.op_high /\ ts[7] = c.val_high
  BY WordsAndBlocks
<1>5. c = [kind |-> "range", column |-> c.column, op_low |-> c.op_low, val_low |-> c.val_low,
           op_high |-> c.op_high, val_high |-> c.val_high]
  BY DEF Ranges
<1> HIDE DEF ts
<1>6. RangePredicate(ts) = c
  BY <1>4, <1>5 DEF RangePredicate
<1> QED
  BY <1>1, <1>3, <1>6

-----------------------------------------------------------------------------
(* No keyword is taken for a block. *)
LEMMA KeywordsAreNotBraces ==
  /\ "CREATE_DB" # Braces /\ "CREATE_TABLE" # Braces /\ "INSERT_ROW" # Braces
  /\ "SELECT" # Braces /\ "DELETE_ROW" # Braces /\ "UPDATE_ROW" # Braces
  /\ "IN" # Braces /\ "INTO" # Braces /\ "FROM" # Braces /\ "SET" # Braces
  /\ "VALUES" # Braces /\ "WITH_COL" # Braces /\ "WHERE_INDEX_IS" # Braces
BY Zenon DEF Braces

(* The first word decides. *)
LEMMA FirstWordDecides ==
  ASSUME NEW q, q # <<>>
  PROVE  /\ q[1] = W("CREATE_DB") => parse(q) = parse_create_db(q)
         /\ q[1] = W("CREATE_TABLE") => parse(q) = parse_create_table(q)
         /\ q[1] = W("INSERT_ROW") => parse(q) = parse_insert_row(q)
         /\ q[1] = W("SELECT") => parse(q) = parse_select(q)
         /\ q[1] = W("DELETE_ROW") => parse(q) = parse_delete_row(q)
         /\ q[1] = W("UPDATE_ROW") => parse(q) = parse_update_row(q)
<1> DEFINE w == q[1]
<1>1. parse(q) = CASE w = W("CREATE_DB") -> parse_create_db(q)
                   [] w = W("CREATE_TABLE") -> parse_create_table(q)
                   [] w = W("INSERT_ROW") -> parse_insert_row(q)
                   [] w = W("SELECT") -> parse_select(q)
                   [] w = W("DELETE_ROW") -> parse_delete_row(q)
                   [] w = W("UPDATE_ROW") -> parse_update_row(q)
                   [] OTHER -> Rejected
  BY DEF parse
<1>2. \A s, t \in {"CREATE_DB", "CREATE_TABLE", "INSERT_ROW", "SELECT", "DELETE_ROW",
                   "UPDATE_ROW"} : s # t => W(s) # W(t)
  BY WordsAndBlocks
<1>3. ASSUME w = W("CREATE_DB") PROVE parse(q) = parse_create_db(q)
  BY <1>1, <1>2, <1>3
<1>4. ASSUME w = W("CREATE_TABLE") PROVE parse(q) = parse_create_table(q)
  BY <1>1, <1>2, <1>4
<1>5. ASSUME w = W("INSERT_ROW") PROVE parse(q) = parse_insert_row(q)
  BY <1>1, <1>2, <1>5
<1>6. ASSUME w = W("SELECT") PROVE parse(q) = parse_select(q)
  BY <1>1, <1>2, <1>6
<1>7. ASSUME w = W("DELETE_ROW") PROVE parse(q) = parse_delete_row(q)
  BY <1>1, <1>2, <1>7
<1>8. ASSUME w = W("UPDATE_ROW") PROVE parse(q) = parse_update_row(q)
  BY <1>1, <1>2, <1>8
<1> QED
  BY <1>3, <1>4, <1>5, <1>6, <1>7, <1>8

(* CREATE_DB is read as it was written.                                    *)
LEMMA CreateDbComesBack ==
  ASSUME NEW c \in [do : {"CREATE_DB"}, db : Identifiers]
  PROVE  parse(Written(c)) = c
<1> DEFINE q == <<W("CREATE_DB"), Name(c.db)>>
           shape == <<"CREATE_DB", Braces>>
<1>1. Written(c) = q
  BY DEF Written
<1>2. Len(q) = 2 /\ q[1] = W("CREATE_DB") /\ IsBlock(q[2]) /\ Text(q[2].block) = c.db
  BY WordsAndBlocks
<1>3. /\ Len(shape) = 2 /\ DOMAIN shape = {1, 2}
      /\ shape[1] = "CREATE_DB" /\ shape[2] = Braces
  OBVIOUS
<1>4. q # <<>>
  OBVIOUS
<1> HIDE DEF q
<1>5. Fits(q, shape)
  <2> HIDE DEF shape
  <2> QED
    BY <1>2, <1>3, KeywordsAreNotBraces DEF Fits
<1>6. parse_create_db(q) = [do |-> "CREATE_DB", db |-> c.db]
  BY <1>2, <1>5 DEF parse_create_db
<1>7. parse(q) = parse_create_db(q)
  BY <1>2, <1>4, FirstWordDecides
<1> QED
  BY <1>1, <1>6, <1>7

(* Six items, and a clause of two behind them or none. *)
LEMMA SixItems ==
  ASSUME NEW a1, NEW a2, NEW a3, NEW a4, NEW a5, NEW a6
  PROVE  LET s == <<a1, a2, a3, a4, a5, a6>>
         IN  /\ s \o <<>> = s
             /\ \A b, c : /\ Len(s \o <<b, c>>) = 8
                         /\ \A i \in 1..6 : (s \o <<b, c>>)[i] = s[i]
                         /\ (s \o <<b, c>>)[7] = b /\ (s \o <<b, c>>)[8] = c
<1> DEFINE s == <<a1, a2, a3, a4, a5, a6>>
           A == {a1, a2, a3, a4, a5, a6}
<1>1. s \in Seq(A) /\ Len(s) = 6
  OBVIOUS
<1> HIDE DEF A
<1>2. s \o <<>> = s
  BY <1>1, ConcatEmptySeq
<1>3. ASSUME NEW b, NEW c
      PROVE  /\ Len(s \o <<b, c>>) = 8
             /\ \A i \in 1..6 : (s \o <<b, c>>)[i] = s[i]
             /\ (s \o <<b, c>>)[7] = b /\ (s \o <<b, c>>)[8] = c
  <2> DEFINE B == A \cup {b, c}
             t == <<b, c>>
  <2>1. s \in Seq(B) /\ t \in Seq(B) /\ Len(t) = 2 /\ t[1] = b /\ t[2] = c
    BY <1>1
  <2> HIDE DEF s, t, B
  <2>2. /\ Len(s \o t) = Len(s) + Len(t)
        /\ \A i \in 1..(Len(s) + Len(t)) :
             (s \o t)[i] = IF i <= Len(s) THEN s[i] ELSE t[i - Len(s)]
    BY <2>1, ConcatProperties
  <2> QED
    BY <1>1, <2>1, <2>2 DEF t
<1> QED
  BY <1>2, <1>3

(* INSERT_ROW is read as it was written.                                   *)
LEMMA InsertComesBack ==
  ASSUME NEW c, AreValues(c.values),
         c \in [do : {"INSERT_ROW"}, table : Identifiers, db : Identifiers, values : {c.values}]
  PROVE  parse(Written(c)) = c
<1> DEFINE q == <<W("INSERT_ROW"), W("INTO"), Name(c.table), W("IN"), Name(c.db), W("VALUES"),
                  Pairs(c.values)>>
           shape == <<"INSERT_ROW", "INTO", Braces, "IN", Braces, "VALUES", Braces>>
<1>1. Written(c) = q
  BY DEF Written
<1>2. /\ Len(q) = 7 /\ q # <<>>
      /\ q[1] = W("INSERT_ROW") /\ q[2] = W("INTO") /\ q[3] = Name(c.table) /\ q[4] = W("IN")
      /\ q[5] = Name(c.db) /\ q[6] = W("VALUES") /\ q[7] = Pairs(c.values)
  OBVIOUS
<1>3. /\ Len(shape) = 7 /\ DOMAIN shape = 1..7
      /\ shape[1] = "INSERT_ROW" /\ shape[2] = "INTO" /\ shape[3] = Braces /\ shape[4] = "IN"
      /\ shape[5] = Braces /\ shape[6] = "VALUES" /\ shape[7] = Braces
  OBVIOUS
<1> HIDE DEF q
<1>4. IsBlock(q[3]) /\ IsBlock(q[5]) /\ IsBlock(q[7])
  BY <1>2, WordsAndBlocks DEF Pairs
<1>5. Fits(q, shape)
  <2> HIDE DEF shape
  <2> QED
    BY <1>2, <1>3, <1>4, KeywordsAreNotBraces DEF Fits
<1>6. /\ ArePairs(q[7].block) /\ parse_value_pairs(q[7].block) = c.values
      /\ Text(q[3].block) = c.table /\ Text(q[5].block) = c.db
  BY <1>2, WordsAndBlocks, PairsComeBack
<1>7. parse_insert_row(q) = [do |-> "INSERT_ROW", table |-> c.table, db |-> c.db, values |-> c.values]
  BY <1>5, <1>6 DEF parse_insert_row
<1> HIDE DEF shape
<1>8. parse(q) = parse_insert_row(q)
  BY <1>2, FirstWordDecides
<1> QED
  BY <1>1, <1>7, <1>8

(* A clause is in a block. *)
LEMMA ClausesInBlocks == \A c : IsBlock(Where(c)) /\ IsBlock(Pairs(c))
BY WordsAndBlocks DEF Where, Pairs

(* DELETE_ROW is read as it was written.                                   *)
LEMMA DeleteComesBack ==
  ASSUME NEW c \in [do : {"DELETE_ROW"}, table : Identifiers, db : Identifiers, where : Points]
  PROVE  parse(Written(c)) = c
<1> DEFINE q == <<W("DELETE_ROW"), W("FROM"), Name(c.table), W("IN"), Name(c.db),
                  W("WHERE_INDEX_IS"), Where(c.where)>>
           shape == <<"DELETE_ROW", "FROM", Braces, "IN", Braces, "WHERE_INDEX_IS", Braces>>
<1>1. Written(c) = q
  BY DEF Written
<1>2. /\ Len(q) = 7 /\ q # <<>>
      /\ q[1] = W("DELETE_ROW") /\ q[2] = W("FROM") /\ q[3] = Name(c.table)
      /\ q[4] = W("IN") /\ q[5] = Name(c.db) /\ q[6] = W("WHERE_INDEX_IS")
      /\ q[7] = Where(c.where)
  OBVIOUS
<1>3. /\ Len(shape) = 7 /\ DOMAIN shape = 1..7
      /\ shape[1] = "DELETE_ROW" /\ shape[2] = "FROM" /\ shape[3] = Braces
      /\ shape[4] = "IN" /\ shape[5] = Braces /\ shape[6] = "WHERE_INDEX_IS"
      /\ shape[7] = Braces
  OBVIOUS
<1> HIDE DEF q
<1>4. IsBlock(q[3]) /\ IsBlock(q[5]) /\ IsBlock(q[7])
  BY <1>2, WordsAndBlocks, ClausesInBlocks
<1>5. Fits(q, shape)
  <2> HIDE DEF shape
  <2> QED
    BY <1>2, <1>3, <1>4, KeywordsAreNotBraces DEF Fits
<1>6. /\ IsPoint(q[7].block) /\ Predicate(q[7].block[1]) = c.where
      /\ Text(q[3].block) = c.table /\ Text(q[5].block) = c.db
  BY <1>2, WordsAndBlocks, PointComesBack
<1>7. parse_delete_row(q) = [do |-> "DELETE_ROW", table |-> c.table, db |-> c.db, where |-> c.where]
  BY <1>5, <1>6 DEF parse_delete_row
<1> HIDE DEF shape
<1>8. parse(q) = parse_delete_row(q)
  BY <1>2, FirstWordDecides
<1> QED
  BY <1>1, <1>7, <1>8

(* UPDATE_ROW is read as it was written.                                   *)
LEMMA UpdateComesBack ==
  ASSUME NEW c, AreValues(c.set),
         c \in [do : {"UPDATE_ROW"}, table : Identifiers, db : Identifiers, set : {c.set},
               where : Points]
  PROVE  parse(Written(c)) = c
<1> DEFINE q == <<W("UPDATE_ROW"), Name(c.table), W("IN"), Name(c.db), W("SET"), Pairs(c.set),
                  W("WHERE_INDEX_IS"), Where(c.where)>>
           shape == <<"UPDATE_ROW", Braces, "IN", Braces, "SET", Braces, "WHERE_INDEX_IS", Braces>>
<1>1. Written(c) = q
  BY DEF Written
<1>2. /\ Len(q) = 8 /\ q # <<>>
      /\ q[1] = W("UPDATE_ROW") /\ q[2] = Name(c.table) /\ q[3] = W("IN")
      /\ q[4] = Name(c.db) /\ q[5] = W("SET") /\ q[6] = Pairs(c.set)
      /\ q[7] = W("WHERE_INDEX_IS") /\ q[8] = Where(c.where)
  OBVIOUS
<1>3. /\ Len(shape) = 8 /\ DOMAIN shape = 1..8
      /\ shape[1] = "UPDATE_ROW" /\ shape[2] = Braces /\ shape[3] = "IN"
      /\ shape[4] = Braces /\ shape[5] = "SET" /\ shape[6] = Braces
      /\ shape[7] = "WHERE_INDEX_IS" /\ shape[8] = Braces
  OBVIOUS
<1> HIDE DEF q
<1>4. IsBlock(q[2]) /\ IsBlock(q[4]) /\ IsBlock(q[6]) /\ IsBlock(q[8])
  BY <1>2, WordsAndBlocks, ClausesInBlocks
<1>5. Fits(q, shape)
  <2> HIDE DEF shape
  <2> QED
    BY <1>2, <1>3, <1>4, KeywordsAreNotBraces DEF Fits
<1>6. /\ ArePairs(q[6].block) /\ parse_value_pairs(q[6].block) = c.set
      /\ IsPoint(q[8].block) /\ Predicate(q[8].block[1]) = c.where
      /\ Text(q[2].block) = c.table /\ Text(q[4].block) = c.db
  BY <1>2, WordsAndBlocks, PairsComeBack, PointComesBack
<1>7. parse_update_row(q) = [do |-> "UPDATE_ROW", table |-> c.table, db |-> c.db, set |-> c.set,
                             where |-> c.where]
  BY <1>5, <1>6 DEF parse_update_row
<1> HIDE DEF shape
<1>8. parse(q) = parse_update_row(q)
  BY <1>2, FirstWordDecides
<1> QED
  BY <1>1, <1>7, <1>8

(* SELECT is read as it was written.                                       *)
LEMMA SelectComesBack ==
  ASSUME NEW c, IsFiniteSet(c.columns),
         c \in [do : {"SELECT"}, table : Identifiers, db : Identifiers, columns : SUBSET Identifiers,
               where : Points \cup Ranges \cup {Everything}]
  PROVE  parse(Written(c)) = c
<1> DEFINE s == <<W("SELECT"), List(c.columns), W("FROM"), Name(c.table), W("IN"), Name(c.db)>>
           t == <<W("WHERE_INDEX_IS"), Where(c.where)>>
           shape == <<"SELECT", Braces, "FROM", Braces, "IN", Braces>>
           Read(w) == [do |-> "SELECT", columns |-> c.columns, table |-> c.table, db |-> c.db,
                       where |-> w]
           Begins(q) == \A i \in 1..6 : q[i] = s[i]
<1>1. Written(c) = s \o (IF c.where = Everything THEN <<>> ELSE t)
  BY DEF Written
<1>2. /\ Len(s) = 6
      /\ s[1] = W("SELECT") /\ s[2] = List(c.columns) /\ s[3] = W("FROM")
      /\ s[4] = Name(c.table) /\ s[5] = W("IN") /\ s[6] = Name(c.db)
  OBVIOUS
<1>3. /\ Len(shape) = 6 /\ DOMAIN shape = 1..6
      /\ shape[1] = "SELECT" /\ shape[2] = Braces /\ shape[3] = "FROM"
      /\ shape[4] = Braces /\ shape[5] = "IN" /\ shape[6] = Braces
  OBVIOUS
<1>4. /\ s \o <<>> = s
      /\ Len(s \o t) = 8 /\ Begins(s \o t)
      /\ (s \o t)[7] = W("WHERE_INDEX_IS") /\ (s \o t)[8] = Where(c.where)
  BY SixItems
<1>5. IsBlock(s[2]) /\ IsBlock(s[4]) /\ IsBlock(s[6])
  BY <1>2, WordsAndBlocks DEF List
<1>6. parse_col_list(s[2].block) = c.columns /\ Text(s[4].block) = c.table /\ Text(s[6].block) = c.db
  BY <1>2, WordsAndBlocks, ListComesBack
<1>7. c = Read(c.where)
  OBVIOUS
<1> HIDE DEF s, t
<1>8. ASSUME NEW q, Len(q) \in {6, 8}, Begins(q)
      PROVE  /\ parse(q) = parse_select(q) /\ Fits(q, shape)
             /\ parse_col_list(q[2].block) = c.columns
             /\ Text(q[4].block) = c.table /\ Text(q[6].block) = c.db
  <2>1. /\ q[1] = s[1] /\ q[2] = s[2] /\ q[3] = s[3]
        /\ q[4] = s[4] /\ q[5] = s[5] /\ q[6] = s[6]
    BY <1>8
  <2>2. q # <<>>
    BY <1>8
  <2>3. parse(q) = parse_select(q)
    BY <1>2, <2>1, <2>2, FirstWordDecides
  <2> HIDE DEF shape
  <2>4. Fits(q, shape)
    BY <1>2, <1>3, <1>5, <1>8, <2>1, KeywordsAreNotBraces DEF Fits
  <2> QED
    BY <1>6, <2>1, <2>3, <2>4
<1>9. CASE c.where = Everything
  <2>1. Written(c) = s
    BY <1>1, <1>4, <1>9
  <2>2. EndsBefore(s, 7)
    BY <1>2 DEF EndsBefore
  <2>3. Begins(s) /\ Len(s) = 6
    BY <1>2
  <2>4. parse_select(s) = Read(Everything)
    BY <1>8, <2>2, <2>3 DEF parse_select
  <2>5. parse(s) = parse_select(s)
    BY <1>8, <2>3
  <2> QED
    BY <1>7, <1>9, <2>1, <2>4, <2>5
<1>10. CASE c.where # Everything
  <2> DEFINE q == s \o t
  <2>1. Written(c) = q
    BY <1>1, <1>10
  <2>2. /\ Len(q) = 8 /\ Begins(q)
        /\ q[7] = W("WHERE_INDEX_IS") /\ q[8] = Where(c.where) /\ IsBlock(q[8])
    BY <1>4, ClausesInBlocks
  <2> HIDE DEF q
  <2>3. ~EndsBefore(q, 7) /\ Continues(q, 7, "WHERE_INDEX_IS")
    BY <2>2, ClauseWordsAssumption DEF EndsBefore, Continues
  <2>4. /\ parse(q) = parse_select(q) /\ Fits(q, shape)
        /\ parse_col_list(q[2].block) = c.columns
        /\ Text(q[4].block) = c.table /\ Text(q[6].block) = c.db
    BY <1>8, <2>2
  <2>5. CASE c.where \in Points
    <3>1. IsPoint(q[8].block) /\ Predicate(q[8].block[1]) = c.where
      BY <2>2, <2>5, PointComesBack
    <3>2. parse_select(q) = Read(c.where)
      BY <2>3, <2>4, <3>1 DEF parse_select
    <3> QED
      BY <1>7, <2>1, <2>4, <3>2
  <2>6. CASE c.where \in Ranges
    <3>1. /\ ~IsPoint(q[8].block)
          /\ IsRange(q[8].block) /\ RangePredicate(q[8].block[1]) = c.where
      BY <2>2, <2>6, RangeComesBack
    <3>2. parse_select(q) = Read(c.where)
      BY <2>3, <2>4, <3>1 DEF parse_select
    <3> QED
      BY <1>7, <2>1, <2>4, <3>2
  <2> QED
    BY <1>10, <2>5, <2>6
<1> QED
  BY <1>9, <1>10

(* CREATE_TABLE is read as it was written.                                 *)
LEMMA CreateTableComesBack ==
  ASSUME NEW c \in [do : {"CREATE_TABLE"}, table : Identifiers, db : Identifiers,
                   index : Identifiers \cup {NoName},
                   columns : Seq([type : {"INT", "STR"}, name : Identifiers])]
  PROVE  parse(Written(c)) = c
<1> DEFINE s == <<W("CREATE_TABLE"), Name(c.table), W("IN"), Name(c.db), W("WITH_COL"),
                  Columns(c.columns)>>
           t == <<W("WITH_INDEX"), Name(c.index)>>
           shape == <<"CREATE_TABLE", Braces, "IN", Braces, "WITH_COL", Braces>>
           Read(n) == [do |-> "CREATE_TABLE", table |-> c.table, db |-> c.db,
                       columns |-> c.columns, index |-> n]
           Begins(q) == \A i \in 1..6 : q[i] = s[i]
<1>1. Written(c) = s \o (IF c.index = NoName THEN <<>> ELSE t)
  BY DEF Written
<1>2. /\ Len(s) = 6
      /\ s[1] = W("CREATE_TABLE") /\ s[2] = Name(c.table) /\ s[3] = W("IN")
      /\ s[4] = Name(c.db) /\ s[5] = W("WITH_COL") /\ s[6] = Columns(c.columns)
  OBVIOUS
<1>3. /\ Len(shape) = 6 /\ DOMAIN shape = 1..6
      /\ shape[1] = "CREATE_TABLE" /\ shape[2] = Braces /\ shape[3] = "IN"
      /\ shape[4] = Braces /\ shape[5] = "WITH_COL" /\ shape[6] = Braces
  OBVIOUS
<1>4. /\ s \o <<>> = s
      /\ Len(s \o t) = 8 /\ Begins(s \o t)
      /\ (s \o t)[7] = W("WITH_INDEX") /\ (s \o t)[8] = Name(c.index)
  BY SixItems
<1>5. IsBlock(s[2]) /\ IsBlock(s[4]) /\ IsBlock(s[6])
  BY <1>2, WordsAndBlocks DEF Columns
<1>6. /\ AreColDefs(s[6].block) /\ parse_col_defs(s[6].block) = c.columns
      /\ Text(s[2].block) = c.table /\ Text(s[4].block) = c.db
  BY <1>2, WordsAndBlocks, ColumnsComeBack
<1>7. c = Read(c.index)
  OBVIOUS
<1> HIDE DEF s, t
<1>8. ASSUME NEW q, Len(q) \in {6, 8}, Begins(q)
      PROVE  /\ parse(q) = parse_create_table(q) /\ Fits(q, shape)
             /\ AreColDefs(q[6].block) /\ parse_col_defs(q[6].block) = c.columns
             /\ Text(q[2].block) = c.table /\ Text(q[4].block) = c.db
  <2>1. /\ q[1] = s[1] /\ q[2] = s[2] /\ q[3] = s[3]
        /\ q[4] = s[4] /\ q[5] = s[5] /\ q[6] = s[6]
    BY <1>8
  <2>2. q # <<>>
    BY <1>8
  <2>3. parse(q) = parse_create_table(q)
    BY <1>2, <2>1, <2>2, FirstWordDecides
  <2> HIDE DEF shape
  <2>4. Fits(q, shape)
    BY <1>2, <1>3, <1>5, <1>8, <2>1, KeywordsAreNotBraces DEF Fits
  <2> QED
    BY <1>6, <2>1, <2>3, <2>4
<1>9. CASE c.index = NoName
  <2>1. Written(c) = s
    BY <1>1, <1>4, <1>9
  <2>2. EndsBefore(s, 7)
    BY <1>2 DEF EndsBefore
  <2>3. Begins(s) /\ Len(s) = 6
    BY <1>2
  <2>4. /\ parse(s) = parse_create_table(s) /\ Fits(s, shape)
        /\ AreColDefs(s[6].block) /\ parse_col_defs(s[6].block) = c.columns
        /\ Text(s[2].block) = c.table /\ Text(s[4].block) = c.db
    BY <1>8, <2>3
  <2>5. parse_create_table(s) = Read(NoName)
    BY <2>2, <2>4 DEF parse_create_table
  <2> QED
    BY <1>7, <1>9, <2>1, <2>4, <2>5
<1>10. CASE c.index # NoName
  <2> DEFINE q == s \o t
  <2>1. Written(c) = q
    BY <1>1, <1>10
  <2>2. /\ Len(q) = 8 /\ Begins(q)
        /\ q[7] = W("WITH_INDEX") /\ IsBlock(q[8]) /\ Text(q[8].block) = c.index
    <3>1. Len(q) = 8 /\ Begins(q) /\ q[7] = W("WITH_INDEX") /\ q[8] = Name(c.index)
      BY <1>4
    <3> HIDE DEF q, Begins
    <3> QED
      BY <3>1, WordsAndBlocks
  <2> HIDE DEF q
  <2>3. ~EndsBefore(q, 7) /\ Continues(q, 7, "WITH_INDEX")
    BY <2>2, ClauseWordsAssumption DEF EndsBefore, Continues
  <2>4. /\ parse(q) = parse_create_table(q) /\ Fits(q, shape)
        /\ AreColDefs(q[6].block) /\ parse_col_defs(q[6].block) = c.columns
        /\ Text(q[2].block) = c.table /\ Text(q[4].block) = c.db
    BY <1>8, <2>2
  <2>5. parse_create_table(q) = Read(c.index)
    BY <2>2, <2>3, <2>4 DEF parse_create_table
  <2> QED
    BY <1>7, <2>1, <2>4, <2>5
<1> QED
  BY <1>9, <1>10

(* Every statement that the README has a form for comes back. *)
LEMMA StatementsComeBack == ASSUME NEW c, IsStatement(c) PROVE parse(Written(c)) = c
<1>1. \/ /\ c.do = "CREATE_DB"
         /\ c \in [do : {c.do}, db : Identifiers]
      \/ /\ c.do = "CREATE_TABLE"
         /\ c \in [do : {c.do}, table : Identifiers, db : Identifiers,
                   index : Identifiers \cup {NoName},
                   columns : Seq([type : {"INT", "STR"}, name : Identifiers])]
      \/ /\ c.do = "INSERT_ROW" /\ AreValues(c.values)
         /\ c \in [do : {c.do}, table : Identifiers, db : Identifiers, values : {c.values}]
      \/ /\ c.do = "SELECT" /\ IsFiniteSet(c.columns)
         /\ c \in [do : {c.do}, table : Identifiers, db : Identifiers, columns : SUBSET Identifiers,
                   where : Points \cup Ranges \cup {Everything}]
      \/ /\ c.do = "DELETE_ROW"
         /\ c \in [do : {c.do}, table : Identifiers, db : Identifiers, where : Points]
      \/ /\ c.do = "UPDATE_ROW" /\ AreValues(c.set)
         /\ c \in [do : {c.do}, table : Identifiers, db : Identifiers, set : {c.set}, where : Points]
  BY Zenon DEF IsStatement
<1> QED
  BY <1>1, CreateDbComesBack, CreateTableComesBack, InsertComesBack, SelectComesBack,
     DeleteComesBack, UpdateComesBack, Zenon

-----------------------------------------------------------------------------
(* Whatever is asked in whatever order, a statement that is written as the *)
(* README writes it is executed with the names, the columns, the values    *)
(* and the clause it was written with.                                     *)
THEOREM ReadAsMeant == Spec => []ParsesAsWritten
<1> DEFINE Asked == query \in Queries \cup {<<>>}
<1>1. Init => Asked
  BY DEF Init
<1>2. Asked /\ [Next]_vars => Asked'
  <2>1. ASSUME Next PROVE \E q \in Queries : query' = q
    <3>1. PICK q \in Queries :
            \/ Reject(q, Command[q])
            \/ NotFound(q, Command[q])
            \/ exec_create_db(q, Command[q])
            \/ CreateFails(q, Command[q])
            \/ exec_create_table(q, Command[q])
            \/ Recreate(q, Command[q])
            \/ exec_insert_row(q, Command[q])
            \/ exec_select(q, Command[q])
            \/ exec_delete_row(q, Command[q])
            \/ exec_update_row(q, Command[q])
            \/ MutationFails(q, Command[q])
      BY <2>1, Zenon DEF Next
    <3>2. query' = q
      BY <3>1, Zenon DEF Reject, NotFound, exec_create_db, CreateFails, exec_create_table, Recreate,
         exec_insert_row, exec_select, exec_delete_row, exec_update_row, MutationFails
    <3> QED
      BY <3>2
  <2> QED
    BY <2>1 DEF vars
<1>3. Asked => ParsesAsWritten
  BY StatementsComeBack, StatementsAssumption DEF ParsesAsWritten, Command
<1> QED
  BY <1>1, <1>2, <1>3, PTL DEF Spec
=============================================================================
