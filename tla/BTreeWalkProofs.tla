--------------------------- MODULE BTreeWalkProofs ----------------------------
(***************************************************************************)
(* What a walk of a tree and a search for a range of keys list, for every  *)
(* order of the tree, every set of entries with keys of their own and      *)
(* every file: the entries below a block, or those of them within the      *)
(* bounds, each once and in the order of their keys.                       *)
(***************************************************************************)
EXTENDS BTreeNodeProofs, FiniteSetTheorems

-----------------------------------------------------------------------------
(***************************************************************************)
(* Listings of a set of entries.                                           *)
(***************************************************************************)

(* A sequence of sequences becomes one by appending each to what the ones before it *)
(* have become.                                                                     *)
LEMMA FlattenSteps ==
  ASSUME NEW S, NEW ss \in Seq(Seq(S))
  PROVE  \E F \in [0..Len(ss) -> Seq(S)] :
           /\ F[0] = <<>>
           /\ \A i \in 1..Len(ss) : F[i] = F[i - 1] \o ss[i]
           /\ Seqs!FlattenSeq(ss) = F[Len(ss)]
<1>1. PICK n \in Nat : n = Len(ss)
  OBVIOUS
<1>2. ASSUME NEW i \in 1..n PROVE ss[i] \in Seq(S)
  BY <1>1
<1> DEFINE Over == [m \in Nat |-> [d \in Seq(S) |-> IF m + 1 \in 1..n THEN d \o ss[m + 1] ELSE d]]
<1>3. PICK G : Repeats(G, Seq(S), <<>>, Over)
  <2>1. Over \in [Nat -> [Seq(S) -> Seq(S)]]
    BY <1>2
  <2>2. <<>> \in Seq(S)
    OBVIOUS
  <2> HIDE DEF Over
  <2> QED
    BY <2>1, <2>2, SequencesOfSteps
<1>4. /\ \A i \in Nat : G[i] \in Seq(S)
      /\ G[0] = <<>>
      /\ \A i \in 1..n : G[i] = G[i - 1] \o ss[i]
  <2>1. G \in [Nat -> Seq(S)] /\ G[0] = <<>> /\ \A m \in Nat : G[m + 1] = Over[m][G[m]]
    BY <1>3 DEF Repeats
  <2>2. ASSUME NEW i \in 1..n PROVE G[i] = G[i - 1] \o ss[i]
    <3>1. PICK m \in Nat : m = i - 1
      BY <1>1
    <3>2. m + 1 = i /\ G[m] \in Seq(S)
      BY <2>1, <3>1
    <3>3. Over[m][G[m]] = G[m] \o ss[m + 1]
      BY <3>2
    <3> QED
      BY <2>1, <3>1, <3>2, <3>3
  <2> QED
    BY <2>1, <2>2
<1> HIDE DEF Over
<1> DEFINE F == [i \in 0..n |-> G[i]]
<1>5. F \in [0..n -> Seq(S)] /\ F[0] = <<>> /\ \A i \in 1..n : F[i] = F[i - 1] \o ss[i]
  <2>1. \A i \in 1..n : i \in 0..n /\ i - 1 \in 0..n
    BY <1>1
  <2>2. \A i \in 0..n : i \in Nat
    BY <1>1
  <2>3. 0 \in 0..n
    BY <1>1
  <2> QED
    BY <1>4, <2>1, <2>2, <2>3
<1>6. Seqs!FlattenSeq(ss) = G[n]
  <2>1. CASE n = 0
    <3>1. ss = <<>>
      BY <1>1, <2>1, EmptySeq
    <3> QED
      BY <1>1, <1>4, <2>1, <3>1 DEF Seqs!FlattenSeq
  <2>2. CASE n # 0
    <3> DEFINE Body(g) == [i \in 1..n |-> IF i = 1 THEN ss[i] ELSE g[i - 1] \o ss[i]]
    <3>1. PICK C : C = CHOOSE g : g = Body(g)
      OBVIOUS
    <3>2. Seqs!FlattenSeq(ss) = C[n]
      BY <1>1, <2>2, <3>1 DEF Seqs!FlattenSeq
    <3>3. \E g : g = Body(g)
      <4> DEFINE H == [i \in 1..n |-> G[i]]
      <4>1. ASSUME NEW i \in 1..n PROVE G[i] = IF i = 1 THEN ss[i] ELSE H[i - 1] \o ss[i]
        <5>1. CASE i = 1
          <6>0. G[i] = G[i - 1] \o ss[i]
            BY <1>4
          <6>1. G[i] = G[0] \o ss[i]
            BY <5>1, <6>0
          <6>2. <<>> \o ss[i] = ss[i]
            BY <1>2
          <6> QED
            BY <1>4, <5>1, <6>1, <6>2
        <5>2. CASE i # 1
          <6>1. i - 1 \in 1..n
            BY <1>1, <5>2
          <6> QED
            BY <1>4, <5>2, <6>1
        <5> QED
          BY <5>1, <5>2
      <4>2. H = Body(H)
        BY <4>1
      <4> QED
        BY <4>2
    <3>4. C = Body(C)
      <4> HIDE DEF Body
      <4> QED
        BY <3>1, <3>3
    <3>5. ASSUME NEW i \in 1..n PROVE C[i] = IF i = 1 THEN ss[i] ELSE C[i - 1] \o ss[i]
      BY <3>4
    <3> DEFINE Ns == {i \in Nat : i + 1 \in 1..n => C[i + 1] = G[i + 1]}
    <3>6. 0 \in Ns
      <4>1. 1 \in 1..n
        BY <1>1, <2>2
      <4>2. G[1] = <<>> \o ss[1]
        <5>1. PICK i \in 1..n : i = 1
          BY <4>1
        <5>2. G[i] = G[i - 1] \o ss[i]
          BY <1>4
        <5>3. G[i] = G[0] \o ss[i]
          BY <5>1, <5>2
        <5> QED
          BY <1>4, <5>1, <5>3
      <4>3. <<>> \o ss[1] = ss[1]
        BY <1>2, <4>1
      <4>4. C[1] = ss[1]
        BY <3>5, <4>1
      <4> QED
        BY <4>2, <4>3, <4>4
    <3>7. \A i \in Nat : i \in Ns => i + 1 \in Ns
      <4> SUFFICES ASSUME NEW i \in Nat, i \in Ns, (i + 1) + 1 \in 1..n
                   PROVE  C[(i + 1) + 1] = G[(i + 1) + 1]
        OBVIOUS
      <4>1. PICK j \in 1..n : j = (i + 1) + 1
        OBVIOUS
      <4>2. j - 1 = i + 1 /\ i + 1 \in 1..n /\ j # 1
        BY <1>1, <4>1
      <4>3. C[j] = C[i + 1] \o ss[j]
        BY <3>5, <4>2
      <4>4. G[j] = G[i + 1] \o ss[j]
        BY <1>4, <4>2
      <4> QED
        BY <4>1, <4>2, <4>3, <4>4
    <3> HIDE DEF Ns
    <3>8. \A i \in Nat : i \in Ns
      BY <3>6, <3>7, NumberInduction
    <3>9. n - 1 \in Nat /\ (n - 1) + 1 = n /\ n \in 1..n
      BY <1>1, <2>2
    <3>10. C[(n - 1) + 1] = G[(n - 1) + 1]
      BY <3>8, <3>9 DEF Ns
    <3> QED
      BY <3>2, <3>9, <3>10
  <2> QED
    BY <2>1, <2>2
<1>7. F[n] = G[n]
  BY <1>1
<1> HIDE DEF F
<1> QED
  BY <1>1, <1>5, <1>6, <1>7

-----------------------------------------------------------------------------
\* A sequence lists a set of entries: it has them in the order of their keys.
Lists(s, entries) ==
  /\ s \in Seq(Entry)
  /\ Seqs!ToSet(s) = entries
  /\ \A i, j \in 1..Len(s) : i < j => Key(s[i]) < Key(s[j])

\* All keys of the first set are below all those of the second.
Under(A, C) == \A d \in A : \A e \in C : Key(d) < Key(e)

(* What is listed by a sequence is in it somewhere. *)
LEMMA Listed ==
  ASSUME NEW s, NEW A, Lists(s, A)
  PROVE  /\ s \in Seq(Entry)
         /\ Len(s) \in Nat
         /\ \A i \in 1..Len(s) : s[i] \in A /\ s[i] \in Entry /\ Key(s[i]) \in Int
         /\ \A e \in A : \E i \in 1..Len(s) : e = s[i]
         /\ \A i, j \in 1..Len(s) : i < j => Key(s[i]) < Key(s[j])
<1>1. s \in Seq(Entry) /\ Len(s) \in Nat /\ DOMAIN s = 1..Len(s)
  BY DEF Lists
<1>2. A = {s[i] : i \in 1..Len(s)}
  BY <1>1 DEF Lists, Seqs!ToSet
<1>3. \A i \in 1..Len(s) : s[i] \in Entry /\ Key(s[i]) \in Int
  BY <1>1 DEF Entry, Key
<1> QED
  BY <1>1, <1>2, <1>3 DEF Lists

(* Of two listings the one can be put behind the other. *)
LEMMA ListsJoin ==
  ASSUME NEW s, NEW t, NEW A, NEW C, Lists(s, A), Lists(t, C), Under(A, C)
  PROVE  Lists(s \o t, A \cup C)
<1>1. s \in Seq(Entry) /\ t \in Seq(Entry)
  BY DEF Lists
<1>2. PICK l \in Nat, m \in Nat : l = Len(s) /\ m = Len(t)
  BY <1>1
<1>3. PICK u : u = s \o t
  OBVIOUS
<1>4. /\ u \in Seq(Entry)
      /\ Len(u) = l + m
      /\ \A i \in 1..l : u[i] = s[i]
      /\ \A i \in (l + 1)..(l + m) : u[i] = t[i - l]
  BY <1>1, <1>2, <1>3
<1>5. /\ \A i \in 1..l : s[i] \in A /\ Key(s[i]) \in Int
      /\ \A i \in 1..m : t[i] \in C /\ Key(t[i]) \in Int
      /\ \A i, j \in 1..l : i < j => Key(s[i]) < Key(s[j])
      /\ \A i, j \in 1..m : i < j => Key(t[i]) < Key(t[j])
  BY <1>2, Listed
<1>6. Seqs!ToSet(u) = A \cup C
  BY <1>1, <1>3, SetOfConcat DEF Lists
<1>7. ASSUME NEW i \in 1..Len(u), NEW j \in 1..Len(u), i < j
      PROVE  Key(u[i]) < Key(u[j])
  <2>1. CASE j \in 1..l
    <3>1. i \in 1..l
      BY <1>2, <1>7, <2>1
    <3> QED
      BY <1>4, <1>5, <1>7, <2>1, <3>1
  <2>2. CASE i \in 1..l /\ j \notin 1..l
    <3>1. j \in (l + 1)..(l + m) /\ j - l \in 1..m
      BY <1>2, <1>4, <2>2
    <3>2. u[i] = s[i] /\ s[i] \in A /\ u[j] = t[j - l] /\ t[j - l] \in C
      BY <1>4, <1>5, <2>2, <3>1
    <3> QED
      BY <3>2 DEF Under
  <2>3. CASE i \notin 1..l
    <3>0. i \in 1..(l + m) /\ j \in 1..(l + m) /\ i > l
      BY <1>4, <2>3
    <3>1. PICK d \in 1..m, e \in 1..m : d = i - l /\ e = j - l /\ d < e
      <4>1. i - l \in 1..m /\ j - l \in 1..m /\ i - l < j - l
        BY <1>7, <3>0
      <4> QED
        BY <4>1
    <3>2. i \in (l + 1)..(l + m) /\ j \in (l + 1)..(l + m)
      BY <1>2, <1>4, <1>7, <2>3
    <3>3. u[i] = t[d] /\ u[j] = t[e]
      BY <1>4, <3>1, <3>2
    <3> QED
      BY <1>5, <3>1, <3>3
  <2> QED
    BY <2>1, <2>2, <2>3
<1> QED
  BY <1>3, <1>4, <1>6, <1>7 DEF Lists

(* One entry, and none, are listed. *)
LEMMA ListsOfOne ==
  /\ Lists(<<>>, {})
  /\ \A e \in Entry : Lists(<<e>>, {e})
<1>1. Lists(<<>>, {})
  BY DEF Lists, Seqs!ToSet
<1>2. ASSUME NEW e \in Entry PROVE Lists(<<e>>, {e})
  <2>1. <<e>> \in Seq(Entry) /\ Len(<<e>>) = 1 /\ DOMAIN <<e>> = {1} /\ <<e>>[1] = e
    OBVIOUS
  <2>2. Seqs!ToSet(<<e>>) = {e}
    BY <2>1 DEF Seqs!ToSet
  <2>3. \A i, j \in 1..1 : ~(i < j)
    OBVIOUS
  <2> QED
    BY <2>1, <2>2, <2>3 DEF Lists
<1> QED
  BY <1>1, <1>2

(* The part of one that the two listings of a set have in common is all of it. *)
LEMMA ListsAgree ==
  ASSUME NEW s, NEW t, NEW A, Lists(s, A), Lists(t, A)
  PROVE  s = t
<1>1. PICK l \in Nat, m \in Nat : l = Len(s) /\ m = Len(t)
  BY Listed
<1>2. /\ s \in Seq(Entry)
      /\ \A i \in 1..l : s[i] \in A /\ Key(s[i]) \in Int
      /\ \A e \in A : \E i \in 1..l : e = s[i]
      /\ \A i, j \in 1..l : i < j => Key(s[i]) < Key(s[j])
  BY <1>1, Listed
<1>3. /\ t \in Seq(Entry)
      /\ \A i \in 1..m : t[i] \in A /\ Key(t[i]) \in Int
      /\ \A e \in A : \E i \in 1..m : e = t[i]
      /\ \A i, j \in 1..m : i < j => Key(t[i]) < Key(t[j])
  BY <1>1, Listed
<1> DEFINE Same(i) == (i \in 1..l <=> i \in 1..m) /\ (i \in 1..l => s[i] = t[i])
<1> DEFINE Ns == {n \in Nat : \A i \in 1..n : Same(i)}
<1>4. 0 \in Ns
  OBVIOUS
<1>5. ASSUME NEW n \in Nat, n \in Ns PROVE n + 1 \in Ns
  <2>1. PICK k \in Nat : k = n + 1
    OBVIOUS
  <2>2. \A i \in 1..n : Same(i)
    BY <1>5
  <2>3. ASSUME k \in 1..l
        PROVE  k \in 1..m /\ \E i \in 1..m : s[k] = t[i] /\ k <= i
    <3>1. PICK i \in 1..m : s[k] = t[i]
      BY <1>2, <1>3, <2>3
    <3>2. k <= i
      <4>1. CASE i \in 1..n
        <5>1. i \in 1..l /\ s[i] = t[i]
          BY <2>2, <4>1
        <5>2. Key(s[i]) < Key(s[k])
          BY <1>2, <2>1, <2>3, <4>1, <5>1
        <5> QED
          BY <1>2, <2>3, <3>1, <5>1, <5>2
      <4>2. CASE i \notin 1..n
        BY <2>1, <4>2
      <4> QED
        BY <4>1, <4>2
    <3>3. k \in 1..m
      BY <2>1, <3>2
    <3> QED
      BY <3>1, <3>2, <3>3
  <2>4. ASSUME k \in 1..m
        PROVE  k \in 1..l /\ \E i \in 1..l : t[k] = s[i] /\ k <= i
    <3>1. PICK i \in 1..l : t[k] = s[i]
      BY <1>2, <1>3, <2>4
    <3>2. k <= i
      <4>1. CASE i \in 1..n
        <5>1. i \in 1..m /\ s[i] = t[i]
          BY <2>2, <4>1
        <5>2. Key(t[i]) < Key(t[k])
          BY <1>3, <2>1, <2>4, <4>1, <5>1
        <5> QED
          BY <1>3, <2>4, <3>1, <5>1, <5>2
      <4>2. CASE i \notin 1..n
        BY <2>1, <4>2
      <4> QED
        BY <4>1, <4>2
    <3>3. k \in 1..l
      BY <2>1, <3>2
    <3> QED
      BY <3>1, <3>2, <3>3
  <2>5. ASSUME k \in 1..l PROVE s[k] = t[k]
    <3>1. k \in 1..m
      BY <2>3, <2>5
    <3>2. PICK i \in 1..m : s[k] = t[i] /\ k <= i
      BY <2>3, <2>5
    <3>3. PICK j \in 1..l : t[k] = s[j] /\ k <= j
      BY <2>4, <3>1
    <3>4. i = k \/ Key(t[k]) < Key(t[i])
      BY <1>3, <3>1, <3>2
    <3>5. j = k \/ Key(s[k]) < Key(s[j])
      BY <1>2, <2>5, <3>3
    <3>6. Key(t[k]) \in Int /\ Key(s[k]) \in Int
      BY <1>2, <1>3, <2>5, <3>1
    <3>7. CASE i # k /\ j # k
      BY <3>2, <3>3, <3>4, <3>5, <3>6, <3>7
    <3> QED
      BY <3>2, <3>3, <3>7
  <2>6. Same(k)
    BY <2>3, <2>4, <2>5
  <2>7. \A i \in 1..k : i \in 1..n \/ i = k
    BY <2>1
  <2> HIDE DEF Same
  <2> QED
    BY <2>1, <2>2, <2>6, <2>7
<1> HIDE DEF Ns, Same
<1>6. \A n \in Nat : n \in Ns
  BY <1>4, <1>5, NumberInduction
<1>7. ASSUME NEW i \in Nat \ {0} PROVE Same(i)
  <2>1. i \in Ns /\ i \in 1..i
    BY <1>6
  <2> QED
    BY <2>1 DEF Ns
<1>8. l = m
  <2>1. l # 0 => l \in 1..m
    BY <1>7 DEF Same
  <2>2. m # 0 => m \in 1..l
    BY <1>7 DEF Same
  <2> QED
    BY <2>1, <2>2
<1>9. \A i \in 1..l : s[i] = t[i]
  BY <1>7 DEF Same
<1> QED
  BY <1>1, <1>2, <1>3, <1>8, <1>9, SeqEqual

\* The set each of some sequences lists, one behind the other.
InTurn(ss, A) ==
  /\ \A i \in 1..Len(ss) : Lists(ss[i], A[i])
  /\ \A i, j \in 1..Len(ss) : i < j => Under(A[i], A[j])

(* Sequences that list sets one behind the other list all of them together. *)
LEMMA ListsFlatten ==
  ASSUME NEW ss \in Seq(Seq(Entry)), NEW A, InTurn(ss, A)
  PROVE  Lists(Seqs!FlattenSeq(ss), UNION {A[i] : i \in 1..Len(ss)})
<1>1. PICK n \in Nat : n = Len(ss)
  OBVIOUS
<1>2. PICK F \in [0..n -> Seq(Entry)] :
        /\ F[0] = <<>>
        /\ \A i \in 1..n : F[i] = F[i - 1] \o ss[i]
        /\ Seqs!FlattenSeq(ss) = F[n]
  BY <1>1, FlattenSteps
<1>3. \A i \in 1..n : Lists(ss[i], A[i])
  BY <1>1 DEF InTurn
<1>4. \A i, j \in 1..n : i < j => Under(A[i], A[j])
  BY <1>1 DEF InTurn
<1> DEFINE P(m) == UNION {A[i] : i \in 1..m}
<1> DEFINE Ns == {m \in Nat : m <= n => Lists(F[m], P(m))}
<1>5. 0 \in Ns
  <2>1. P(0) = {}
    OBVIOUS
  <2> HIDE DEF P
  <2> QED
    BY <1>2, <2>1, ListsOfOne
<1>6. ASSUME NEW m \in Nat, m \in Ns PROVE m + 1 \in Ns
  <2> SUFFICES ASSUME m + 1 <= n PROVE Lists(F[m + 1], P(m + 1))
    OBVIOUS
  <2>1. PICK k \in 1..n : k = m + 1
    OBVIOUS
  <2>2. k - 1 = m /\ m <= n
    BY <2>1
  <2>3. F[k] = F[m] \o ss[k]
    BY <1>2, <2>2
  <2>4. P(k) = P(m) \cup A[k]
    <3>1. \A i : i \in 1..k <=> i \in 1..m \/ i = k
      BY <2>1
    <3> QED
      BY <3>1
  <2>5. Under(P(m), A[k])
    <3> SUFFICES ASSUME NEW d \in P(m), NEW e \in A[k] PROVE Key(d) < Key(e)
      BY DEF Under
    <3>1. PICK i \in 1..m : d \in A[i]
      OBVIOUS
    <3>2. i \in 1..n /\ i < k
      BY <2>1
    <3>3. Under(A[i], A[k])
      BY <1>4, <3>2
    <3> QED
      BY <3>1, <3>3 DEF Under
  <2>6. Lists(F[m], P(m)) /\ Lists(ss[k], A[k])
    BY <1>3, <1>6, <2>2
  <2>7. PICK C : C = P(m)
    OBVIOUS
  <2>8. Lists(F[m] \o ss[k], C \cup A[k])
    <3>1. Lists(F[m], C) /\ Under(C, A[k])
      BY <2>5, <2>6, <2>7
    <3> HIDE DEF P
    <3> QED
      BY <2>6, <3>1, ListsJoin
  <2>9. Lists(F[k], P(k))
    <3> HIDE DEF P
    <3> QED
      BY <2>3, <2>4, <2>7, <2>8
  <2> QED
    BY <2>1, <2>9
<1> HIDE DEF Ns
<1>7. n \in Ns
  BY <1>5, <1>6, NumberInduction
<1>8. Lists(F[n], P(n))
  <2> HIDE DEF P
  <2> QED
    BY <1>7 DEF Ns
<1> QED
  BY <1>1, <1>2, <1>8

-----------------------------------------------------------------------------
\* An entry of a node and what is below the child before it.
Piece(ns, h, nd, i) ==
  {nd.ents[i]} \cup (IF nd.leaf THEN {} ELSE E(ns, h - 1, nd.kids[i]))

\* What is below the last child.
Rest(ns, h, nd) == IF nd.leaf THEN {} ELSE E(ns, h - 1, nd.kids[N(nd) + 1])

(* A node holds its pieces and the rest, one behind the other. *)
LEMMA PiecesOfNode ==
  ASSUME Unique, NEW ns \in Heap, NEW h \in Nat \ {0}, NEW nd, Sound(ns, h, nd)
  PROVE  /\ NE(ns, h, nd) = (UNION {Piece(ns, h, nd, i) : i \in 1..N(nd)}) \cup Rest(ns, h, nd)
         /\ \A i, j \in 1..N(nd) : i < j => Under(Piece(ns, h, nd, i), Piece(ns, h, nd, j))
         /\ \A i \in 1..N(nd) : \A e \in Piece(ns, h, nd, i) :
              /\ e \in Entry
              /\ Key(e) \in Int
              /\ Key(e) <= Key(nd.ents[i])
              /\ \A j \in 1..(i - 1) : Key(nd.ents[j]) < Key(e)
         /\ \A e \in Rest(ns, h, nd) :
              /\ e \in Entry
              /\ Key(e) \in Int
              /\ \A j \in 1..N(nd) : Key(nd.ents[j]) < Key(e)
<1>1. /\ N(nd) \in Nat
      /\ DOMAIN nd.ents = 1..N(nd)
      /\ DOMAIN nd.kids = IF nd.leaf THEN {} ELSE 1..(N(nd) + 1)
      /\ \A i \in 1..N(nd) : nd.ents[i] \in Entry /\ Key(nd.ents[i]) \in Int
      /\ \A i, j \in 1..N(nd) : i < j => Key(nd.ents[i]) < Key(nd.ents[j])
  BY KeysOfNode
<1>2. ASSUME ~nd.leaf, NEW i \in 1..(N(nd) + 1), NEW e \in E(ns, h - 1, nd.kids[i])
      PROVE  /\ e \in Entry
             /\ Key(e) \in Int
             /\ \A j \in 1..(i - 1) : Key(nd.ents[j]) < Key(e)
             /\ \A j \in i..N(nd) : Key(e) < Key(nd.ents[j])
  <2>1. i \in DOMAIN nd.kids
    BY <1>1, <1>2
  <2> QED
    BY <1>2, <2>1, KeysOfNode
<1>3. ASSUME NEW i \in 1..N(nd), NEW e \in Piece(ns, h, nd, i)
      PROVE  /\ e \in Entry
             /\ Key(e) \in Int
             /\ Key(e) <= Key(nd.ents[i])
             /\ \A j \in 1..(i - 1) : Key(nd.ents[j]) < Key(e)
  <2>1. CASE e = nd.ents[i]
    <3>1. \A j \in 1..(i - 1) : j \in 1..N(nd) /\ j < i
      BY <1>1
    <3> QED
      BY <1>1, <2>1, <3>1
  <2>2. CASE e # nd.ents[i]
    <3>1. ~nd.leaf /\ e \in E(ns, h - 1, nd.kids[i])
      BY <2>2 DEF Piece
    <3>2. i \in 1..(N(nd) + 1) /\ i \in i..N(nd)
      BY <1>1
    <3>3. /\ e \in Entry
          /\ Key(e) \in Int
          /\ \A j \in 1..(i - 1) : Key(nd.ents[j]) < Key(e)
          /\ \A j \in i..N(nd) : Key(e) < Key(nd.ents[j])
      BY <1>2, <3>1, <3>2
    <3>4. Key(e) <= Key(nd.ents[i])
      BY <1>1, <3>2, <3>3
    <3> QED
      BY <3>3, <3>4
  <2> QED
    BY <2>1, <2>2
<1>4. ASSUME NEW e \in Rest(ns, h, nd)
      PROVE  /\ e \in Entry
             /\ Key(e) \in Int
             /\ \A j \in 1..N(nd) : Key(nd.ents[j]) < Key(e)
  <2>1. PICK i : i = N(nd) + 1
    OBVIOUS
  <2>2. ~nd.leaf /\ e \in E(ns, h - 1, nd.kids[i])
    BY <2>1 DEF Rest
  <2>3. i \in 1..(N(nd) + 1) /\ \A j \in 1..N(nd) : j \in 1..(i - 1)
    BY <1>1, <2>1
  <2> QED
    BY <1>2, <2>2, <2>3
<1>5. ASSUME NEW i \in 1..N(nd), NEW j \in 1..N(nd), i < j
      PROVE  Under(Piece(ns, h, nd, i), Piece(ns, h, nd, j))
  <2> SUFFICES ASSUME NEW d \in Piece(ns, h, nd, i), NEW e \in Piece(ns, h, nd, j)
               PROVE  Key(d) < Key(e)
    BY DEF Under
  <2>1. i \in 1..(j - 1)
    BY <1>5
  <2>2. Key(d) <= Key(nd.ents[i]) /\ Key(d) \in Int
    BY <1>3
  <2>3. Key(nd.ents[i]) < Key(e) /\ Key(e) \in Int
    BY <1>3, <2>1
  <2>4. Key(nd.ents[i]) \in Int
    BY <1>1
  <2> QED
    BY <2>2, <2>3, <2>4
<1>6. NE(ns, h, nd) = (UNION {Piece(ns, h, nd, i) : i \in 1..N(nd)}) \cup Rest(ns, h, nd)
  <2>1. Seqs!ToSet(nd.ents) = {nd.ents[i] : i \in 1..N(nd)}
    BY <1>1 DEF Seqs!ToSet
  <2>2. CASE nd.leaf
    <3>1. DOMAIN nd.kids = {}
      BY <1>1, <2>2
    <3>2. NE(ns, h, nd) = {nd.ents[i] : i \in 1..N(nd)}
      BY <2>1, <3>1 DEF NE
    <3>3. Rest(ns, h, nd) = {} /\ \A i : Piece(ns, h, nd, i) = {nd.ents[i]}
      BY <2>2 DEF Rest, Piece
    <3> QED
      BY <3>2, <3>3
  <2>3. CASE ~nd.leaf
    <3>1. DOMAIN nd.kids = 1..(N(nd) + 1)
      BY <1>1, <2>3
    <3>2. \A i : i \in 1..(N(nd) + 1) <=> i \in 1..N(nd) \/ i = N(nd) + 1
      BY <1>1
    <3>3. Rest(ns, h, nd) = E(ns, h - 1, nd.kids[N(nd) + 1])
      BY <2>3 DEF Rest
    <3>4. \A i : Piece(ns, h, nd, i) = {nd.ents[i]} \cup E(ns, h - 1, nd.kids[i])
      BY <2>3 DEF Piece
    <3>5. PICK n, D : n = N(nd) + 1 /\ D = 1..N(nd)
      OBVIOUS
    <3>6. NE(ns, h, nd) =
            {nd.ents[i] : i \in D} \cup UNION {E(ns, h - 1, nd.kids[i]) : i \in D \cup {n}}
      BY <2>1, <3>1, <3>2, <3>5 DEF NE
    <3> QED
      BY <3>3, <3>4, <3>5, <3>6
  <2> QED
    BY <2>2, <2>3
<1> QED
  BY <1>3, <1>4, <1>5, <1>6

-----------------------------------------------------------------------------
(***************************************************************************)
(* The walk of a tree.                                                     *)
(***************************************************************************)

\* The walk of one node, given the walks of its children.
WalkNode(ns, b, below) ==
  IF b = NoBlock THEN <<>>
  ELSE LET nd == ns[b] IN
       IF nd.leaf THEN nd.ents
       ELSE Seqs!FlattenSeq([i \in 1..N(nd) |-> Append(below[nd.kids[i]], nd.ents[i])])
              \o below[Seqs!Last(nd.kids)]

WalkOver(ns, below) == [b \in 0..Len(ns) |-> WalkNode(ns, b, below)]

\* The same for all files at once, so that it is a recursion on the levels alone.
NoWalk == [ns \in Heap |-> [b \in 0..Len(ns) |-> <<>>]]
WalkLevel(below) == [ns \in Heap |-> WalkOver(ns, below[ns])]
WalkCalls == INSTANCE Recursion WITH Base <- NoWalk, Step <- WalkLevel

(* The walk goes on level by level. *)
LEMMA WalkUnfolds ==
  ASSUME NEW ns \in Heap, NEW h \in Nat
  PROVE  /\ WalkIn(ns)[0] = [b \in 0..Len(ns) |-> <<>>]
         /\ WalkIn(ns)[h + 1] = WalkOver(ns, WalkIn(ns)[h])
<1> DEFINE Body(g) ==
      [l \in Nat |-> IF l = 0 THEN [b \in 0..Len(ns) |-> <<>>] ELSE WalkOver(ns, g[l - 1])]
<1> DEFINE R == WalkCalls!Rec
<1> DEFINE F == [l \in Nat |-> R[l][ns]]
<1>1. R = [l \in Nat |-> IF l = 0 THEN NoWalk ELSE WalkLevel(R[l - 1])]
  BY WalkCalls!RecUnfolds
<1> HIDE DEF R
<1>2. ASSUME NEW l \in Nat
      PROVE  R[l][ns] = IF l = 0 THEN [b \in 0..Len(ns) |-> <<>>] ELSE WalkOver(ns, R[l - 1][ns])
  <2>1. CASE l = 0
    BY <1>1, <2>1 DEF NoWalk
  <2>2. CASE l # 0
    <3>1. R[l] = WalkLevel(R[l - 1])
      BY <1>1, <2>2
    <3> QED
      BY <2>2, <3>1 DEF WalkLevel
  <2> QED
    BY <2>1, <2>2
<1>3. F = Body(F)
  <2>1. \A l \in Nat : l # 0 => F[l - 1] = R[l - 1][ns]
    OBVIOUS
  <2> QED
    BY <1>2, <2>1
<1>4. WalkIn(ns) = CHOOSE g : g = Body(g)
  BY DEF WalkIn, WalkOver, WalkNode
<1>5. WalkIn(ns) = Body(WalkIn(ns))
  <2> HIDE DEF Body, F
  <2> QED
    BY <1>3, <1>4
<1>6. h + 1 \in Nat /\ h + 1 # 0 /\ (h + 1) - 1 = h
  OBVIOUS
<1>7. Body(WalkIn(ns))[h + 1] = WalkOver(ns, WalkIn(ns)[h])
  BY <1>6
<1>8. Body(WalkIn(ns))[0] = [b \in 0..Len(ns) |-> <<>>]
  OBVIOUS
<1> HIDE DEF Body
<1> QED
  BY <1>5, <1>7, <1>8

(* The walk of a node lists what is below it, if those of its children do. *)
LEMMA WalkOneLevel ==
  ASSUME Unique, NEW ns \in Heap, NEW h \in Nat \ {0}, NEW b, Ok(ns, h, b), NEW below,
         \A c : Ok(ns, h - 1, c) => Lists(below[c], E(ns, h - 1, c))
  PROVE  Lists(WalkNode(ns, b, below), E(ns, h, b))
<1>1. PICK nd : nd = ns[b]
  OBVIOUS
<1>2. Sound(ns, h, nd) /\ E(ns, h, b) = NE(ns, h, nd) /\ b # NoBlock
  BY <1>1, BlockIsNode, TreeContents DEF NoBlock
<1>3. /\ nd \in Node /\ N(nd) \in Nat
      /\ DOMAIN nd.ents = 1..N(nd)
      /\ DOMAIN nd.kids = IF nd.leaf THEN {} ELSE 1..(N(nd) + 1)
      /\ \A i \in 1..N(nd) : nd.ents[i] \in Entry
      /\ \A i, j \in 1..N(nd) : i < j => Key(nd.ents[i]) < Key(nd.ents[j])
  BY <1>2, KeysOfNode
<1>4. /\ NE(ns, h, nd) = (UNION {Piece(ns, h, nd, i) : i \in 1..N(nd)}) \cup Rest(ns, h, nd)
      /\ \A i, j \in 1..N(nd) : i < j => Under(Piece(ns, h, nd, i), Piece(ns, h, nd, j))
      /\ \A i \in 1..N(nd) : \A e \in Piece(ns, h, nd, i) :
           Key(e) \in Int /\ Key(e) <= Key(nd.ents[i])
      /\ \A e \in Rest(ns, h, nd) :
           Key(e) \in Int /\ \A j \in 1..N(nd) : Key(nd.ents[j]) < Key(e)
  BY <1>2, PiecesOfNode
<1>5. CASE nd.leaf
  <2>1. WalkNode(ns, b, below) = nd.ents
    BY <1>1, <1>2, <1>5 DEF WalkNode
  <2>2. NE(ns, h, nd) = Seqs!ToSet(nd.ents)
    BY <1>3, <1>5 DEF NE
  <2>3. nd.ents \in Seq(Entry) /\ N(nd) = Len(nd.ents)
    BY <1>3 DEF Node, N
  <2> QED
    BY <1>2, <1>3, <2>1, <2>2, <2>3 DEF Lists
<1>6. CASE ~nd.leaf
  <2>1. PICK n \in Nat : n = N(nd)
    BY <1>3
  <2>2. PICK ss, A : /\ ss = [i \in 1..n |-> Append(below[nd.kids[i]], nd.ents[i])]
                     /\ A = [i \in 1..n |-> Piece(ns, h, nd, i)]
    OBVIOUS
  <2>3. DOMAIN nd.kids = 1..(n + 1)
    BY <1>3, <1>6, <2>1
  <2>4. ASSUME NEW i \in 1..(n + 1) PROVE Lists(below[nd.kids[i]], E(ns, h - 1, nd.kids[i]))
    BY <1>2, <2>3, SoundNode
  <2>5. ASSUME NEW i \in 1..n PROVE Lists(ss[i], A[i])
    <3>1. PICK s, C, e : s = below[nd.kids[i]] /\ C = E(ns, h - 1, nd.kids[i]) /\ e = nd.ents[i]
      OBVIOUS
    <3>2. Lists(s, C)
      BY <2>1, <2>4, <3>1
    <3>3. e \in Entry
      BY <1>3, <2>1, <3>1
    <3>4. Lists(<<e>>, {e})
      BY <3>3, ListsOfOne
    <3>5. Under(C, {e})
      <4>1. i \in DOMAIN nd.kids /\ i \in i..N(nd)
        BY <2>1, <2>3
      <4>2. \A d \in C : Key(d) < Key(nd.ents[i])
        BY <1>2, <3>1, <4>1, KeysOfNode
      <4> QED
        BY <3>1, <4>2 DEF Under
    <3>6. Lists(s \o <<e>>, C \cup {e})
      BY <3>2, <3>4, <3>5, ListsJoin
    <3>7. s \o <<e>> = ss[i]
      <4>1. s \in Seq(Entry)
        BY <3>2 DEF Lists
      <4>2. Append(s, e) = s \o <<e>>
        BY <3>3, <4>1
      <4> QED
        BY <2>2, <3>1, <4>2
    <3>8. C \cup {e} = A[i]
      BY <1>6, <2>2, <3>1 DEF Piece
    <3> QED
      BY <3>6, <3>7, <3>8
  <2>6. /\ ss \in Seq(Seq(Entry))
        /\ Len(ss) = n
        /\ InTurn(ss, A)
    <3>1. \A i \in 1..n : ss[i] \in Seq(Entry)
      BY <2>5 DEF Lists
    <3>2. ss \in [1..n -> Seq(Entry)]
      BY <2>2, <3>1
    <3>3. ss \in Seq(Seq(Entry)) /\ Len(ss) = n
      BY <3>2
    <3>4. \A i, j \in 1..n : i < j => Under(A[i], A[j])
      BY <1>4, <2>1, <2>2
    <3> QED
      BY <2>5, <3>3, <3>4 DEF InTurn
  <2>7. PICK s, t, C, D : /\ s = Seqs!FlattenSeq(ss)
                          /\ t = below[nd.kids[n + 1]]
                          /\ C = UNION {A[i] : i \in 1..n}
                          /\ D = E(ns, h - 1, nd.kids[n + 1])
    OBVIOUS
  <2>8. Lists(s, C)
    BY <2>6, <2>7, ListsFlatten
  <2>9. Lists(t, D)
    <3>1. n + 1 \in 1..(n + 1)
      OBVIOUS
    <3> QED
      BY <2>4, <2>7, <3>1
  <2>10. D = Rest(ns, h, nd) /\ C = UNION {Piece(ns, h, nd, i) : i \in 1..N(nd)}
    BY <1>6, <2>1, <2>2, <2>7 DEF Rest
  <2>11. Under(C, D)
    <3> SUFFICES ASSUME NEW d \in C, NEW e \in D PROVE Key(d) < Key(e)
      BY DEF Under
    <3>1. PICK i \in 1..N(nd) : d \in Piece(ns, h, nd, i)
      BY <2>10
    <3>2. Key(d) \in Int /\ Key(d) <= Key(nd.ents[i])
      BY <1>4, <3>1
    <3>3. Key(e) \in Int /\ Key(nd.ents[i]) < Key(e)
      BY <1>4, <2>10
    <3>4. Key(nd.ents[i]) \in Int
      BY <1>3 DEF Key, Entry
    <3> QED
      BY <3>2, <3>3, <3>4
  <2>12. Lists(s \o t, C \cup D)
    BY <2>8, <2>9, <2>11, ListsJoin
  <2>13. WalkNode(ns, b, below) = s \o t
    <3>1. Seqs!Last(nd.kids) = nd.kids[n + 1]
      <4>1. Len(nd.kids) = n + 1
        <5>1. Filled(nd)
          BY <1>2 DEF Sound
        <5> QED
          BY <1>6, <2>1, <5>1 DEF Filled
      <4> QED
        BY <4>1 DEF Seqs!Last
    <3> QED
      BY <1>1, <1>2, <1>6, <2>1, <2>2, <2>7, <3>1 DEF WalkNode
  <2> QED
    BY <1>2, <1>4, <2>10, <2>12, <2>13
<1> QED
  BY <1>5, <1>6

(* The walk of a tree lists its entries. *)
LEMMA WalkLevels ==
  ASSUME Unique, NEW ns \in Heap
  PROVE  \A h \in Nat : \A g \in Nat : \A b : Ok(ns, h, b) /\ g >= h =>
           Lists(WalkIn(ns)[g][b], E(ns, h, b))
<1> DEFINE Good == {h \in Nat : \A g \in Nat : \A b : Ok(ns, h, b) /\ g >= h =>
                      Lists(WalkIn(ns)[g][b], E(ns, h, b))}
<1>1. 0 \in Good
  BY TreeIsSound
<1>2. ASSUME NEW h \in Nat, h \in Good PROVE h + 1 \in Good
  <2> SUFFICES ASSUME NEW g \in Nat, NEW b, Ok(ns, h + 1, b), g >= h + 1
               PROVE  Lists(WalkIn(ns)[g][b], E(ns, h + 1, b))
    OBVIOUS
  <2>1. PICK l, m, below : l = h + 1 /\ m = g - 1 /\ below = WalkIn(ns)[m]
    OBVIOUS
  <2>2. l \in Nat \ {0} /\ l - 1 = h /\ m \in Nat /\ m >= h /\ m + 1 = g
    BY <2>1
  <2>3. \A c : Ok(ns, l - 1, c) => Lists(below[c], E(ns, l - 1, c))
    BY <1>2, <2>1, <2>2
  <2>4. Ok(ns, l, b)
    BY <2>1
  <2>5. Lists(WalkNode(ns, b, below), E(ns, l, b))
    BY <2>2, <2>3, <2>4, WalkOneLevel
  <2>6. b \in 0..Len(ns)
    BY <2>4 DEF Ok, Heap
  <2>7. WalkIn(ns)[m + 1] = WalkOver(ns, WalkIn(ns)[m])
    BY <2>2, WalkUnfolds
  <2>8. WalkIn(ns)[g][b] = WalkNode(ns, b, below)
    BY <2>1, <2>2, <2>6, <2>7 DEF WalkOver
  <2> QED
    BY <2>1, <2>5, <2>8
<1> HIDE DEF Good
<1>3. \A h \in Nat : h \in Good
  BY <1>1, <1>2, NumberInduction
<1> QED
  BY <1>3 DEF Good

-----------------------------------------------------------------------------
(***************************************************************************)
(* rangeSearch().                                                          *)
(***************************************************************************)

RangeLevel(below) == [c \in Ranges |-> RangeNode(c, below)]
RangeCalls == INSTANCE Recursion WITH Base <- <<>>, Step <- RangeLevel

(* rangeSearchRecursive() calls itself on children. *)
LEMMA RangeUnfolds ==
  ASSUME NEW g \in Nat \ {0}, NEW c \in Ranges
  PROVE  RangeRec[g][c] = RangeNode(c, RangeRec[g - 1])
<1>1. RangeRec = RangeCalls!Rec
  BY DEF RangeRec, RangeCalls!Rec, RangeLevel
<1>2. RangeRec[g] = RangeLevel(RangeRec[g - 1])
  BY <1>1, RangeCalls!RecUnfolds
<1> QED
  BY <1>2 DEF RangeLevel

\* The entries with keys from lo to hi.
Within(entries, lo, hi) == {e \in entries : lo <= Key(e) /\ Key(e) <= hi}

(* The loop of rangeSearchRecursive() ends at the first key above the bound. *)
LEMMA AbovePlace ==
  ASSUME Unique, NEW ns \in Heap, NEW h \in Nat \ {0}, NEW nd, Sound(ns, h, nd), NEW k \in Int,
         NEW i, i = FindAbove(nd, k)
  PROVE  /\ i \in 1..(N(nd) + 1)
         /\ \A j \in 1..(i - 1) : Key(nd.ents[j]) <= k
         /\ \A j \in i..N(nd) : k < Key(nd.ents[j])
<1>1. /\ N(nd) \in Nat
      /\ \A j \in 1..N(nd) : Key(nd.ents[j]) \in Int
      /\ \A j, l \in 1..N(nd) : j < l => Key(nd.ents[j]) < Key(nd.ents[l])
  BY KeysOfNode
<1>2. \E j \in 1..(N(nd) + 1) :
        /\ \A l \in 1..(j - 1) : Key(nd.ents[l]) <= k
        /\ j <= N(nd) => Key(nd.ents[j]) > k
  <2>1. PICK S : S = {j \in 1..(N(nd) + 1) : j <= N(nd) => Key(nd.ents[j]) > k}
    OBVIOUS
  <2>2. N(nd) + 1 \in S /\ S \in SUBSET Nat
    BY <1>1, <2>1
  <2>3. PICK j \in S : \A l \in S : j <= l
    BY <2>2, LeastElement
  <2>4. ASSUME NEW l \in 1..(j - 1) PROVE Key(nd.ents[l]) <= k
    <3>1. j \in 1..(N(nd) + 1) /\ l \in 1..N(nd) /\ l \notin S
      BY <1>1, <2>1, <2>2, <2>3
    <3> QED
      BY <1>1, <2>1, <3>1
  <2> QED
    BY <2>1, <2>3, <2>4
<1>3. /\ i \in 1..(N(nd) + 1)
      /\ \A l \in 1..(i - 1) : Key(nd.ents[l]) <= k
      /\ i <= N(nd) => Key(nd.ents[i]) > k
  BY <1>2 DEF FindAbove
<1>4. ASSUME NEW j \in i..N(nd) PROVE k < Key(nd.ents[j])
  <2>1. i \in 1..N(nd) /\ j \in 1..N(nd) /\ (i = j \/ i < j)
    BY <1>1, <1>3
  <2>2. k < Key(nd.ents[i])
    BY <1>1, <1>3, <2>1
  <2> QED
    BY <1>1, <2>1, <2>2
<1> QED
  BY <1>3, <1>4

\* What lies within the bounds is in the pieces before position m, or in D.
WithinPieces(ns, h, nd, lo, hi, m, D) ==
  Within(NE(ns, h, nd), lo, hi) =
    (UNION {Within(Piece(ns, h, nd, i), lo, hi) : i \in 1..(m - 1)}) \cup Within(D, lo, hi)

(* What is within the bounds is in the pieces the loop goes past, or below the child *)
(* behind them.                                                                      *)
LEMMA WithinNode ==
  ASSUME Unique, NEW ns \in Heap, NEW h \in Nat \ {0}, NEW nd, Sound(ns, h, nd),
         NEW lo \in Int, NEW hi \in Int, NEW m, m = FindAbove(nd, hi),
         NEW D, D = (IF nd.leaf THEN {} ELSE E(ns, h - 1, nd.kids[m]))
  PROVE  /\ WithinPieces(ns, h, nd, lo, hi, m, D)
         /\ \A i \in 1..(m - 1) : Under(Piece(ns, h, nd, i), D)
<1>1. /\ N(nd) \in Nat
      /\ DOMAIN nd.kids = IF nd.leaf THEN {} ELSE 1..(N(nd) + 1)
      /\ \A i \in 1..N(nd) : Key(nd.ents[i]) \in Int
  BY KeysOfNode
<1>2. /\ NE(ns, h, nd) = (UNION {Piece(ns, h, nd, i) : i \in 1..N(nd)}) \cup Rest(ns, h, nd)
      /\ \A i \in 1..N(nd) : \A e \in Piece(ns, h, nd, i) :
           /\ Key(e) \in Int
           /\ Key(e) <= Key(nd.ents[i])
           /\ \A j \in 1..(i - 1) : Key(nd.ents[j]) < Key(e)
      /\ \A e \in Rest(ns, h, nd) :
           Key(e) \in Int /\ \A j \in 1..N(nd) : Key(nd.ents[j]) < Key(e)
  BY PiecesOfNode
<1>3. /\ m \in 1..(N(nd) + 1)
      /\ \A j \in m..N(nd) : hi < Key(nd.ents[j])
  BY AbovePlace
<1>4. D \subseteq NE(ns, h, nd)
  <2>1. CASE nd.leaf
    BY <2>1
  <2>2. CASE ~nd.leaf
    <3>1. m \in DOMAIN nd.kids
      BY <1>1, <1>3, <2>2
    <3> QED
      BY <2>2, <3>1, SoundNode
  <2> QED
    BY <2>1, <2>2
<1>5. ASSUME NEW i \in 1..(m - 1), NEW d \in Piece(ns, h, nd, i), NEW e \in D
      PROVE  Key(d) < Key(e)
  <2>1. i \in 1..N(nd)
    BY <1>1, <1>3
  <2>2. Key(d) \in Int /\ Key(d) <= Key(nd.ents[i]) /\ Key(nd.ents[i]) \in Int
    BY <1>1, <1>2, <2>1
  <2>3. ~nd.leaf /\ e \in E(ns, h - 1, nd.kids[m])
    BY <1>5, Zenon
  <2>4. m \in DOMAIN nd.kids
    BY <1>1, <1>3, <2>3
  <2>5. Key(e) \in Int /\ Key(nd.ents[i]) < Key(e)
    BY <2>3, <2>4, KeysOfNode
  <2> QED
    BY <2>2, <2>5
<1>6. ASSUME NEW e \in NE(ns, h, nd), Key(e) <= hi
      PROVE  e \in D \/ \E i \in 1..(m - 1) : e \in Piece(ns, h, nd, i)
  <2>1. CASE e \in Rest(ns, h, nd)
    <3>1. m \notin 1..N(nd)
      <4> SUFFICES ASSUME m \in 1..N(nd) PROVE FALSE
        OBVIOUS
      <4>1. hi < Key(nd.ents[m]) /\ Key(nd.ents[m]) \in Int
        BY <1>1, <1>3
      <4>2. Key(nd.ents[m]) < Key(e) /\ Key(e) \in Int
        BY <1>2, <2>1
      <4> QED
        BY <1>6, <4>1, <4>2
    <3>2. m = N(nd) + 1
      BY <1>1, <1>3, <3>1
    <3>3. ~nd.leaf /\ e \in E(ns, h - 1, nd.kids[m])
      BY <2>1, <3>2 DEF Rest
    <3> QED
      BY <3>3
  <2>2. CASE \E i \in 1..N(nd) : e \in Piece(ns, h, nd, i)
    <3>1. PICK i \in 1..N(nd) : e \in Piece(ns, h, nd, i)
      BY <2>2
    <3>2. /\ Key(e) \in Int
          /\ \A j \in 1..(i - 1) : Key(nd.ents[j]) < Key(e)
      BY <1>2, <3>1
    <3>3. CASE i > m
      <4>1. m \in 1..(i - 1) /\ m \in m..N(nd) /\ m \in 1..N(nd)
        BY <1>1, <1>3, <3>3
      <4>2. hi < Key(nd.ents[m]) /\ Key(nd.ents[m]) < Key(e) /\ Key(nd.ents[m]) \in Int
        BY <1>1, <1>3, <3>2, <4>1
      <4> QED
        BY <1>6, <3>2, <4>2
    <3>4. CASE i = m
      <4>1. m \in m..N(nd)
        BY <1>1, <3>4
      <4>2. hi < Key(nd.ents[m]) /\ Key(nd.ents[m]) \in Int
        BY <1>1, <1>3, <3>4, <4>1
      <4>3. e # nd.ents[m]
        BY <1>6, <3>2, <4>2
      <4>4. ~nd.leaf /\ e \in E(ns, h - 1, nd.kids[m])
        BY <3>1, <3>4, <4>3 DEF Piece
      <4> QED
        BY <4>4
    <3>5. CASE i < m
      <4>1. i \in 1..(m - 1)
        BY <1>1, <1>3, <3>5
      <4> QED
        BY <3>1, <4>1
    <3> QED
      BY <1>1, <1>3, <3>3, <3>4, <3>5
  <2> QED
    BY <1>2, <2>1, <2>2
<1>7. ASSUME NEW i \in 1..(m - 1) PROVE Piece(ns, h, nd, i) \subseteq NE(ns, h, nd)
  <2>1. i \in 1..N(nd)
    BY <1>1, <1>3
  <2> QED
    BY <1>2, <2>1
<1>8. Within(NE(ns, h, nd), lo, hi) =
        (UNION {Within(Piece(ns, h, nd, i), lo, hi) : i \in 1..(m - 1)}) \cup Within(D, lo, hi)
  BY <1>4, <1>6, <1>7 DEF Within
<1> QED
  BY <1>5, <1>8 DEF Under, WithinPieces

(* What the loop collects at one position is what lies within the bounds there. *)
LEMMA RangePiece ==
  ASSUME Unique, NEW ns \in Heap, NEW h \in Nat \ {0}, NEW nd, Sound(ns, h, nd),
         NEW lo \in Int, NEW hi \in Int, NEW i \in 1..N(nd), Key(nd.ents[i]) <= hi,
         NEW s, ~nd.leaf => Lists(s, Within(E(ns, h - 1, nd.kids[i]), lo, hi))
  PROVE  Lists(IF Key(nd.ents[i]) < lo THEN <<>>
               ELSE (IF nd.leaf THEN <<>> ELSE s) \o <<nd.ents[i]>>,
               Within(Piece(ns, h, nd, i), lo, hi))
<1>1. PICK e, k : e = nd.ents[i] /\ k = Key(e)
  OBVIOUS
<1>2. e \in Entry /\ k \in Int
  BY <1>1, KeysOfNode
<1>3. CASE k < lo
  <2>1. \A d \in Piece(ns, h, nd, i) : Key(d) \in Int /\ Key(d) <= k
    BY <1>1, PiecesOfNode
  <2>2. Within(Piece(ns, h, nd, i), lo, hi) = {}
    BY <1>2, <1>3, <2>1 DEF Within
  <2> QED
    BY <1>1, <1>3, <2>2, ListsOfOne
<1>4. CASE ~(k < lo)
  <2>1. PICK t, C : /\ t = (IF nd.leaf THEN <<>> ELSE s)
                    /\ C = (IF nd.leaf THEN {} ELSE Within(E(ns, h - 1, nd.kids[i]), lo, hi))
    OBVIOUS
  <2>2. Lists(t, C)
    BY <2>1, ListsOfOne, Zenon
  <2>3. Under(C, {e})
    <3> SUFFICES ASSUME NEW d \in C PROVE Key(d) < k
      BY <1>1 DEF Under
    <3>1. ~nd.leaf
      BY <2>1
    <3>2. d \in E(ns, h - 1, nd.kids[i])
      BY <2>1, <3>1 DEF Within
    <3>3. i \in DOMAIN nd.kids /\ i \in i..N(nd)
      <4>1. DOMAIN nd.kids = 1..(N(nd) + 1) /\ N(nd) \in Nat
        BY <3>1, KeysOfNode
      <4> QED
        BY <4>1
    <3>4. Key(d) < Key(nd.ents[i])
      BY <3>2, <3>3, KeysOfNode
    <3> QED
      BY <1>1, <3>4
  <2>4. Lists(<<e>>, {e})
    BY <1>2, ListsOfOne
  <2>5. Lists(t \o <<e>>, C \cup {e})
    BY <2>2, <2>3, <2>4, ListsJoin
  <2>6. C \cup {e} = Within(Piece(ns, h, nd, i), lo, hi)
    <3>1. lo <= Key(e) /\ Key(e) <= hi
      BY <1>1, <1>2, <1>4
    <3>2. CASE nd.leaf
      BY <1>1, <2>1, <3>1, <3>2 DEF Within, Piece
    <3>3. CASE ~nd.leaf
      BY <1>1, <2>1, <3>1, <3>3 DEF Within, Piece
    <3> QED
      BY <3>2, <3>3
  <2>7. (IF Key(nd.ents[i]) < lo THEN <<>> ELSE (IF nd.leaf THEN <<>> ELSE s) \o <<nd.ents[i]>>)
          = t \o <<e>>
    BY <1>1, <1>4, <2>1, Zenon
  <2> QED
    BY <2>5, <2>6, <2>7
<1> QED
  BY <1>3, <1>4

(* One call of rangeSearchRecursive() lists what lies within the bounds, if the calls *)
(* it makes do.                                                                       *)
LEMMA RangeOneLevel ==
  ASSUME Unique, NEW f \in Stores, NEW h \in Nat \ {0}, NEW b, Ok(f.nodes, h, b),
         NEW lo \in Int, NEW hi \in Int, NEW below,
         \A x : Ok(f.nodes, h - 1, x) =>
           Lists(below[[f |-> f, at |-> x, lo |-> lo, hi |-> hi]],
                 Within(E(f.nodes, h - 1, x), lo, hi))
  PROVE  Lists(RangeNode([f |-> f, at |-> b, lo |-> lo, hi |-> hi], below),
               Within(E(f.nodes, h, b), lo, hi))
<1>1. PICK ns, nd, m, c : /\ ns = f.nodes
                          /\ nd = ns[b]
                          /\ m = FindAbove(nd, hi)
                          /\ c = [f |-> f, at |-> b, lo |-> lo, hi |-> hi]
  OBVIOUS
<1>2. ns \in Heap
  BY <1>1, StoreFields
<1>3. Sound(ns, h, nd) /\ E(ns, h, b) = NE(ns, h, nd) /\ b # NoBlock
  <2>1. Ok(ns, h, b)
    BY <1>1
  <2>2. Sound(ns, h, ns[b]) /\ b \in 1..Len(ns)
    BY <1>2, <2>1, BlockIsNode
  <2>3. E(ns, h, b) = NE(ns, h, ns[b])
    BY <1>2, <2>1, TreeContents
  <2> QED
    BY <1>1, <2>2, <2>3 DEF NoBlock
<1>4. /\ N(nd) \in Nat
      /\ DOMAIN nd.kids = IF nd.leaf THEN {} ELSE 1..(N(nd) + 1)
  BY <1>2, <1>3, KeysOfNode
<1>5. /\ m \in 1..(N(nd) + 1)
      /\ \A j \in 1..(m - 1) : Key(nd.ents[j]) <= hi
  BY <1>1, <1>2, <1>3, AbovePlace
<1>6. PICK n \in Nat : n = m - 1
  BY <1>4, <1>5
<1>7. PICK K, D : /\ K = [i \in 1..(N(nd) + 1) |->
                              below[[f |-> f, at |-> nd.kids[i], lo |-> lo, hi |-> hi]]]
                  /\ D = (IF nd.leaf THEN {} ELSE E(ns, h - 1, nd.kids[m]))
  OBVIOUS
<1>8. PICK ss, A : /\ ss = [i \in 1..n |-> RangeAt(c, nd, i, below)]
                   /\ A = [i \in 1..n |-> Within(Piece(ns, h, nd, i), lo, hi)]
  OBVIOUS
<1>9. ASSUME ~nd.leaf, NEW i \in 1..(N(nd) + 1)
      PROVE  Lists(K[i], Within(E(ns, h - 1, nd.kids[i]), lo, hi))
  <2>1. i \in DOMAIN nd.kids
    BY <1>4, <1>9
  <2>2. Ok(ns, h - 1, nd.kids[i])
    BY <1>2, <1>3, <2>1, SoundNode
  <2> QED
    BY <1>1, <1>7, <2>2
<1>10. \A x : [c EXCEPT !.at = x] = [f |-> f, at |-> x, lo |-> lo, hi |-> hi]
  BY <1>1
<1>11. c.f = f /\ c.at = b /\ c.lo = lo /\ c.hi = hi
  BY <1>1
<1>12. ASSUME NEW i \in 1..n PROVE Lists(ss[i], A[i])
  <2>1. i \in 1..N(nd) /\ i \in 1..(N(nd) + 1) /\ i \in 1..(m - 1)
    BY <1>4, <1>5, <1>6
  <2>2. PICK s : s = K[i]
    OBVIOUS
  <2>3. ~nd.leaf => Lists(s, Within(E(ns, h - 1, nd.kids[i]), lo, hi))
    BY <1>9, <2>1, <2>2
  <2>4. Key(nd.ents[i]) <= hi
    BY <1>5, <2>1
  <2>5. Lists(IF Key(nd.ents[i]) < lo THEN <<>>
              ELSE (IF nd.leaf THEN <<>> ELSE s) \o <<nd.ents[i]>>,
              Within(Piece(ns, h, nd, i), lo, hi))
    BY <1>2, <1>3, <2>1, <2>3, <2>4, RangePiece
  <2>6. K[i] = below[[f |-> f, at |-> nd.kids[i], lo |-> lo, hi |-> hi]]
    BY <1>7, <2>1
  <2>7. RangeAt(c, nd, i, below) = IF Key(nd.ents[i]) < lo THEN <<>>
                                   ELSE (IF nd.leaf THEN <<>> ELSE s) \o <<nd.ents[i]>>
    BY <1>10, <1>11, <2>2, <2>6, Zenon DEF RangeAt
  <2>8. ss[i] = RangeAt(c, nd, i, below) /\ A[i] = Within(Piece(ns, h, nd, i), lo, hi)
    BY <1>8
  <2> QED
    BY <2>5, <2>7, <2>8
<1>13. /\ ss \in Seq(Seq(Entry))
       /\ Len(ss) = n
       /\ InTurn(ss, A)
  <2>1. \A i \in 1..n : ss[i] \in Seq(Entry)
    BY <1>12 DEF Lists
  <2>2. ss \in [1..n -> Seq(Entry)]
    BY <1>8, <2>1
  <2>3. ss \in Seq(Seq(Entry)) /\ Len(ss) = n
    BY <2>2
  <2>4. ASSUME NEW i \in 1..n, NEW j \in 1..n, i < j PROVE Under(A[i], A[j])
    <3>1. i \in 1..N(nd) /\ j \in 1..N(nd)
      BY <1>4, <1>5, <1>6
    <3>2. Under(Piece(ns, h, nd, i), Piece(ns, h, nd, j))
      BY <1>2, <1>3, <2>4, <3>1, PiecesOfNode
    <3> QED
      BY <1>8, <3>2 DEF Under, Within
  <2> QED
    BY <1>12, <2>3, <2>4 DEF InTurn
<1>14. PICK s, t, C : /\ s = Seqs!FlattenSeq(ss)
                      /\ t = (IF nd.leaf THEN <<>> ELSE K[m])
                      /\ C = UNION {A[i] : i \in 1..n}
  OBVIOUS
<1>15. Lists(s, C)
  BY <1>13, <1>14, ListsFlatten
<1>16. Lists(t, Within(D, lo, hi))
  <2>1. CASE nd.leaf
    <3>1. t = <<>> /\ Within(D, lo, hi) = {}
      BY <1>7, <1>14, <2>1 DEF Within
    <3> QED
      BY <3>1, ListsOfOne
  <2>2. CASE ~nd.leaf
    <3>1. t = K[m] /\ D = E(ns, h - 1, nd.kids[m])
      BY <1>7, <1>14, <2>2
    <3> QED
      BY <1>5, <1>9, <2>2, <3>1
  <2> QED
    BY <2>1, <2>2
<1>17. /\ Within(NE(ns, h, nd), lo, hi) =
            (UNION {Within(Piece(ns, h, nd, i), lo, hi) : i \in 1..(m - 1)}) \cup Within(D, lo, hi)
       /\ \A i \in 1..(m - 1) : Under(Piece(ns, h, nd, i), D)
  <2>1. WithinPieces(ns, h, nd, lo, hi, m, D)
    BY <1>1, <1>2, <1>3, <1>7, WithinNode
  <2>2. ASSUME NEW i \in 1..(m - 1) PROVE Under(Piece(ns, h, nd, i), D)
    BY <1>1, <1>2, <1>3, <1>7, WithinNode
  <2> QED
    BY <2>1, <2>2 DEF WithinPieces
<1>18. C = UNION {Within(Piece(ns, h, nd, i), lo, hi) : i \in 1..(m - 1)}
  BY <1>6, <1>8, <1>14
<1>19. Under(C, Within(D, lo, hi))
  BY <1>17, <1>18 DEF Under, Within
<1>20. PICK D2 : D2 = Within(D, lo, hi)
  OBVIOUS
<1>21. Lists(s \o t, C \cup D2)
  BY <1>15, <1>16, <1>19, <1>20, ListsJoin
<1>22. RangeNode(c, below) = s \o t
  <2>1. K[m] = below[[f |-> f, at |-> nd.kids[m], lo |-> lo, hi |-> hi]]
    BY <1>5, <1>7
  <2>2. t = (IF nd.leaf THEN <<>> ELSE below[[c EXCEPT !.at = nd.kids[m]]])
    BY <1>10, <1>14, <2>1, Zenon
  <2>3. s = Seqs!FlattenSeq([i \in 1..(m - 1) |-> RangeAt(c, nd, i, below)])
    BY <1>6, <1>8, <1>14
  <2>4. RangeEnd(nd, c.hi) = m /\ ReadNode(c.f, c.at) = nd
    BY <1>1, <1>11 DEF RangeEnd, ReadNode
  <2> QED
    BY <1>3, <1>11, <2>2, <2>3, <2>4, Zenon DEF RangeNode
<1> QED
  BY <1>1, <1>3, <1>17, <1>18, <1>20, <1>21, <1>22

(* A range search lists what lies within its bounds. *)
LEMMA RangeLevels ==
  ASSUME Unique, NEW f \in Stores, NEW lo \in Int, NEW hi \in Int
  PROVE  \A h \in Nat : \A g \in Nat : \A b : Ok(f.nodes, h, b) /\ g >= h =>
           Lists(RangeRec[g][[f |-> f, at |-> b, lo |-> lo, hi |-> hi]],
                 Within(E(f.nodes, h, b), lo, hi))
<1> DEFINE Good == {h \in Nat : \A g \in Nat : \A b : Ok(f.nodes, h, b) /\ g >= h =>
                      Lists(RangeRec[g][[f |-> f, at |-> b, lo |-> lo, hi |-> hi]],
                            Within(E(f.nodes, h, b), lo, hi))}
<1>1. 0 \in Good
  BY StoreFields, TreeIsSound
<1>2. ASSUME NEW h \in Nat, h \in Good PROVE h + 1 \in Good
  <2> SUFFICES ASSUME NEW g \in Nat, NEW b, Ok(f.nodes, h + 1, b), g >= h + 1
               PROVE  Lists(RangeRec[g][[f |-> f, at |-> b, lo |-> lo, hi |-> hi]],
                            Within(E(f.nodes, h + 1, b), lo, hi))
    OBVIOUS
  <2>1. PICK l, m, below, c : /\ l = h + 1 /\ m = g - 1 /\ below = RangeRec[m]
                              /\ c = [f |-> f, at |-> b, lo |-> lo, hi |-> hi]
    OBVIOUS
  <2>2. l \in Nat \ {0} /\ l - 1 = h /\ m \in Nat /\ m >= h /\ g \in Nat \ {0}
    BY <2>1
  <2>3. \A x : Ok(f.nodes, l - 1, x) =>
          Lists(below[[f |-> f, at |-> x, lo |-> lo, hi |-> hi]],
                Within(E(f.nodes, l - 1, x), lo, hi))
    BY <1>2, <2>1, <2>2
  <2>4. Ok(f.nodes, l, b)
    BY <2>1
  <2>5. Lists(RangeNode(c, below), Within(E(f.nodes, l, b), lo, hi))
    BY <2>1, <2>2, <2>3, <2>4, RangeOneLevel
  <2>6. c \in Ranges
    <3>1. b \in Nat
      BY <2>4 DEF Ok
    <3> QED
      BY <2>1, <3>1 DEF Ranges
  <2>7. RangeRec[g][c] = RangeNode(c, RangeRec[g - 1])
    BY <2>2, <2>6, RangeUnfolds
  <2> QED
    BY <2>1, <2>5, <2>7
<1> HIDE DEF Good
<1>3. \A h \in Nat : h \in Good
  BY <1>1, <1>2, NumberInduction
<1> QED
  BY <1>3 DEF Good

-----------------------------------------------------------------------------
(* In what is listed a part has the keys within two bounds. *)
LEMMA StretchOfListing ==
  ASSUME NEW w, NEW A, Lists(w, A), NEW lo \in Int, NEW hi \in Int
  PROVE  \E i, j \in 0..Len(w) :
           /\ Lists(SubSeq(w, i + 1, j), Within(A, lo, hi))
           /\ \A n \in 1..Len(w) : n \in (i + 1)..j <=> lo <= Key(w[n]) /\ Key(w[n]) <= hi
<1>1. PICK l \in Nat : l = Len(w)
  BY Listed
<1>2. /\ w \in Seq(Entry)
      /\ \A n \in 1..l : w[n] \in A /\ w[n] \in Entry /\ Key(w[n]) \in Int
      /\ \A e \in A : \E n \in 1..l : e = w[n]
      /\ \A n, m \in 1..l : n < m => Key(w[n]) < Key(w[m])
  BY <1>1, Listed
<1>3. ASSUME NEW k \in Int
      PROVE  \E i \in 0..l : \A n \in 1..l : n <= i <=> Key(w[n]) < k
  <2>1. PICK S : S = {n \in 1..l : Key(w[n]) < k}
    OBVIOUS
  <2>2. CASE S = {}
    <3>1. 0 \in 0..l /\ \A n \in 1..l : ~(n <= 0)
      OBVIOUS
    <3> QED
      BY <2>1, <2>2, <3>1
  <2>3. CASE S # {}
    <3>1. S \in SUBSET Nat /\ \A n \in S : n <= l
      BY <2>1
    <3>2. PICK i \in S : \A n \in S : n <= i
      BY <2>3, <3>1, GreatestElement
    <3>3. i \in 1..l /\ Key(w[i]) < k
      BY <2>1
    <3>4. ASSUME NEW n \in 1..l PROVE n <= i <=> Key(w[n]) < k
      <4>1. CASE n <= i
        <5>1. n = i \/ Key(w[n]) < Key(w[i])
          BY <1>2, <3>3, <4>1
        <5> QED
          BY <1>2, <3>3, <4>1, <5>1
      <4>2. CASE ~(n <= i)
        <5>1. n \notin S
          BY <3>2, <4>2
        <5> QED
          BY <2>1, <4>2, <5>1
      <4> QED
        BY <4>1, <4>2
    <3> QED
      BY <3>3, <3>4
  <2> QED
    BY <2>2, <2>3
<1>4. PICK i \in 0..l : \A n \in 1..l : n <= i <=> Key(w[n]) < lo
  BY <1>3
<1>5. PICK j \in 0..l : \A n \in 1..l : n <= j <=> Key(w[n]) < hi + 1
  <2>1. hi + 1 \in Int
    OBVIOUS
  <2> QED
    BY <1>3, <2>1
<1>6. ASSUME NEW n \in 1..l
      PROVE  n \in (i + 1)..j <=> lo <= Key(w[n]) /\ Key(w[n]) <= hi
  <2>1. Key(w[n]) \in Int
    BY <1>2
  <2>2. n <= i <=> Key(w[n]) < lo
    BY <1>4
  <2>3. n <= j <=> Key(w[n]) < hi + 1
    BY <1>5
  <2> QED
    BY <2>1, <2>2, <2>3
<1>7. PICK s : s = SubSeq(w, i + 1, j)
  OBVIOUS
<1>8. /\ s \in Seq(Entry)
      /\ \A n \in 1..Len(s) : i + n \in (i + 1)..j /\ i + n \in 1..l /\ s[n] = w[i + n]
      /\ \A n \in (i + 1)..j : n - i \in 1..Len(s) /\ i + (n - i) = n
  <2>1. i \in Nat /\ j \in Nat /\ i + 1 \in Int /\ j <= l
    OBVIOUS
  <2>2. \A n \in (i + 1)..j : w[n] \in Entry
    BY <1>2, <2>1
  <2>3. /\ s \in Seq(Entry)
        /\ Len(s) = IF i + 1 <= j THEN j - (i + 1) + 1 ELSE 0
        /\ \A n \in 1..(j - (i + 1) + 1) : s[n] = w[(i + 1) + n - 1]
    BY <1>7, <2>1, <2>2, SubSeqProperties
  <2>4. \A n \in 1..Len(s) : n \in 1..(j - (i + 1) + 1) /\ (i + 1) + n - 1 = i + n
    BY <2>1, <2>3
  <2>5. ASSUME NEW n \in 1..Len(s)
        PROVE  i + n \in (i + 1)..j /\ i + n \in 1..l /\ s[n] = w[i + n]
    <3>1. n \in 1..(j - (i + 1) + 1) /\ (i + 1) + n - 1 = i + n
      BY <2>4
    <3>2. s[n] = w[(i + 1) + n - 1]
      BY <2>3, <3>1
    <3>3. n \in Nat /\ 1 <= n /\ n <= j - i
      BY <2>1, <3>1
    <3>4. i + n \in Nat /\ 1 <= i + n /\ i + 1 <= i + n /\ i + n <= j /\ i + n <= l
      BY <2>1, <3>3
    <3>5. i + n \in (i + 1)..j
      BY <2>1, <3>4
    <3>6. i + n \in 1..l
      BY <2>1, <3>4
    <3> QED
      BY <3>1, <3>2, <3>5, <3>6
  <2>6. ASSUME NEW n \in (i + 1)..j PROVE n - i \in 1..Len(s) /\ i + (n - i) = n
    <3>1. Len(s) = j - i
      BY <2>1, <2>3
    <3> QED
      BY <2>1, <3>1
  <2> QED
    BY <2>3, <2>5, <2>6
<1>9. Seqs!ToSet(s) = Within(A, lo, hi)
  <2>1. Seqs!ToSet(s) = {s[n] : n \in 1..Len(s)}
    BY <1>8 DEF Seqs!ToSet
  <2>2. ASSUME NEW n \in 1..Len(s) PROVE s[n] \in Within(A, lo, hi)
    BY <1>2, <1>6, <1>8 DEF Within
  <2>3. ASSUME NEW e \in Within(A, lo, hi) PROVE \E n \in 1..Len(s) : e = s[n]
    <3>1. e \in A /\ lo <= Key(e) /\ Key(e) <= hi
      BY DEF Within
    <3>2. PICK n \in 1..l : e = w[n]
      BY <1>2, <3>1
    <3>3. n \in (i + 1)..j
      BY <1>6, <3>1, <3>2
    <3>4. PICK m \in 1..Len(s) : m = n - i /\ i + m = n
      BY <1>8, <3>3
    <3>5. s[m] = w[i + m]
      BY <1>8
    <3> QED
      BY <3>2, <3>4, <3>5
  <2> QED
    BY <2>1, <2>2, <2>3
<1>10. ASSUME NEW n \in 1..Len(s), NEW m \in 1..Len(s), n < m PROVE Key(s[n]) < Key(s[m])
  <2>1. s[n] = w[i + n] /\ s[m] = w[i + m] /\ i + n \in 1..l /\ i + m \in 1..l
    BY <1>8
  <2>2. i + n < i + m
    BY <1>8, <1>10
  <2> QED
    BY <1>2, <2>1, <2>2
<1> QED
  BY <1>1, <1>6, <1>7, <1>8, <1>9, <1>10 DEF Lists

(* So a listing of what lies within two bounds is a part of a listing of all. *)
LEMMA ListingIsStretch ==
  ASSUME NEW w, NEW A, Lists(w, A), NEW lo \in Int, NEW hi \in Int,
         NEW s, Lists(s, Within(A, lo, hi))
  PROVE  IsStretch(s, w, lo, hi)
<1>1. PICK i \in 0..Len(w), j \in 0..Len(w) :
        /\ Lists(SubSeq(w, i + 1, j), Within(A, lo, hi))
        /\ \A n \in 1..Len(w) : n \in (i + 1)..j <=> lo <= Key(w[n]) /\ Key(w[n]) <= hi
  BY StretchOfListing
<1>2. PICK t, C : t = SubSeq(w, i + 1, j) /\ C = Within(A, lo, hi)
  OBVIOUS
<1>3. s = t
  BY <1>1, <1>2, ListsAgree
<1> QED
  BY <1>1, <1>2, <1>3 DEF IsStretch

(* In a listing a key is there once, if an entry has it. *)
LEMMA CountInListing ==
  ASSUME NEW w, NEW A, Lists(w, A), NEW k \in Int
  PROVE  Cardinality({i \in 1..Len(w) : Key(w[i]) = k}) =
           IF \E e \in A : Key(e) = k THEN 1 ELSE 0
<1>0. Len(w) \in Nat
  BY Listed
<1>1. PICK l, S : l = Len(w) /\ l \in Nat /\ S = {i \in 1..l : Key(w[i]) = k}
  BY <1>0
<1>2. /\ \A n \in 1..l : w[n] \in A /\ Key(w[n]) \in Int
      /\ \A e \in A : \E n \in 1..l : e = w[n]
      /\ \A n, m \in 1..l : n < m => Key(w[n]) < Key(w[m])
  BY <1>1, Listed
<1>3. CASE \E e \in A : Key(e) = k
  <2>1. PICK n \in 1..l : Key(w[n]) = k
    BY <1>2, <1>3
  <2>2. ASSUME NEW m \in S PROVE m = n
    <3>1. m \in 1..l /\ Key(w[m]) = k
      BY <1>1
    <3>2. ~(m < n) /\ ~(n < m)
      BY <1>2, <2>1, <3>1
    <3> QED
      BY <3>1, <3>2
  <2>3. S = {n}
    BY <1>1, <2>1, <2>2
  <2>4. Cardinality(S) = 1
    BY <2>3, FS_Singleton
  <2> QED
    BY <1>1, <1>3, <2>4
<1>4. CASE ~\E e \in A : Key(e) = k
  <2>1. S = {}
    BY <1>1, <1>2, <1>4
  <2>2. Cardinality(S) = 0
    BY <2>1, FS_EmptySet
  <2> QED
    BY <1>1, <1>4, <2>2
<1> QED
  BY <1>3, <1>4
=============================================================================
