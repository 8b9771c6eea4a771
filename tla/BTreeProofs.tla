----------------------------- MODULE BTreeProofs ------------------------------
(***************************************************************************)
(* What the operations of the B-tree do to a tree of any height, and the   *)
(* theorems about its specification, for every order, every set of entries *)
(* with keys of their own and every file.                                  *)
(***************************************************************************)
EXTENDS BTreeWalkProofs

-----------------------------------------------------------------------------
(***************************************************************************)
(* insertNonFull() and insert().                                           *)
(***************************************************************************)

\* An entry can be inserted below a block that is not full and does not have its
\* key; the result has it, and no less at its root.
InsertPre(f, h, at, e) ==
  /\ Fresh(f)
  /\ Ok(f.nodes, h, at)
  /\ N(f.nodes[at]) <= 2 * T - 2
  /\ \A d \in E(f.nodes, h, at) : Key(d) # Key(e)

InsertPost(f, h, at, e, r) ==
  /\ Turned(f, h, at, r, E(f.nodes, h, at) \cup {e})
  /\ N(r.f.nodes[r.at]) >= N(f.nodes[at])

InsertWorks(below, h, e) ==
  \A f, at : InsertPre(f, h, at, e) =>
    InsertPost(f, h, at, e, below[[f |-> f, at |-> at, e |-> e]])

\* A child of the node at p.at is where the entry belongs, and not full.
InsertReady(p, h, nd, j, e) ==
  /\ Fresh(p.f)
  /\ Ok(p.f.nodes, h, p.at)
  /\ nd = p.f.nodes[p.at]
  /\ ~nd.leaf
  /\ j \in 1..(N(nd) + 1)
  /\ Admits(nd, j, 0, Key(e))
  /\ N(p.f.nodes[nd.kids[j]]) <= 2 * T - 2
  /\ \A d \in E(p.f.nodes, h, p.at) : Key(d) # Key(e)

(* The descent into a child that is not full. *)
LEMMA InsertDescends ==
  ASSUME Unique, NEW h \in Nat \ {0}, NEW e \in Entry, NEW below, InsertWorks(below, h - 1, e),
         NEW p, NEW nd, NEW j, InsertReady(p, h, nd, j, e),
         NEW w, w = Relink(below[[f |-> p.f, at |-> nd.kids[j], e |-> e]], nd, p.at, j)
  PROVE  InsertPost(p.f, h, p.at, e, w)
<1>1. PICK f, at, b, es, r, fs :
        /\ f = p.f /\ at = p.at /\ b = nd.kids[j]
        /\ es = E(f.nodes, h - 1, b) \cup {e}
        /\ r = below[[f |-> f, at |-> b, e |-> e]]
        /\ fs = RE(f.nodes, h, nd, j, 0) \cup es
  OBVIOUS
<1>2. /\ Fresh(f) /\ Ok(f.nodes, h, at) /\ nd = f.nodes[at] /\ ~nd.leaf
      /\ j \in 1..(N(nd) + 1) /\ Admits(nd, j, 0, Key(e))
      /\ N(f.nodes[b]) <= 2 * T - 2
      /\ \A d \in E(f.nodes, h, at) : Key(d) # Key(e)
  BY <1>1 DEF InsertReady
<1>3. f.nodes \in Heap
  BY <1>2, StoreFields DEF Fresh
<1>4. Sound(f.nodes, h, nd) /\ E(f.nodes, h, at) = NE(f.nodes, h, nd)
  BY <1>2, <1>3, BlockIsNode, TreeContents
<1>5. PICK x : x = f.nodes[b]
  OBVIOUS
<1>6. Child(f, h, nd, j, x)
  BY <1>1, <1>2, <1>4, <1>5, ChildOfNode
<1>7. Key(e) \in Int
  BY Order
<1>8. /\ NE(f.nodes, h, nd) = RE(f.nodes, h, nd, j, 0) \cup E(f.nodes, h - 1, b)
      /\ AllAdmitted(nd, j, E(f.nodes, h - 1, b))
  <2>1. PICK ns, k : ns = f.nodes /\ k = Key(e)
    OBVIOUS
  <2>2. ns \in Heap /\ Sound(ns, h, nd) /\ k \in Int /\ Admits(nd, j, 0, k)
    BY <1>2, <1>3, <1>4, <1>7, <2>1
  <2>3. NE(ns, h, nd) = RE(ns, h, nd, j, 0) \cup E(ns, h - 1, nd.kids[j])
    BY <1>2, <2>2, KeyBelongs
  <2>4. AllAdmitted(nd, j, E(ns, h - 1, nd.kids[j]))
    BY <1>2, <2>2, KeyBelongs
  <2> QED
    BY <1>1, <2>1, <2>3, <2>4
<1>9. InsertPre(f, h - 1, b, e)
  <2>1. Ok(f.nodes, h - 1, b)
    BY <1>1, <1>6 DEF Child
  <2>2. \A d \in E(f.nodes, h - 1, b) : Key(d) # Key(e)
    BY <1>2, <1>4, <1>8
  <2> QED
    BY <1>2, <2>1, <2>2 DEF InsertPre
<1>10. InsertPost(f, h - 1, b, e, r)
  BY <1>1, <1>9 DEF InsertWorks
<1>11. Turned(f, h - 1, nd.kids[j], r, es) /\ N(r.f.nodes[r.at]) >= T - 1
  <2>1. Turned(f, h - 1, b, r, es) /\ N(r.f.nodes[r.at]) >= N(x)
    BY <1>1, <1>5, <1>10 DEF InsertPost
  <2>2. N(x) >= T - 1 /\ N(x) \in Int
    BY <1>6, DegreeAssumption DEF Child
  <2>3. N(r.f.nodes[r.at]) \in Int
    <3>1. PICK g : g = h - 1
      OBVIOUS
    <3>2. g \in Nat /\ Turned(f, g, b, r, es)
      BY <2>1, <3>1
    <3>3. N(r.f.nodes[r.at]) \in Nat
      BY <3>2, TurnedStores
    <3> QED
      BY <3>3
  <2> QED
    BY <1>1, <2>1, <2>2, <2>3, DegreeAssumption
<1>12. AllAdmitted(nd, j, es)
  BY <1>1, <1>2, <1>8 DEF AllAdmitted
<1>13. w = Relink(r, nd, at, j)
  BY <1>1
<1>14. Relinked(f, h, at, nd, w, fs)
  BY <1>1, <1>2, <1>11, <1>12, <1>13, KidRelinked
<1>15. Turned(f, h, at, w, fs) /\ N(w.f.nodes[w.at]) = N(nd)
  BY <1>14 DEF Relinked, Keeps
<1>16. fs = E(f.nodes, h, at) \cup {e}
  BY <1>1, <1>4, <1>8
<1>17. N(w.f.nodes[w.at]) >= N(f.nodes[at])
  <2>1. N(nd) \in Nat
    BY <1>3, <1>4, SoundNode, EntriesOfNode
  <2>2. N(f.nodes[at]) = N(nd)
    BY <1>2
  <2> QED
    BY <1>15, <2>1, <2>2
<1> QED
  BY <1>1, <1>15, <1>16, <1>17 DEF InsertPost

(* Where a key belongs in a node with a new entry between two children.    *)
LEMMA AdmitsSplit ==
  ASSUME NEW nd \in Node, Filled(nd), NEW i, i \in 1..(N(nd) + 1), NEW nd2,
         Grafted(nd, i, 0, nd2, 1), NEW k \in Int, Admits(nd, i, 0, k),
         Key(nd2.ents[i]) \in Int
  PROVE  /\ Key(nd2.ents[i]) < k => Admits(nd2, i + 1, 0, k)
         /\ k < Key(nd2.ents[i]) => Admits(nd2, i, 0, k)
<1>1. N(nd) \in Nat /\ i \in Nat
  BY EntriesOfNode
<1>2. /\ N(nd2) = N(nd) - 0 + 1
      /\ \A j \in 1..(i - 1) : nd2.ents[j] = nd.ents[j]
  BY DEF Grafted
<1>3. ASSUME NEW j \in 1..(i - 1) PROVE Key(nd2.ents[j]) < k
  BY <1>2 DEF Admits
<1>4. ASSUME NEW j \in (i + 1)..N(nd2) PROVE k < Key(nd2.ents[j])
  <2>1. PICK l : l = j - 1
    OBVIOUS
  <2>2. l \in (i + 0)..N(nd) /\ l - 0 + 1 = j
    BY <1>1, <1>2, <2>1
  <2>3. nd2.ents[l - 0 + 1] = nd.ents[l]
    BY <2>2 DEF Grafted
  <2>4. k < Key(nd.ents[l])
    BY <2>2 DEF Admits
  <2> QED
    BY <2>2, <2>3, <2>4
<1>5. ASSUME Key(nd2.ents[i]) < k PROVE Admits(nd2, i + 1, 0, k)
  <2>1. ASSUME NEW j \in 1..(i + 1 - 1) PROVE Key(nd2.ents[j]) < k
    <3>1. j = i \/ j \in 1..(i - 1)
      BY <1>1
    <3> QED
      BY <1>3, <1>5, <3>1
  <2>2. ASSUME NEW j \in (i + 1 + 0)..N(nd2) PROVE k < Key(nd2.ents[j])
    <3>1. j \in (i + 1)..N(nd2)
      BY <1>1, <1>2
    <3> QED
      BY <1>4, <3>1
  <2> QED
    BY <2>1, <2>2 DEF Admits
<1>6. ASSUME k < Key(nd2.ents[i]) PROVE Admits(nd2, i, 0, k)
  <2>1. ASSUME NEW j \in (i + 0)..N(nd2) PROVE k < Key(nd2.ents[j])
    <3>1. j = i \/ j \in (i + 1)..N(nd2)
      BY <1>1, <1>2
    <3> QED
      BY <1>4, <1>6, <3>1
  <2> QED
    BY <1>3, <2>1 DEF Admits
<1> QED
  BY <1>5, <1>6

\* The entries of node nd, with e.
InsertShifted(f, h, A, nd, e, w) ==
  /\ \A old, es : old = A \cup NB(f.nodes, h, nd) /\ es = NE(f.nodes, h, nd) \cup {e} =>
       Moved(f, old, h, w, es)
  /\ A \cap B(w.f.nodes, h, w.at) = {}
  /\ N(w.f.nodes[w.at]) >= N(nd) + 1

(* The descent after a full child has been split. *)
LEMMA InsertAfterSplitShifts ==
  ASSUME Unique, NEW h \in Nat \ {0}, NEW e \in Entry, NEW below, InsertWorks(below, h - 1, e),
         NEW f, Fresh(f), NEW nd, NEW i, Opening(f, h, nd, i, 0), NEW A, Holds(f, h, A, nd),
         NEW p, Shifted(f, h, A, nd, p), HasSplit(p, nd, i, p.f.nodes[p.at]),
         Admits(nd, i, 0, Key(e)), \A d \in NE(f.nodes, h, nd) : Key(d) # Key(e),
         NEW w, w = InsertAfterSplit(p, i, e, below)
  PROVE  InsertShifted(f, h, A, nd, e, w)
<1>1. PICK nd2, j, old, es, k :
        /\ nd2 = p.f.nodes[p.at]
        /\ j = IF Key(nd2.ents[i]) < Key(e) THEN i + 1 ELSE i
        /\ old = A \cup NB(f.nodes, h, nd)
        /\ es = NE(f.nodes, h, nd)
        /\ k = Key(e)
  OBVIOUS
<1>2. Sound(f.nodes, h, nd) /\ ~nd.leaf /\ i \in 1..(N(nd) + 1 - 0)
  BY DEF Opening
<1>3. f.nodes \in Heap /\ k \in Int
  BY <1>1, StoreFields, Order DEF Fresh
<1>4. nd \in Node /\ Filled(nd) /\ N(nd) \in Nat /\ i \in 1..(N(nd) + 1) /\ i \in Nat
  BY <1>2, <1>3, SoundNode, EntriesOfNode
<1>5. old \subseteq 1..Len(f.nodes)
  <2>1. NB(f.nodes, h, nd) \subseteq 1..Len(f.nodes)
    BY <1>2, <1>3, SoundNode
  <2> QED
    BY <1>1, <2>1 DEF Holds
<1>6. Moved(f, old, h, p, es) /\ A \cap B(p.f.nodes, h, p.at) = {}
  BY <1>1 DEF Shifted
<1>7. /\ Fresh(p.f) /\ p.f.nodes \in Heap
      /\ Ok(p.f.nodes, h, p.at) /\ E(p.f.nodes, h, p.at) = es
  BY <1>6, MovedStores DEF Moved
<1>8. Sound(p.f.nodes, h, nd2) /\ NE(p.f.nodes, h, nd2) = es
  BY <1>1, <1>7, BlockIsNode, TreeContents
<1>9. /\ Grafted(nd, i, 0, nd2, 1) /\ ~nd2.leaf
      /\ N(nd2) = N(nd) + 1
      /\ N(p.f.nodes[nd2.kids[i]]) = T - 1
      /\ N(p.f.nodes[nd2.kids[i + 1]]) = T - 1
  BY <1>1 DEF HasSplit, Grafted
<1>10. Key(nd2.ents[i]) \in Int /\ Key(nd2.ents[i]) # k
  <2>1. i \in 1..N(nd2)
    BY <1>4, <1>9
  <2>2. nd2.ents[i] \in Entry /\ nd2.ents[i] \in NE(p.f.nodes, h, nd2)
    BY <1>7, <1>8, <2>1, KeysOfNode, InNode
  <2> QED
    BY <1>1, <1>8, <2>2, Order
<1>11. Admits(nd2, j, 0, k) /\ j \in {i, i + 1}
  <2>1. /\ Key(nd2.ents[i]) < k => Admits(nd2, i + 1, 0, k)
        /\ k < Key(nd2.ents[i]) => Admits(nd2, i, 0, k)
    BY <1>1, <1>3, <1>4, <1>9, <1>10, AdmitsSplit
  <2> QED
    BY <1>1, <1>3, <1>10, <2>1
<1>12. InsertReady(p, h, nd2, j, e)
  <2>1. j \in 1..(N(nd2) + 1)
    BY <1>4, <1>9, <1>11
  <2>2. N(p.f.nodes[nd2.kids[j]]) <= 2 * T - 2
    <3>1. N(p.f.nodes[nd2.kids[j]]) = T - 1
      BY <1>9, <1>11
    <3> QED
      BY <3>1, DegreeAssumption
  <2>3. \A d \in E(p.f.nodes, h, p.at) : Key(d) # Key(e)
    BY <1>1, <1>7
  <2> QED
    BY <1>1, <1>7, <1>9, <1>11, <2>1, <2>2, <2>3 DEF InsertReady
<1>13. w = Relink(below[[f |-> p.f, at |-> nd2.kids[j], e |-> e]], nd2, p.at, j)
  BY <1>1 DEF InsertAfterSplit, ReadNode
<1>14. InsertPost(p.f, h, p.at, e, w)
  BY <1>12, <1>13, InsertDescends
<1>15. PICK fs : fs = es \cup {e}
  OBVIOUS
<1>16. Turned(p.f, h, p.at, w, fs) /\ N(w.f.nodes[w.at]) >= N(nd2)
  BY <1>1, <1>7, <1>14, <1>15 DEF InsertPost
<1>17. Moved(f, old, h, w, fs)
  BY <1>5, <1>6, <1>16, MovedThenTurned
<1>18. A \cap B(w.f.nodes, h, w.at) = {}
  <2>1. \A a \in 1..Len(f.nodes) :
          a \notin B(p.f.nodes, h, p.at) => a \notin B(w.f.nodes, h, w.at)
    BY <1>5, <1>6, <1>16, MovedThenTurned
  <2>2. A \subseteq 1..Len(f.nodes)
    BY DEF Holds
  <2> QED
    BY <1>6, <2>1, <2>2
<1>19. N(w.f.nodes[w.at]) >= N(nd) + 1
  BY <1>9, <1>16
<1> QED
  BY <1>1, <1>15, <1>17, <1>18, <1>19 DEF InsertShifted

-----------------------------------------------------------------------------
(* One call of insertNonFull(), if the calls below it work: on a leaf. *)
LEMMA InsertIntoLeaf ==
  ASSUME Unique, NEW h \in Nat \ {0}, NEW e \in Entry, NEW f, NEW at, InsertPre(f, h, at, e),
         NEW nd, nd = f.nodes[at], nd.leaf, NEW i, i = InsertPosition(nd, Key(e)),
         NEW w, w = Replace(f, Leaf(Seqs!InsertAt(nd.ents, i, e)), at)
  PROVE  InsertPost(f, h, at, e, w)
<1>1. /\ Fresh(f) /\ Ok(f.nodes, h, at)
      /\ N(nd) <= 2 * T - 2
      /\ \A d \in E(f.nodes, h, at) : Key(d) # Key(e)
  BY DEF InsertPre
<1>2. f.nodes \in Heap /\ Key(e) \in Int
  BY <1>1, StoreFields, Order DEF Fresh
<1>3. Sound(f.nodes, h, nd) /\ E(f.nodes, h, at) = NE(f.nodes, h, nd)
  BY <1>1, <1>2, BlockIsNode, TreeContents
<1>4. h = 1
  BY <1>3, Zenon DEF Sound
<1>5. /\ nd \in Node /\ Filled(nd) /\ N(nd) \in Nat
      /\ DOMAIN nd.ents = 1..N(nd)
  BY <1>2, <1>3, SoundNode, EntriesOfNode
<1>6. i \in 1..(N(nd) + 1) /\ Admits(nd, i, 0, Key(e))
  <2>1. \A j \in 1..N(nd) : Key(nd.ents[j]) # Key(e)
    BY <1>1, <1>3, <1>5, InNode
  <2> QED
    BY <1>2, <1>3, <2>1, InsertPlace
<1>7. PICK nd2 : nd2 = Leaf(Seqs!InsertAt(nd.ents, i, e))
  OBVIOUS
<1>8. /\ Sound(f.nodes, 1, nd2)
      /\ NE(f.nodes, 1, nd2) = NE(f.nodes, 1, nd) \cup {e}
      /\ NB(f.nodes, 1, nd2) = NB(f.nodes, 1, nd)
      /\ N(nd2) = N(nd) + 1
  <2>1. PICK ns : ns = f.nodes
    OBVIOUS
  <2>2. ns \in Heap /\ Sound(ns, 1, nd)
    BY <1>2, <1>3, <1>4, <2>1
  <2>3. \A j \in 1..(i - 1) : Key(nd.ents[j]) < Key(e)
    BY <1>6 DEF Admits
  <2>4. \A j \in i..N(nd) : Key(e) < Key(nd.ents[j])
    BY <1>5, <1>6 DEF Admits
  <2>5. i \in 1..(N(nd) + 1) /\ N(nd) <= 2 * T - 2
    BY <1>1, <1>6
  <2>6. Sound(ns, 1, nd2)
    BY <1>7, <2>2, <2>3, <2>4, <2>5, LeafInserted
  <2>7. NE(ns, 1, nd2) = NE(ns, 1, nd) \cup {e}
    BY <1>7, <2>2, <2>3, <2>4, <2>5, LeafInserted
  <2>8. NB(ns, 1, nd2) = NB(ns, 1, nd) /\ N(nd2) = N(nd) + 1
    BY <1>7, <2>2, <2>3, <2>4, <2>5, LeafInserted
  <2> QED
    BY <2>1, <2>6, <2>7, <2>8
<1>9. PICK es : es = NE(f.nodes, h, nd2)
  OBVIOUS
<1>10. Turned(f, h, at, w, es) /\ w.f.nodes[w.at] = nd2
  <2>1. Sound(f.nodes, h, nd2) /\ NB(f.nodes, h, nd2) = NB(f.nodes, h, f.nodes[at])
    BY <1>4, <1>8
  <2>2. w = Replace(f, nd2, at)
    BY <1>7
  <2> QED
    BY <1>1, <1>9, <2>1, <2>2, NodeReplaced
<1>11. es = E(f.nodes, h, at) \cup {e}
  <2>1. es = NE(f.nodes, 1, nd2) /\ E(f.nodes, h, at) = NE(f.nodes, 1, nd)
    BY <1>3, <1>4, <1>9
  <2> QED
    BY <1>8, <2>1
<1>12. N(w.f.nodes[w.at]) >= N(f.nodes[at])
  <2>1. PICK l : l = N(nd) /\ l \in Nat
    BY <1>5
  <2>2. N(w.f.nodes[w.at]) = l + 1 /\ N(f.nodes[at]) = l
    BY <1>8, <1>10, <2>1
  <2> QED
    BY <2>1, <2>2
<1> QED
  BY <1>10, <1>11, <1>12 DEF InsertPost

(* On a node with a full child where the entry belongs. *)
LEMMA InsertSplits ==
  ASSUME Unique, NEW h \in Nat \ {0}, NEW e \in Entry, NEW below, InsertWorks(below, h - 1, e),
         NEW f, NEW at, InsertPre(f, h, at, e), NEW nd, nd = f.nodes[at], ~nd.leaf,
         NEW i, i \in 1..(N(nd) + 1), Admits(nd, i, 0, Key(e)),
         N(f.nodes[nd.kids[i]]) = 2 * T - 1,
         NEW w, w = InsertAfterSplit(SplitChild(f, nd, at, i), i, e, below)
  PROVE  InsertPost(f, h, at, e, w)
<1>1. /\ Fresh(f) /\ Ok(f.nodes, h, at)
      /\ N(nd) <= 2 * T - 2
      /\ \A d \in E(f.nodes, h, at) : Key(d) # Key(e)
  BY DEF InsertPre
<1>2. f.nodes \in Heap /\ Len(f.nodes) \in Nat
  BY <1>1, StoreFields DEF Fresh
<1>3. /\ at \in 1..Len(f.nodes)
      /\ Sound(f.nodes, h, nd)
      /\ E(f.nodes, h, at) = NE(f.nodes, h, nd)
      /\ B(f.nodes, h, at) = {at} \cup NB(f.nodes, h, nd)
  BY <1>1, <1>2, BlockIsNode, TreeContents
<1>4. N(nd) \in Nat
  BY <1>2, <1>3, SoundNode, EntriesOfNode
<1>5. PICK A, p : A = {at} /\ p = SplitChild(f, nd, at, i)
  OBVIOUS
<1>6. Holds(f, h, A, nd)
  <2>1. at \notin NB(f.nodes, h, nd)
    BY <1>1, <1>2, RootApart
  <2> QED
    BY <1>3, <1>5, <2>1 DEF Holds
<1>7. Shifted(f, h, A, nd, p) /\ HasSplit(p, nd, i, p.f.nodes[p.at])
  <2>1. at \in Nat /\ A = IF at = NoBlock THEN {} ELSE {at}
    BY <1>2, <1>3, <1>5 DEF NoBlock
  <2>2. Shifted(f, h, A, nd, p)
    BY <1>1, <1>3, <1>5, <1>6, <2>1, SplitShifts
  <2>3. HasSplit(p, nd, i, p.f.nodes[p.at])
    BY <1>1, <1>3, <1>5, <1>6, <2>1, SplitShifts
  <2> QED
    BY <2>2, <2>3
<1>8. InsertShifted(f, h, A, nd, e, w)
  <2>1. Opening(f, h, nd, i, 0)
    BY <1>3, <1>4 DEF Opening
  <2>2. \A d \in NE(f.nodes, h, nd) : Key(d) # Key(e)
    BY <1>1, <1>3
  <2>3. w = InsertAfterSplit(p, i, e, below)
    BY <1>5
  <2> QED
    BY <1>1, <1>6, <1>7, <2>1, <2>2, <2>3, InsertAfterSplitShifts
<1>9. Turned(f, h, at, w, E(f.nodes, h, at) \cup {e})
  <2>1. Moved(f, B(f.nodes, h, at), h, w, E(f.nodes, h, at) \cup {e})
    BY <1>3, <1>5, <1>8 DEF InsertShifted
  <2>2. at \notin B(w.f.nodes, h, w.at)
    BY <1>5, <1>8 DEF InsertShifted
  <2> QED
    BY <2>1, <2>2 DEF Turned
<1>10. N(w.f.nodes[w.at]) >= N(f.nodes[at])
  <2>1. PICK n : n = N(w.f.nodes[w.at])
    OBVIOUS
  <2>2. n \in Nat
    BY <1>9, <2>1, TurnedStores
  <2>3. PICK l : l = N(nd) /\ l \in Nat /\ l = N(f.nodes[at])
    BY <1>4
  <2>4. n >= l + 1
    BY <1>8, <2>1, <2>3 DEF InsertShifted
  <2>5. n >= l
    BY <2>2, <2>3, <2>4
  <2> QED
    BY <2>1, <2>3, <2>5
<1> QED
  BY <1>9, <1>10 DEF InsertPost

(* On any node. *)
LEMMA InsertOneLevel ==
  ASSUME Unique, NEW h \in Nat \ {0}, NEW e \in Entry, NEW below, InsertWorks(below, h - 1, e),
         NEW f, NEW at, InsertPre(f, h, at, e),
         NEW w, w = InsertNode([f |-> f, at |-> at, e |-> e], below)
  PROVE  InsertPost(f, h, at, e, w)
<1>1. /\ Fresh(f) /\ Ok(f.nodes, h, at)
      /\ \A d \in E(f.nodes, h, at) : Key(d) # Key(e)
  BY DEF InsertPre
<1>2. f.nodes \in Heap /\ Key(e) \in Int
  BY <1>1, StoreFields, Order DEF Fresh
<1>3. PICK nd, i : nd = f.nodes[at] /\ i = InsertPosition(nd, Key(e))
  OBVIOUS
<1>4. Sound(f.nodes, h, nd) /\ E(f.nodes, h, at) = NE(f.nodes, h, nd)
  BY <1>1, <1>2, <1>3, BlockIsNode, TreeContents
<1>5. DOMAIN nd.ents = 1..N(nd) /\ N(nd) \in Nat
  BY <1>2, <1>4, SoundNode, EntriesOfNode
<1>6. i \in 1..(N(nd) + 1) /\ Admits(nd, i, 0, Key(e))
  <2>1. \A j \in 1..N(nd) : Key(nd.ents[j]) # Key(e)
    BY <1>1, <1>4, <1>5, InNode
  <2> QED
    BY <1>2, <1>3, <1>4, <2>1, InsertPlace
<1>7. CASE nd.leaf
  <2>1. w = Replace(f, Leaf(Seqs!InsertAt(nd.ents, i, e)), at)
    BY <1>3, <1>7 DEF InsertNode, ReadNode
  <2> QED
    BY <1>3, <1>7, <2>1, InsertIntoLeaf
<1>8. CASE ~nd.leaf /\ N(f.nodes[nd.kids[i]]) = 2 * T - 1
  <2>1. w = InsertAfterSplit(SplitChild(f, nd, at, i), i, e, below)
    BY <1>3, <1>8 DEF InsertNode, ReadNode
  <2> QED
    BY <1>3, <1>6, <1>8, <2>1, InsertSplits
<1>9. CASE ~nd.leaf /\ N(f.nodes[nd.kids[i]]) # 2 * T - 1
  <2>1. PICK p : p = [f |-> f, at |-> at]
    OBVIOUS
  <2>2. w = Relink(below[[f |-> p.f, at |-> nd.kids[i], e |-> e]], nd, p.at, i)
    BY <1>3, <1>9, <2>1 DEF InsertNode, ReadNode
  <2>3. PICK x : x = f.nodes[nd.kids[i]]
    OBVIOUS
  <2>4. Child(f, h, nd, i, x)
    BY <1>1, <1>4, <1>6, <1>9, <2>3, ChildOfNode
  <2>5. N(x) <= 2 * T - 2
    BY <1>9, <2>3, <2>4, DegreeAssumption DEF Child
  <2>6. InsertReady(p, h, nd, i, e)
    BY <1>1, <1>3, <1>6, <1>9, <2>1, <2>3, <2>5 DEF InsertReady
  <2>7. InsertPost(p.f, h, p.at, e, w)
    BY <2>2, <2>6, InsertDescends
  <2> QED
    BY <2>1, <2>7
<1> QED
  BY <1>7, <1>8, <1>9

(* insertNonFull() inserts, however many more levels it might go down.     *)
LEMMA InsertLevels ==
  ASSUME Unique, NEW e \in Entry
  PROVE  \A h \in Nat : \A g \in Nat : g >= h => InsertWorks(InsertNonFull[g], h, e)
<1> DEFINE Good == {h \in Nat : \A g \in Nat : g >= h => InsertWorks(InsertNonFull[g], h, e)}
<1>1. 0 \in Good
  <2>1. ASSUME NEW f, NEW at PROVE ~InsertPre(f, 0, at, e)
    <3> SUFFICES ASSUME InsertPre(f, 0, at, e) PROVE FALSE
      OBVIOUS
    <3>1. f.nodes \in Heap /\ Ok(f.nodes, 0, at)
      BY StoreFields DEF InsertPre, Fresh
    <3> QED
      BY <3>1, TreeIsSound
  <2> QED
    BY <2>1 DEF InsertWorks
<1>2. ASSUME NEW m \in Nat, m \in Good PROVE m + 1 \in Good
  <2> SUFFICES ASSUME NEW g \in Nat, g >= m + 1, NEW f, NEW at, InsertPre(f, m + 1, at, e)
               PROVE  InsertPost(f, m + 1, at, e, InsertNonFull[g][[f |-> f, at |-> at, e |-> e]])
    BY DEF InsertWorks
  <2>1. PICK h, below, c, w :
          /\ h = m + 1
          /\ below = InsertNonFull[g - 1]
          /\ c = [f |-> f, at |-> at, e |-> e]
          /\ w = InsertNonFull[g][c]
    OBVIOUS
  <2>2. h \in Nat \ {0} /\ h - 1 = m /\ g \in Nat \ {0} /\ g - 1 \in Nat /\ g - 1 >= m
    BY <2>1
  <2>3. InsertWorks(below, h - 1, e)
    BY <1>2, <2>1, <2>2
  <2>4. c \in Writes
    <3>1. f \in Stores /\ f.nodes \in Heap /\ Len(f.nodes) \in Nat /\ at \in 1..Len(f.nodes)
      BY StoreFields DEF InsertPre, Fresh, Ok
    <3>2. at \in Nat
      BY <3>1
    <3> QED
      BY <2>1, <3>1, <3>2 DEF Writes
  <2>5. w = InsertNode(c, below)
    BY <2>1, <2>2, <2>4, InsertUnfolds
  <2>6. InsertPre(f, h, at, e)
    BY <2>1
  <2>7. InsertPost(f, h, at, e, w)
    BY <2>1, <2>2, <2>3, <2>5, <2>6, InsertOneLevel
  <2> QED
    BY <2>1, <2>7
<1> HIDE DEF Good
<1>3. \A h \in Nat : h \in Good
  BY <1>1, <1>2, NumberInduction
<1> QED
  BY <1>3 DEF Good

-----------------------------------------------------------------------------
\* In a file there is a tree of h levels at a block that may be a root; the empty
\* tree, of no levels, has no block.
Planted(ns, h, b) ==
  \/ b = NoBlock /\ h = 0
  \/ Ok(ns, h, b) /\ N(ns[b]) >= 1 /\ h \in 1..Len(ns)

\* Result r of an operation on the tree of h levels at block "at": a tree of g
\* levels that holds these entries, of the blocks that the old ones turned into.
Replanted(f, h, at, r, g, entries) ==
  /\ Turns(f, B(f.nodes, h, at), r.f, B(r.f.nodes, g, r.at))
  /\ Planted(r.f.nodes, g, r.at)
  /\ E(r.f.nodes, g, r.at) = entries

(* There is nothing in the empty tree, however far down one looks. *)
LEMMA EmptyTree ==
  ASSUME NEW ns \in Heap, NEW h \in Nat
  PROVE  E(ns, h, NoBlock) = {} /\ B(ns, h, NoBlock) = {}
<1>1. NoBlock \in 0..Len(ns)
  BY DEF NoBlock, Heap
<1>2. CASE h = 0
  BY <1>1, <1>2, EntriesUnfold, BlocksUnfold DEF E, B
<1>3. CASE h # 0
  <2>1. PICK g : g \in Nat /\ h = g + 1
    <3>1. h - 1 \in Nat /\ h = (h - 1) + 1
      BY <1>3
    <3> QED
      BY <3>1
  <2>2. Kids(ns, NoBlock) = {}
    BY DEF Kids
  <2>3. EntriesIn(ns)[h] = EntriesOver(ns, EntriesIn(ns)[g])
    BY <2>1, EntriesUnfold
  <2>4. BlocksIn(ns)[h] = BlocksOver(ns, BlocksIn(ns)[g])
    BY <2>1, BlocksUnfold
  <2>5. E(ns, h, NoBlock) = {} \cup UNION {EntriesIn(ns)[g][c] : c \in {}}
    BY <1>1, <2>2, <2>3 DEF E, EntriesOver
  <2>6. B(ns, h, NoBlock) = ({NoBlock} \ {NoBlock}) \cup UNION {BlocksIn(ns)[g][c] : c \in {}}
    BY <1>1, <2>2, <2>4 DEF B, BlocksOver
  <2> QED
    BY <2>5, <2>6
<1> QED
  BY <1>2, <1>3

(* A tree of more levels than the ones there were takes a new block.       *)
LEMMA TallerIsLonger ==
  ASSUME NEW f, NEW h \in Nat, NEW at, Ok(f.nodes, h, at), NEW r, NEW entries,
         Moved(f, B(f.nodes, h, at), h + 1, r, entries)
  PROVE  Len(f.nodes) + 1 <= Len(r.f.nodes)
<1>1. /\ f.nodes \in Heap /\ r.f.nodes \in Heap
      /\ Len(f.nodes) \in Nat /\ Len(r.f.nodes) \in Nat /\ Len(f.nodes) <= Len(r.f.nodes)
      /\ Extends(f.nodes, r.f.nodes)
      /\ B(r.f.nodes, h + 1, r.at) \subseteq B(f.nodes, h, at) \cup New(f, r.f)
  BY MovedStores
<1> SUFFICES ASSUME Len(f.nodes) = Len(r.f.nodes) PROVE FALSE
  BY <1>1
<1>2. Ok(r.f.nodes, h + 1, r.at)
  BY DEF Moved
<1>3. r.at \in B(r.f.nodes, h + 1, r.at)
  BY <1>1, <1>2, TreeContents
<1>4. New(f, r.f) = {}
  BY <1>1 DEF New
<1>5. r.at \in B(f.nodes, h, at)
  BY <1>1, <1>3, <1>4
<1>6. PICK g \in Nat : g <= h /\ Ok(f.nodes, g, r.at)
  <2>1. CASE r.at = at
    BY <2>1
  <2>2. CASE r.at # at
    <3>1. \E g \in Nat : g < h /\ Ok(f.nodes, g, r.at)
      BY <1>1, <1>5, <2>2, BlocksAreTrees
    <3> QED
      BY <3>1
  <2> QED
    BY <2>1, <2>2
<1>7. Ok(r.f.nodes, g, r.at)
  BY <1>1, <1>6, TreeFrame DEF SameTree
<1>8. g = h + 1
  BY <1>1, <1>2, <1>7, OneHeight
<1> QED
  BY <1>6, <1>8

(* A new root over a tree, before it is split. *)
LEMMA NewRoot ==
  ASSUME NEW ns \in Heap, NEW h \in Nat, NEW at, Ok(ns, h, at), N(ns[at]) = 2 * T - 1,
         NEW nd, nd = Inner(<<>>, <<at>>)
  PROVE  /\ Sound(ns, h + 1, nd)
         /\ ~nd.leaf
         /\ N(nd) = 0
         /\ nd.kids[1] = at
         /\ NE(ns, h + 1, nd) = E(ns, h, at)
         /\ NB(ns, h + 1, nd) = B(ns, h, at)
<1>1. h \in Nat \ {0} /\ at \in 1..Len(ns) /\ Len(ns) \in Nat /\ at \in Nat
  BY BlockIsNode DEF Heap
<1>2. <<at>> \in Seq(Nat) /\ <<>> \in Seq(Entry) /\ Len(<<at>>) = 1 /\ Len(<<>>) = 0
  BY <1>1
<1>3. /\ nd \in Node /\ ~nd.leaf /\ nd.ents = <<>> /\ nd.kids = <<at>>
      /\ N(nd) = 0 /\ Filled(nd)
  <2>1. PICK es, ks : es = <<>> /\ ks = <<at>>
    OBVIOUS
  <2>2. es \in Seq(Entry) /\ ks \in Seq(Nat) /\ Len(es) = 0 /\ Len(ks) = 1
    BY <1>2, <2>1
  <2>3. /\ Inner(es, ks) \in Node /\ ~Inner(es, ks).leaf
        /\ Inner(es, ks).ents = es /\ Inner(es, ks).kids = ks
        /\ N(Inner(es, ks)) = Len(es)
    BY <2>2, InnerNode
  <2>4. Filled(Inner(es, ks))
    <3>1. Filled(Inner(es, ks)) <=> Len(ks) = Len(es) + 1
      BY <2>2, InnerNode
    <3> QED
      BY <2>2, <3>1
  <2>5. nd = Inner(es, ks)
    BY <2>1
  <2> QED
    BY <2>1, <2>2, <2>3, <2>4, <2>5
<1>4. DOMAIN nd.kids = {1} /\ nd.kids[1] = at /\ DOMAIN nd.ents = {}
  BY <1>3
<1>5. (h + 1) - 1 = h /\ h + 1 # 1
  BY <1>1
<1>6. Below(ns, h + 1, nd, 1)
  <2>1. N(ns[nd.kids[1]]) >= T - 1
    BY <1>4, DegreeAssumption
  <2>2. Between(nd, 1, E(ns, h, at))
    BY <1>3 DEF Between
  <2> QED
    BY <1>4, <1>5, <2>1, <2>2 DEF Below
<1>7. nd.leaf = (h + 1 = 1)
  <2>1. nd.leaf \in BOOLEAN
    BY <1>3 DEF Node
  <2> QED
    BY <1>3, <1>5, <2>1, Zenon
<1>8. Ascending(nd.ents)
  BY <1>4 DEF Ascending
<1>9. N(nd) <= 2 * T - 1
  BY <1>3, DegreeAssumption
<1>10. \A i \in DOMAIN nd.kids : Below(ns, h + 1, nd, i)
  BY <1>4, <1>6
<1>11. Sound(ns, h + 1, nd)
  BY <1>3, <1>7, <1>8, <1>9, <1>10 DEF Sound
<1>12. NE(ns, h + 1, nd) = E(ns, h, at)
  <2>1. \A e : e \in NE(ns, h + 1, nd) <=> e \in E(ns, h, at)
    BY <1>4, <1>5, InNode
  <2> QED
    BY <2>1
<1>13. NB(ns, h + 1, nd) = B(ns, h, at)
  <2>1. \A b : b \in NB(ns, h + 1, nd) <=> b \in B(ns, h, at)
    BY <1>4, <1>5, InNode
  <2> QED
    BY <2>1
<1> QED
  BY <1>3, <1>4, <1>11, <1>12, <1>13

(* The first entry is a leaf of its own. *)
LEMMA FirstEntry ==
  ASSUME NEW f, Fresh(f), NEW e \in Entry, NEW w, w = WriteNode(f, Leaf(<<e>>))
  PROVE  Replanted(f, 0, NoBlock, w, 1, {e})
<1>1. f.nodes \in Heap /\ Len(f.nodes) \in Nat
  BY StoreFields DEF Fresh
<1>2. PICK nd : nd = Leaf(<<e>>)
  OBVIOUS
<1>3. /\ nd \in Node /\ nd.leaf /\ nd.ents = <<e>> /\ nd.kids = <<>>
      /\ DOMAIN nd.kids = {} /\ N(nd) = 1 /\ Filled(nd)
  <2>1. <<e>> \in Seq(Entry) /\ Len(<<e>>) = 1
    OBVIOUS
  <2> QED
    BY <1>2, <2>1, LeafNode
<1>4. DOMAIN nd.ents = {1} /\ nd.ents[1] = e
  BY <1>3
<1>5. Sound(f.nodes, 1, nd)
  <2>1. nd.leaf = (1 = 1)
    <3>1. nd.leaf \in BOOLEAN
      BY <1>3 DEF Node
    <3> QED
      BY <1>3, <3>1, Zenon
  <2>2. Ascending(nd.ents)
    BY <1>4 DEF Ascending
  <2>3. N(nd) <= 2 * T - 1
    BY <1>3, DegreeAssumption
  <2> QED
    BY <1>3, <2>1, <2>2, <2>3 DEF Sound
<1>6. NE(f.nodes, 1, nd) = {e} /\ NB(f.nodes, 1, nd) = {}
  <2>1. \A d : d \in NE(f.nodes, 1, nd) <=> d = e
    BY <1>3, <1>4, InNode
  <2>2. \A d : ~(d \in NB(f.nodes, 1, nd))
    BY <1>3, InNode
  <2> QED
    BY <2>1, <2>2
<1>7. PICK r : r = WriteNode(f, nd)
  OBVIOUS
<1>8. /\ r.at = Len(f.nodes) + 1
      /\ Len(r.f.nodes) = Len(f.nodes) + 1
      /\ r.f.nodes[r.at] = nd
      /\ Ok(r.f.nodes, 1, r.at)
      /\ E(r.f.nodes, 1, r.at) = NE(f.nodes, 1, nd)
      /\ B(r.f.nodes, 1, r.at) = {r.at} \cup NB(f.nodes, 1, nd)
      /\ \A a, b : b = a \cup {r.at} => Turns(f, a, r.f, b)
  <2>1. PICK h : h = 1
    OBVIOUS
  <2>2. h \in Nat \ {0} /\ Sound(f.nodes, h, nd)
    BY <1>5, <2>1
  <2>3. r.at = Len(f.nodes) + 1 /\ Len(r.f.nodes) = Len(f.nodes) + 1 /\ r.f.nodes[r.at] = nd
    BY <1>7, <2>2, WriteSound
  <2>4. Ok(r.f.nodes, h, r.at)
    BY <1>7, <2>2, WriteSound
  <2>5. E(r.f.nodes, h, r.at) = NE(f.nodes, h, nd)
    BY <1>7, <2>2, WriteSound
  <2>6. B(r.f.nodes, h, r.at) = {r.at} \cup NB(f.nodes, h, nd)
    BY <1>7, <2>2, WriteSound
  <2>7. \A a, b : b = a \cup {r.at} => Turns(f, a, r.f, b)
    BY <1>7, <2>2, WriteSound
  <2> QED
    BY <2>1, <2>3, <2>4, <2>5, <2>7, <2>6
<1>9. Planted(r.f.nodes, 1, r.at)
  BY <1>1, <1>3, <1>8 DEF Planted
<1>10. B(f.nodes, 0, NoBlock) = {}
  BY <1>1, EmptyTree
<1>11. Turns(f, B(f.nodes, 0, NoBlock), r.f, B(r.f.nodes, 1, r.at))
  BY <1>6, <1>8, <1>10
<1> QED
  BY <1>2, <1>6, <1>7, <1>8, <1>9, <1>11 DEF Replanted

(* An entry is inserted below a root that is full. *)
LEMMA RootSplits ==
  ASSUME Unique, NEW f, Fresh(f), NEW h \in Nat, NEW at, Ok(f.nodes, h, at), h <= Len(f.nodes),
         NEW e \in Entry, \A d \in E(f.nodes, h, at) : Key(d) # Key(e),
         N(f.nodes[at]) = 2 * T - 1, NEW w, w = InsertRec(f, at, e)
  PROVE  Replanted(f, h, at, w, h + 1, E(f.nodes, h, at) \cup {e})
<1>1. f.nodes \in Heap /\ Len(f.nodes) \in Nat /\ f.count = Len(f.nodes) + 1
  BY StoreFields DEF Fresh
<1>2. PICK nd, A, p, g, below, old, es :
        /\ nd = Inner(<<>>, <<at>>)
        /\ A = {}
        /\ p = SplitChild(f, nd, NoBlock, 1)
        /\ g = h + 1
        /\ below = InsertNonFull[f.count]
        /\ old = B(f.nodes, h, at)
        /\ es = E(f.nodes, h, at)
  OBVIOUS
<1>3. g \in Nat \ {0} /\ g - 1 = h
  BY <1>2
<1>4. Sound(f.nodes, g, nd) /\ ~nd.leaf /\ N(nd) = 0 /\ nd.kids[1] = at
  BY <1>1, <1>2, NewRoot
<1>5. NE(f.nodes, g, nd) = es /\ NB(f.nodes, g, nd) = old
  BY <1>1, <1>2, NewRoot
<1>6. Holds(f, g, A, nd)
  BY <1>2 DEF Holds
<1>7. Shifted(f, g, A, nd, p) /\ HasSplit(p, nd, 1, p.f.nodes[p.at])
  <2>1. /\ 1 \in 1..(N(nd) + 1) /\ N(nd) <= 2 * T - 2
        /\ N(f.nodes[nd.kids[1]]) = 2 * T - 1
    BY <1>4, DegreeAssumption
  <2>2. NoBlock \in Nat /\ A = IF NoBlock = NoBlock THEN {} ELSE {NoBlock}
    BY <1>2 DEF NoBlock
  <2>3. Shifted(f, g, A, nd, p)
    BY <1>2, <1>3, <1>4, <1>6, <2>1, <2>2, SplitShifts
  <2>4. HasSplit(p, nd, 1, p.f.nodes[p.at])
    BY <1>2, <1>3, <1>4, <1>6, <2>1, <2>2, SplitShifts
  <2> QED
    BY <2>3, <2>4
<1>8. InsertShifted(f, g, A, nd, e, w)
  <2>1. InsertWorks(below, g - 1, e)
    <3>1. f.count \in Nat /\ f.count >= h
      BY <1>1
    <3>2. InsertWorks(InsertNonFull[f.count], h, e)
      BY <3>1, InsertLevels
    <3> QED
      BY <1>2, <1>3, <3>2
  <2>2. Opening(f, g, nd, 1, 0)
    BY <1>4 DEF Opening
  <2>3. Admits(nd, 1, 0, Key(e))
    BY <1>4 DEF Admits
  <2>4. \A d \in NE(f.nodes, g, nd) : Key(d) # Key(e)
    BY <1>2, <1>5
  <2>5. w = InsertAfterSplit(p, 1, e, below)
    BY <1>2 DEF InsertRec, ReadNode
  <2> QED
    BY <1>3, <1>6, <1>7, <2>1, <2>2, <2>3, <2>4, <2>5, InsertAfterSplitShifts
<1>9. Moved(f, old, g, w, es \cup {e})
  <2>1. old = A \cup NB(f.nodes, g, nd)
    BY <1>2, <1>5
  <2> QED
    BY <1>5, <1>8, <2>1 DEF InsertShifted
<1>10. Planted(w.f.nodes, g, w.at)
  <2>1. Ok(w.f.nodes, g, w.at)
    BY <1>9 DEF Moved
  <2>2. N(w.f.nodes[w.at]) >= 1
    <3>1. N(w.f.nodes[w.at]) >= 0 + 1
      BY <1>4, <1>8 DEF InsertShifted
    <3> QED
      BY <3>1
  <2>3. Len(f.nodes) + 1 <= Len(w.f.nodes) /\ Len(w.f.nodes) \in Nat
    <3>1. Moved(f, B(f.nodes, h, at), h + 1, w, es \cup {e})
      BY <1>2, <1>9
    <3>2. Len(f.nodes) + 1 <= Len(w.f.nodes)
      BY <3>1, TallerIsLonger
    <3>3. Len(w.f.nodes) \in Nat
      BY <1>9, MovedStores
    <3> QED
      BY <3>2, <3>3
  <2>4. g \in 1..Len(w.f.nodes)
    BY <1>1, <1>2, <2>3
  <2> QED
    BY <2>1, <2>2, <2>4 DEF Planted
<1> QED
  BY <1>2, <1>9, <1>10 DEF Replanted, Moved

(* An entry with a new key is inserted in any tree. *)
LEMMA TreeInserted ==
  ASSUME Unique, NEW f, Fresh(f), NEW h \in Nat, NEW at, Planted(f.nodes, h, at),
         NEW e \in Entry, \A d \in E(f.nodes, h, at) : Key(d) # Key(e),
         NEW w, w = TreeInsert(f, at, e)
  PROVE  \E g \in Nat : Replanted(f, h, at, w, g, E(f.nodes, h, at) \cup {e})
<1>1. f.nodes \in Heap /\ Len(f.nodes) \in Nat /\ f.count = Len(f.nodes) + 1
  BY StoreFields DEF Fresh
<1>2. CASE at = NoBlock /\ h = 0
  <2>1. E(f.nodes, h, at) = {}
    BY <1>1, <1>2, EmptyTree
  <2>2. w = WriteNode(f, Leaf(<<e>>))
    BY <1>2 DEF TreeInsert
  <2>3. Replanted(f, 0, NoBlock, w, 1, {e})
    BY <2>2, FirstEntry
  <2>4. {e} = E(f.nodes, h, at) \cup {e}
    BY <2>1
  <2> QED
    BY <1>2, <2>3, <2>4
<1>3. CASE Ok(f.nodes, h, at) /\ N(f.nodes[at]) >= 1 /\ h \in 1..Len(f.nodes)
  <2>1. at # NoBlock
    BY <1>3 DEF Ok, NoBlock
  <2>2. w = InsertRec(f, at, e)
    BY <2>1 DEF TreeInsert
  <2>3. CASE N(f.nodes[at]) = 2 * T - 1
    <3>1. h <= Len(f.nodes)
      BY <1>3
    <3>2. Replanted(f, h, at, w, h + 1, E(f.nodes, h, at) \cup {e})
      BY <1>3, <2>2, <2>3, <3>1, RootSplits
    <3> QED
      BY <3>2
  <2>4. CASE N(f.nodes[at]) # 2 * T - 1
    <3>1. w = InsertNonFull[f.count][[f |-> f, at |-> at, e |-> e]]
      BY <2>2, <2>4 DEF InsertRec, ReadNode
    <3>2. N(f.nodes[at]) <= 2 * T - 2
      <4>1. Sound(f.nodes, h, f.nodes[at])
        BY <1>1, <1>3, BlockIsNode
      <4>2. N(f.nodes[at]) \in Nat /\ N(f.nodes[at]) <= 2 * T - 1
        BY <1>1, <1>3, <4>1, SoundNode, EntriesOfNode DEF Sound
      <4> QED
        BY <2>4, <4>2, DegreeAssumption
    <3>3. InsertPre(f, h, at, e)
      BY <1>3, <3>2 DEF InsertPre
    <3>4. InsertWorks(InsertNonFull[f.count], h, e)
      <4>1. f.count \in Nat /\ f.count >= h
        BY <1>1, <1>3
      <4> QED
        BY <4>1, InsertLevels
    <3>5. PICK es : es = E(f.nodes, h, at) \cup {e}
      OBVIOUS
    <3>6. Turned(f, h, at, w, es) /\ N(w.f.nodes[w.at]) >= N(f.nodes[at])
      BY <3>1, <3>3, <3>4, <3>5 DEF InsertWorks, InsertPost
    <3>7. Moved(f, B(f.nodes, h, at), h, w, es)
      BY <3>6 DEF Turned
    <3>8. /\ Len(f.nodes) <= Len(w.f.nodes)
          /\ Len(w.f.nodes) \in Nat
      BY <3>7, MovedStores
    <3>9. Planted(w.f.nodes, h, w.at)
      <4>1. h \in 1..Len(w.f.nodes)
        BY <1>1, <1>3, <3>8
      <4>2. N(w.f.nodes[w.at]) >= 1
        <5>1. N(f.nodes[at]) \in Nat /\ N(w.f.nodes[w.at]) \in Nat
          <6>1. N(w.f.nodes[w.at]) \in Nat
            BY <3>6, TurnedStores
          <6>2. Sound(f.nodes, h, f.nodes[at])
            BY <1>1, <1>3, BlockIsNode
          <6>3. N(f.nodes[at]) \in Nat
            BY <1>1, <1>3, <6>2, SoundNode, EntriesOfNode
          <6> QED
            BY <6>1, <6>3
        <5> QED
          BY <1>3, <3>6, <5>1
      <4> QED
        BY <3>7, <4>1, <4>2 DEF Planted, Moved
    <3>10. Replanted(f, h, at, w, h, es)
      BY <3>7, <3>9 DEF Replanted, Moved
    <3> QED
      BY <3>5, <3>10
  <2> QED
    BY <2>3, <2>4
<1> QED
  BY <1>2, <1>3 DEF Planted

-----------------------------------------------------------------------------
(***************************************************************************)
(* updateRec() and update().                                               *)
(***************************************************************************)

\* An operation that looks for key k has come to node nd at block "at", and to
\* position i of it.
Standing(f, h, at, k, nd, i) ==
  /\ Fresh(f)
  /\ Ok(f.nodes, h, at)
  /\ f.nodes \in Heap
  /\ at \in 1..Len(f.nodes) /\ at \in Nat /\ at # NoBlock
  /\ nd = f.nodes[at]
  /\ Sound(f.nodes, h, nd)
  /\ nd \in Node /\ Filled(nd) /\ N(nd) \in Nat
  /\ E(f.nodes, h, at) = NE(f.nodes, h, nd)
  /\ B(f.nodes, h, at) = {at} \cup NB(f.nodes, h, nd)
  /\ at \notin NB(f.nodes, h, nd)
  /\ i = FindKey(nd, k)
  /\ PlaceOf(nd, k, i)

(* What there is where an operation has come to. *)
LEMMA Stands ==
  ASSUME Unique, NEW f, Fresh(f), NEW h \in Nat \ {0}, NEW at, Ok(f.nodes, h, at), NEW k \in Int,
         NEW nd, nd = f.nodes[at], NEW i, i = FindKey(nd, k)
  PROVE  Standing(f, h, at, k, nd, i)
<1>1. f.nodes \in Heap /\ Len(f.nodes) \in Nat
  BY StoreFields DEF Fresh
<1>2. /\ at \in 1..Len(f.nodes)
      /\ Sound(f.nodes, h, nd)
      /\ E(f.nodes, h, at) = NE(f.nodes, h, nd)
      /\ B(f.nodes, h, at) = {at} \cup NB(f.nodes, h, nd)
  BY <1>1, BlockIsNode, TreeContents
<1>3. at \in Nat /\ at # NoBlock
  BY <1>1, <1>2 DEF NoBlock
<1>4. nd \in Node /\ Filled(nd) /\ N(nd) \in Nat
  BY <1>1, <1>2, SoundNode, EntriesOfNode
<1>5. at \notin NB(f.nodes, h, nd)
  BY <1>1, RootApart
<1>6. PlaceOf(nd, k, i)
  BY <1>1, <1>2, KeyPlace
<1> QED
  BY <1>1, <1>2, <1>3, <1>4, <1>5, <1>6 DEF Standing

(* A key that is not at its place in a leaf is not in it. *)
LEMMA AbsentFromLeaf ==
  ASSUME Unique, NEW f, NEW h \in Nat \ {0}, NEW at, NEW k \in Int, NEW nd, NEW i,
         Standing(f, h, at, k, nd, i), nd.leaf, ~HasKeyAt(nd, i, k)
  PROVE  \A d \in E(f.nodes, h, at) : Key(d) # k
<1>1. /\ f.nodes \in Heap /\ Sound(f.nodes, h, nd) /\ N(nd) \in Nat
      /\ E(f.nodes, h, at) = NE(f.nodes, h, nd)
      /\ i \in 1..(N(nd) + 1) /\ Admits(nd, i, 0, k)
  BY DEF Standing, PlaceOf
<1>2. /\ DOMAIN nd.ents = 1..N(nd)
      /\ DOMAIN nd.kids = {}
      /\ \A j \in 1..N(nd) : Key(nd.ents[j]) \in Int
  BY <1>1, KeysOfNode
<1>3. ASSUME NEW j \in 1..N(nd) PROVE Key(nd.ents[j]) # k
  <2>1. j \in 1..(i - 1) \/ j \in (i + 0)..N(nd)
    BY <1>1
  <2>2. Key(nd.ents[j]) < k \/ k < Key(nd.ents[j])
    BY <1>1, <2>1 DEF Admits
  <2> QED
    BY <1>2, <2>2
<1>4. ASSUME NEW d \in NE(f.nodes, h, nd) PROVE Key(d) # k
  <2>1. \/ \E j \in DOMAIN nd.kids : d \in E(f.nodes, h - 1, nd.kids[j])
        \/ \E j \in DOMAIN nd.ents : d = nd.ents[j]
    BY InNode
  <2>2. \E j \in DOMAIN nd.ents : d = nd.ents[j]
    BY <1>2, <2>1
  <2> QED
    BY <1>2, <1>3, <2>2
<1> QED
  BY <1>1, <1>4

(* Nothing is written. *)
LEMMA Unchanged ==
  ASSUME NEW f, Fresh(f), NEW h \in Nat, NEW at, Ok(f.nodes, h, at),
         NEW w, w = [f |-> f, at |-> at], NEW es, es = E(f.nodes, h, at)
  PROVE  Turned(f, h, at, w, es)
<1>1. w.f = f /\ w.at = at
  OBVIOUS
<1>2. Turns(f, B(f.nodes, h, at), f, B(f.nodes, h, at))
  BY TurnsRefl
<1> QED
  BY <1>1, <1>2 DEF Turned, Moved

-----------------------------------------------------------------------------
\* With e in place of the entry of its key, if there is one.
Overwritten(entries, e) ==
  IF \E d \in entries : Key(d) = Key(e) THEN Without(entries, Key(e)) \cup {e} ELSE entries

\* What an update, and a removal, leave of a tree at block "at".
UpdatePost(f, h, at, e, r) ==
  /\ Turned(f, h, at, r, Overwritten(E(f.nodes, h, at), e))
  /\ N(r.f.nodes[r.at]) = N(f.nodes[at])

UpdateWorks(below, h, e) ==
  \A f, at : Fresh(f) /\ Ok(f.nodes, h, at) =>
    UpdatePost(f, h, at, e, below[[f |-> f, at |-> at, e |-> e]])

(* One call of updateRecursive() on a node with the key, if the calls below work. *)
LEMMA UpdateHere ==
  ASSUME Unique, NEW h \in Nat \ {0}, NEW e \in Entry, NEW f, NEW at, NEW nd, NEW i,
         Standing(f, h, at, Key(e), nd, i), HasKeyAt(nd, i, Key(e)),
         NEW w, w = Replace(f, WithEntry(nd, i, e), at)
  PROVE  UpdatePost(f, h, at, e, w)
<1>1. /\ Fresh(f) /\ Ok(f.nodes, h, at) /\ nd = f.nodes[at]
      /\ f.nodes \in Heap /\ Sound(f.nodes, h, nd)
      /\ E(f.nodes, h, at) = NE(f.nodes, h, nd)
      /\ i \in 1..N(nd) /\ Key(nd.ents[i]) = Key(e)
  BY DEF Standing, PlaceOf
<1>2. PICK nd2, es, ns : nd2 = WithEntry(nd, i, e) /\ es = NE(f.nodes, h, nd2) /\ ns = f.nodes
  OBVIOUS
<1>3. ns \in Heap /\ Sound(ns, h, nd)
  BY <1>1, <1>2
<1>4. Sound(ns, h, nd2) /\ NB(ns, h, nd2) = NB(ns, h, nd)
  BY <1>1, <1>2, <1>3, EntryUpdated
<1>5. NE(ns, h, nd2) = Without(NE(ns, h, nd), Key(e)) \cup {e}
  BY <1>1, <1>2, <1>3, EntryUpdated
<1>6. N(nd2) = N(nd)
  BY <1>1, <1>2, <1>3, EntryUpdated
<1>7. Turned(f, h, at, w, es) /\ w.f.nodes[w.at] = nd2
  BY <1>1, <1>2, <1>4, NodeReplaced
<1>8. es = Overwritten(E(f.nodes, h, at), e)
  <2>1. nd.ents[i] \in NE(f.nodes, h, nd)
    <3>1. DOMAIN nd.ents = 1..N(nd)
      BY <1>1, SoundNode, EntriesOfNode
    <3> QED
      BY <1>1, <3>1, InNode
  <2> QED
    BY <1>1, <1>2, <1>5, <2>1 DEF Overwritten
<1> QED
  BY <1>1, <1>6, <1>7, <1>8 DEF UpdatePost

(* On an inner node without it. *)
LEMMA UpdateBelow ==
  ASSUME Unique, NEW h \in Nat \ {0}, NEW e \in Entry, NEW below, UpdateWorks(below, h - 1, e),
         NEW f, NEW at, NEW nd, NEW i,
         Standing(f, h, at, Key(e), nd, i), ~HasKeyAt(nd, i, Key(e)), ~nd.leaf,
         NEW w, w = Relink(below[[f |-> f, at |-> nd.kids[i], e |-> e]], nd, at, i)
  PROVE  UpdatePost(f, h, at, e, w)
<1>1. /\ Fresh(f) /\ Ok(f.nodes, h, at) /\ nd = f.nodes[at]
      /\ f.nodes \in Heap /\ Sound(f.nodes, h, nd)
      /\ E(f.nodes, h, at) = NE(f.nodes, h, nd)
      /\ i \in 1..(N(nd) + 1) /\ Admits(nd, i, 0, Key(e))
  BY DEF Standing, PlaceOf
<1>2. PICK b, x, r, k, old, es, rest, fs, ns :
        /\ b = nd.kids[i] /\ x = f.nodes[b] /\ k = Key(e) /\ ns = f.nodes
        /\ r = below[[f |-> f, at |-> b, e |-> e]]
        /\ old = E(f.nodes, h - 1, b)
        /\ es = Overwritten(old, e)
        /\ rest = RE(f.nodes, h, nd, i, 0)
        /\ fs = rest \cup es
  OBVIOUS
<1>3. Child(f, h, nd, i, x)
  BY <1>1, <1>2, ChildOfNode
<1>4. k \in Int
  BY <1>2, Order
<1>5. /\ \A d \in rest : Key(d) # k
      /\ NE(ns, h, nd) = rest \cup old
      /\ AllAdmitted(nd, i, old)
  <2>1. ns \in Heap /\ Sound(ns, h, nd) /\ Admits(nd, i, 0, k)
    BY <1>1, <1>2
  <2>2. \A d \in RE(ns, h, nd, i, 0) : Key(d) # k
    BY <1>1, <1>4, <2>1, KeyBelongs
  <2>3. NE(ns, h, nd) = RE(ns, h, nd, i, 0) \cup E(ns, h - 1, nd.kids[i])
    BY <1>1, <1>4, <2>1, KeyBelongs
  <2>4. AllAdmitted(nd, i, E(ns, h - 1, nd.kids[i]))
    BY <1>1, <1>4, <2>1, KeyBelongs
  <2> QED
    BY <1>2, <2>2, <2>3, <2>4
<1>6. Turned(f, h - 1, nd.kids[i], r, es) /\ N(r.f.nodes[r.at]) >= T - 1
  <2>1. Ok(f.nodes, h - 1, b)
    BY <1>2, <1>3 DEF Child
  <2>2. UpdatePost(f, h - 1, b, e, r)
    BY <1>1, <1>2, <2>1 DEF UpdateWorks
  <2>3. N(x) >= T - 1
    BY <1>3, DegreeAssumption DEF Child
  <2> QED
    BY <1>2, <2>2, <2>3 DEF UpdatePost
<1>7. AllAdmitted(nd, i, es)
  BY <1>1, <1>2, <1>5 DEF AllAdmitted, Overwritten, Without
<1>8. w = Relink(r, nd, at, i)
  BY <1>2
<1>9. Relinked(f, h, at, nd, w, fs)
  BY <1>1, <1>2, <1>6, <1>7, <1>8, KidRelinked
<1>10. fs = Overwritten(E(f.nodes, h, at), e)
  <2>1. E(f.nodes, h, at) = rest \cup old /\ fs = rest \cup es /\ es = Overwritten(old, e)
    BY <1>1, <1>2, <1>5
  <2>2. Without(rest \cup old, k) = rest \cup Without(old, k)
    BY <1>5 DEF Without
  <2>3. (\E d \in rest \cup old : Key(d) = k) <=> \E d \in old : Key(d) = k
    BY <1>5
  <2>4. k = Key(e)
    BY <1>2
  <2>5. CASE \E d \in old : Key(d) = k
    <3>1. es = Without(old, k) \cup {e}
      BY <2>1, <2>4, <2>5 DEF Overwritten
    <3>2. Overwritten(rest \cup old, e) = Without(rest \cup old, k) \cup {e}
      BY <2>3, <2>4, <2>5 DEF Overwritten
    <3> QED
      BY <2>1, <2>2, <3>1, <3>2
  <2>6. CASE ~\E d \in old : Key(d) = k
    BY <2>1, <2>3, <2>4, <2>6 DEF Overwritten
  <2> QED
    BY <2>5, <2>6
<1> QED
  BY <1>1, <1>9, <1>10 DEF Relinked, Keeps, UpdatePost

(* On any node. *)
LEMMA UpdateOneLevel ==
  ASSUME Unique, NEW h \in Nat \ {0}, NEW e \in Entry, NEW below, UpdateWorks(below, h - 1, e),
         NEW f, NEW at, Fresh(f), Ok(f.nodes, h, at),
         NEW w, w = UpdateNode([f |-> f, at |-> at, e |-> e], below)
  PROVE  UpdatePost(f, h, at, e, w)
<1>1. PICK nd, i : nd = f.nodes[at] /\ i = FindKey(nd, Key(e))
  OBVIOUS
<1>2. Key(e) \in Int
  BY Order
<1>3. Standing(f, h, at, Key(e), nd, i)
  BY <1>1, <1>2, Stands
<1>4. at # NoBlock
  BY <1>3 DEF Standing
<1>5. CASE HasKeyAt(nd, i, Key(e))
  <2>1. w = Replace(f, WithEntry(nd, i, e), at)
    BY <1>1, <1>4, <1>5 DEF UpdateNode, ReadNode
  <2> QED
    BY <1>3, <1>5, <2>1, UpdateHere
<1>6. CASE ~HasKeyAt(nd, i, Key(e)) /\ nd.leaf
  <2>1. w = [f |-> f, at |-> at]
    BY <1>1, <1>4, <1>6 DEF UpdateNode, ReadNode
  <2>2. PICK es : es = E(f.nodes, h, at)
    OBVIOUS
  <2>3. Turned(f, h, at, w, es)
    BY <2>1, <2>2, Unchanged
  <2>4. es = Overwritten(E(f.nodes, h, at), e)
    <3>1. \A d \in E(f.nodes, h, at) : Key(d) # Key(e)
      BY <1>2, <1>3, <1>6, AbsentFromLeaf
    <3> QED
      BY <2>2, <3>1 DEF Overwritten
  <2> QED
    BY <2>1, <2>3, <2>4 DEF UpdatePost
<1>7. CASE ~HasKeyAt(nd, i, Key(e)) /\ ~nd.leaf
  <2>1. w = Relink(below[[f |-> f, at |-> nd.kids[i], e |-> e]], nd, at, i)
    BY <1>1, <1>4, <1>7 DEF UpdateNode, ReadNode
  <2> QED
    BY <1>3, <1>7, <2>1, UpdateBelow
<1> QED
  BY <1>5, <1>6, <1>7

(* updateRecursive() updates, however many more levels it might go down.   *)
LEMMA UpdateLevels ==
  ASSUME Unique, NEW e \in Entry
  PROVE  \A h \in Nat : \A g \in Nat : g >= h => UpdateWorks(UpdateRec[g], h, e)
<1> DEFINE Good == {h \in Nat : \A g \in Nat : g >= h => UpdateWorks(UpdateRec[g], h, e)}
<1>1. 0 \in Good
  <2>1. ASSUME NEW f, NEW at, Fresh(f) PROVE ~Ok(f.nodes, 0, at)
    <3>1. f.nodes \in Heap
      BY <2>1, StoreFields DEF Fresh
    <3> QED
      BY <3>1, TreeIsSound
  <2> QED
    BY <2>1 DEF UpdateWorks
<1>2. ASSUME NEW m \in Nat, m \in Good PROVE m + 1 \in Good
  <2> SUFFICES ASSUME NEW g \in Nat, g >= m + 1, NEW f, NEW at, Fresh(f), Ok(f.nodes, m + 1, at)
               PROVE  UpdatePost(f, m + 1, at, e, UpdateRec[g][[f |-> f, at |-> at, e |-> e]])
    BY DEF UpdateWorks
  <2>1. PICK h, below, c, w :
          /\ h = m + 1
          /\ below = UpdateRec[g - 1]
          /\ c = [f |-> f, at |-> at, e |-> e]
          /\ w = UpdateRec[g][c]
    OBVIOUS
  <2>2. h \in Nat \ {0} /\ h - 1 = m /\ g \in Nat \ {0} /\ g - 1 \in Nat /\ g - 1 >= m
    BY <2>1
  <2>3. UpdateWorks(below, h - 1, e)
    BY <1>2, <2>1, <2>2
  <2>4. c \in Writes
    <3>1. f \in Stores /\ f.nodes \in Heap /\ Len(f.nodes) \in Nat /\ at \in 1..Len(f.nodes)
      BY StoreFields DEF Fresh, Ok
    <3>2. at \in Nat
      BY <3>1
    <3> QED
      BY <2>1, <3>1, <3>2 DEF Writes
  <2>5. w = UpdateNode(c, below)
    BY <2>1, <2>2, <2>4, UpdateUnfolds
  <2>6. Ok(f.nodes, h, at)
    BY <2>1
  <2>7. UpdatePost(f, h, at, e, w)
    BY <2>1, <2>2, <2>3, <2>5, <2>6, UpdateOneLevel
  <2> QED
    BY <2>1, <2>7
<1> HIDE DEF Good
<1>3. \A h \in Nat : h \in Good
  BY <1>1, <1>2, NumberInduction
<1> QED
  BY <1>3 DEF Good

(* A tree that has turned is planted as it was, if it has an entry left at *)
(* its root.                                                               *)
LEMMA TurnedPlanted ==
  ASSUME NEW f, NEW h \in Nat, NEW at, Ok(f.nodes, h, at), h \in 1..Len(f.nodes),
         NEW w, NEW es, Turned(f, h, at, w, es), N(w.f.nodes[w.at]) >= 1
  PROVE  Replanted(f, h, at, w, h, es)
<1>1. Moved(f, B(f.nodes, h, at), h, w, es)
  BY DEF Turned
<1>2. Len(f.nodes) <= Len(w.f.nodes) /\ Len(f.nodes) \in Nat /\ Len(w.f.nodes) \in Nat
  BY <1>1, MovedStores
<1>3. h \in 1..Len(w.f.nodes)
  BY <1>2
<1> QED
  BY <1>1, <1>3 DEF Replanted, Planted, Moved

(* An entry of any tree is updated. *)
LEMMA TreeUpdated ==
  ASSUME Unique, NEW f, Fresh(f), NEW h \in Nat, NEW at, Planted(f.nodes, h, at),
         NEW e \in Entry, NEW w, w = TreeUpdate(f, at, e)
  PROVE  Replanted(f, h, at, w, h, Overwritten(E(f.nodes, h, at), e))
<1>1. f.nodes \in Heap /\ Len(f.nodes) \in Nat /\ f.count = Len(f.nodes) + 1 /\ f \in Stores
  BY StoreFields DEF Fresh
<1>2. CASE at = NoBlock /\ h = 0
  <2>1. E(f.nodes, h, at) = {} /\ B(f.nodes, h, at) = {}
    BY <1>1, <1>2, EmptyTree
  <2>2. w = [f |-> f, at |-> NoBlock]
    <3>1. PICK c, g : c = [f |-> f, at |-> at, e |-> e] /\ g = f.count
      OBVIOUS
    <3>2. c \in Writes
      BY <1>1, <1>2, <3>1 DEF Writes, NoBlock
    <3>3. g \in Nat \ {0}
      BY <1>1, <3>1
    <3>4. UpdateRec[g][c] = UpdateNode(c, UpdateRec[g - 1])
      BY <3>2, <3>3, UpdateUnfolds
    <3>5. UpdateNode(c, UpdateRec[g - 1]) = [f |-> f, at |-> NoBlock]
      BY <1>2, <3>1 DEF UpdateNode
    <3> QED
      BY <3>1, <3>4, <3>5 DEF TreeUpdate
  <2>3. Turns(f, B(f.nodes, h, at), w.f, B(w.f.nodes, h, w.at))
    BY <1>2, <2>2, TurnsRefl
  <2>4. Planted(w.f.nodes, h, w.at) /\ E(w.f.nodes, h, w.at) = {}
    BY <1>2, <2>1, <2>2 DEF Planted
  <2>5. Overwritten(E(f.nodes, h, at), e) = {}
    BY <2>1 DEF Overwritten
  <2> QED
    BY <2>3, <2>4, <2>5 DEF Replanted
<1>3. CASE Ok(f.nodes, h, at) /\ N(f.nodes[at]) >= 1 /\ h \in 1..Len(f.nodes)
  <2>1. UpdateWorks(UpdateRec[f.count], h, e)
    <3>1. f.count \in Nat /\ f.count >= h
      BY <1>1, <1>3
    <3> QED
      BY <3>1, UpdateLevels
  <2>2. UpdatePost(f, h, at, e, w)
    BY <1>3, <2>1 DEF UpdateWorks, TreeUpdate
  <2>3. PICK es : es = Overwritten(E(f.nodes, h, at), e)
    OBVIOUS
  <2>4. Turned(f, h, at, w, es) /\ N(w.f.nodes[w.at]) >= 1
    BY <1>3, <2>2, <2>3 DEF UpdatePost
  <2>5. Replanted(f, h, at, w, h, es)
    BY <1>3, <2>4, TurnedPlanted
  <2> QED
    BY <2>3, <2>5
<1> QED
  BY <1>2, <1>3 DEF Planted

-----------------------------------------------------------------------------
(***************************************************************************)
(* What removeRec() puts in the place of an entry above the leaves.        *)
(***************************************************************************)

\* Entry e has the greatest key of some entries, or the least.
Greatest(entries, e) == e \in entries /\ \A d \in entries : d = e \/ Key(d) < Key(e)
Least(entries, e) == e \in entries /\ \A d \in entries : d = e \/ Key(e) < Key(d)

(* The greatest entry of a node is the last of a leaf, and the greatest    *)
(* below the last child of an inner node.                                  *)
LEMMA GreatestOfNode ==
  ASSUME Unique, NEW ns \in Heap, NEW h \in Nat \ {0}, NEW nd, Sound(ns, h, nd), N(nd) >= 1
  PROVE  /\ nd.leaf => Greatest(NE(ns, h, nd), Seqs!Last(nd.ents))
         /\ ~nd.leaf => \A e : Greatest(E(ns, h - 1, Seqs!Last(nd.kids)), e) =>
                                 Greatest(NE(ns, h, nd), e)
<1>1. /\ N(nd) \in Nat /\ DOMAIN nd.ents = 1..N(nd)
      /\ DOMAIN nd.kids = IF nd.leaf THEN {} ELSE 1..(N(nd) + 1)
      /\ \A i \in 1..N(nd) : nd.ents[i] \in Entry /\ Key(nd.ents[i]) \in Int
      /\ \A i, j \in 1..N(nd) : i < j => Key(nd.ents[i]) < Key(nd.ents[j])
      /\ \A i \in DOMAIN nd.kids : \A e \in E(ns, h - 1, nd.kids[i]) :
           /\ Key(e) \in Int
           /\ \A j \in 1..(i - 1) : Key(nd.ents[j]) < Key(e)
           /\ \A j \in i..N(nd) : Key(e) < Key(nd.ents[j])
  BY KeysOfNode
<1>2. ASSUME nd.leaf PROVE Greatest(NE(ns, h, nd), Seqs!Last(nd.ents))
  <2>1. PICK n : n = N(nd) /\ n \in 1..N(nd)
    BY <1>1
  <2>2. Seqs!Last(nd.ents) = nd.ents[n]
    BY <2>1 DEF Seqs!Last, N
  <2>3. \A d : d \in NE(ns, h, nd) <=> \E j \in 1..N(nd) : d = nd.ents[j]
    BY <1>1, <1>2, InNode
  <2>4. \A j \in 1..N(nd) : j = n \/ Key(nd.ents[j]) < Key(nd.ents[n])
    BY <1>1, <2>1
  <2> QED
    BY <2>1, <2>2, <2>3, <2>4 DEF Greatest
<1>3. ASSUME ~nd.leaf, NEW e, Greatest(E(ns, h - 1, Seqs!Last(nd.kids)), e)
      PROVE  Greatest(NE(ns, h, nd), e)
  <2>1. PICK n : n = N(nd) + 1 /\ n \in 1..(N(nd) + 1)
    BY <1>1
  <2>2. Seqs!Last(nd.kids) = nd.kids[n]
    <3>1. Len(nd.kids) = N(nd) + 1
      BY <1>3, EntriesOfNode, SoundNode
    <3> QED
      BY <2>1, <3>1 DEF Seqs!Last
  <2>3. /\ e \in E(ns, h - 1, nd.kids[n])
        /\ \A d \in E(ns, h - 1, nd.kids[n]) : d = e \/ Key(d) < Key(e)
    BY <1>3, <2>2 DEF Greatest
  <2>4. Key(e) \in Int /\ \A j \in 1..N(nd) : Key(nd.ents[j]) < Key(e)
    <3>1. n \in DOMAIN nd.kids /\ \A j \in 1..N(nd) : j \in 1..(n - 1)
      BY <1>1, <1>3, <2>1
    <3> QED
      BY <1>1, <2>3, <3>1
  <2>5. ASSUME NEW j \in 1..N(nd), NEW d \in E(ns, h - 1, nd.kids[j]) PROVE Key(d) < Key(e)
    <3>1. j \in DOMAIN nd.kids /\ j \in j..N(nd)
      BY <1>1, <1>3
    <3>2. Key(d) \in Int /\ Key(d) < Key(nd.ents[j]) /\ Key(nd.ents[j]) < Key(e)
      BY <1>1, <2>4, <3>1
    <3>3. Key(nd.ents[j]) \in Int
      BY <1>1
    <3> QED
      BY <2>4, <3>2, <3>3
  <2>6. ASSUME NEW d \in NE(ns, h, nd) PROVE d = e \/ Key(d) < Key(e)
    <3>1. \/ \E j \in DOMAIN nd.kids : d \in E(ns, h - 1, nd.kids[j])
          \/ \E j \in DOMAIN nd.ents : d = nd.ents[j]
      BY <2>6, InNode
    <3>2. \A j \in DOMAIN nd.kids : j = n \/ j \in 1..N(nd)
      BY <1>1, <1>3, <2>1
    <3> QED
      BY <1>1, <2>3, <2>4, <2>5, <3>1, <3>2
  <2>7. e \in NE(ns, h, nd)
    <3>1. n \in DOMAIN nd.kids
      BY <1>1, <1>3, <2>1
    <3> QED
      BY <2>3, <3>1, InNode
  <2> QED
    BY <2>6, <2>7 DEF Greatest
<1> QED
  BY <1>2, <1>3

(* The least entry of a node is the first of a leaf, and the least below   *)
(* the first child of an inner node.                                       *)
LEMMA LeastOfNode ==
  ASSUME Unique, NEW ns \in Heap, NEW h \in Nat \ {0}, NEW nd, Sound(ns, h, nd), N(nd) >= 1
  PROVE  /\ nd.leaf => Least(NE(ns, h, nd), Head(nd.ents))
         /\ ~nd.leaf => \A e : Least(E(ns, h - 1, Head(nd.kids)), e) =>
                                 Least(NE(ns, h, nd), e)
<1>1. /\ N(nd) \in Nat /\ DOMAIN nd.ents = 1..N(nd)
      /\ DOMAIN nd.kids = IF nd.leaf THEN {} ELSE 1..(N(nd) + 1)
      /\ \A i \in 1..N(nd) : nd.ents[i] \in Entry /\ Key(nd.ents[i]) \in Int
      /\ \A i, j \in 1..N(nd) : i < j => Key(nd.ents[i]) < Key(nd.ents[j])
      /\ \A i \in DOMAIN nd.kids : \A e \in E(ns, h - 1, nd.kids[i]) :
           /\ Key(e) \in Int
           /\ \A j \in 1..(i - 1) : Key(nd.ents[j]) < Key(e)
           /\ \A j \in i..N(nd) : Key(e) < Key(nd.ents[j])
  BY KeysOfNode
<1>2. /\ nd.ents \in Seq(Entry) /\ nd.kids \in Seq(Nat)
      /\ Len(nd.kids) = IF nd.leaf THEN 0 ELSE N(nd) + 1
      /\ Len(nd.ents) = N(nd)
  BY SoundNode, EntriesOfNode DEF N
<1>3. ASSUME nd.leaf PROVE Least(NE(ns, h, nd), Head(nd.ents))
  <2>1. 1 \in 1..N(nd) /\ Head(nd.ents) = nd.ents[1]
    BY <1>1, <1>2
  <2>2. \A d : d \in NE(ns, h, nd) <=> \E j \in 1..N(nd) : d = nd.ents[j]
    BY <1>1, <1>3, InNode
  <2>3. \A j \in 1..N(nd) : j = 1 \/ Key(nd.ents[1]) < Key(nd.ents[j])
    BY <1>1, <2>1
  <2> QED
    BY <2>1, <2>2, <2>3 DEF Least
<1>4. ASSUME ~nd.leaf, NEW e, Least(E(ns, h - 1, Head(nd.kids)), e)
      PROVE  Least(NE(ns, h, nd), e)
  <2>1. 1 \in DOMAIN nd.kids /\ Head(nd.kids) = nd.kids[1]
    BY <1>1, <1>2, <1>4
  <2>2. /\ e \in E(ns, h - 1, nd.kids[1])
        /\ \A d \in E(ns, h - 1, nd.kids[1]) : d = e \/ Key(e) < Key(d)
    BY <1>4, <2>1 DEF Least
  <2>3. Key(e) \in Int /\ \A j \in 1..N(nd) : Key(e) < Key(nd.ents[j])
    BY <1>1, <2>1, <2>2
  <2>4. ASSUME NEW j \in 2..(N(nd) + 1), NEW d \in E(ns, h - 1, nd.kids[j])
        PROVE  Key(e) < Key(d)
    <3>1. j \in DOMAIN nd.kids /\ j - 1 \in 1..(j - 1) /\ j - 1 \in 1..N(nd)
      BY <1>1, <1>4
    <3>2. Key(d) \in Int /\ Key(nd.ents[j - 1]) < Key(d) /\ Key(e) < Key(nd.ents[j - 1])
      BY <1>1, <2>3, <3>1
    <3>3. Key(nd.ents[j - 1]) \in Int
      BY <1>1, <3>1
    <3> QED
      BY <2>3, <3>2, <3>3
  <2>5. ASSUME NEW d \in NE(ns, h, nd) PROVE d = e \/ Key(e) < Key(d)
    <3>1. \/ \E j \in DOMAIN nd.kids : d \in E(ns, h - 1, nd.kids[j])
          \/ \E j \in DOMAIN nd.ents : d = nd.ents[j]
      BY <2>5, InNode
    <3>2. \A j \in DOMAIN nd.kids : j = 1 \/ j \in 2..(N(nd) + 1)
      BY <1>1, <1>4
    <3> QED
      BY <1>1, <2>2, <2>3, <2>4, <3>1, <3>2
  <2>6. e \in NE(ns, h, nd)
    BY <2>1, <2>2, InNode
  <2> QED
    BY <2>5, <2>6 DEF Least
<1> QED
  BY <1>3, <1>4

(* getPred() comes to a leaf whose last entry is the greatest.             *)
LEMMA PredFinds ==
  ASSUME Unique, NEW f, Fresh(f), NEW k \in Int
  PROVE  \A h \in Nat : \A g \in Nat : \A at : Ok(f.nodes, h, at) /\ N(f.nodes[at]) >= 1 /\ g >= h =>
           Greatest(E(f.nodes, h, at), Seqs!Last(GetPred[g][[f |-> f, at |-> at, k |-> k]].ents))
<1> DEFINE Good == {h \in Nat : \A g \in Nat : \A at :
                     Ok(f.nodes, h, at) /\ N(f.nodes[at]) >= 1 /\ g >= h =>
                       Greatest(E(f.nodes, h, at),
                                Seqs!Last(GetPred[g][[f |-> f, at |-> at, k |-> k]].ents))}
<1>1. f.nodes \in Heap /\ f \in Stores /\ Len(f.nodes) \in Nat
  BY StoreFields DEF Fresh
<1>2. 0 \in Good
  BY <1>1, TreeIsSound
<1>3. ASSUME NEW m \in Nat, m \in Good PROVE m + 1 \in Good
  <2> SUFFICES ASSUME NEW g \in Nat, NEW at, Ok(f.nodes, m + 1, at), N(f.nodes[at]) >= 1,
                      g >= m + 1
               PROVE  Greatest(E(f.nodes, m + 1, at),
                               Seqs!Last(GetPred[g][[f |-> f, at |-> at, k |-> k]].ents))
    OBVIOUS
  <2>1. PICK h, ns, nd, c, l : /\ h = m + 1 /\ ns = f.nodes /\ nd = f.nodes[at]
                               /\ c = [f |-> f, at |-> at, k |-> k]
                               /\ l = GetPred[g][c]
    OBVIOUS
  <2>2. /\ h \in Nat \ {0} /\ h - 1 = m /\ g \in Nat \ {0} /\ g - 1 \in Nat /\ g - 1 >= m
        /\ ns \in Heap /\ Ok(ns, h, at) /\ N(nd) >= 1
    BY <1>1, <2>1
  <2>3. Sound(ns, h, nd) /\ E(ns, h, at) = NE(ns, h, nd) /\ at \in 1..Len(ns)
    BY <2>1, <2>2, BlockIsNode, TreeContents
  <2>4. l = PredLeaf(c, GetPred[g - 1])
    <3>1. c \in Searches
      BY <1>1, <2>1, <2>3 DEF Searches
    <3> QED
      BY <2>1, <2>2, <3>1, PredUnfolds
  <2>5. CASE nd.leaf
    <3>1. l = nd
      BY <2>1, <2>4, <2>5 DEF PredLeaf, ReadNode
    <3>2. Greatest(NE(ns, h, nd), Seqs!Last(nd.ents))
      BY <2>2, <2>3, <2>5, GreatestOfNode
    <3> QED
      BY <2>1, <2>3, <3>1, <3>2
  <2>6. CASE ~nd.leaf
    <3>1. PICK b, n : b = Seqs!Last(nd.kids) /\ n = N(nd) + 1
      OBVIOUS
    <3>2. l = GetPred[g - 1][[f |-> f, at |-> b, k |-> k]]
      BY <2>1, <2>4, <2>6, <3>1 DEF PredLeaf, ReadNode
    <3>3. Ok(ns, m, b) /\ N(ns[b]) >= 1
      <4>1. N(nd) \in Nat /\ Len(nd.kids) = N(nd) + 1
        BY <2>2, <2>3, <2>6, SoundNode, EntriesOfNode
      <4>2. b = nd.kids[n] /\ n \in 1..(N(nd) + 1)
        BY <3>1, <4>1 DEF Seqs!Last
      <4>3. PICK x : x = f.nodes[nd.kids[n]]
        OBVIOUS
      <4>4. Child(f, h, nd, n, x)
        BY <2>1, <2>2, <2>3, <2>6, <4>2, <4>3, ChildOfNode
      <4>5. N(x) >= 1
        BY <4>4, DegreeAssumption DEF Child
      <4>6. Ok(f.nodes, h - 1, nd.kids[n])
        BY <4>4 DEF Child
      <4> QED
        BY <2>1, <2>2, <4>2, <4>3, <4>5, <4>6
    <3>4. Greatest(E(ns, m, b), Seqs!Last(l.ents))
      BY <1>3, <2>1, <2>2, <3>2, <3>3
    <3>5. \A e : Greatest(E(ns, h - 1, Seqs!Last(nd.kids)), e) => Greatest(NE(ns, h, nd), e)
      BY <2>2, <2>3, <2>6, GreatestOfNode
    <3> QED
      BY <2>1, <2>2, <2>3, <3>1, <3>4, <3>5
  <2> QED
    BY <2>5, <2>6
<1> HIDE DEF Good
<1>4. \A h \in Nat : h \in Good
  BY <1>2, <1>3, NumberInduction
<1> QED
  BY <1>4 DEF Good

(* getSucc() comes to a leaf whose first entry is the least.               *)
LEMMA SuccFinds ==
  ASSUME Unique, NEW f, Fresh(f), NEW k \in Int
  PROVE  \A h \in Nat : \A g \in Nat : \A at : Ok(f.nodes, h, at) /\ N(f.nodes[at]) >= 1 /\ g >= h =>
           Least(E(f.nodes, h, at), Head(GetSucc[g][[f |-> f, at |-> at, k |-> k]].ents))
<1> DEFINE Good == {h \in Nat : \A g \in Nat : \A at :
                     Ok(f.nodes, h, at) /\ N(f.nodes[at]) >= 1 /\ g >= h =>
                       Least(E(f.nodes, h, at),
                             Head(GetSucc[g][[f |-> f, at |-> at, k |-> k]].ents))}
<1>1. f.nodes \in Heap /\ f \in Stores /\ Len(f.nodes) \in Nat
  BY StoreFields DEF Fresh
<1>2. 0 \in Good
  BY <1>1, TreeIsSound
<1>3. ASSUME NEW m \in Nat, m \in Good PROVE m + 1 \in Good
  <2> SUFFICES ASSUME NEW g \in Nat, NEW at, Ok(f.nodes, m + 1, at), N(f.nodes[at]) >= 1,
                      g >= m + 1
               PROVE  Least(E(f.nodes, m + 1, at),
                            Head(GetSucc[g][[f |-> f, at |-> at, k |-> k]].ents))
    OBVIOUS
  <2>1. PICK h, ns, nd, c, l : /\ h = m + 1 /\ ns = f.nodes /\ nd = f.nodes[at]
                               /\ c = [f |-> f, at |-> at, k |-> k]
                               /\ l = GetSucc[g][c]
    OBVIOUS
  <2>2. /\ h \in Nat \ {0} /\ h - 1 = m /\ g \in Nat \ {0} /\ g - 1 \in Nat /\ g - 1 >= m
        /\ ns \in Heap /\ Ok(ns, h, at) /\ N(nd) >= 1
    BY <1>1, <2>1
  <2>3. Sound(ns, h, nd) /\ E(ns, h, at) = NE(ns, h, nd) /\ at \in 1..Len(ns)
    BY <2>1, <2>2, BlockIsNode, TreeContents
  <2>4. l = SuccLeaf(c, GetSucc[g - 1])
    <3>1. c \in Searches
      BY <1>1, <2>1, <2>3 DEF Searches
    <3> QED
      BY <2>1, <2>2, <3>1, SuccUnfolds
  <2>5. CASE nd.leaf
    <3>1. l = nd
      BY <2>1, <2>4, <2>5 DEF SuccLeaf, ReadNode
    <3>2. Least(NE(ns, h, nd), Head(nd.ents))
      BY <2>2, <2>3, <2>5, LeastOfNode
    <3> QED
      BY <2>1, <2>3, <3>1, <3>2
  <2>6. CASE ~nd.leaf
    <3>1. PICK b, n : b = Head(nd.kids) /\ n = 1
      OBVIOUS
    <3>2. l = GetSucc[g - 1][[f |-> f, at |-> b, k |-> k]]
      BY <2>1, <2>4, <2>6, <3>1 DEF SuccLeaf, ReadNode
    <3>3. Ok(ns, m, b) /\ N(ns[b]) >= 1
      <4>1. N(nd) \in Nat /\ Len(nd.kids) = N(nd) + 1 /\ nd.kids \in Seq(Nat)
        BY <2>2, <2>3, <2>6, SoundNode, EntriesOfNode
      <4>2. b = nd.kids[n] /\ n \in 1..(N(nd) + 1)
        BY <3>1, <4>1
      <4>3. PICK x : x = f.nodes[nd.kids[n]]
        OBVIOUS
      <4>4. Child(f, h, nd, n, x)
        BY <2>1, <2>2, <2>3, <2>6, <4>2, <4>3, ChildOfNode
      <4>5. N(x) >= 1
        BY <4>4, DegreeAssumption DEF Child
      <4>6. Ok(f.nodes, h - 1, nd.kids[n])
        BY <4>4 DEF Child
      <4> QED
        BY <2>1, <2>2, <4>2, <4>3, <4>5, <4>6
    <3>4. Least(E(ns, m, b), Head(l.ents))
      BY <1>3, <2>1, <2>2, <3>2, <3>3
    <3>5. \A e : Least(E(ns, h - 1, Head(nd.kids)), e) => Least(NE(ns, h, nd), e)
      BY <2>2, <2>3, <2>6, LeastOfNode
    <3> QED
      BY <2>1, <2>2, <2>3, <3>1, <3>4, <3>5
  <2> QED
    BY <2>5, <2>6
<1> HIDE DEF Good
<1>4. \A h \in Nat : h \in Good
  BY <1>2, <1>3, NumberInduction
<1> QED
  BY <1>4 DEF Good

-----------------------------------------------------------------------------
\* Entry e, of child j beside entry i of a node, can take the place of that entry:
\* it is the greatest of the child before it, or the least of the one behind.
Replaces(f, h, nd, i, e, j) ==
  \/ j = i /\ Greatest(E(f.nodes, h - 1, nd.kids[i]), e)
  \/ j = i + 1 /\ Least(E(f.nodes, h - 1, nd.kids[i + 1]), e)

\* Entries that belong around entry e, in place of entry i of a node.
Around(f, h, nd, i, e, before, behind) ==
  /\ before \cup {e} \cup behind = WE(f.nodes, h, nd, i, 1) \ {nd.ents[i]}
  /\ \A d \in before : Key(d) < Key(e)
  /\ \A d \in behind : Key(e) < Key(d)

(* What is left of the child is on its side of the entry, and so is what   *)
(* is below the other child.                                               *)
LEMMA ReplacesAround ==
  ASSUME Unique, NEW f, Fresh(f), NEW h \in Nat \ {0}, NEW nd, Sound(f.nodes, h, nd), ~nd.leaf,
         NEW i, i \in 1..N(nd), NEW e, NEW j, Replaces(f, h, nd, i, e, j),
         NEW before, before = E(f.nodes, h - 1, nd.kids[i]),
         NEW behind, behind = E(f.nodes, h - 1, nd.kids[i + 1])
  PROVE  /\ e \in Entry
         /\ j = i => Around(f, h, nd, i, e, Without(before, Key(e)), behind)
         /\ j = i + 1 => Around(f, h, nd, i, e, before, Without(behind, Key(e)))
<1>1. PICK x, y, m : x = f.nodes[nd.kids[i]] /\ y = f.nodes[nd.kids[i + 1]] /\ m = nd.ents[i]
  OBVIOUS
<1>2. Neighbours(f, h, nd, i, x, y)
  BY <1>1, NeighboursOfNode
<1>3. /\ before = NE(f.nodes, h - 1, x) /\ behind = NE(f.nodes, h - 1, y)
      /\ m \in Entry
      /\ \A d \in before : Key(d) < Key(m)
      /\ \A d \in behind : Key(m) < Key(d)
      /\ WE(f.nodes, h, nd, i, 1) = before \cup {m} \cup behind
  BY <1>1, <1>2 DEF Neighbours, Child
<1>4. before \subseteq Entry /\ behind \subseteq Entry
  <2>1. f.nodes \in Heap
    BY StoreFields DEF Fresh
  <2>2. Ok(f.nodes, h - 1, nd.kids[i]) /\ Ok(f.nodes, h - 1, nd.kids[i + 1]) /\ h - 1 \in Nat
    BY <1>2 DEF Neighbours, Child
  <2> QED
    BY <2>1, <2>2, TreeContents
<1>5. \A d \in before \cup behind \cup {m} : Key(d) \in Int
  BY <1>3, <1>4, Order
<1>6. m \notin before /\ m \notin behind
  BY <1>3, <1>5
<1>7. before \cap behind = {}
  BY <1>3, <1>5
<1>8. CASE j = i /\ Greatest(before, e)
  <2>1. e \in before /\ \A d \in before : d = e \/ Key(d) < Key(e)
    BY <1>8 DEF Greatest
  <2>2. Without(before, Key(e)) = before \ {e}
    BY <1>5, <2>1 DEF Without
  <2>3. \A d \in Without(before, Key(e)) : Key(d) < Key(e)
    BY <2>1, <2>2
  <2>4. \A d \in behind : Key(e) < Key(d)
    BY <1>3, <1>5, <2>1
  <2>5. Without(before, Key(e)) \cup {e} \cup behind = WE(f.nodes, h, nd, i, 1) \ {m}
    BY <1>3, <1>6, <2>1, <2>2
  <2>6. j # i + 1
    BY <1>8, SoundNode, EntriesOfNode
  <2> QED
    BY <1>1, <1>4, <2>1, <2>3, <2>4, <2>5, <2>6 DEF Around
<1>9. CASE j = i + 1 /\ Least(behind, e)
  <2>1. e \in behind /\ \A d \in behind : d = e \/ Key(e) < Key(d)
    BY <1>9 DEF Least
  <2>2. Without(behind, Key(e)) = behind \ {e}
    BY <1>5, <2>1 DEF Without
  <2>3. \A d \in Without(behind, Key(e)) : Key(e) < Key(d)
    BY <2>1, <2>2
  <2>4. \A d \in before : Key(d) < Key(e)
    BY <1>3, <1>5, <2>1
  <2>5. before \cup {e} \cup Without(behind, Key(e)) = WE(f.nodes, h, nd, i, 1) \ {m}
    BY <1>3, <1>6, <2>1, <2>2
  <2>6. j # i
    BY <1>9, SoundNode, EntriesOfNode
  <2> QED
    BY <1>1, <1>4, <2>1, <2>3, <2>4, <2>5, <2>6 DEF Around
<1> QED
  BY <1>8, <1>9 DEF Replaces

\* Two blocks of store g hold what is left of two children beside entry i of a
\* node: child j has moved and lost entry e, the other has stayed.
Left(f, g, h, nd, i, e, j, b, c) ==
  /\ Ok(g.nodes, h - 1, b) /\ N(g.nodes[b]) >= T - 1
  /\ Ok(g.nodes, h - 1, c) /\ N(g.nodes[c]) >= T - 1
  /\ Around(f, h, nd, i, e, E(g.nodes, h - 1, b), E(g.nodes, h - 1, c))
  /\ Turns(f, WB(f.nodes, h, nd, i, 1), g, B(g.nodes, h - 1, b) \cup B(g.nodes, h - 1, c))
  /\ nd.kids[j] \notin B(g.nodes, h - 1, b) \cup B(g.nodes, h - 1, c)

(* A tree beside the one that has turned, in the file that has grown.      *)
LEMMA BesideTurned ==
  ASSUME Unique, NEW f, NEW g, NEW h \in Nat \ {0}, NEW nd, Sound(f.nodes, h, nd), ~nd.leaf,
         NEW j \in 1..(N(nd) + 1), NEW o \in 1..(N(nd) + 1), o # j,
         Fresh(f), Fresh(g), Extends(f.nodes, g.nodes)
  PROVE  /\ SameTree(f.nodes, g.nodes, h - 1, nd.kids[o])
         /\ N(g.nodes[nd.kids[o]]) >= T - 1
         /\ nd.kids[j] \notin B(f.nodes, h - 1, nd.kids[o])
         /\ B(f.nodes, h - 1, nd.kids[o]) \cap B(f.nodes, h - 1, nd.kids[j]) = {}
         /\ B(f.nodes, h - 1, nd.kids[o]) \subseteq 1..Len(f.nodes)
<1>1. f.nodes \in Heap /\ g.nodes \in Heap /\ Len(f.nodes) \in Nat
  BY StoreFields DEF Fresh
<1>2. DOMAIN nd.kids = 1..(N(nd) + 1) /\ h - 1 \in Nat
  BY <1>1, SoundNode, EntriesOfNode
<1>3. B(f.nodes, h - 1, nd.kids[o]) \cap B(f.nodes, h - 1, nd.kids[j]) = {}
  BY <1>1, <1>2, BlocksApart
<1>4. /\ Ok(f.nodes, h - 1, nd.kids[o]) /\ Ok(f.nodes, h - 1, nd.kids[j])
      /\ N(f.nodes[nd.kids[o]]) >= T - 1
  BY <1>2 DEF Sound, Below
<1>5. /\ nd.kids[j] \in B(f.nodes, h - 1, nd.kids[j])
      /\ B(f.nodes, h - 1, nd.kids[o]) \subseteq 1..Len(f.nodes)
  BY <1>1, <1>2, <1>4, TreeContents
<1>6. SameTree(f.nodes, g.nodes, h - 1, nd.kids[o])
  BY <1>1, <1>2, <1>4, TreeFrame
<1>7. g.nodes[nd.kids[o]] = f.nodes[nd.kids[o]]
  BY <1>4 DEF Extends, Ok
<1> QED
  BY <1>3, <1>4, <1>5, <1>6, <1>7

\* The result is not where the operation started.
Moves(r, at) == r.at # at

(* A tree that has lost an entry has moved. *)
LEMMA LossMoves ==
  ASSUME NEW f, NEW h \in Nat, NEW at, Ok(f.nodes, h, at), NEW r, NEW entries,
         Turned(f, h, at, r, entries), NEW e, e \in E(f.nodes, h, at), e \notin entries
  PROVE  Moves(r, at)
<1> SUFFICES ASSUME r.at = at PROVE FALSE
  BY DEF Moves
<1>1. PICK O, P : O = E(f.nodes, h, at) /\ P = B(f.nodes, h, at)
  OBVIOUS
<1>2. entries = E(f.nodes, h, at) /\ B(r.f.nodes, h, at) = P
  BY <1>1, SameBlock
<1> QED
  BY <1>2

(* What there is in the file when an entry has been removed below a node,  *)
(* to take the place of one in it.                                         *)
LEMMA ReplacedLeft ==
  ASSUME Unique, NEW f, Fresh(f), NEW h \in Nat \ {0}, NEW nd, Sound(f.nodes, h, nd), ~nd.leaf,
         NEW i, i \in 1..N(nd), NEW e, NEW j, Replaces(f, h, nd, i, e, j),
         NEW r, NEW es, es = Without(E(f.nodes, h - 1, nd.kids[j]), Key(e)),
         Turned(f, h - 1, nd.kids[j], r, es), N(r.f.nodes[r.at]) >= T - 1
  PROVE  /\ r.at # nd.kids[j]
         /\ j = i => Left(f, r.f, h, nd, i, e, j, r.at, nd.kids[i + 1])
         /\ j = i + 1 => Left(f, r.f, h, nd, i, e, j, nd.kids[i], r.at)
<1>1. PICK l, o, b, c, ns : /\ l = h - 1
                            /\ o = (IF j = i THEN i + 1 ELSE i)
                            /\ b = nd.kids[j] /\ c = nd.kids[o] /\ ns = f.nodes
  OBVIOUS
<1>2. ns \in Heap /\ Sound(ns, h, nd)
  BY <1>1, StoreFields DEF Fresh
<1>3. N(nd) \in Nat /\ DOMAIN nd.kids = 1..(N(nd) + 1) /\ l \in Nat
  BY <1>1, <1>2, SoundNode, EntriesOfNode
<1>4. i \in Nat /\ j \in {i, i + 1}
  BY <1>3 DEF Replaces
<1>5. j \in 1..(N(nd) + 1) /\ o \in 1..(N(nd) + 1) /\ o # j /\ o \in {i, i + 1}
  BY <1>1, <1>3, <1>4
<1>6. Ok(ns, l, b)
  BY <1>1, <1>2, <1>3, <1>5, SoundNode
<1>7. Turned(f, l, b, r, es)
  BY <1>1
<1>8. r.at # b
  <2>1. Ok(f.nodes, l, b)
    BY <1>1, <1>6
  <2>2. e \in E(f.nodes, l, b)
    BY <1>1, <1>4 DEF Replaces, Greatest, Least
  <2>3. e \notin es
    BY DEF Without
  <2>4. Moves(r, b)
    BY <1>3, <1>7, <2>1, <2>2, <2>3, LossMoves
  <2> QED
    BY <2>4 DEF Moves
<1>9. /\ Moved(f, B(ns, l, b), l, r, es)
      /\ b \notin B(r.f.nodes, l, r.at)
  BY <1>1, <1>7, <1>8 DEF Turned
<1>10. Fresh(r.f) /\ Extends(ns, r.f.nodes)
  BY <1>1, <1>9, MovedStores
<1>11. /\ Ok(r.f.nodes, l, r.at) /\ E(r.f.nodes, l, r.at) = es
       /\ Turns(f, B(ns, l, b), r.f, B(r.f.nodes, l, r.at))
  BY <1>9 DEF Moved
<1>12. /\ SameTree(ns, r.f.nodes, l, c)
       /\ N(r.f.nodes[c]) >= T - 1
       /\ b \notin B(ns, l, c)
       /\ B(ns, l, c) \cap B(ns, l, b) = {}
       /\ B(ns, l, c) \subseteq 1..Len(ns)
  <2>1. Sound(f.nodes, h, nd) /\ Extends(f.nodes, r.f.nodes)
    BY <1>1, <1>10
  <2>2. /\ SameTree(f.nodes, r.f.nodes, h - 1, nd.kids[o])
        /\ N(r.f.nodes[nd.kids[o]]) >= T - 1
        /\ nd.kids[j] \notin B(f.nodes, h - 1, nd.kids[o])
        /\ B(f.nodes, h - 1, nd.kids[o]) \cap B(f.nodes, h - 1, nd.kids[j]) = {}
        /\ B(f.nodes, h - 1, nd.kids[o]) \subseteq 1..Len(f.nodes)
    BY <1>5, <1>10, <2>1, BesideTurned
  <2> QED
    BY <1>1, <2>2
<1>13. PICK W, V : /\ W = WB(ns, h, nd, i, 1)
                   /\ V = B(r.f.nodes, l, r.at) \cup B(r.f.nodes, l, c)
  OBVIOUS
<1>14. W = B(ns, l, b) \cup B(ns, l, c)
  <2>1. W = B(ns, h - 1, nd.kids[i]) \cup B(ns, h - 1, nd.kids[i + 1])
    BY <1>4, <1>13, TwoKids
  <2> QED
    BY <1>1, <1>4, <2>1
<1>15. Turns(f, W, r.f, V)
  <2>1. PICK X : X = B(ns, l, c)
    OBVIOUS
  <2>2. X \subseteq 1..Len(f.nodes) /\ X \cap B(ns, l, b) = {}
    BY <1>1, <1>12, <2>1
  <2>3. W = B(ns, l, b) \cup X /\ V = B(r.f.nodes, l, r.at) \cup X
    BY <1>12, <1>13, <1>14, <2>1 DEF SameTree
  <2> QED
    BY <1>11, <2>2, <2>3, TurnsWiden
<1>16. b \notin V
  BY <1>9, <1>12, <1>13 DEF SameTree
<1>17. Ok(r.f.nodes, l, c) /\ E(r.f.nodes, l, c) = E(ns, l, c)
  BY <1>12 DEF SameTree
<1>18. PICK before, behind : /\ before = E(f.nodes, h - 1, nd.kids[i])
                             /\ behind = E(f.nodes, h - 1, nd.kids[i + 1])
  OBVIOUS
<1>19. /\ j = i => Around(f, h, nd, i, e, Without(before, Key(e)), behind)
       /\ j = i + 1 => Around(f, h, nd, i, e, before, Without(behind, Key(e)))
  BY <1>18, ReplacesAround
<1>20. CASE j = i
  <2>1. c = nd.kids[i + 1] /\ j # i + 1
    BY <1>1, <1>4, <1>20
  <2>2. es = Without(before, Key(e)) /\ E(r.f.nodes, h - 1, c) = behind
    BY <1>1, <1>17, <1>18, <1>20, <2>1
  <2>3. Around(f, h, nd, i, e, E(r.f.nodes, h - 1, r.at), E(r.f.nodes, h - 1, c))
    BY <1>1, <1>11, <1>19, <1>20, <2>2
  <2>4. Left(f, r.f, h, nd, i, e, j, r.at, c)
    BY <1>1, <1>11, <1>12, <1>13, <1>15, <1>16, <1>17, <2>3 DEF Left
  <2> QED
    BY <1>1, <1>8, <2>1, <2>4
<1>21. CASE j = i + 1
  <2>1. c = nd.kids[i] /\ j # i
    BY <1>1, <1>4, <1>21
  <2>2. es = Without(behind, Key(e)) /\ E(r.f.nodes, h - 1, c) = before
    BY <1>1, <1>17, <1>18, <1>21, <2>1
  <2>3. Around(f, h, nd, i, e, E(r.f.nodes, h - 1, c), E(r.f.nodes, h - 1, r.at))
    BY <1>1, <1>11, <1>19, <1>21, <2>2
  <2>4. Turns(f, WB(f.nodes, h, nd, i, 1), r.f,
              B(r.f.nodes, h - 1, c) \cup B(r.f.nodes, h - 1, r.at))
    <3>1. V = B(r.f.nodes, l, c) \cup B(r.f.nodes, l, r.at)
      BY <1>13
    <3> QED
      BY <1>1, <1>13, <1>15, <3>1
  <2>5. Left(f, r.f, h, nd, i, e, j, c, r.at)
    BY <1>1, <1>11, <1>12, <1>13, <1>16, <1>17, <2>3, <2>4 DEF Left
  <2> QED
    BY <1>1, <1>8, <2>1, <2>5
<1> QED
  BY <1>4, <1>20, <1>21

\* Result w is node nd of the tree at block "at", the tree with these entries.
Exchanged(f, h, at, nd, w, entries) == Turned(f, h, at, w, entries) /\ Keeps(w, nd)

(* An entry of an inner node is exchanged for one below it: the node       *)
(* without its entry.                                                      *)
LEMMA EntryExchanged ==
  ASSUME Unique, NEW f, NEW h \in Nat \ {0}, NEW at, Ok(f.nodes, h, at),
         NEW nd, nd = f.nodes[at], ~nd.leaf, NEW i, i \in 1..N(nd),
         NEW e, NEW j, Replaces(f, h, nd, i, e, j),
         NEW r, NEW es, es = Without(E(f.nodes, h - 1, nd.kids[j]), Key(e)),
         Turned(f, h - 1, nd.kids[j], r, es), N(r.f.nodes[r.at]) >= T - 1,
         NEW w, w = Rewrite(r, WithEntry(nd, i, e), at, j),
         NEW fs, fs = Without(E(f.nodes, h, at), Key(nd.ents[i]))
  PROVE  Exchanged(f, h, at, nd, w, fs)
<1>1. /\ Fresh(f) /\ Fresh(r.f) /\ f.nodes \in Heap /\ r.f.nodes \in Heap
      /\ Len(f.nodes) \in Nat
  <2>1. Moved(f, B(f.nodes, h - 1, nd.kids[j]), h - 1, r, es)
    BY DEF Turned
  <2> QED
    BY <2>1, MovedStores
<1>2. /\ Sound(f.nodes, h, nd) /\ at \in 1..Len(f.nodes)
      /\ E(f.nodes, h, at) = NE(f.nodes, h, nd)
      /\ B(f.nodes, h, at) = {at} \cup NB(f.nodes, h, nd)
      /\ at \notin NB(f.nodes, h, nd)
  BY <1>1, BlockIsNode, TreeContents, RootApart
<1>3. /\ nd \in Node /\ Filled(nd) /\ N(nd) \in Nat /\ i \in Nat
      /\ DOMAIN nd.kids = 1..(N(nd) + 1) /\ N(nd) <= 2 * T - 1
      /\ h - 1 \in Nat
  BY <1>1, <1>2, SoundNode, EntriesOfNode DEF Sound
<1>4. j \in {i, i + 1} /\ i # i + 1 /\ j \in 1..(N(nd) + 1)
  BY <1>3 DEF Replaces
<1>5. PICK b, c : /\ b = IF j = i THEN r.at ELSE nd.kids[i]
                  /\ c = IF j = i THEN nd.kids[i + 1] ELSE r.at
  OBVIOUS
<1>6. r.at # nd.kids[j] /\ Left(f, r.f, h, nd, i, e, j, b, c)
  <2>1. r.at # nd.kids[j]
    BY <1>1, <1>2, ReplacedLeft
  <2>2. j = i => Left(f, r.f, h, nd, i, e, j, r.at, nd.kids[i + 1])
    BY <1>1, <1>2, ReplacedLeft
  <2>3. j = i + 1 => Left(f, r.f, h, nd, i, e, j, nd.kids[i], r.at)
    BY <1>1, <1>2, ReplacedLeft
  <2> QED
    BY <1>4, <1>5, <2>1, <2>2, <2>3
<1>7. /\ Ok(r.f.nodes, h - 1, b) /\ N(r.f.nodes[b]) >= T - 1
      /\ Ok(r.f.nodes, h - 1, c) /\ N(r.f.nodes[c]) >= T - 1
      /\ Around(f, h, nd, i, e, E(r.f.nodes, h - 1, b), E(r.f.nodes, h - 1, c))
      /\ Turns(f, WB(f.nodes, h, nd, i, 1), r.f,
               B(r.f.nodes, h - 1, b) \cup B(r.f.nodes, h - 1, c))
      /\ nd.kids[j] \notin B(r.f.nodes, h - 1, b) \cup B(r.f.nodes, h - 1, c)
  BY <1>6 DEF Left
<1>8. e \in Entry
  BY <1>1, <1>2, ReplacesAround
<1>9. Ok(f.nodes, h - 1, nd.kids[j]) /\ nd.kids[j] \in Nat /\ r.at \in Nat
  <2>1. Ok(f.nodes, h - 1, nd.kids[j])
    BY <1>1, <1>2, <1>3, <1>4, SoundNode
  <2>2. Ok(r.f.nodes, h - 1, r.at)
    BY <1>5, <1>7
  <2> QED
    BY <2>1, <2>2 DEF Ok
<1>10. PICK W, V, X, A, md, nd2, s, old :
         /\ W = WB(f.nodes, h, nd, i, 1)
         /\ V = B(r.f.nodes, h - 1, b) \cup B(r.f.nodes, h - 1, c)
         /\ X = {nd.kids[j]}
         /\ A = {at}
         /\ md = WithEntry(nd, i, e)
         /\ nd2 = WithKid(md, j, r.at)
         /\ s = <<nd.kids[j], at>>
         /\ old = B(f.nodes, h, at)
  OBVIOUS
<1>11. /\ Grafted(nd, i, 1, nd2, 1)
       /\ nd2.ents[i] = e
       /\ nd2.kids[i] = b
       /\ nd2.kids[i + 1] = c
       /\ N(nd2) = N(nd)
  <2>1. nd2 = WithKid(WithEntry(nd, i, e), j, r.at)
    BY <1>10
  <2>2. Grafted(nd, i, 1, nd2, 1) /\ nd2.ents[i] = e /\ N(nd2) = N(nd)
    BY <1>3, <1>4, <1>8, <1>9, <2>1, GraftEntry
  <2>3. PICK a : a = r.at
    OBVIOUS
  <2>4. nd2 = WithKid(WithEntry(nd, i, e), j, a) /\ a \in Nat
    BY <1>9, <2>1, <2>3
  <2>5. nd2.kids[j] = a
    BY <1>3, <1>4, <1>8, <2>4, GraftEntry
  <2>6. PICK o : o \in {i, i + 1} /\ o # j
    BY <1>4
  <2>7. nd2.kids[o] = nd.kids[o]
    <3>1. EntryReplaced(nd, i, e, md)
      BY <1>3, <1>8, <1>10, OtherEntry
    <3>2. /\ md \in Node /\ Filled(md) /\ ~md.leaf /\ N(md) = N(nd) /\ md.kids = nd.kids
      BY <3>1 DEF EntryReplaced
    <3>3. j \in 1..(N(md) + 1) /\ nd2 = WithKid(md, j, a)
      BY <1>4, <1>10, <2>3, <3>2
    <3>4. KidReplaced(md, j, a, nd2)
      BY <2>4, <3>2, <3>3, OtherKid
    <3>5. o \in 1..(N(md) + 1)
      BY <1>3, <2>6, <3>2
    <3> QED
      BY <2>6, <3>2, <3>4, <3>5 DEF KidReplaced
  <2> QED
    BY <1>4, <1>5, <2>2, <2>3, <2>5, <2>6, <2>7
<1>12. /\ WE(r.f.nodes, h, nd2, i, 1) =
            E(r.f.nodes, h - 1, b) \cup {e} \cup E(r.f.nodes, h - 1, c)
       /\ WB(r.f.nodes, h, nd2, i, 1) = V
  <2>1. PICK ns : ns = r.f.nodes
    OBVIOUS
  <2>2. WE(ns, h, nd2, i, 1) =
          E(ns, h - 1, nd2.kids[i]) \cup {nd2.ents[i]} \cup E(ns, h - 1, nd2.kids[i + 1])
    BY <1>3, TwoKids
  <2>3. WB(ns, h, nd2, i, 1) = B(ns, h - 1, nd2.kids[i]) \cup B(ns, h - 1, nd2.kids[i + 1])
    BY <1>3, TwoKids
  <2> QED
    BY <1>10, <1>11, <2>1, <2>2, <2>3
<1>13. WE(r.f.nodes, h, nd2, i, 1) = WE(f.nodes, h, nd, i, 1) \ {nd.ents[i]}
  BY <1>7, <1>12 DEF Around
<1>14. /\ NE(f.nodes, h, nd) = RE(f.nodes, h, nd, i, 1) \cup WE(f.nodes, h, nd, i, 1)
       /\ NB(f.nodes, h, nd) = RB(f.nodes, h, nd, i, 1) \cup WB(f.nodes, h, nd, i, 1)
       /\ \A d \in WE(f.nodes, h, nd, i, 1) : Admits(nd, i, 1, Key(d))
  <2>1. i \in 1..(N(nd) + 1 - 1)
    BY <1>3
  <2> QED
    BY <1>1, <1>2, <2>1, WindowOfNode
<1>15. Fits(r.f.nodes, h, nd, i, 1, nd2, 1)
  <2>1. ASSUME NEW l \in i..(i + 1)
        PROVE  Ok(r.f.nodes, h - 1, nd2.kids[l]) /\ N(r.f.nodes[nd2.kids[l]]) >= T - 1
    <3>1. l = i \/ l = i + 1
      BY <1>3
    <3> QED
      BY <3>1, <1>7, <1>11
  <2>2. \A d \in WE(r.f.nodes, h, nd2, i, 1) : Admits(nd, i, 1, Key(d))
    BY <1>13, <1>14
  <2>3. /\ \A d \in E(r.f.nodes, h - 1, nd2.kids[i]) : Key(d) < Key(nd2.ents[i])
        /\ \A d \in E(r.f.nodes, h - 1, nd2.kids[i + 1]) : Key(nd2.ents[i]) < Key(d)
    BY <1>7, <1>11 DEF Around
  <2>4. N(nd2) <= 2 * T - 1
    BY <1>3, <1>11
  <2> QED
    BY <1>11, <2>1, <2>2, <2>3, <2>4 DEF Fits
<1>16. PICK m, k : m = nd.ents[i] /\ k = Key(m)
  OBVIOUS
<1>17. fs = RE(f.nodes, h, nd, i, 1) \cup WE(r.f.nodes, h, nd2, i, 1)
  <2>1. m \in Entry /\ k \in Int
    BY <1>1, <1>2, <1>16, KeysOfNode
  <2>2. m \in WE(f.nodes, h, nd, i, 1)
    BY <1>3, <1>16, TwoKids
  <2>3. \A d \in RE(f.nodes, h, nd, i, 1) : Key(d) # k
    <3>1. Admits(nd, i, 1, k) /\ i \in 1..(N(nd) + 1 - 1)
      BY <1>3, <1>14, <1>16, <2>2
    <3> QED
      BY <1>1, <1>2, <2>1, <3>1, RestAvoids
  <2>4. \A d \in E(f.nodes, h, at) : Key(d) = k => d = m
    <3>1. m \in E(f.nodes, h, at)
      BY <1>2, <1>14, <2>2
    <3> QED
      BY <1>1, <1>16, <3>1, KeysDiffer
  <2>5. fs = {d \in E(f.nodes, h, at) : Key(d) # k}
    BY <1>16 DEF Without
  <2>6. fs = E(f.nodes, h, at) \ {m}
    BY <1>16, <2>4, <2>5
  <2>7. m \notin RE(f.nodes, h, nd, i, 1)
    BY <1>16, <2>3
  <2>8. PICK P, Q, Q2 : /\ P = RE(f.nodes, h, nd, i, 1) /\ Q = WE(f.nodes, h, nd, i, 1)
                        /\ Q2 = WE(r.f.nodes, h, nd2, i, 1)
    OBVIOUS
  <2>9. E(f.nodes, h, at) = P \cup Q /\ Q2 = Q \ {m} /\ m \notin P
    BY <1>2, <1>13, <1>14, <1>16, <2>7, <2>8
  <2>10. fs = P \cup Q2
    BY <2>6, <2>9
  <2> QED
    BY <2>8, <2>10
<1>18. Patch(f, r.f, h, nd, i, 1, nd2, 1, X, fs)
  <2>1. Turns(f, WB(f.nodes, h, nd, i, 1), r.f, V)
    BY <1>7, <1>10
  <2>2. WB(r.f.nodes, h, nd2, i, 1) = V \ X
    BY <1>7, <1>10, <1>12
  <2> QED
    BY <1>15, <1>17, <2>1, <2>2 DEF Patch
<1>19. X \subseteq W
  <2>1. nd.kids[j] \in B(f.nodes, h - 1, nd.kids[j])
    BY <1>1, <1>3, <1>9, TreeContents
  <2>2. W = B(f.nodes, h - 1, nd.kids[i]) \cup B(f.nodes, h - 1, nd.kids[i + 1])
    <3>1. PICK ns : ns = f.nodes
      OBVIOUS
    <3>2. i \in Nat
      BY <1>3
    <3>3. WB(ns, h, nd, i, 1) = B(ns, h - 1, nd.kids[i]) \cup B(ns, h - 1, nd.kids[i + 1])
      BY <3>2, TwoKids
    <3> QED
      BY <1>10, <3>1, <3>3
  <2> QED
    BY <1>4, <1>10, <2>1, <2>2
<1>20. s \in Seq(Nat) /\ Seqs!ToSet(s) = A \cup X
  <2>1. at \in Nat
    BY <1>1, <1>2
  <2>2. s \in Seq(Nat) /\ Len(s) = 2 /\ s[1] = nd.kids[j] /\ s[2] = at
    BY <1>9, <1>10, <2>1
  <2>3. Seqs!ToSet(s) = {s[1], s[2]}
    BY <2>2 DEF Seqs!ToSet
  <2> QED
    BY <1>10, <2>2, <2>3
<1>21. Site(f, old, h, nd, i, 1, A, X, s)
  <2>1. i \in 1..(N(nd) + 1 - 1)
    BY <1>3
  <2> QED
    BY <1>2, <1>10, <1>19, <1>20, <2>1 DEF Site
<1>22. w = Freeing(WriteNode(r.f, nd2), s)
  <2>1. md.kids[j] = nd.kids[j]
    BY <1>10 DEF WithEntry
  <2>2. w = Freeing(WriteNode(r.f, WithKid(md, j, r.at)), <<md.kids[j], at>>)
    BY <1>10 DEF Rewrite
  <2> QED
    BY <1>10, <2>1, <2>2
<1>23. Rewritten(f, old, h, A, r.f, w, nd2, fs)
  BY <1>18, <1>21, <1>22, WindowWritten
<1> QED
  BY <1>10, <1>11, <1>23 DEF Rewritten, Turned, Keeps, Exchanged

-----------------------------------------------------------------------------
(***************************************************************************)
(* removeRec() on one node.                                                *)
(***************************************************************************)

\* An entry can be removed below a block that has one to spare; the result is
\* without the entry of the key, and has at most one less at its root.
RemovePre(f, h, at) ==
  /\ Fresh(f)
  /\ Ok(f.nodes, h, at)
  /\ N(f.nodes[at]) >= 1
  /\ h <= f.count

RemovePost(f, h, at, k, r) ==
  /\ Turned(f, h, at, r, Without(E(f.nodes, h, at), k))
  /\ N(r.f.nodes[r.at]) >= N(f.nodes[at]) - 1

RemoveWorks(below, h) ==
  \A f, at : \A k \in Int : RemovePre(f, h, at) =>
    RemovePost(f, h, at, k, below[[f |-> f, at |-> at, k |-> k]])

\* A child of the node at p.at is where the key belongs, and has an entry to spare.
RemoveReady(p, h, nd, j, k) ==
  /\ Fresh(p.f)
  /\ Ok(p.f.nodes, h, p.at)
  /\ h <= p.f.count
  /\ Room(p, nd, j, k)

\* The tree at p.at is without the entry of key k, and its node has as many.
Lost(p, h, nd, k, w) ==
  /\ Turned(p.f, h, p.at, w, Without(E(p.f.nodes, h, p.at), k))
  /\ Keeps(w, nd)

(* The descent into a child with an entry to spare. *)
LEMMA RemoveDescends ==
  ASSUME Unique, NEW h \in Nat \ {0}, NEW k \in Int, NEW below, RemoveWorks(below, h - 1),
         NEW p, NEW nd, NEW j, RemoveReady(p, h, nd, j, k),
         NEW w, w = Relink(below[[f |-> p.f, at |-> nd.kids[j], k |-> k]], nd, p.at, j)
  PROVE  Lost(p, h, nd, k, w)
<1>1. PICK f, at, b, x, ns, old, es, r, rest, fs :
        /\ f = p.f /\ at = p.at /\ b = nd.kids[j] /\ x = f.nodes[b] /\ ns = f.nodes
        /\ old = E(f.nodes, h - 1, b)
        /\ es = Without(old, k)
        /\ r = below[[f |-> f, at |-> b, k |-> k]]
        /\ rest = RE(f.nodes, h, nd, j, 0)
        /\ fs = rest \cup es
  OBVIOUS
<1>2. /\ Fresh(f) /\ Ok(f.nodes, h, at) /\ h <= f.count /\ nd = f.nodes[at] /\ ~nd.leaf
      /\ j \in 1..(N(nd) + 1) /\ Admits(nd, j, 0, k)
      /\ N(x) >= T
  BY <1>1 DEF RemoveReady, Room
<1>3. ns \in Heap /\ f.count \in Nat
  BY <1>1, <1>2, StoreFields DEF Fresh
<1>4. Sound(ns, h, nd) /\ E(ns, h, at) = NE(ns, h, nd)
  <2>1. Ok(ns, h, at) /\ nd = ns[at]
    BY <1>1, <1>2
  <2> QED
    BY <1>3, <2>1, BlockIsNode, TreeContents
<1>5. Child(f, h, nd, j, x)
  BY <1>1, <1>2, <1>4, ChildOfNode
<1>6. /\ \A d \in rest : Key(d) # k
      /\ NE(ns, h, nd) = rest \cup old
      /\ AllAdmitted(nd, j, old)
  <2>1. \A d \in RE(ns, h, nd, j, 0) : Key(d) # k
    BY <1>2, <1>3, <1>4, KeyBelongs
  <2>2. NE(ns, h, nd) = RE(ns, h, nd, j, 0) \cup E(ns, h - 1, nd.kids[j])
    BY <1>2, <1>3, <1>4, KeyBelongs
  <2>3. AllAdmitted(nd, j, E(ns, h - 1, nd.kids[j]))
    BY <1>2, <1>3, <1>4, KeyBelongs
  <2> QED
    BY <1>1, <2>1, <2>2, <2>3
<1>7. RemovePost(f, h - 1, b, k, r)
  <2>1. Ok(f.nodes, h - 1, b)
    BY <1>1, <1>5 DEF Child
  <2>2. N(f.nodes[b]) >= 1
    <3>1. N(x) \in Nat
      BY <1>5, DegreeAssumption DEF Child
    <3>2. PICK n : n = N(x)
      OBVIOUS
    <3>3. n >= T /\ n \in Nat
      BY <1>2, <3>1, <3>2
    <3>4. n >= 1
      BY <3>3, DegreeAssumption
    <3>5. x = f.nodes[b]
      BY <1>1
    <3> QED
      BY <3>2, <3>4, <3>5
  <2>3. h - 1 <= f.count
    BY <1>2, <1>3
  <2>4. RemovePre(f, h - 1, b)
    BY <1>2, <2>1, <2>2, <2>3 DEF RemovePre
  <2> QED
    BY <1>1, <2>4 DEF RemoveWorks
<1>8. Turned(f, h - 1, nd.kids[j], r, es) /\ N(r.f.nodes[r.at]) >= T - 1
  <2>1. Turned(f, h - 1, b, r, es) /\ N(r.f.nodes[r.at]) >= N(x) - 1
    BY <1>1, <1>7 DEF RemovePost
  <2>2. N(x) \in Nat
    BY <1>5, DegreeAssumption DEF Child
  <2>3. PICK g : g = h - 1 /\ g \in Nat
    OBVIOUS
  <2>4. PICK n, l : n = N(r.f.nodes[r.at]) /\ l = N(x)
    OBVIOUS
  <2>5. n \in Nat
    <3>1. N(r.f.nodes[r.at]) \in Nat
      BY <2>1, <2>3, TurnedStores
    <3> QED
      BY <2>4, <3>1
  <2>6. n >= l - 1 /\ l \in Nat /\ l >= T
    BY <1>2, <2>1, <2>2, <2>4
  <2>7. n >= T - 1
    BY <2>5, <2>6, DegreeAssumption
  <2> QED
    BY <1>1, <2>1, <2>4, <2>7
<1>9. AllAdmitted(nd, j, es)
  BY <1>1, <1>6 DEF AllAdmitted, Without
<1>10. w = Relink(r, nd, at, j)
  BY <1>1
<1>11. Relinked(f, h, at, nd, w, fs)
  BY <1>1, <1>2, <1>8, <1>9, <1>10, KidRelinked
<1>12. fs = Without(E(ns, h, at), k)
  BY <1>1, <1>4, <1>6 DEF Without
<1> QED
  BY <1>1, <1>11, <1>12 DEF Relinked, Lost

\* The position that RemoveBelow() goes on with.
Onward(nd, i) == IF i > N(nd) + 1 THEN i - 1 ELSE i

\* After a change to node nd the node at result p has room below it where
\* position i was.
Refilled(p, nd, i, k) ==
  /\ N(p.f.nodes[p.at]) >= N(nd) - 1
  /\ Room(p, p.f.nodes[p.at], Onward(p.f.nodes[p.at], i), k)

(* The descent after a node and its children have been changed. *)
LEMMA RemoveAfterShift ==
  ASSUME Unique, NEW h \in Nat \ {0}, NEW k \in Int, NEW below, RemoveWorks(below, h - 1),
         NEW f, NEW at, RemovePre(f, h, at), NEW nd, nd = f.nodes[at],
         NEW p, Shifted(f, h, {at}, nd, p), NEW i, Refilled(p, nd, i, k),
         NEW w, w = RemoveBelow(p, i, k, below)
  PROVE  RemovePost(f, h, at, k, w)
<1>1. Fresh(f) /\ Ok(f.nodes, h, at) /\ h <= f.count
  BY DEF RemovePre
<1>2. f.nodes \in Heap /\ Len(f.nodes) \in Nat /\ f.count = Len(f.nodes) + 1
  BY <1>1, StoreFields DEF Fresh
<1>3. /\ E(f.nodes, h, at) = NE(f.nodes, h, nd)
      /\ B(f.nodes, h, at) = {at} \cup NB(f.nodes, h, nd)
      /\ B(f.nodes, h, at) \subseteq 1..Len(f.nodes)
      /\ Sound(f.nodes, h, nd)
  BY <1>1, <1>2, BlockIsNode, TreeContents
<1>4. N(nd) \in Nat
  BY <1>2, <1>3, SoundNode, EntriesOfNode
<1>5. PICK nd2, j, old, es, fs :
        /\ nd2 = p.f.nodes[p.at] /\ j = Onward(nd2, i)
        /\ old = B(f.nodes, h, at) /\ es = E(f.nodes, h, at)
        /\ fs = Without(es, k)
  OBVIOUS
<1>6. Moved(f, old, h, p, es) /\ at \notin B(p.f.nodes, h, p.at)
  BY <1>3, <1>5 DEF Shifted
<1>7. /\ Fresh(p.f) /\ Len(p.f.nodes) \in Nat /\ Len(f.nodes) <= Len(p.f.nodes)
      /\ Ok(p.f.nodes, h, p.at) /\ E(p.f.nodes, h, p.at) = es
  BY <1>6, MovedStores DEF Moved
<1>8. h <= p.f.count
  BY <1>1, <1>2, <1>7 DEF Fresh
<1>9. Room(p, nd2, j, k) /\ N(nd2) >= N(nd) - 1
  BY <1>5 DEF Refilled
<1>10. RemoveReady(p, h, nd2, j, k)
  BY <1>7, <1>8, <1>9 DEF RemoveReady
<1>11. w = Relink(below[[f |-> p.f, at |-> nd2.kids[j], k |-> k]], nd2, p.at, j)
  BY <1>5 DEF RemoveBelow, ReadNode, Onward
<1>12. Lost(p, h, nd2, k, w)
  BY <1>10, <1>11, RemoveDescends
<1>13. Turned(p.f, h, p.at, w, fs) /\ N(w.f.nodes[w.at]) = N(nd2)
  BY <1>5, <1>7, <1>12 DEF Lost, Keeps
<1>14. Turned(f, h, at, w, fs)
  BY <1>1, <1>5, <1>6, <1>13, TurnedThenTurned
<1> QED
  BY <1>5, <1>9, <1>13, <1>14 DEF RemovePost

-----------------------------------------------------------------------------
\* The facts of an inner node that is about to be changed in its own place.
Ready(f, h, at, nd, i, k) ==
  /\ Fresh(f)
  /\ at \in Nat
  /\ Sound(f.nodes, h, nd)
  /\ ~nd.leaf
  /\ N(nd) >= 1
  /\ Holds(f, h, {at}, nd)
  /\ i \in 1..(N(nd) + 1)

(* merge() of two minimal children, at position i or the one before it.    *)
LEMMA MergeRefills ==
  ASSUME Unique, NEW h \in Nat \ {0}, NEW k \in Int, NEW f, NEW at, NEW nd, NEW i,
         Ready(f, h, at, nd, i, k), NEW m, m = (IF i <= N(nd) THEN i ELSE i - 1),
         N(f.nodes[nd.kids[m]]) = T - 1, N(f.nodes[nd.kids[m + 1]]) = T - 1,
         Admits(nd, m, 1, k), NEW w, w = Merge(f, nd, at, m)
  PROVE  Shifted(f, h, {at}, nd, w) /\ Refilled(w, nd, i, k)
<1>1. /\ Fresh(f) /\ at \in Nat /\ Sound(f.nodes, h, nd) /\ ~nd.leaf /\ N(nd) >= 1
      /\ Holds(f, h, {at}, nd) /\ i \in 1..(N(nd) + 1)
  BY DEF Ready
<1>2. f.nodes \in Heap
  BY <1>1, StoreFields DEF Fresh
<1>3. N(nd) \in Nat /\ i \in Nat
  BY <1>1, <1>2, SoundNode, EntriesOfNode
<1>4. m \in 1..N(nd) /\ (m = i \/ (m = i - 1 /\ i = N(nd) + 1)) /\ (m = i => i <= N(nd))
  BY <1>1, <1>3
<1>5. Opening(f, h, nd, m, 1)
  BY <1>1, <1>3, <1>4 DEF Opening
<1>6. PICK A, nd2 : A = {at} /\ nd2 = w.f.nodes[w.at]
  OBVIOUS
<1>7. Holds(f, h, A, nd)
  BY <1>1, <1>6
<1>8. Shifted(f, h, A, nd, w)
  BY <1>1, <1>5, <1>6, <1>7, MergeShifts
<1>9. Room(w, w.f.nodes[w.at], m, k)
  BY <1>1, <1>5, <1>6, <1>7, MergeShifts
<1>10. N(nd2) = N(nd) - 1
  <2>1. N(w.f.nodes[w.at]) = N(nd) - 1
    BY <1>1, <1>5, <1>6, <1>7, MergeShifts
  <2> QED
    BY <1>6, <2>1
<1>11. Onward(nd2, i) = m
  BY <1>3, <1>4, <1>10 DEF Onward
<1>12. N(nd2) >= N(nd) - 1
  BY <1>3, <1>10
<1> QED
  BY <1>6, <1>8, <1>9, <1>11, <1>12 DEF Refilled

(* borrowFromPrev() and borrowFromNext(). *)
LEMMA PrevRefills ==
  ASSUME Unique, NEW h \in Nat \ {0}, NEW k \in Int, NEW f, NEW at, NEW nd, NEW i,
         Ready(f, h, at, nd, i, k), i > 1, Admits(nd, i, 0, k),
         N(f.nodes[nd.kids[i - 1]]) >= T, N(f.nodes[nd.kids[i]]) = T - 1,
         NEW w, w = BorrowFromPrev(f, nd, at, i)
  PROVE  Shifted(f, h, {at}, nd, w) /\ Refilled(w, nd, i, k)
<1>1. /\ Fresh(f) /\ at \in Nat /\ Sound(f.nodes, h, nd) /\ ~nd.leaf /\ N(nd) >= 1
      /\ Holds(f, h, {at}, nd) /\ i \in 1..(N(nd) + 1)
  BY DEF Ready
<1>2. f.nodes \in Heap
  BY <1>1, StoreFields DEF Fresh
<1>3. N(nd) \in Nat /\ i \in Nat
  BY <1>1, <1>2, SoundNode, EntriesOfNode
<1>4. PICK m, A, nd2 : m = i - 1 /\ A = {at} /\ nd2 = w.f.nodes[w.at]
  OBVIOUS
<1>5. m \in 1..N(nd) /\ i = m + 1 /\ N(f.nodes[nd.kids[m]]) >= T
  BY <1>1, <1>3, <1>4
<1>6. Opening(f, h, nd, m, 1) /\ Holds(f, h, A, nd)
  BY <1>1, <1>3, <1>4, <1>5 DEF Opening
<1>7. Shifted(f, h, A, nd, w)
  BY <1>1, <1>4, <1>5, <1>6, PrevShifts
<1>8. Keeps(w, nd)
  BY <1>1, <1>4, <1>5, <1>6, PrevShifts
<1>9. Room(w, w.f.nodes[w.at], i, k)
  BY <1>1, <1>4, <1>5, <1>6, PrevShifts
<1>10. N(nd2) = N(nd)
  BY <1>4, <1>8 DEF Keeps
<1>11. Onward(nd2, i) = i
  BY <1>1, <1>3, <1>10 DEF Onward
<1>12. N(nd2) >= N(nd) - 1
  BY <1>3, <1>10
<1> QED
  BY <1>4, <1>7, <1>9, <1>11, <1>12 DEF Refilled

(* A child that takes an entry from the next one can lose one. *)
LEMMA NextRefills ==
  ASSUME Unique, NEW h \in Nat \ {0}, NEW k \in Int, NEW f, NEW at, NEW nd, NEW i,
         Ready(f, h, at, nd, i, k), i <= N(nd), Admits(nd, i, 0, k),
         N(f.nodes[nd.kids[i]]) = T - 1, N(f.nodes[nd.kids[i + 1]]) >= T,
         NEW w, w = BorrowFromNext(f, nd, at, i)
  PROVE  Shifted(f, h, {at}, nd, w) /\ Refilled(w, nd, i, k)
<1>1. /\ Fresh(f) /\ at \in Nat /\ Sound(f.nodes, h, nd) /\ ~nd.leaf /\ N(nd) >= 1
      /\ Holds(f, h, {at}, nd) /\ i \in 1..(N(nd) + 1)
  BY DEF Ready
<1>2. f.nodes \in Heap
  BY <1>1, StoreFields DEF Fresh
<1>3. N(nd) \in Nat /\ i \in Nat
  BY <1>1, <1>2, SoundNode, EntriesOfNode
<1>4. PICK m, A, nd2 : m = i /\ A = {at} /\ nd2 = w.f.nodes[w.at]
  OBVIOUS
<1>5. m \in 1..N(nd) /\ i = m /\ N(f.nodes[nd.kids[m + 1]]) >= T
  BY <1>1, <1>3, <1>4
<1>6. Opening(f, h, nd, m, 1) /\ Holds(f, h, A, nd)
  BY <1>1, <1>3, <1>4, <1>5 DEF Opening
<1>7. Shifted(f, h, A, nd, w)
  BY <1>1, <1>4, <1>5, <1>6, NextShifts
<1>8. Keeps(w, nd)
  BY <1>1, <1>4, <1>5, <1>6, NextShifts
<1>9. Room(w, w.f.nodes[w.at], i, k)
  BY <1>1, <1>4, <1>5, <1>6, NextShifts
<1>10. N(nd2) = N(nd)
  BY <1>4, <1>8 DEF Keeps
<1>11. Onward(nd2, i) = i
  BY <1>1, <1>3, <1>10 DEF Onward
<1>12. N(nd2) >= N(nd) - 1
  BY <1>3, <1>10
<1> QED
  BY <1>4, <1>7, <1>9, <1>11, <1>12 DEF Refilled

(* A key that belongs below a child belongs in the window of that child    *)
(* and a neighbour.                                                        *)
LEMMA AdmitsWider ==
  ASSUME NEW nd \in Node, Filled(nd), NEW i, i \in 1..(N(nd) + 1), N(nd) >= 1,
         NEW k, Admits(nd, i, 0, k), NEW m, m = (IF i <= N(nd) THEN i ELSE i - 1)
  PROVE  Admits(nd, m, 1, k)
<1>1. N(nd) \in Nat /\ i \in Nat
  BY EntriesOfNode
<1>2. m \in 1..N(nd) /\ m \in Nat /\ (m = i \/ m = i - 1)
  BY <1>1
<1>3. ASSUME NEW j \in 1..(m - 1) PROVE Key(nd.ents[j]) < k
  <2>1. j \in 1..(i - 1)
    BY <1>1, <1>2
  <2> QED
    BY <2>1 DEF Admits
<1>4. ASSUME NEW j \in (m + 1)..N(nd) PROVE k < Key(nd.ents[j])
  <2>1. j \in (i + 0)..N(nd)
    BY <1>1, <1>2
  <2> QED
    BY <2>1 DEF Admits
<1> QED
  BY <1>3, <1>4 DEF Admits

(* fill() on a child that has none to spare. *)
LEMMA FillRefills ==
  ASSUME Unique, NEW h \in Nat \ {0}, NEW k \in Int, NEW f, NEW at, NEW nd, NEW i,
         Ready(f, h, at, nd, i, k), Admits(nd, i, 0, k), ~CanLend(f, nd.kids[i]),
         NEW w, w = Fill(f, nd, at, i)
  PROVE  Shifted(f, h, {at}, nd, w) /\ Refilled(w, nd, i, k)
<1>1. /\ Fresh(f) /\ at \in Nat /\ Sound(f.nodes, h, nd) /\ ~nd.leaf /\ N(nd) >= 1
      /\ Holds(f, h, {at}, nd) /\ i \in 1..(N(nd) + 1)
  BY DEF Ready
<1>2. f.nodes \in Heap
  BY <1>1, StoreFields DEF Fresh
<1>3. N(nd) \in Nat /\ i \in Nat /\ nd \in Node /\ Filled(nd)
  BY <1>1, <1>2, SoundNode, EntriesOfNode
<1>4. ASSUME NEW j, j \in 1..(N(nd) + 1), ~CanLend(f, nd.kids[j])
      PROVE  N(f.nodes[nd.kids[j]]) = T - 1
  <2>1. PICK x : x = f.nodes[nd.kids[j]]
    OBVIOUS
  <2>2. Child(f, h, nd, j, x)
    BY <1>1, <1>4, <2>1, ChildOfNode
  <2>3. N(x) \in (T - 1)..(2 * T - 1) /\ ~(N(x) >= T)
    BY <1>4, <2>1, <2>2 DEF Child, CanLend, ReadNode
  <2> QED
    BY <2>1, <2>3, DegreeAssumption
<1>5. N(f.nodes[nd.kids[i]]) = T - 1
  BY <1>1, <1>4
<1>6. CASE i > 1 /\ CanLend(f, nd.kids[i - 1])
  <2>1. w = BorrowFromPrev(f, nd, at, i)
    BY <1>6 DEF Fill
  <2>2. N(f.nodes[nd.kids[i - 1]]) >= T
    BY <1>6 DEF CanLend, ReadNode
  <2> QED
    BY <1>5, <1>6, <2>1, <2>2, PrevRefills
<1>7. CASE ~(i > 1 /\ CanLend(f, nd.kids[i - 1])) /\ i <= N(nd) /\ CanLend(f, nd.kids[i + 1])
  <2>1. w = BorrowFromNext(f, nd, at, i)
    BY <1>7 DEF Fill
  <2>2. N(f.nodes[nd.kids[i + 1]]) >= T
    BY <1>7 DEF CanLend, ReadNode
  <2> QED
    BY <1>5, <1>7, <2>1, <2>2, NextRefills
<1>8. CASE /\ ~(i > 1 /\ CanLend(f, nd.kids[i - 1]))
           /\ ~(i <= N(nd) /\ CanLend(f, nd.kids[i + 1]))
  <2>1. PICK m : m = IF i <= N(nd) THEN i ELSE i - 1
    OBVIOUS
  <2>2. w = Merge(f, nd, at, m)
    BY <1>8, <2>1 DEF Fill
  <2>3. m \in 1..N(nd) /\ m + 1 \in 1..(N(nd) + 1) /\ m \in 1..(N(nd) + 1)
    BY <1>1, <1>3, <2>1
  <2>4. N(f.nodes[nd.kids[m]]) = T - 1 /\ N(f.nodes[nd.kids[m + 1]]) = T - 1
    <3>1. CASE i <= N(nd)
      <4>1. m = i /\ ~CanLend(f, nd.kids[m + 1])
        BY <1>8, <2>1, <3>1
      <4> QED
        BY <1>4, <1>5, <2>3, <4>1
    <3>2. CASE ~(i <= N(nd))
      <4>1. m = i - 1 /\ m + 1 = i /\ i > 1 /\ ~CanLend(f, nd.kids[m])
        BY <1>1, <1>3, <1>8, <2>1, <3>2
      <4> QED
        BY <1>4, <1>5, <2>3, <4>1
    <3> QED
      BY <3>1, <3>2
  <2>5. Admits(nd, m, 1, k)
    BY <1>1, <1>3, <2>1, AdmitsWider
  <2> QED
    BY <2>1, <2>2, <2>4, <2>5, MergeRefills
<1> QED
  BY <1>6, <1>7, <1>8

-----------------------------------------------------------------------------
(* One call of removeRecursive(), if the calls below it work: on a leaf    *)
(* with the key.                                                           *)
LEMMA RemoveFromLeaf ==
  ASSUME Unique, NEW h \in Nat \ {0}, NEW k \in Int, NEW f, NEW at, NEW nd, NEW i,
         Standing(f, h, at, k, nd, i), HasKeyAt(nd, i, k), nd.leaf,
         NEW w, w = Replace(f, Leaf(Seqs!RemoveAt(nd.ents, i)), at)
  PROVE  RemovePost(f, h, at, k, w)
<1>1. /\ Fresh(f) /\ Ok(f.nodes, h, at) /\ nd = f.nodes[at]
      /\ f.nodes \in Heap /\ Sound(f.nodes, h, nd) /\ N(nd) \in Nat
      /\ E(f.nodes, h, at) = NE(f.nodes, h, nd)
      /\ i \in 1..N(nd) /\ Key(nd.ents[i]) = k
  BY DEF Standing, PlaceOf
<1>2. h = 1
  BY <1>1, Zenon DEF Sound
<1>3. PICK nd2, es, ns : /\ nd2 = Leaf(Seqs!RemoveAt(nd.ents, i))
                         /\ es = NE(f.nodes, h, nd2) /\ ns = f.nodes
  OBVIOUS
<1>4. ns \in Heap /\ Sound(ns, 1, nd)
  BY <1>1, <1>2, <1>3
<1>5. Sound(ns, 1, nd2) /\ NB(ns, 1, nd2) = NB(ns, 1, nd)
  BY <1>1, <1>3, <1>4, LeafRemoved
<1>6. NE(ns, 1, nd2) = Without(NE(ns, 1, nd), Key(nd.ents[i]))
  BY <1>1, <1>3, <1>4, LeafRemoved
<1>7. N(nd2) = N(nd) - 1
  BY <1>1, <1>3, <1>4, LeafRemoved
<1>8. Turned(f, h, at, w, es) /\ w.f.nodes[w.at] = nd2
  BY <1>1, <1>2, <1>3, <1>5, NodeReplaced
<1>9. es = Without(E(f.nodes, h, at), k)
  BY <1>1, <1>2, <1>3, <1>6
<1>10. N(w.f.nodes[w.at]) >= N(f.nodes[at]) - 1
  <2>1. PICK l : l = N(nd) /\ l \in Nat
    BY <1>1
  <2>2. N(w.f.nodes[w.at]) = l - 1 /\ N(f.nodes[at]) = l
    BY <1>1, <1>7, <1>8, <2>1
  <2> QED
    BY <2>1, <2>2
<1> QED
  BY <1>8, <1>9, <1>10 DEF RemovePost

\* Key k is at position i of an inner node from which it can be removed.
Found(f, h, at, k, nd, i) ==
  Standing(f, h, at, k, nd, i) /\ RemovePre(f, h, at) /\ HasKeyAt(nd, i, k) /\ ~nd.leaf

(* On an inner node with the key, by an entry of a child that has one to   *)
(* spare.                                                                  *)
LEMMA RemoveExchanges ==
  ASSUME Unique, NEW h \in Nat \ {0}, NEW k \in Int, NEW below, RemoveWorks(below, h - 1),
         NEW f, NEW at, NEW nd, NEW i, Found(f, h, at, k, nd, i),
         NEW e, NEW j, Replaces(f, h, nd, i, e, j), CanLend(f, nd.kids[j]),
         NEW c, c.f = f, c.at = at, NEW w, w = RemoveReplacement(c, nd, i, e, j, below)
  PROVE  RemovePost(f, h, at, k, w)
<1>1. /\ Fresh(f) /\ Ok(f.nodes, h, at) /\ h <= f.count /\ nd = f.nodes[at] /\ ~nd.leaf
      /\ f.nodes \in Heap /\ Sound(f.nodes, h, nd) /\ N(nd) \in Nat
      /\ i \in 1..N(nd) /\ Key(nd.ents[i]) = k /\ f.count \in Nat
  BY StoreFields DEF Found, Standing, PlaceOf, RemovePre, Fresh
<1>2. j \in {i, i + 1} /\ j \in 1..(N(nd) + 1)
  BY <1>1 DEF Replaces
<1>3. PICK b, x, es, r : /\ b = nd.kids[j] /\ x = f.nodes[b]
                         /\ es = Without(E(f.nodes, h - 1, b), Key(e))
                         /\ r = below[[f |-> f, at |-> b, k |-> Key(e)]]
  OBVIOUS
<1>4. Child(f, h, nd, j, x)
  BY <1>1, <1>2, <1>3, ChildOfNode
<1>5. Key(e) \in Int
  <2>1. e \in Entry
    BY <1>1, ReplacesAround
  <2> QED
    BY <2>1, Order
<1>6. N(x) >= T /\ N(x) \in Nat
  <2>1. N(x) \in Nat
    BY <1>4, DegreeAssumption DEF Child
  <2> QED
    BY <1>3, <2>1 DEF CanLend, ReadNode
<1>7. RemovePost(f, h - 1, b, Key(e), r)
  <2>1. Ok(f.nodes, h - 1, b)
    BY <1>3, <1>4 DEF Child
  <2>2. N(f.nodes[b]) >= 1
    BY <1>3, <1>6, DegreeAssumption
  <2>3. h - 1 <= f.count
    BY <1>1
  <2>4. RemovePre(f, h - 1, b)
    BY <1>1, <2>1, <2>2, <2>3 DEF RemovePre
  <2> QED
    BY <1>3, <1>5, <2>4 DEF RemoveWorks
<1>8. Turned(f, h - 1, nd.kids[j], r, es) /\ N(r.f.nodes[r.at]) >= T - 1
  <2>1. Turned(f, h - 1, b, r, es) /\ N(r.f.nodes[r.at]) >= N(x) - 1
    BY <1>3, <1>7 DEF RemovePost
  <2>2. PICK n, l : n = N(r.f.nodes[r.at]) /\ l = N(x)
    OBVIOUS
  <2>3. n \in Nat
    <3>1. PICK g : g = h - 1 /\ g \in Nat
      OBVIOUS
    <3>2. N(r.f.nodes[r.at]) \in Nat
      BY <2>1, <3>1, TurnedStores
    <3> QED
      BY <2>2, <3>2
  <2>4. n >= l - 1 /\ l \in Nat /\ l >= T
    BY <1>6, <2>1, <2>2
  <2>5. n >= T - 1
    BY <2>3, <2>4, DegreeAssumption
  <2> QED
    BY <1>3, <2>1, <2>2, <2>5
<1>9. w = Rewrite(r, WithEntry(nd, i, e), at, j)
  BY <1>3 DEF RemoveReplacement
<1>10. PICK fs : fs = Without(E(f.nodes, h, at), Key(nd.ents[i]))
  OBVIOUS
<1>11. es = Without(E(f.nodes, h - 1, nd.kids[j]), Key(e))
  BY <1>3
<1>12. Turned(f, h, at, w, fs) /\ Keeps(w, nd)
  <2>1. /\ Ok(f.nodes, h, at) /\ nd = f.nodes[at] /\ ~nd.leaf /\ i \in 1..N(nd)
        /\ Turned(f, h - 1, nd.kids[j], r, es)
        /\ N(r.f.nodes[r.at]) >= T - 1
    BY <1>1, <1>8
  <2>2. Exchanged(f, h, at, nd, w, fs)
    BY <1>9, <1>10, <1>11, <2>1, EntryExchanged
  <2> QED
    BY <2>2 DEF Exchanged
<1>13. N(w.f.nodes[w.at]) >= N(f.nodes[at]) - 1
  BY <1>1, <1>12 DEF Keeps
<1> QED
  BY <1>1, <1>10, <1>12, <1>13 DEF RemovePost

(* The three cases of removeFromNonLeaf(). *)
LEMMA RemoveFromInner ==
  ASSUME Unique, NEW h \in Nat \ {0}, NEW k \in Int, NEW below, RemoveWorks(below, h - 1),
         NEW f, NEW at, NEW nd, NEW i, Found(f, h, at, k, nd, i),
         NEW c, c = [f |-> f, at |-> at, k |-> k],
         NEW w, w = RemoveFromNonLeaf(c, nd, i, below)
  PROVE  RemovePost(f, h, at, k, w)
<1>1. /\ Fresh(f) /\ Ok(f.nodes, h, at) /\ h <= f.count /\ nd = f.nodes[at] /\ ~nd.leaf
      /\ f.nodes \in Heap /\ Sound(f.nodes, h, nd) /\ N(nd) \in Nat /\ N(nd) >= 1
      /\ i \in 1..N(nd) /\ Key(nd.ents[i]) = k /\ Admits(nd, i, 1, k)
      /\ f.count \in Nat /\ at \in 1..Len(f.nodes) /\ at \in Nat
      /\ at \notin NB(f.nodes, h, nd)
  BY StoreFields DEF Found, Standing, PlaceOf, RemovePre, Fresh
<1>2. i \in 1..(N(nd) + 1) /\ i + 1 \in 1..(N(nd) + 1) /\ i <= N(nd)
  BY <1>1
<1>3. c.f = f /\ c.at = at /\ c.k = k
  OBVIOUS
<1>4. PICK l, b, b2, x, y : /\ l = h - 1 /\ b = nd.kids[i] /\ b2 = nd.kids[i + 1]
                            /\ x = f.nodes[b] /\ y = f.nodes[b2]
  OBVIOUS
<1>5. Child(f, h, nd, i, x)
  BY <1>1, <1>2, <1>4, ChildOfNode
<1>6. Child(f, h, nd, i + 1, y)
  BY <1>1, <1>2, <1>4, ChildOfNode
<1>7. /\ l \in Nat /\ f.count >= l
      /\ Ok(f.nodes, l, b) /\ N(x) \in (T - 1)..(2 * T - 1)
      /\ Ok(f.nodes, l, b2) /\ N(y) \in (T - 1)..(2 * T - 1)
  <2>1. l \in Nat /\ f.count >= l
    BY <1>1, <1>4
  <2> QED
    BY <1>4, <1>5, <1>6, <2>1 DEF Child
<1>8. CASE CanLend(f, b)
  <2>1. PICK e : e = Seqs!Last(GetPred[f.count][[f |-> f, at |-> b, k |-> k]].ents)
    OBVIOUS
  <2>2. N(f.nodes[b]) >= 1
    BY <1>4, <1>7, DegreeAssumption
  <2>3. Greatest(E(f.nodes, l, b), e)
    BY <1>1, <1>7, <2>1, <2>2, PredFinds
  <2>4. Replaces(f, h, nd, i, e, i)
    BY <1>4, <2>3 DEF Replaces
  <2>5. w = RemoveReplacement(c, nd, i, e, i, below)
    <3>1. [c EXCEPT !.at = nd.kids[i]] = [f |-> f, at |-> b, k |-> k]
      BY <1>4
    <3> QED
      BY <1>3, <1>4, <1>8, <2>1, <3>1 DEF RemoveFromNonLeaf
  <2> QED
    BY <1>3, <1>4, <1>8, <2>4, <2>5, RemoveExchanges
<1>9. CASE ~CanLend(f, b) /\ CanLend(f, b2)
  <2>1. PICK e, j : /\ e = Head(GetSucc[f.count][[f |-> f, at |-> b2, k |-> k]].ents)
                    /\ j = i + 1
    OBVIOUS
  <2>2. N(f.nodes[b2]) >= 1
    BY <1>4, <1>7, DegreeAssumption
  <2>3. Least(E(f.nodes, l, b2), e)
    BY <1>1, <1>7, <2>1, <2>2, SuccFinds
  <2>4. Replaces(f, h, nd, i, e, j)
    BY <1>4, <2>1, <2>3 DEF Replaces
  <2>5. w = RemoveReplacement(c, nd, i, e, j, below)
    <3>1. [c EXCEPT !.at = nd.kids[i + 1]] = [f |-> f, at |-> b2, k |-> k]
      BY <1>4
    <3> QED
      BY <1>3, <1>4, <1>9, <2>1, <3>1 DEF RemoveFromNonLeaf
  <2>6. CanLend(f, nd.kids[j])
    BY <1>4, <1>9, <2>1
  <2> QED
    BY <1>3, <2>4, <2>5, <2>6, RemoveExchanges
<1>10. CASE ~CanLend(f, b) /\ ~CanLend(f, b2)
  <2>1. N(f.nodes[nd.kids[i]]) = T - 1 /\ N(f.nodes[nd.kids[i + 1]]) = T - 1
    BY <1>4, <1>7, <1>10, DegreeAssumption DEF CanLend, ReadNode
  <2>2. Ready(f, h, at, nd, i, k)
    BY <1>1, <1>2 DEF Ready, Holds
  <2>3. PICK p, m : p = Merge(f, nd, at, m) /\ m = IF i <= N(nd) THEN i ELSE i - 1
    OBVIOUS
  <2>4. m = i
    BY <1>2, <2>3
  <2>5. Shifted(f, h, {at}, nd, p) /\ Refilled(p, nd, i, k)
    BY <1>1, <2>1, <2>2, <2>3, <2>4, MergeRefills
  <2>6. w = RemoveBelow(p, i, k, below)
    BY <1>3, <1>4, <1>10, <2>3, <2>4 DEF RemoveFromNonLeaf
  <2>7. RemovePre(f, h, at)
    BY DEF Found
  <2> QED
    BY <1>1, <2>5, <2>6, <2>7, RemoveAfterShift
<1> QED
  BY <1>8, <1>9, <1>10

-----------------------------------------------------------------------------
(***************************************************************************)
(* removeRec() and remove().                                               *)
(***************************************************************************)

(* On any node. *)
LEMMA RemoveOneLevel ==
  ASSUME Unique, NEW h \in Nat \ {0}, NEW k \in Int, NEW below, RemoveWorks(below, h - 1),
         NEW f, NEW at, RemovePre(f, h, at),
         NEW w, w = RemoveNode([f |-> f, at |-> at, k |-> k], below)
  PROVE  RemovePost(f, h, at, k, w)
<1>1. PICK nd, i, c : /\ nd = f.nodes[at] /\ i = FindKey(nd, k)
                      /\ c = [f |-> f, at |-> at, k |-> k]
  OBVIOUS
<1>2. Fresh(f) /\ Ok(f.nodes, h, at) /\ h <= f.count /\ N(nd) >= 1
  BY <1>1 DEF RemovePre
<1>3. Standing(f, h, at, k, nd, i)
  BY <1>1, <1>2, Stands
<1>4. /\ at # NoBlock /\ at \in Nat /\ N(nd) \in Nat /\ Sound(f.nodes, h, nd)
      /\ Holds(f, h, {at}, nd)
      /\ i \in 1..(N(nd) + 1)
      /\ ~HasKeyAt(nd, i, k) => Admits(nd, i, 0, k)
  BY <1>3 DEF Standing, PlaceOf, Holds
<1>5. CASE HasKeyAt(nd, i, k) /\ nd.leaf
  <2>1. w = Replace(f, Leaf(Seqs!RemoveAt(nd.ents, i)), at)
    BY <1>1, <1>4, <1>5 DEF RemoveNode, ReadNode
  <2> QED
    BY <1>3, <1>5, <2>1, RemoveFromLeaf
<1>6. CASE HasKeyAt(nd, i, k) /\ ~nd.leaf
  <2>1. w = RemoveFromNonLeaf(c, nd, i, below)
    BY <1>1, <1>4, <1>6 DEF RemoveNode, ReadNode
  <2>2. Found(f, h, at, k, nd, i)
    BY <1>3, <1>6 DEF Found
  <2> QED
    BY <1>1, <2>1, <2>2, RemoveFromInner
<1>7. CASE ~HasKeyAt(nd, i, k) /\ nd.leaf
  <2>1. w = [f |-> f, at |-> at]
    BY <1>1, <1>4, <1>7 DEF RemoveNode, ReadNode
  <2>2. PICK es : es = E(f.nodes, h, at)
    OBVIOUS
  <2>3. Turned(f, h, at, w, es)
    BY <1>2, <2>1, <2>2, Unchanged
  <2>4. es = Without(E(f.nodes, h, at), k)
    <3>1. \A d \in E(f.nodes, h, at) : Key(d) # k
      BY <1>3, <1>7, AbsentFromLeaf
    <3> QED
      BY <2>2, <3>1 DEF Without
  <2>5. N(w.f.nodes[w.at]) >= N(f.nodes[at]) - 1
    BY <1>1, <1>4, <2>1
  <2> QED
    BY <2>3, <2>4, <2>5 DEF RemovePost
<1>8. CASE ~HasKeyAt(nd, i, k) /\ ~nd.leaf /\ ~CanLend(f, nd.kids[i])
  <2>1. PICK p : p = Fill(f, nd, at, i)
    OBVIOUS
  <2>2. w = RemoveBelow(p, i, k, below)
    BY <1>1, <1>4, <1>8, <2>1 DEF RemoveNode, ReadNode
  <2>3. Ready(f, h, at, nd, i, k)
    BY <1>2, <1>4, <1>8 DEF Ready
  <2>4. Shifted(f, h, {at}, nd, p) /\ Refilled(p, nd, i, k)
    BY <1>4, <1>8, <2>1, <2>3, FillRefills
  <2> QED
    BY <1>1, <2>2, <2>4, RemoveAfterShift
<1>9. CASE ~HasKeyAt(nd, i, k) /\ ~nd.leaf /\ CanLend(f, nd.kids[i])
  <2>1. PICK p : p = [f |-> f, at |-> at]
    OBVIOUS
  <2>2. w = Relink(below[[f |-> p.f, at |-> nd.kids[i], k |-> k]], nd, p.at, i)
    BY <1>1, <1>4, <1>9, <2>1 DEF RemoveNode, ReadNode
  <2>3. RemoveReady(p, h, nd, i, k)
    BY <1>1, <1>2, <1>4, <1>9, <2>1 DEF RemoveReady, Room, CanLend, ReadNode
  <2>4. Lost(p, h, nd, k, w)
    BY <2>2, <2>3, RemoveDescends
  <2>5. Turned(f, h, at, w, Without(E(f.nodes, h, at), k)) /\ N(w.f.nodes[w.at]) = N(nd)
    BY <2>1, <2>4 DEF Lost, Keeps
  <2>6. N(w.f.nodes[w.at]) >= N(f.nodes[at]) - 1
    BY <1>1, <1>4, <2>5
  <2> QED
    BY <2>5, <2>6 DEF RemovePost
<1> QED
  BY <1>5, <1>6, <1>7, <1>8, <1>9

(* removeRecursive() removes, however many more levels it might go down.   *)
LEMMA RemoveLevels ==
  ASSUME Unique
  PROVE  \A h \in Nat : \A g \in Nat : g >= h => RemoveWorks(RemoveRec[g], h)
<1> DEFINE Good == {h \in Nat : \A g \in Nat : g >= h => RemoveWorks(RemoveRec[g], h)}
<1>1. 0 \in Good
  <2>1. ASSUME NEW f, NEW at, Fresh(f) PROVE ~Ok(f.nodes, 0, at)
    <3>1. f.nodes \in Heap
      BY <2>1, StoreFields DEF Fresh
    <3> QED
      BY <3>1, TreeIsSound
  <2> QED
    BY <2>1 DEF RemoveWorks, RemovePre
<1>2. ASSUME NEW m \in Nat, m \in Good PROVE m + 1 \in Good
  <2> SUFFICES ASSUME NEW g \in Nat, g >= m + 1, NEW f, NEW at, NEW k \in Int,
                      RemovePre(f, m + 1, at)
               PROVE  RemovePost(f, m + 1, at, k, RemoveRec[g][[f |-> f, at |-> at, k |-> k]])
    BY DEF RemoveWorks
  <2>1. PICK h, below, c, w :
          /\ h = m + 1
          /\ below = RemoveRec[g - 1]
          /\ c = [f |-> f, at |-> at, k |-> k]
          /\ w = RemoveRec[g][c]
    OBVIOUS
  <2>2. h \in Nat \ {0} /\ h - 1 = m /\ g \in Nat \ {0} /\ g - 1 \in Nat /\ g - 1 >= m
    BY <2>1
  <2>3. RemoveWorks(below, h - 1)
    BY <1>2, <2>1, <2>2
  <2>4. c \in Searches
    <3>1. Fresh(f) /\ Ok(f.nodes, h, at)
      BY <2>1 DEF RemovePre
    <3>2. f \in Stores /\ f.nodes \in Heap /\ Len(f.nodes) \in Nat /\ at \in 1..Len(f.nodes)
      BY <3>1, StoreFields DEF Fresh, Ok
    <3>3. at \in Nat
      BY <3>2
    <3> QED
      BY <2>1, <3>2, <3>3 DEF Searches
  <2>5. w = RemoveNode(c, below)
    BY <2>1, <2>2, <2>4, RemoveUnfolds
  <2>6. RemovePre(f, h, at)
    BY <2>1
  <2>7. RemovePost(f, h, at, k, w)
    BY <2>1, <2>2, <2>3, <2>5, <2>6, RemoveOneLevel
  <2> QED
    BY <2>1, <2>7
<1> HIDE DEF Good
<1>3. \A h \in Nat : h \in Good
  BY <1>1, <1>2, NumberInduction
<1> QED
  BY <1>3 DEF Good

-----------------------------------------------------------------------------
\* In tree r, which at has turned into, root nd has no entry, and w puts its child d, if
\* it has one, in its place.
Emptied(f, h, at, r, es, nd, d, w) ==
  /\ Ok(f.nodes, h, at)
  /\ h \in 1..Len(f.nodes)
  /\ Turned(f, h, at, r, es)
  /\ nd = r.f.nodes[r.at]
  /\ N(nd) = 0
  /\ nd.leaf => d = NoBlock
  /\ ~nd.leaf => d = Head(nd.kids)
  /\ w = Freeing([f |-> r.f, at |-> d], <<r.at>>)

(* A root that is left without entries, with its child in its place. *)
LEMMA RootCollapses ==
  ASSUME Unique, NEW f, NEW h \in Nat, NEW at, NEW r, NEW es, NEW nd, NEW d, NEW w,
         Emptied(f, h, at, r, es, nd, d, w)
  PROVE  \E g \in Nat : Replanted(f, h, at, w, g, es)
<1>1. /\ Ok(f.nodes, h, at) /\ h \in 1..Len(f.nodes) /\ Turned(f, h, at, r, es)
      /\ nd = r.f.nodes[r.at] /\ N(nd) = 0
      /\ nd.leaf => d = NoBlock
      /\ ~nd.leaf => d = Head(nd.kids)
  BY DEF Emptied
<1>2. /\ Turns(f, B(f.nodes, h, at), r.f, B(r.f.nodes, h, r.at))
      /\ Ok(r.f.nodes, h, r.at) /\ E(r.f.nodes, h, r.at) = es
  BY <1>1 DEF Turned, Moved
<1>3. PICK ns, a, b, c, q, s :
        /\ ns = r.f.nodes /\ a = B(f.nodes, h, at) /\ b = B(r.f.nodes, h, r.at)
        /\ c = b \ {r.at} /\ q = [f |-> r.f, at |-> d] /\ s = <<r.at>>
  OBVIOUS
<1>4. /\ Fresh(f) /\ Fresh(r.f) /\ ns \in Heap /\ r.f \in Stores
      /\ Len(f.nodes) \in Nat /\ Len(ns) \in Nat /\ Len(f.nodes) <= Len(ns)
      /\ b \subseteq a \cup New(f, r.f)
  BY <1>2, <1>3, TurnsStores
<1>5. Sound(ns, h, nd) /\ h \in Nat \ {0} /\ h - 1 \in Nat /\ r.at \in Nat
  <2>1. Ok(ns, h, r.at)
    BY <1>2, <1>3
  <2>2. r.at \in 1..Len(ns) /\ Sound(ns, h, ns[r.at]) /\ h \in Nat \ {0} /\ h - 1 \in Nat
    BY <1>4, <2>1, BlockIsNode
  <2> QED
    BY <1>1, <1>3, <1>4, <2>2
<1>6. es = NE(ns, h, nd) /\ b = {r.at} \cup NB(ns, h, nd) /\ r.at \notin NB(ns, h, nd)
  BY <1>1, <1>2, <1>3, <1>4, TreeContents, RootApart
<1>7. c = NB(ns, h, nd)
  BY <1>3, <1>6
<1>8. w.f.nodes = ns /\ w.at = d /\ Turns(f, a, w.f, c)
  <2>1. w = Freeing(q, s)
    BY <1>3 DEF Emptied
  <2>2. q.f = r.f /\ q.at = d
    BY <1>3
  <2>3. w.f.nodes = ns /\ w.at = d
    <3>1. q.f \in Stores
      BY <1>4, <2>2
    <3>2. w.at = q.at /\ w.f.nodes = q.f.nodes
      BY <2>1, <3>1, FreeingKeeps
    <3> QED
      BY <1>3, <2>2, <3>2
  <2>4. s \in Seq(Nat) /\ Seqs!ToSet(s) = {r.at}
    <3>1. s \in Seq(Nat) /\ Len(s) = 1 /\ s[1] = r.at
      BY <1>3, <1>5
    <3> QED
      BY <3>1 DEF Seqs!ToSet
  <2>5. Seqs!ToSet(s) \subseteq a \cup New(f, q.f)
    BY <1>4, <1>6, <2>2, <2>4
  <2>6. Turns(f, a, q.f, b)
    BY <1>2, <1>3, <2>2
  <2>7. c = b \ Seqs!ToSet(s)
    BY <1>3, <2>4
  <2>8. Turns(f, a, w.f, c)
    BY <2>1, <2>2, <2>4, <2>5, <2>6, <2>7, TurnsFree
  <2> QED
    BY <2>3, <2>8
<1>9. /\ nd \in Node /\ Filled(nd) /\ nd.ents \in Seq(Entry) /\ nd.kids \in Seq(Nat)
      /\ DOMAIN nd.kids = 1..Len(nd.kids)
      /\ nd.leaf => Len(nd.kids) = 0
      /\ ~nd.leaf => Len(nd.kids) = 1
  <2>1. nd \in Node /\ Filled(nd)
    BY <1>4, <1>5, SoundNode
  <2>2. nd.ents \in Seq(Entry) /\ nd.kids \in Seq(Nat)
    BY <2>1, EntriesOfNode
  <2>3. (nd.leaf => Len(nd.kids) = 0) /\ (~nd.leaf => Len(nd.kids) = N(nd) + 1)
    BY <2>1, Zenon DEF Filled
  <2> QED
    BY <1>1, <2>1, <2>2, <2>3
<1>10. Seqs!ToSet(nd.ents) = {}
  <2>1. Len(nd.ents) = 0
    BY <1>1 DEF N
  <2> QED
    BY <1>9, <2>1 DEF Seqs!ToSet
<1>11. CASE nd.leaf
  <2>1. es = {} /\ c = {}
    <3>1. DOMAIN nd.kids = {}
      BY <1>9, <1>11
    <3> QED
      BY <1>6, <1>7, <1>10, <3>1 DEF NE, NB
  <2>2. E(ns, 0, NoBlock) = {} /\ B(ns, 0, NoBlock) = {}
    BY <1>4, EmptyTree
  <2>3. d = NoBlock
    BY <1>1, <1>11
  <2>4. Replanted(f, h, at, w, 0, es)
    BY <1>3, <1>8, <2>1, <2>2, <2>3 DEF Replanted, Planted
  <2> QED
    BY <2>4
<1>12. CASE ~nd.leaf
  <2>1. d = nd.kids[1] /\ DOMAIN nd.kids = {1}
    <3>1. d = Head(nd.kids) /\ Len(nd.kids) = 1
      BY <1>1, <1>9, <1>12
    <3> QED
      BY <1>9, <3>1
  <2>2. es = E(ns, h - 1, d) /\ c = B(ns, h - 1, d)
    BY <1>6, <1>7, <1>10, <2>1 DEF NE, NB
  <2>3. Ok(ns, h - 1, d) /\ N(ns[d]) >= T - 1
    BY <1>5, <2>1 DEF Sound, Below
  <2>4. N(ns[d]) >= 1
    <3>1. N(ns[d]) \in Nat
      <4>1. PICK g, x : g = h - 1 /\ x = ns[d]
        OBVIOUS
      <4>2. Sound(ns, g, x) /\ g \in Nat \ {0}
        BY <1>4, <1>5, <2>3, <4>1, BlockIsNode
      <4>3. N(x) \in Nat
        BY <1>4, <4>2, SoundNode, EntriesOfNode
      <4> QED
        BY <4>1, <4>3
    <3>2. PICK n : n = N(ns[d])
      OBVIOUS
    <3>3. n \in Nat /\ n >= T - 1
      BY <2>3, <3>1, <3>2
    <3>4. n >= 1
      BY <3>3, DegreeAssumption
    <3> QED
      BY <3>2, <3>4
  <2>5. h - 1 \in 1..Len(ns)
    <3>1. PICK g : g = h - 1
      OBVIOUS
    <3>2. g \in Nat /\ Ok(ns, g, d)
      BY <1>5, <2>3, <3>1
    <3>3. g \in Nat \ {0}
      BY <1>4, <3>2, BlockIsNode
    <3> QED
      BY <1>1, <1>4, <3>1, <3>3
  <2>6. Planted(ns, h - 1, d)
    BY <2>3, <2>4, <2>5 DEF Planted
  <2>7. Replanted(f, h, at, w, h - 1, es)
    BY <1>3, <1>8, <2>2, <2>6 DEF Replanted
  <2> QED
    BY <1>5, <2>7
<1> QED
  BY <1>11, <1>12

(* A key is removed from any tree. *)
LEMMA TreeRemoved ==
  ASSUME Unique, NEW f, Fresh(f), NEW h \in Nat, NEW at, Planted(f.nodes, h, at),
         NEW k \in Int, NEW w, w = TreeRemove(f, at, k)
  PROVE  \E g \in Nat : Replanted(f, h, at, w, g, Without(E(f.nodes, h, at), k))
<1>1. f.nodes \in Heap /\ Len(f.nodes) \in Nat /\ f.count = Len(f.nodes) + 1 /\ f \in Stores
  BY StoreFields DEF Fresh
<1>2. PICK c, n, r, es : /\ c = [f |-> f, at |-> at, k |-> k]
                         /\ n = f.count
                         /\ r = RemoveRec[n][c]
                         /\ es = Without(E(f.nodes, h, at), k)
  OBVIOUS
<1>3. w = Collapse(r, at)
  BY <1>2 DEF TreeRemove
<1>4. CASE at = NoBlock /\ h = 0
  <2>1. E(f.nodes, h, at) = {} /\ B(f.nodes, h, at) = {}
    BY <1>1, <1>4, EmptyTree
  <2>2. r = [f |-> f, at |-> NoBlock]
    <3>1. c \in Searches
      BY <1>1, <1>2, <1>4 DEF Searches, NoBlock
    <3>2. n \in Nat \ {0}
      BY <1>1, <1>2
    <3>3. RemoveRec[n][c] = RemoveNode(c, RemoveRec[n - 1])
      BY <3>1, <3>2, RemoveUnfolds
    <3>4. RemoveNode(c, RemoveRec[n - 1]) = [f |-> f, at |-> NoBlock]
      BY <1>2, <1>4 DEF RemoveNode
    <3> QED
      BY <1>2, <3>3, <3>4
  <2>3. w = r
    BY <1>3, <1>4, <2>2 DEF Collapse
  <2>4. Turns(f, B(f.nodes, h, at), w.f, B(w.f.nodes, h, w.at))
    BY <1>4, <2>2, <2>3, TurnsRefl
  <2>5. Planted(w.f.nodes, h, w.at) /\ E(w.f.nodes, h, w.at) = {}
    BY <1>4, <2>1, <2>2, <2>3 DEF Planted
  <2>6. es = {}
    BY <1>2, <2>1 DEF Without
  <2>7. Replanted(f, h, at, w, h, es)
    BY <2>4, <2>5, <2>6 DEF Replanted
  <2> QED
    BY <1>2, <2>7
<1>5. CASE Ok(f.nodes, h, at) /\ N(f.nodes[at]) >= 1 /\ h \in 1..Len(f.nodes)
  <2>1. RemoveWorks(RemoveRec[n], h)
    <3>1. n \in Nat /\ n >= h
      BY <1>1, <1>2, <1>5
    <3> QED
      BY <3>1, RemoveLevels
  <2>2. RemovePre(f, h, at)
    <3>1. h <= f.count
      BY <1>1, <1>5
    <3> QED
      BY <1>5, <3>1 DEF RemovePre
  <2>3. Turned(f, h, at, r, es)
    BY <1>2, <2>1, <2>2 DEF RemoveWorks, RemovePost
  <2>4. PICK nd : nd = r.f.nodes[r.at]
    OBVIOUS
  <2>5. N(nd) \in Nat
    <3>1. N(r.f.nodes[r.at]) \in Nat
      BY <2>3, TurnedStores
    <3> QED
      BY <2>4, <3>1
  <2>6. CASE r.at = at \/ N(nd) > 0
    <3>1. w = r
      BY <1>3, <2>4, <2>6 DEF Collapse, ReadNode
    <3>2. N(r.f.nodes[r.at]) >= 1
      <4>1. CASE N(nd) > 0
        BY <2>4, <2>5, <4>1
      <4>2. CASE r.at = at
        <5>1. Extends(f.nodes, r.f.nodes)
          BY <2>3, TurnsStores DEF Turned, Moved
        <5>2. at \in 1..Len(f.nodes)
          BY <1>5 DEF Ok
        <5>3. r.f.nodes[r.at] = f.nodes[at]
          BY <4>2, <5>1, <5>2 DEF Extends
        <5> QED
          BY <1>5, <5>3
      <4> QED
        BY <2>6, <4>1, <4>2
    <3>3. Replanted(f, h, at, w, h, es)
      BY <1>5, <2>3, <3>1, <3>2, TurnedPlanted
    <3> QED
      BY <1>2, <3>3
  <2>7. CASE ~(r.at = at \/ N(nd) > 0)
    <3>1. N(nd) = 0
      BY <2>5, <2>7
    <3>2. w = Freeing([f |-> r.f, at |-> IF nd.leaf THEN NoBlock ELSE Head(nd.kids)], <<r.at>>)
      BY <1>3, <2>4, <2>7 DEF Collapse, ReadNode
    <3>3. PICK d : d = (IF nd.leaf THEN NoBlock ELSE Head(nd.kids))
      OBVIOUS
    <3>4. /\ w = Freeing([f |-> r.f, at |-> d], <<r.at>>)
          /\ nd.leaf => d = NoBlock
          /\ ~nd.leaf => d = Head(nd.kids)
      BY <3>2, <3>3, Zenon
    <3>5. Emptied(f, h, at, r, es, nd, d, w)
      BY <1>5, <2>3, <2>4, <3>1, <3>4 DEF Emptied
    <3>6. \E g \in Nat : Replanted(f, h, at, w, g, es)
      BY <3>5, RootCollapses
    <3> QED
      BY <1>2, <3>6
  <2> QED
    BY <2>6, <2>7
<1> QED
  BY <1>4, <1>5 DEF Planted

-----------------------------------------------------------------------------
(***************************************************************************)
(* The specification: the tree at the root, and what each of its steps     *)
(* does to it.                                                             *)
(***************************************************************************)

\* The inductive invariant: the file holds nodes, and a tree at its root.
Growing == blocks \in Heap /\ \E h \in Nat : Planted(blocks, h, root)

\* What an operation would commit: a file with a tree of these entries, and blocks
\* staged that are exactly the stale ones.
Commits(r, entries) ==
  /\ r.f.nodes \in Heap
  /\ \E g \in Nat : Planted(r.f.nodes, g, r.at)
  /\ EntriesIn(r.f.nodes)[Len(r.f.nodes)][r.at] = entries
  /\ Reach(r.f, r.at) =
       (Reach(Store, root) \cup Seqs!ToSet(r.f.log)) \ Seqs!ToSet(r.f.pending)

(* An operation starts from a store without a free list. *)
LEMMA StoreIsFresh ==
  ASSUME blocks \in Heap
  PROVE  Fresh(Store) /\ Store.nodes = blocks
<1>1. /\ Store.nodes = blocks /\ Store.pending = <<>> /\ Store.log = <<>> /\ Store.live = {}
      /\ Store.head = NoBlock /\ Store.count = Len(blocks) + 1 /\ Store.clash = FALSE
  BY DEF Store
<1>2. Len(blocks) \in Nat
  BY DEF Heap
<1>3. Store \in Stores
  <2>1. blocks \in Seq(Node \cup [link : Int])
    BY DEF Heap
  <2>2. NoBlock \in Int /\ Len(blocks) + 1 \in Nat
    BY <1>2 DEF NoBlock
  <2> QED
    BY <2>1, <2>2 DEF Store, Stores
<1>4. Seqs!ToSet(Store.log) = {}
  BY <1>1 DEF Seqs!ToSet
<1> QED
  BY <1>1, <1>3, <1>4 DEF Fresh

(* What there is in the file, as far down as it is long, is the tree. *)
LEMMA WholeTree ==
  ASSUME NEW ns \in Heap, NEW h \in Nat, NEW b, Planted(ns, h, b)
  PROVE  EntriesIn(ns)[Len(ns)][b] = E(ns, h, b) /\ BlocksIn(ns)[Len(ns)][b] = B(ns, h, b)
<1>1. PICK l : l = Len(ns) /\ l \in Nat
  BY DEF Heap
<1>2. E(ns, l, b) = E(ns, h, b) /\ B(ns, l, b) = B(ns, h, b)
  <2>1. CASE b = NoBlock /\ h = 0
    <3>1. E(ns, l, NoBlock) = {} /\ B(ns, l, NoBlock) = {}
      BY <1>1, EmptyTree
    <3>2. E(ns, h, NoBlock) = {} /\ B(ns, h, NoBlock) = {}
      BY EmptyTree
    <3> QED
      BY <2>1, <3>1, <3>2
  <2>2. CASE Ok(ns, h, b) /\ h \in 1..Len(ns)
    <3>1. l >= h
      BY <1>1, <2>2
    <3> QED
      BY <1>1, <2>2, <3>1, DeepEnough
  <2> QED
    BY <2>1, <2>2 DEF Planted
<1> QED
  BY <1>1, <1>2 DEF E, B

(* A tree that has been planted anew can be committed. *)
LEMMA ReplantedCommits ==
  ASSUME blocks \in Heap, NEW h \in Nat, Planted(blocks, h, root),
         NEW r, NEW g \in Nat, NEW es, Replanted(Store, h, root, r, g, es)
  PROVE  Commits(r, es)
<1>1. Store.nodes = blocks /\ Store.pending = <<>> /\ Store.log = <<>>
  BY DEF Store
<1>2. PICK old, new, ns : /\ old = B(blocks, h, root)
                          /\ new = B(r.f.nodes, g, r.at)
                          /\ ns = r.f.nodes
  OBVIOUS
<1>3. Turns(Store, old, r.f, new) /\ Planted(ns, g, r.at) /\ E(ns, g, r.at) = es
  BY <1>1, <1>2 DEF Replanted
<1>4. ns \in Heap
  <2>1. r.f.nodes \in Heap
    BY <1>3, TurnsStores
  <2> QED
    BY <1>2, <2>1
<1>5. /\ EntriesIn(ns)[Len(ns)][r.at] = E(ns, g, r.at)
      /\ BlocksIn(ns)[Len(ns)][r.at] = B(ns, g, r.at)
  BY <1>3, <1>4, WholeTree
<1>6. BlocksIn(blocks)[Len(blocks)][root] = B(blocks, h, root)
  BY WholeTree
<1>7. Reach(r.f, r.at) = new /\ Reach(Store, root) = old
  BY <1>1, <1>2, <1>5, <1>6 DEF Reach
<1>8. PICK S \in SUBSET (old \cup New(Store, r.f)) :
        Came(Store, r.f, S) /\ new = (old \cup New(Store, r.f)) \ S
  BY <1>3 DEF Turns
<1>9. /\ Seqs!ToSet(r.f.pending) = Seqs!ToSet(Store.pending) \cup S
      /\ Seqs!ToSet(r.f.log) = Seqs!ToSet(Store.log) \cup New(Store, r.f)
  BY <1>8 DEF Came
<1>10. Seqs!ToSet(Store.pending) = {} /\ Seqs!ToSet(Store.log) = {}
  BY <1>1 DEF Seqs!ToSet
<1>11. new = (old \cup Seqs!ToSet(r.f.log)) \ Seqs!ToSet(r.f.pending)
  BY <1>8, <1>9, <1>10
<1> QED
  BY <1>2, <1>3, <1>4, <1>5, <1>7, <1>11 DEF Commits

(* What insert(), update() and remove() commit. *)
LEMMA InsertCommits ==
  ASSUME Unique, Growing, NEW e \in Entry, \A d \in Contents : Key(d) # Key(e)
  PROVE  Commits(Inserted(e), Contents \cup {e})
<1>1. PICK h \in Nat : Planted(blocks, h, root)
  BY DEF Growing
<1>2. blocks \in Heap /\ Fresh(Store) /\ Store.nodes = blocks
  BY StoreIsFresh DEF Growing
<1>3. Contents = E(blocks, h, root)
  BY <1>1, <1>2, WholeTree DEF Contents
<1>4. PICK f, w, es : f = Store /\ w = TreeInsert(f, root, e) /\ es = E(f.nodes, h, root) \cup {e}
  OBVIOUS
<1>5. /\ Fresh(f) /\ Planted(f.nodes, h, root)
      /\ \A d \in E(f.nodes, h, root) : Key(d) # Key(e)
  BY <1>1, <1>2, <1>3, <1>4
<1>6. PICK g \in Nat : Replanted(f, h, root, w, g, es)
  BY <1>4, <1>5, TreeInserted
<1>7. Commits(w, es)
  BY <1>1, <1>2, <1>4, <1>6, ReplantedCommits
<1> QED
  BY <1>2, <1>3, <1>4, <1>7 DEF Inserted

(* An update that succeeds leaves a tree with the row of its key overwritten. *)
LEMMA UpdateCommits ==
  ASSUME Unique, Growing, NEW e \in Entry
  PROVE  Commits(Updated(e), Overwritten(Contents, e))
<1>1. PICK h \in Nat : Planted(blocks, h, root)
  BY DEF Growing
<1>2. blocks \in Heap /\ Fresh(Store) /\ Store.nodes = blocks
  BY StoreIsFresh DEF Growing
<1>3. Contents = E(blocks, h, root)
  BY <1>1, <1>2, WholeTree DEF Contents
<1>4. PICK f, w : f = Store /\ w = TreeUpdate(f, root, e)
  OBVIOUS
<1>5. Fresh(f) /\ Planted(f.nodes, h, root)
  BY <1>1, <1>2, <1>4
<1>6. Replanted(f, h, root, w, h, Overwritten(E(f.nodes, h, root), e))
  BY <1>4, <1>5, TreeUpdated
<1>7. PICK es : es = Overwritten(E(f.nodes, h, root), e)
  OBVIOUS
<1>8. Commits(w, es)
  BY <1>1, <1>2, <1>4, <1>6, <1>7, ReplantedCommits
<1> QED
  BY <1>2, <1>3, <1>4, <1>7, <1>8 DEF Updated

(* A removal that succeeds leaves a tree without the entries of its key. *)
LEMMA RemoveCommits ==
  ASSUME Unique, Growing, NEW k \in Int
  PROVE  Commits(Removed(k), Without(Contents, k))
<1>1. PICK h \in Nat : Planted(blocks, h, root)
  BY DEF Growing
<1>2. blocks \in Heap /\ Fresh(Store) /\ Store.nodes = blocks
  BY StoreIsFresh DEF Growing
<1>3. Contents = E(blocks, h, root)
  BY <1>1, <1>2, WholeTree DEF Contents
<1>4. PICK f, w, es : f = Store /\ w = TreeRemove(f, root, k) /\ es = Without(E(f.nodes, h, root), k)
  OBVIOUS
<1>5. Fresh(f) /\ Planted(f.nodes, h, root)
  BY <1>1, <1>2, <1>4
<1>6. PICK g \in Nat : Replanted(f, h, root, w, g, es)
  BY <1>4, <1>5, TreeRemoved
<1>7. Commits(w, es)
  BY <1>1, <1>2, <1>4, <1>6, ReplantedCommits
<1> QED
  BY <1>2, <1>3, <1>4, <1>7 DEF Removed

(* A key of the clients is a number, and an entry of theirs is an entry. *)
LEMMA ClientsKeys ==
  /\ \A e \in Entries : e \in Entry /\ Key(e) = e[1] /\ Key(e) \in Int
  /\ \A k \in Keys : k \in Int
<1>1. ASSUME NEW e \in Entries PROVE e \in Entry /\ Key(e) = e[1] /\ Key(e) \in Int
  BY ClientAssumption DEF Entry, Key
<1> QED
  BY <1>1 DEF Keys

(* An entry that may be inserted has a new key. *)
LEMMA NewKey ==
  ASSUME Unique, NEW e \in Entries, CanInsert(e)
  PROVE  \A d \in Contents : Key(d) # Key(e)
BY DEF CanInsert, Key

-----------------------------------------------------------------------------
(* The file and the root that are committed hold a tree, after every step. *)
LEMMA TreeGrows ==
  ASSUME Unique
  PROVE  Spec => []Growing
<1>1. Init => Growing
  BY DEF Init, Growing, Planted, Heap
<1>2. ASSUME Growing, [Next]_vars PROVE Growing'
  <2>1. ASSUME NEW r, NEW es, Commits(r, es), Commit(r) PROVE Growing'
    BY <2>1 DEF Commits, Commit, Growing
  <2>2. ASSUME NEW e \in Entries, Insert(e) PROVE Growing'
    <3>1. CanInsert(e) /\ Commit(Inserted(e)) /\ e \in Entry
      BY <2>2, ClientsKeys DEF Insert
    <3>2. Commits(Inserted(e), Contents \cup {e})
      BY <1>2, <3>1, NewKey, InsertCommits
    <3> QED
      BY <2>1, <3>1, <3>2
  <2>3. ASSUME NEW e \in Entries, Update(e) PROVE Growing'
    <3>1. Commits(Updated(e), Overwritten(Contents, e))
      BY <1>2, ClientsKeys, UpdateCommits
    <3> QED
      BY <2>1, <2>3, <3>1 DEF Update
  <2>4. ASSUME NEW k \in Keys, Remove(k) PROVE Growing'
    <3>1. Commits(Removed(k), Without(Contents, k))
      BY <1>2, ClientsKeys, RemoveCommits
    <3> QED
      BY <2>1, <2>4, <3>1 DEF Remove
  <2>5. CASE UNCHANGED vars
    BY <1>2, <2>5 DEF Growing, vars
  <2> QED
    BY <1>2, <2>2, <2>3, <2>4, <2>5 DEF Next
<1> QED
  BY <1>1, <1>2, PTL DEF Spec

(* After any sequence of operations the tree is a B-tree of degree t, if no *)
(* key is inserted twice: leaves at one depth, nodes half full, keys in     *)
(* order across the whole tree.                                             *)
THEOREM TreeKeepsShape ==
  ASSUME Unique
  PROVE  Spec => []BTreeShape
<1>1. ASSUME Growing PROVE BTreeShape
  <2>1. PICK h \in Nat : Planted(blocks, h, root)
    BY <1>1 DEF Growing
  <2>2. CASE root = NoBlock
    BY <2>2 DEF BTreeShape
  <2>3. CASE Ok(blocks, h, root) /\ N(blocks[root]) >= 1 /\ h \in 1..Len(blocks)
    <3>1. root \in DOMAIN blocks
      BY <1>1, <2>3 DEF Ok, Growing, Heap
    <3>2. TreeIn(blocks)[h][root]
      BY <2>3 DEF Ok
    <3> QED
      BY <2>3, <3>1, <3>2 DEF BTreeShape
  <2> QED
    BY <2>1, <2>2, <2>3 DEF Planted
<1> QED
  BY <1>1, TreeGrows, PTL

(* Every operation that may come next stages exactly the blocks that the   *)
(* tree it commits does not use.                                           *)
THEOREM StagesTheStale ==
  ASSUME Unique
  PROVE  Spec => []StagesExactlyTheStale
<1>1. ASSUME Growing PROVE StagesExactlyTheStale
  <2> SUFFICES ASSUME NEW r \in Outcomes
               PROVE  Reach(r.f, r.at) =
                        (Reach(Store, root) \cup Seqs!ToSet(r.f.log)) \ Seqs!ToSet(r.f.pending)
    BY DEF StagesExactlyTheStale
  <2>1. CASE \E e \in Entries : CanInsert(e) /\ r = Inserted(e)
    <3>1. PICK e \in Entries : CanInsert(e) /\ r = Inserted(e)
      BY <2>1
    <3>2. Commits(Inserted(e), Contents \cup {e})
      BY <1>1, <3>1, ClientsKeys, NewKey, InsertCommits
    <3> QED
      BY <3>1, <3>2 DEF Commits
  <2>2. CASE \E e \in Entries : r = Updated(e)
    <3>1. PICK e \in Entries : r = Updated(e)
      BY <2>2
    <3>2. Commits(Updated(e), Overwritten(Contents, e))
      BY <1>1, ClientsKeys, UpdateCommits
    <3> QED
      BY <3>1, <3>2 DEF Commits
  <2>3. CASE \E k \in Keys : r = Removed(k)
    <3>1. PICK k \in Keys : r = Removed(k)
      BY <2>3
    <3>2. Commits(Removed(k), Without(Contents, k))
      BY <1>1, ClientsKeys, RemoveCommits
    <3> QED
      BY <3>1, <3>2 DEF Commits
  <2> QED
    BY <2>1, <2>2, <2>3 DEF Outcomes
<1> QED
  BY <1>1, TreeGrows, PTL

\* A point search finds the values stored under its key.
SearchesFind ==
  \A k \in Keys : TreeSearch(Store, root, k) = Values(Contents, k)

(* Whatever has been inserted, updated and removed, a search for a key     *)
(* finds exactly what is stored under it.                                  *)
THEOREM SearchFindsContents ==
  ASSUME Unique
  PROVE  Spec => []SearchesFind
<1>1. ASSUME Growing PROVE SearchesFind
  <2> SUFFICES ASSUME NEW k \in Keys PROVE TreeSearch(Store, root, k) = Values(Contents, k)
    BY DEF SearchesFind
  <2>1. PICK h \in Nat : Planted(blocks, h, root)
    BY <1>1 DEF Growing
  <2>2. blocks \in Heap /\ Fresh(Store) /\ Store.nodes = blocks /\ k \in Int
    BY <1>1, StoreIsFresh, ClientsKeys DEF Growing
  <2>3. Contents = E(blocks, h, root)
    BY <2>1, <2>2, WholeTree DEF Contents
  <2>4. PICK f, g, c : /\ f = Store /\ g = f.count
                       /\ c = [f |-> f, at |-> root, k |-> k]
    OBVIOUS
  <2>5. f \in Stores /\ f.nodes = blocks /\ g = Len(blocks) + 1 /\ Len(blocks) \in Nat
    BY <2>2, <2>4 DEF Fresh, Heap
  <2>6. TreeSearch(Store, root, k) = SearchRec[g][c]
    BY <2>4 DEF TreeSearch
  <2>7. CASE root = NoBlock /\ h = 0
    <3>1. Contents = {}
      BY <2>2, <2>3, <2>7, EmptyTree
    <3>2. c \in Searches /\ g \in Nat \ {0}
      BY <2>2, <2>4, <2>5, <2>7 DEF Searches, NoBlock
    <3>3. SearchRec[g][c] = SearchNode(c, SearchRec[g - 1])
      BY <3>2, SearchUnfolds
    <3>4. SearchNode(c, SearchRec[g - 1]) = {}
      BY <2>4, <2>7 DEF SearchNode
    <3> QED
      BY <2>6, <3>1, <3>3, <3>4 DEF Values
  <2>8. CASE Ok(blocks, h, root) /\ h \in 1..Len(blocks)
    <3>1. g \in Nat /\ g >= h /\ Ok(f.nodes, h, root)
      BY <2>5, <2>8
    <3>2. SearchRec[g][[f |-> f, at |-> root, k |-> k]] = Values(E(f.nodes, h, root), k)
      BY <2>2, <2>5, <3>1, SearchFinds
    <3> QED
      BY <2>3, <2>4, <2>5, <2>6, <3>2
  <2> QED
    BY <2>1, <2>7, <2>8 DEF Planted
<1> QED
  BY <1>1, TreeGrows, PTL

(* The tree implements the abstract index: every operation does to the     *)
(* entries what the index promises, or nothing.                            *)
THEOREM TreeImplementsIndex ==
  ASSUME Unique
  PROVE  Spec => ImplementsIndex
<1>1. Init => Index!Init
  <2> SUFFICES ASSUME Init PROVE Contents = {}
    BY DEF Index!Init
  <2>1. blocks \in Heap /\ root = NoBlock /\ Len(blocks) = 0
    BY DEF Init, Heap
  <2>2. E(blocks, 0, NoBlock) = {}
    BY <2>1, EmptyTree
  <2> QED
    BY <2>1, <2>2 DEF Contents, E
<1>2. ASSUME Growing, [Next]_vars PROVE [Index!Next]_Contents
  <2>1. ASSUME NEW r, NEW es, Commits(r, es), Commit(r) PROVE Contents' = es
    BY <2>1 DEF Commits, Commit, Contents
  <2>2. ASSUME NEW e \in Entries, Insert(e) PROVE Index!Insert(e)
    <3>1. CanInsert(e) /\ Commit(Inserted(e)) /\ e \in Entry
      BY <2>2, ClientsKeys DEF Insert
    <3>2. Commits(Inserted(e), Contents \cup {e})
      BY <1>2, <3>1, NewKey, InsertCommits
    <3>3. Contents' = Contents \cup {e}
      BY <2>1, <3>1, <3>2
    <3>4. \A d \in Contents : d[1] # e[1]
      BY <3>1 DEF CanInsert
    <3> QED
      BY <3>3, <3>4 DEF Index!Insert, Index!At
  <2>3. ASSUME NEW e \in Entries, Update(e) PROVE Index!Update(e) \/ Contents' = Contents
    <3>1. Commits(Updated(e), Overwritten(Contents, e))
      BY <1>2, ClientsKeys, UpdateCommits
    <3>2. Contents' = Overwritten(Contents, e)
      BY <2>1, <2>3, <3>1 DEF Update
    <3>3. CASE \E d \in Contents : Key(d) = Key(e)
      <4>1. Contents' = Without(Contents, Key(e)) \cup {e}
        BY <3>2, <3>3 DEF Overwritten
      <4>2. Without(Contents, Key(e)) = Contents \ Index!At(e[1])
        BY DEF Without, Index!At, Key
      <4>3. Index!At(e[1]) # {}
        BY <3>3 DEF Index!At, Key
      <4> QED
        BY <4>1, <4>2, <4>3 DEF Index!Update
    <3>4. CASE ~\E d \in Contents : Key(d) = Key(e)
      BY <3>2, <3>4 DEF Overwritten
    <3> QED
      BY <3>3, <3>4
  <2>4. ASSUME NEW k \in Keys, Remove(k) PROVE Index!Remove(k)
    <3>1. Commits(Removed(k), Without(Contents, k))
      BY <1>2, ClientsKeys, RemoveCommits
    <3>2. Contents' = Without(Contents, k)
      BY <2>1, <2>4, <3>1 DEF Remove
    <3>3. Without(Contents, k) = Contents \ Index!At(k)
      BY DEF Without, Index!At, Key
    <3> QED
      BY <3>2, <3>3 DEF Index!Remove
  <2>5. CASE UNCHANGED vars
    BY <2>5 DEF vars, Contents
  <2>6. Index!Keys = Keys
    BY DEF Index!Keys, Keys
  <2> QED
    BY <1>2, <2>2, <2>3, <2>4, <2>5, <2>6 DEF Next, Index!Next
<1> QED
  BY <1>1, <1>2, TreeGrows, PTL DEF Spec, ImplementsIndex, Index!Spec

-----------------------------------------------------------------------------
(***************************************************************************)
(* The walk of the committed tree, and the keys in it.                     *)
(***************************************************************************)

(* The walk of a whole tree lists its entries. *)
LEMMA WalkOfTree ==
  ASSUME Unique, NEW ns \in Heap, NEW h \in Nat, NEW b, Planted(ns, h, b)
  PROVE  Lists(Walk(ns, b), E(ns, h, b))
<1>1. Walk(ns, b) = WalkIn(ns)[Len(ns)][b] /\ Len(ns) \in Nat
  BY DEF Walk, Heap
<1>2. CASE b = NoBlock /\ h = 0
  <2>1. E(ns, h, b) = {}
    BY <1>2, EmptyTree
  <2>2. WalkIn(ns)[Len(ns)][NoBlock] = <<>>
    <3>1. CASE Len(ns) = 0
      <4>1. WalkIn(ns)[0] = [c \in 0..Len(ns) |-> <<>>]
        BY WalkUnfolds
      <4> QED
        BY <3>1, <4>1 DEF NoBlock
    <3>2. CASE Len(ns) # 0
      <4>1. PICK l \in Nat : Len(ns) = l + 1
        <5>1. Len(ns) - 1 \in Nat /\ Len(ns) = (Len(ns) - 1) + 1
          BY <1>1, <3>2
        <5> QED
          BY <5>1
      <4>2. WalkIn(ns)[l + 1] = WalkOver(ns, WalkIn(ns)[l])
        BY WalkUnfolds
      <4>3. NoBlock \in 0..Len(ns)
        BY <1>1 DEF NoBlock
      <4> QED
        BY <4>1, <4>2, <4>3 DEF WalkOver, WalkNode
    <3> QED
      BY <3>1, <3>2
  <2> QED
    BY <1>1, <1>2, <2>1, <2>2, ListsOfOne
<1>3. CASE Ok(ns, h, b) /\ h \in 1..Len(ns)
  <2>1. Len(ns) >= h
    BY <1>3
  <2>2. Lists(WalkIn(ns)[Len(ns)][b], E(ns, h, b))
    BY <1>1, <1>3, <2>1, WalkLevels
  <2> QED
    BY <1>1, <2>2
<1> QED
  BY <1>2, <1>3 DEF Planted

(* The walk of the committed tree lists its contents, and that of a tree that may be *)
(* committed next what it should hold.                                                *)
LEMMA WalkOfContents ==
  ASSUME Unique, Growing
  PROVE  Lists(Walk(blocks, root), Contents)
<1>1. PICK h \in Nat : Planted(blocks, h, root)
  BY DEF Growing
<1>2. blocks \in Heap
  BY DEF Growing
<1>3. Contents = E(blocks, h, root)
  BY <1>1, <1>2, WholeTree DEF Contents
<1> QED
  BY <1>1, <1>2, <1>3, WalkOfTree

(* The walk of what an operation would commit lists what it should hold. *)
LEMMA WalkOfOutcome ==
  ASSUME Unique, NEW r, NEW entries, Commits(r, entries)
  PROVE  Lists(Walk(r.f.nodes, r.at), entries)
<1>1. PICK ns, b : ns = r.f.nodes /\ b = r.at
  OBVIOUS
<1>2. ns \in Heap
  BY <1>1 DEF Commits
<1>3. PICK g \in Nat : Planted(ns, g, b)
  BY <1>1 DEF Commits
<1>4. EntriesIn(ns)[Len(ns)][b] = E(ns, g, b)
  BY <1>2, <1>3, WholeTree
<1>5. EntriesIn(ns)[Len(ns)][b] = entries
  BY <1>1 DEF Commits
<1>6. Lists(Walk(ns, b), E(ns, g, b))
  BY <1>2, <1>3, WalkOfTree
<1> QED
  BY <1>1, <1>4, <1>5, <1>6

(* What a range search from the root lists. *)
LEMMA RangeOfContents ==
  ASSUME Unique, Growing, NEW lo \in Int, NEW hi \in Int
  PROVE  Lists(TreeRange(Store, root, lo, hi), Within(Contents, lo, hi))
<1>1. PICK h \in Nat : Planted(blocks, h, root)
  BY DEF Growing
<1>2. blocks \in Heap /\ Fresh(Store) /\ Store.nodes = blocks
  BY StoreIsFresh DEF Growing
<1>3. Contents = E(blocks, h, root)
  BY <1>1, <1>2, WholeTree DEF Contents
<1>4. PICK f, g, c : /\ f = Store /\ g = f.count
                     /\ c = [f |-> f, at |-> root, lo |-> lo, hi |-> hi]
  OBVIOUS
<1>5. f \in Stores /\ f.nodes = blocks /\ g = Len(blocks) + 1 /\ Len(blocks) \in Nat
  BY <1>2, <1>4 DEF Fresh, Heap
<1>6. TreeRange(Store, root, lo, hi) = RangeRec[g][c]
  BY <1>4 DEF TreeRange
<1>7. CASE root = NoBlock /\ h = 0
  <2>1. Contents = {}
    BY <1>2, <1>3, <1>7, EmptyTree
  <2>2. c \in Ranges /\ g \in Nat \ {0}
    BY <1>4, <1>5, <1>7 DEF Ranges, NoBlock
  <2>3. RangeRec[g][c] = RangeNode(c, RangeRec[g - 1])
    BY <2>2, RangeUnfolds
  <2>4. RangeNode(c, RangeRec[g - 1]) = <<>>
    BY <1>4, <1>7 DEF RangeNode
  <2>5. Within(Contents, lo, hi) = {}
    BY <2>1 DEF Within
  <2> QED
    BY <1>6, <2>3, <2>4, <2>5, ListsOfOne
<1>8. CASE Ok(blocks, h, root) /\ h \in 1..Len(blocks)
  <2>1. g \in Nat /\ g >= h /\ Ok(f.nodes, h, root)
    BY <1>5, <1>8
  <2>2. Lists(RangeRec[g][[f |-> f, at |-> root, lo |-> lo, hi |-> hi]],
              Within(E(f.nodes, h, root), lo, hi))
    BY <1>5, <2>1, RangeLevels
  <2> QED
    BY <1>3, <1>4, <1>5, <1>6, <2>2
<1> QED
  BY <1>1, <1>7, <1>8 DEF Planted

(* How often a key is in a tree that a walk lists: once, if an entry has it. *)
LEMMA KeyCounts ==
  ASSUME NEW ns, NEW b, NEW entries, Lists(Walk(ns, b), entries)
  PROVE  KeyCount(ns, b) = [k \in Keys |-> IF \E d \in entries : Key(d) = k THEN 1 ELSE 0]
<1>1. PICK w : w = Walk(ns, b)
  OBVIOUS
<1>2. ASSUME NEW k \in Keys
      PROVE  Cardinality({i \in 1..Len(w) : Key(w[i]) = k}) =
               IF \E d \in entries : Key(d) = k THEN 1 ELSE 0
  BY <1>1, ClientsKeys, CountInListing
<1> QED
  BY <1>1, <1>2 DEF KeyCount

(* Point and range searches find what the walk of the tree finds. *)
THEOREM SearchesFollowWalk ==
  ASSUME Unique
  PROVE  Spec => []SearchesAgree
<1>1. ASSUME Growing, SearchesFind PROVE SearchesAgree
  <2>1. PICK w : w = Walk(blocks, root)
    OBVIOUS
  <2>2. Lists(w, Contents)
    BY <1>1, <2>1, WalkOfContents
  <2>3. ASSUME NEW k \in Keys
        PROVE  TreeSearch(Store, root, k) = {e[2] : e \in {e \in Seqs!ToSet(w) : e[1] = k}}
    <3>1. Seqs!ToSet(w) = Contents
      BY <2>2 DEF Lists
    <3>2. TreeSearch(Store, root, k) = Values(Contents, k)
      BY <1>1 DEF SearchesFind
    <3> QED
      BY <3>1, <3>2 DEF Values, Key
  <2>4. ASSUME NEW lo \in Keys, NEW hi \in Keys
        PROVE  IsStretch(TreeRange(Store, root, lo, hi), w, lo, hi)
    <3>1. lo \in Int /\ hi \in Int
      BY ClientsKeys
    <3>2. PICK s, A : s = TreeRange(Store, root, lo, hi) /\ A = Contents
      OBVIOUS
    <3>3. Lists(s, Within(A, lo, hi))
      BY <1>1, <3>1, <3>2, RangeOfContents
    <3>4. IsStretch(s, w, lo, hi)
      BY <2>2, <3>1, <3>2, <3>3, ListingIsStretch
    <3> QED
      BY <3>2, <3>4
  <2> QED
    BY <2>1, <2>3, <2>4 DEF SearchesAgree
<1> QED
  BY <1>1, TreeGrows, SearchFindsContents, PTL

(* An insert adds its key, a removal takes its key away, an update leaves the keys as *)
(* they are and stores its value; all other keys stay.                                *)
THEOREM OneKeyChanges ==
  ASSUME Unique
  PROVE  Spec => []OneKeyAtATime
<1>1. ASSUME Growing PROVE OneKeyAtATime
  <2> DEFINE Counts(entries) == [k \in Keys |-> IF \E d \in entries : Key(d) = k THEN 1 ELSE 0]
  <2>1. KeyCount(blocks, root) = Counts(Contents)
    BY <1>1, WalkOfContents, KeyCounts
  <2>2. ASSUME NEW r, NEW entries, Commits(r, entries)
        PROVE  KeyCount(r.f.nodes, r.at) = Counts(entries)
    <3>1. PICK ns, b : ns = r.f.nodes /\ b = r.at
      OBVIOUS
    <3>2. Lists(Walk(ns, b), entries)
      BY <2>2, <3>1, WalkOfOutcome
    <3>3. KeyCount(ns, b) = Counts(entries)
      BY <3>2, KeyCounts
    <3> QED
      BY <3>1, <3>3
  <2>3. ASSUME NEW e \in Entries, CanInsert(e)
        PROVE  LET r == Inserted(e)
               IN  KeyCount(r.f.nodes, r.at) = [KeyCount(blocks, root) EXCEPT ![e[1]] = @ + 1]
    <3>1. PICK r : r = Inserted(e)
      OBVIOUS
    <3>2. \A d \in Contents : Key(d) # Key(e)
      BY <2>3, NewKey
    <3>3. Commits(r, Contents \cup {e})
      BY <1>1, <3>1, <3>2, ClientsKeys, InsertCommits
    <3>4. PICK es : es = Contents \cup {e}
      OBVIOUS
    <3>5. KeyCount(r.f.nodes, r.at) = Counts(es)
      BY <2>2, <3>3, <3>4
    <3>6. Counts(es) = [Counts(Contents) EXCEPT ![e[1]] = @ + 1]
      <4>1. e[1] \in Keys /\ Key(e) = e[1]
        BY DEF Keys, Key
      <4>2. ASSUME NEW k \in Keys, k # e[1]
            PROVE  (\E d \in es : Key(d) = k) <=> (\E d \in Contents : Key(d) = k)
        BY <3>4, <4>1, <4>2
      <4>3. ~(\E d \in Contents : Key(d) = e[1]) /\ \E d \in es : Key(d) = e[1]
        BY <3>2, <3>4, <4>1
      <4>4. Counts(Contents)[e[1]] + 1 = 1
        BY <4>1, <4>3
      <4> QED
        BY <4>1, <4>2, <4>3, <4>4
    <3> HIDE DEF Counts
    <3> QED
      BY <2>1, <3>1, <3>5, <3>6
  <2>4. ASSUME NEW e \in Entries
        PROVE  LET r == Updated(e)
               IN  /\ KeyCount(r.f.nodes, r.at) = KeyCount(blocks, root)
                   /\ KeyCount(blocks, root)[e[1]] = 1 => e \in Seqs!ToSet(Walk(r.f.nodes, r.at))
    <3>1. PICK r, es : r = Updated(e) /\ es = Overwritten(Contents, e)
      OBVIOUS
    <3>2. Commits(r, es)
      BY <1>1, <3>1, ClientsKeys, UpdateCommits
    <3>3. KeyCount(r.f.nodes, r.at) = Counts(es)
      BY <2>2, <3>2
    <3>4. ASSUME NEW k \in Keys
          PROVE  (\E d \in es : Key(d) = k) <=> (\E d \in Contents : Key(d) = k)
      <4>1. CASE \E d \in Contents : Key(d) = Key(e)
        <5>1. es = Without(Contents, Key(e)) \cup {e}
          BY <3>1, <4>1 DEF Overwritten
        <5> QED
          BY <4>1, <5>1 DEF Without
      <4>2. CASE ~\E d \in Contents : Key(d) = Key(e)
        BY <3>1, <4>2 DEF Overwritten
      <4> QED
        BY <4>1, <4>2
    <3>5. Counts(es) = Counts(Contents)
      BY <3>4
    <3>6. ASSUME KeyCount(blocks, root)[e[1]] = 1 PROVE e \in Seqs!ToSet(Walk(r.f.nodes, r.at))
      <4>1. e[1] \in Keys /\ Key(e) = e[1]
        BY DEF Keys, Key
      <4>2. Counts(Contents)[e[1]] = 1
        BY <2>1, <3>6
      <4>3. \E d \in Contents : Key(d) = Key(e)
        BY <4>1, <4>2
      <4>4. e \in es
        BY <3>1, <4>3 DEF Overwritten
      <4>5. Lists(Walk(r.f.nodes, r.at), es)
        BY <3>2, WalkOfOutcome
      <4> QED
        BY <4>4, <4>5 DEF Lists
    <3> HIDE DEF Counts
    <3> QED
      BY <2>1, <3>1, <3>3, <3>5, <3>6
  <2>5. ASSUME NEW k \in Keys
        PROVE  LET r == Removed(k)
                   old == KeyCount(blocks, root)
               IN  KeyCount(r.f.nodes, r.at) = IF old[k] = 0 THEN old ELSE [old EXCEPT ![k] = @ - 1]
    <3>1. PICK r, es : r = Removed(k) /\ es = Without(Contents, k)
      OBVIOUS
    <3>2. Commits(r, es)
      BY <1>1, <3>1, ClientsKeys, RemoveCommits
    <3>3. KeyCount(r.f.nodes, r.at) = Counts(es)
      BY <2>2, <3>2
    <3>4. ASSUME NEW l \in Keys, l # k
          PROVE  (\E d \in es : Key(d) = l) <=> (\E d \in Contents : Key(d) = l)
      BY <3>1, <3>4 DEF Without
    <3>5. ~\E d \in es : Key(d) = k
      BY <3>1 DEF Without
    <3>6. Counts(es) = IF Counts(Contents)[k] = 0 THEN Counts(Contents)
                       ELSE [Counts(Contents) EXCEPT ![k] = @ - 1]
      <4>1. CASE \E d \in Contents : Key(d) = k
        <5>1. Counts(Contents)[k] = 1
          BY <4>1
        <5>2. Counts(es) = [Counts(Contents) EXCEPT ![k] = 0]
          BY <3>4, <3>5
        <5>3. Counts(Contents)[k] - 1 = 0
          BY <5>1
        <5> HIDE DEF Counts
        <5>4. [Counts(Contents) EXCEPT ![k] = @ - 1] = [Counts(Contents) EXCEPT ![k] = 0]
          BY <5>3
        <5> QED
          BY <5>1, <5>2, <5>4
      <4>2. CASE ~\E d \in Contents : Key(d) = k
        <5>1. Counts(Contents)[k] = 0
          BY <4>2
        <5>2. Counts(es) = Counts(Contents)
          BY <3>4, <3>5, <4>2
        <5> HIDE DEF Counts
        <5> QED
          BY <5>1, <5>2
      <4> QED
        BY <4>1, <4>2
    <3> HIDE DEF Counts
    <3> QED
      BY <2>1, <3>1, <3>3, <3>6
  <2> HIDE DEF Counts
  <2> QED
    BY <2>3, <2>4, <2>5 DEF OneKeyAtATime
<1> QED
  BY <1>1, TreeGrows, PTL
=============================================================================
