--------------------------- MODULE BTreeNodeProofs ----------------------------
(***************************************************************************)
(* What one step of the B-tree does to a file, for every order of the      *)
(* tree, every set of entries with keys of their own and every file: the   *)
(* trees in a file and what a write leaves of them, a node cut in two,     *)
(* joined or changed in a part, and the calls of each operation of one     *)
(* level on the next.                                                      *)
(***************************************************************************)
EXTENDS BTree, SetInduction, SequenceTheorems, TLAPS

-----------------------------------------------------------------------------
(***************************************************************************)
(* The trees in a file, level by level.                                    *)
(***************************************************************************)

\* The files of blocks: nodes, and links of the list of free ones.
Heap == Seq(Node \cup [link : Int])

\* What is below a block of a file within h levels: its entries, its blocks, and
\* whether it is a tree of h levels.
E(ns, h, b) == EntriesIn(ns)[h][b]
B(ns, h, b) == BlocksIn(ns)[h][b]
Ok(ns, h, b) == b \in 1..Len(ns) /\ TreeIn(ns)[h][b]

\* The entries and the blocks below a node, whether it is in the file or not,
\* and whether it may be the root of a tree of h levels.
NE(ns, h, nd) == Seqs!ToSet(nd.ents) \cup UNION {E(ns, h - 1, nd.kids[i]) : i \in DOMAIN nd.kids}
NB(ns, h, nd) == UNION {B(ns, h - 1, nd.kids[i]) : i \in DOMAIN nd.kids}

\* Child i of a node is a tree of one level less with enough entries, all of them
\* between those of the node beside it.
Below(ns, h, nd, i) ==
  /\ Ok(ns, h - 1, nd.kids[i])
  /\ N(ns[nd.kids[i]]) >= T - 1
  /\ Between(nd, i, E(ns, h - 1, nd.kids[i]))

\* A node is the root of a tree of h levels.
Sound(ns, h, nd) ==
  /\ nd \in Node
  /\ nd.leaf = (h = 1)
  /\ Filled(nd)
  /\ N(nd) <= 2 * T - 1
  /\ Ascending(nd.ents)
  /\ \A i \in DOMAIN nd.kids : Below(ns, h, nd, i)

\* One more level of entries, of blocks and of the tree.
EntriesOver(ns, below) ==
  [b \in 0..Len(ns) |->
     (IF b = NoBlock \/ IsLink(ns[b]) THEN {} ELSE Seqs!ToSet(ns[b].ents))
     \cup UNION {below[c] : c \in Kids(ns, b)}]

BlocksOver(ns, below) ==
  [b \in 0..Len(ns) |-> ({b} \ {NoBlock}) \cup UNION {below[c] : c \in Kids(ns, b)}]

TreeOver(ns, h, below) ==
  [b \in 0..Len(ns) |->
     LET nd == ns[b] IN
     /\ b # NoBlock
     /\ nd \in Node
     /\ nd.leaf = (h = 1)
     /\ Filled(nd)
     /\ N(nd) <= 2 * T - 1
     /\ Ascending(nd.ents)
     /\ \A i \in DOMAIN nd.kids :
          /\ nd.kids[i] \in 1..Len(ns)
          /\ below[nd.kids[i]]
          /\ N(ns[nd.kids[i]]) >= T - 1
          /\ Between(nd, i, EntriesIn(ns)[h - 1][nd.kids[i]])]

(* A node has no link in it. *)
LEMMA NodesAreNoLinks ==
  ASSUME NEW nd \in Node
  PROVE  ~IsLink(nd) /\ DOMAIN nd = {"leaf", "ents", "kids"}
BY DEF Node, IsLink

(* A block of the free list is not a node. *)
LEMMA LinksAreNoNodes ==
  ASSUME NEW nd \in [link : Int]
  PROVE  IsLink(nd) /\ nd \notin Node
BY DEF Node, IsLink

(* A node links to blocks of the file only. *)
LEMMA KidsInside ==
  ASSUME NEW ns \in Heap, NEW b \in 0..Len(ns)
  PROVE  Kids(ns, b) \subseteq 1..Len(ns)
BY DEF Kids

(* EntriesIn goes on level by level. *)
LEMMA EntriesUnfold ==
  ASSUME NEW ns \in Heap
  PROVE  /\ EntriesIn(ns) \in [Nat -> [0..Len(ns) -> SUBSET Entry]]
         /\ EntriesIn(ns)[0] = [b \in 0..Len(ns) |-> {}]
         /\ \A h \in Nat : EntriesIn(ns)[h + 1] = EntriesOver(ns, EntriesIn(ns)[h])
<1> DEFINE Levels == [0..Len(ns) -> SUBSET Entry]
<1> DEFINE base == [b \in 0..Len(ns) |-> {}]
<1> DEFINE Over == [h \in Nat |-> [d \in Levels |-> EntriesOver(ns, d)]]
<1> DEFINE Body(g) == [h \in Nat |-> IF h = 0 THEN base ELSE EntriesOver(ns, g[h - 1])]
<1>1. ASSUME NEW h \in Nat, NEW d \in Levels PROVE EntriesOver(ns, d) \in Levels
  <2>1. ASSUME NEW b \in 0..Len(ns)
        PROVE  (IF b = NoBlock \/ IsLink(ns[b]) THEN {} ELSE Seqs!ToSet(ns[b].ents))
                 \in SUBSET Entry
    <3>1. CASE b = NoBlock \/ IsLink(ns[b])
      BY <3>1
    <3>2. CASE ~(b = NoBlock \/ IsLink(ns[b]))
      <4>1. b \in 1..Len(ns) /\ ns[b] \in Node
        BY <3>2, LinksAreNoNodes DEF NoBlock, Heap
      <4>2. ns[b].ents \in Seq(Entry)
        BY <4>1 DEF Node
      <4> QED
        BY <4>2, <3>2 DEF Seqs!ToSet
    <3> QED
      BY <3>1, <3>2
  <2>2. ASSUME NEW b \in 0..Len(ns), NEW c \in Kids(ns, b) PROVE d[c] \in SUBSET Entry
    BY KidsInside
  <2> QED
    BY <2>1, <2>2 DEF EntriesOver
<1>2. PICK F : Repeats(F, Levels, base, Over)
  <2>1. base \in Levels
    OBVIOUS
  <2>2. Over \in [Nat -> [Levels -> Levels]]
    BY <1>1
  <2> HIDE DEF Levels, Over, base
  <2> QED
    BY <2>1, <2>2, SequencesOfSteps
<1>3. /\ F \in [Nat -> Levels]
      /\ F[0] = base
      /\ \A n \in Nat : F[n + 1] = EntriesOver(ns, F[n])
  <2>1. F \in [Nat -> Levels] /\ F[0] = base /\ \A n \in Nat : F[n + 1] = Over[n][F[n]]
    BY <1>2 DEF Repeats
  <2>2. ASSUME NEW n \in Nat PROVE F[n + 1] = EntriesOver(ns, F[n])
    <3>1. F[n] \in Levels
      BY <2>1
    <3> HIDE DEF Levels
    <3> QED
      BY <2>1, <3>1
  <2> QED
    BY <2>1, <2>2
<1>4. F = Body(F)
  <2>1. ASSUME NEW h \in Nat PROVE F[h] = Body(F)[h]
    <3>1. CASE h = 0
      BY <3>1, <1>3
    <3>2. CASE h # 0
      <4>1. h - 1 \in Nat /\ (h - 1) + 1 = h
        BY <3>2
      <4>2. F[h] = EntriesOver(ns, F[h - 1])
        BY <4>1, <1>3
      <4> QED
        BY <4>2, <3>2
    <3> QED
      BY <3>1, <3>2
  <2>2. Body(F) = [h \in Nat |-> Body(F)[h]] /\ F = [h \in Nat |-> F[h]]
    BY <1>3
  <2> HIDE DEF Body
  <2> QED
    BY <2>1, <2>2
<1>5. EntriesIn(ns) = Body(EntriesIn(ns))
  <2>1. EntriesIn(ns) = CHOOSE g : g = Body(g)
    BY DEF EntriesIn, EntriesOver
  <2> HIDE DEF Body
  <2> QED
    BY <1>4, <2>1
<1>6. ASSUME NEW h \in Nat
      PROVE  EntriesIn(ns)[h + 1] = EntriesOver(ns, EntriesIn(ns)[h])
  <2>1. h + 1 \in Nat /\ h + 1 # 0 /\ (h + 1) - 1 = h
    OBVIOUS
  <2>2. Body(EntriesIn(ns))[h + 1] = EntriesOver(ns, EntriesIn(ns)[h])
    BY <2>1
  <2> QED
    BY <2>2, <1>5
<1>7. EntriesIn(ns)[0] = base
  <2>1. Body(EntriesIn(ns))[0] = base
    OBVIOUS
  <2> QED
    BY <2>1, <1>5
<1>8. EntriesIn(ns) \in [Nat -> Levels]
  <2> DEFINE Ns == {n \in Nat : EntriesIn(ns)[n] \in Levels}
  <2>1. 0 \in Ns
    BY <1>7
  <2>2. \A n \in Nat : n \in Ns => n + 1 \in Ns
    <3> HIDE DEF Levels
    <3> QED
      BY <1>1, <1>6
  <2> HIDE DEF Ns
  <2>3. \A n \in Nat : n \in Ns
    BY <2>1, <2>2, NumberInduction
  <2>4. EntriesIn(ns) = [n \in Nat |-> EntriesIn(ns)[n]]
    <3>1. Body(EntriesIn(ns)) = [n \in Nat |-> Body(EntriesIn(ns))[n]]
      OBVIOUS
    <3> HIDE DEF Body
    <3> QED
      BY <3>1, <1>5
  <2> QED
    BY <2>3, <2>4 DEF Ns
<1> QED
  BY <1>6, <1>7, <1>8

(* So does BlocksIn. *)
LEMMA BlocksUnfold ==
  ASSUME NEW ns \in Heap
  PROVE  /\ BlocksIn(ns) \in [Nat -> [0..Len(ns) -> SUBSET (1..Len(ns))]]
         /\ BlocksIn(ns)[0] = [b \in 0..Len(ns) |-> {}]
         /\ \A h \in Nat : BlocksIn(ns)[h + 1] = BlocksOver(ns, BlocksIn(ns)[h])
<1> DEFINE Levels == [0..Len(ns) -> SUBSET (1..Len(ns))]
<1> DEFINE base == [b \in 0..Len(ns) |-> {}]
<1> DEFINE Over == [h \in Nat |-> [d \in Levels |-> BlocksOver(ns, d)]]
<1> DEFINE Body(g) == [h \in Nat |-> IF h = 0 THEN base ELSE BlocksOver(ns, g[h - 1])]
<1>1. ASSUME NEW h \in Nat, NEW d \in Levels PROVE BlocksOver(ns, d) \in Levels
  <2>1. ASSUME NEW b \in 0..Len(ns), NEW c \in Kids(ns, b)
        PROVE  d[c] \in SUBSET (1..Len(ns))
    BY KidsInside
  <2>2. ASSUME NEW b \in 0..Len(ns) PROVE {b} \ {NoBlock} \in SUBSET (1..Len(ns))
    BY DEF NoBlock
  <2> QED
    BY <2>1, <2>2 DEF BlocksOver
<1>2. PICK F : Repeats(F, Levels, base, Over)
  <2>1. base \in Levels
    OBVIOUS
  <2>2. Over \in [Nat -> [Levels -> Levels]]
    BY <1>1
  <2> HIDE DEF Levels, Over, base
  <2> QED
    BY <2>1, <2>2, SequencesOfSteps
<1>3. /\ F \in [Nat -> Levels]
      /\ F[0] = base
      /\ \A n \in Nat : F[n + 1] = BlocksOver(ns, F[n])
  <2>1. F \in [Nat -> Levels] /\ F[0] = base /\ \A n \in Nat : F[n + 1] = Over[n][F[n]]
    BY <1>2 DEF Repeats
  <2>2. ASSUME NEW n \in Nat PROVE F[n + 1] = BlocksOver(ns, F[n])
    <3>1. F[n] \in Levels
      BY <2>1
    <3> HIDE DEF Levels
    <3> QED
      BY <2>1, <3>1
  <2> QED
    BY <2>1, <2>2
<1>4. F = Body(F)
  <2>1. ASSUME NEW h \in Nat PROVE F[h] = Body(F)[h]
    <3>1. CASE h = 0
      BY <3>1, <1>3
    <3>2. CASE h # 0
      <4>1. h - 1 \in Nat /\ (h - 1) + 1 = h
        BY <3>2
      <4>2. F[h] = BlocksOver(ns, F[h - 1])
        BY <4>1, <1>3
      <4> QED
        BY <4>2, <3>2
    <3> QED
      BY <3>1, <3>2
  <2>2. Body(F) = [h \in Nat |-> Body(F)[h]] /\ F = [h \in Nat |-> F[h]]
    BY <1>3
  <2> HIDE DEF Body
  <2> QED
    BY <2>1, <2>2
<1>5. BlocksIn(ns) = Body(BlocksIn(ns))
  <2>1. BlocksIn(ns) = CHOOSE g : g = Body(g)
    BY DEF BlocksIn, BlocksOver
  <2> HIDE DEF Body
  <2> QED
    BY <1>4, <2>1
<1>6. ASSUME NEW h \in Nat
      PROVE  BlocksIn(ns)[h + 1] = BlocksOver(ns, BlocksIn(ns)[h])
  <2>1. h + 1 \in Nat /\ h + 1 # 0 /\ (h + 1) - 1 = h
    OBVIOUS
  <2>2. Body(BlocksIn(ns))[h + 1] = BlocksOver(ns, BlocksIn(ns)[h])
    BY <2>1
  <2> QED
    BY <2>2, <1>5
<1>7. BlocksIn(ns)[0] = base
  <2>1. Body(BlocksIn(ns))[0] = base
    OBVIOUS
  <2> QED
    BY <2>1, <1>5
<1>8. BlocksIn(ns) \in [Nat -> Levels]
  <2> DEFINE Ns == {n \in Nat : BlocksIn(ns)[n] \in Levels}
  <2>1. 0 \in Ns
    BY <1>7
  <2>2. \A n \in Nat : n \in Ns => n + 1 \in Ns
    <3> HIDE DEF Levels
    <3> QED
      BY <1>1, <1>6
  <2> HIDE DEF Ns
  <2>3. \A n \in Nat : n \in Ns
    BY <2>1, <2>2, NumberInduction
  <2>4. BlocksIn(ns) = [n \in Nat |-> BlocksIn(ns)[n]]
    <3>1. Body(BlocksIn(ns)) = [n \in Nat |-> Body(BlocksIn(ns))[n]]
      OBVIOUS
    <3> HIDE DEF Body
    <3> QED
      BY <3>1, <1>5
  <2> QED
    BY <2>3, <2>4 DEF Ns
<1> QED
  BY <1>6, <1>7, <1>8

(* So does TreeIn. *)
LEMMA TreeUnfold ==
  ASSUME NEW ns \in Heap
  PROVE  /\ TreeIn(ns) \in [Nat -> [0..Len(ns) -> BOOLEAN]]
         /\ TreeIn(ns)[0] = [b \in 0..Len(ns) |-> FALSE]
         /\ \A h \in Nat : TreeIn(ns)[h + 1] = TreeOver(ns, h + 1, TreeIn(ns)[h])
<1> DEFINE Levels == [0..Len(ns) -> BOOLEAN]
<1> DEFINE base == [b \in 0..Len(ns) |-> FALSE]
<1> DEFINE Over == [h \in Nat |-> [d \in Levels |-> TreeOver(ns, h + 1, d)]]
<1> DEFINE Body(g) == [h \in Nat |-> IF h = 0 THEN base ELSE TreeOver(ns, h, g[h - 1])]
<1>1. ASSUME NEW h \in Nat, NEW d \in Levels PROVE TreeOver(ns, h + 1, d) \in Levels
  BY DEF TreeOver
<1>2. PICK F : Repeats(F, Levels, base, Over)
  <2>1. base \in Levels
    OBVIOUS
  <2>2. Over \in [Nat -> [Levels -> Levels]]
    BY <1>1
  <2> HIDE DEF Levels, Over, base
  <2> QED
    BY <2>1, <2>2, SequencesOfSteps
<1>3. /\ F \in [Nat -> Levels]
      /\ F[0] = base
      /\ \A n \in Nat : F[n + 1] = TreeOver(ns, n + 1, F[n])
  <2>1. F \in [Nat -> Levels] /\ F[0] = base /\ \A n \in Nat : F[n + 1] = Over[n][F[n]]
    BY <1>2 DEF Repeats
  <2>2. ASSUME NEW n \in Nat PROVE F[n + 1] = TreeOver(ns, n + 1, F[n])
    <3>1. F[n] \in Levels
      BY <2>1
    <3> HIDE DEF Levels
    <3> QED
      BY <2>1, <3>1
  <2> QED
    BY <2>1, <2>2
<1>4. F = Body(F)
  <2>1. ASSUME NEW h \in Nat PROVE F[h] = Body(F)[h]
    <3>1. CASE h = 0
      BY <3>1, <1>3
    <3>2. CASE h # 0
      <4>1. h - 1 \in Nat /\ (h - 1) + 1 = h
        BY <3>2
      <4>2. F[h] = TreeOver(ns, h, F[h - 1])
        BY <4>1, <1>3
      <4> QED
        BY <4>2, <3>2
    <3> QED
      BY <3>1, <3>2
  <2>2. Body(F) = [h \in Nat |-> Body(F)[h]] /\ F = [h \in Nat |-> F[h]]
    BY <1>3
  <2> HIDE DEF Body
  <2> QED
    BY <2>1, <2>2
<1>5. TreeIn(ns) = Body(TreeIn(ns))
  <2>1. TreeIn(ns) = CHOOSE g : g = Body(g)
    BY DEF TreeIn, TreeOver
  <2> HIDE DEF Body
  <2> QED
    BY <1>4, <2>1
<1>6. ASSUME NEW h \in Nat
      PROVE  TreeIn(ns)[h + 1] = TreeOver(ns, h + 1, TreeIn(ns)[h])
  <2>1. h + 1 \in Nat /\ h + 1 # 0 /\ (h + 1) - 1 = h
    OBVIOUS
  <2>2. Body(TreeIn(ns))[h + 1] = TreeOver(ns, h + 1, TreeIn(ns)[h])
    BY <2>1
  <2> QED
    BY <2>2, <1>5
<1>7. TreeIn(ns)[0] = base
  <2>1. Body(TreeIn(ns))[0] = base
    OBVIOUS
  <2> QED
    BY <2>1, <1>5
<1>8. TreeIn(ns) \in [Nat -> Levels]
  <2> DEFINE Ns == {n \in Nat : TreeIn(ns)[n] \in Levels}
  <2>1. 0 \in Ns
    BY <1>7
  <2>2. \A n \in Nat : n \in Ns => n + 1 \in Ns
    <3> HIDE DEF Levels
    <3> QED
      BY <1>1, <1>6
  <2> HIDE DEF Ns
  <2>3. \A n \in Nat : n \in Ns
    BY <2>1, <2>2, NumberInduction
  <2>4. TreeIn(ns) = [n \in Nat |-> TreeIn(ns)[n]]
    <3>1. Body(TreeIn(ns)) = [n \in Nat |-> Body(TreeIn(ns))[n]]
      OBVIOUS
    <3> HIDE DEF Body
    <3> QED
      BY <3>1, <1>5
  <2> QED
    BY <2>3, <2>4 DEF Ns
<1> QED
  BY <1>6, <1>7, <1>8

-----------------------------------------------------------------------------
(* A tree is its node, and the trees below it. *)
LEMMA TreeIsSound ==
  ASSUME NEW ns \in Heap, NEW h \in Nat, NEW b
  PROVE  /\ Ok(ns, h + 1, b) <=> b \in 1..Len(ns) /\ Sound(ns, h + 1, ns[b])
         /\ ~Ok(ns, 0, b)
<1>1. b \in 1..Len(ns) => ~TreeIn(ns)[0][b]
  <2>1. TreeIn(ns)[0] = [c \in 0..Len(ns) |-> FALSE]
    BY TreeUnfold
  <2>2. b \in 1..Len(ns) => b \in 0..Len(ns)
    BY DEF Heap
  <2>3. b \in 1..Len(ns) => TreeIn(ns)[0][b] = FALSE
    BY <2>1, <2>2
  <2> QED
    BY <2>3
<1>2. ASSUME b \in 1..Len(ns)
      PROVE  TreeIn(ns)[h + 1][b] <=> Sound(ns, h + 1, ns[b])
  <2>1. TreeIn(ns)[h + 1][b] = TreeOver(ns, h + 1, TreeIn(ns)[h])[b]
    BY TreeUnfold
  <2>2. b \in 0..Len(ns) /\ b # NoBlock /\ (h + 1) - 1 = h
    BY <1>2 DEF NoBlock
  <2>3. ASSUME NEW nd, NEW i
        PROVE  Below(ns, h + 1, nd, i) <=>
                 /\ nd.kids[i] \in 1..Len(ns)
                 /\ TreeIn(ns)[h][nd.kids[i]]
                 /\ N(ns[nd.kids[i]]) >= T - 1
                 /\ Between(nd, i, EntriesIn(ns)[h + 1 - 1][nd.kids[i]])
    BY <2>2 DEF Below, Ok, E
  <2> DEFINE Body ==
        LET nd == ns[b] IN
        /\ b # NoBlock
        /\ nd \in Node
        /\ nd.leaf = (h + 1 = 1)
        /\ Filled(nd)
        /\ N(nd) <= 2 * T - 1
        /\ Ascending(nd.ents)
        /\ \A i \in DOMAIN nd.kids :
             /\ nd.kids[i] \in 1..Len(ns)
             /\ TreeIn(ns)[h][nd.kids[i]]
             /\ N(ns[nd.kids[i]]) >= T - 1
             /\ Between(nd, i, EntriesIn(ns)[h + 1 - 1][nd.kids[i]])
  <2>4. TreeOver(ns, h + 1, TreeIn(ns)[h])[b] = Body
    BY <2>2 DEF TreeOver
  <2>5. Sound(ns, h + 1, ns[b]) <=> Body
    <3>1. PICK nd, g : nd = ns[b] /\ g = h + 1
      OBVIOUS
    <3>2. Sound(ns, g, nd) <=>
            /\ nd \in Node
            /\ nd.leaf = (g = 1)
            /\ Filled(nd)
            /\ N(nd) <= 2 * T - 1
            /\ Ascending(nd.ents)
            /\ \A i \in DOMAIN nd.kids : Below(ns, g, nd, i)
      BY Zenon DEF Sound
    <3> QED
      BY <2>2, <2>3, <3>1, <3>2, Zenon
  <2> HIDE DEF Body
  <2> QED
    BY <2>1, <2>4, <2>5
<1> QED
  BY <1>1, <1>2 DEF Ok

(* The root block of a tree holds a sound node, one level above the leaves or more. *)
LEMMA BlockIsNode ==
  ASSUME NEW ns \in Heap, NEW h \in Nat, NEW b, Ok(ns, h, b)
  PROVE  /\ h \in Nat \ {0}
         /\ h - 1 \in Nat
         /\ b \in 1..Len(ns)
         /\ ns[b] \in Node
         /\ Sound(ns, h, ns[b])
<1>1. h # 0
  BY TreeIsSound
<1>2. h - 1 \in Nat /\ (h - 1) + 1 = h
  BY <1>1
<1>3. Ok(ns, (h - 1) + 1, b) <=> b \in 1..Len(ns) /\ Sound(ns, (h - 1) + 1, ns[b])
  BY <1>2, TreeIsSound
<1> QED
  BY <1>1, <1>2, <1>3 DEF Sound

(* And a sound node in the file is the root of a tree. *)
LEMMA SoundBlock ==
  ASSUME NEW ns \in Heap, NEW h \in Nat \ {0}, NEW b \in 1..Len(ns), Sound(ns, h, ns[b])
  PROVE  Ok(ns, h, b)
<1>1. h - 1 \in Nat /\ (h - 1) + 1 = h
  OBVIOUS
<1> QED
  BY <1>1, TreeIsSound

(* The blocks below a root are the children in its node. *)
LEMMA KidsOfNode ==
  ASSUME NEW ns \in Heap, NEW h \in Nat, NEW b, Ok(ns, h, b)
  PROVE  Kids(ns, b) = {ns[b].kids[i] : i \in DOMAIN ns[b].kids}
<1>1. b # NoBlock /\ ~IsLink(ns[b]) /\ Sound(ns, h, ns[b])
  BY BlockIsNode, NodesAreNoLinks DEF NoBlock
<1>2. \A i \in DOMAIN ns[b].kids : ns[b].kids[i] \in 1..Len(ns)
  BY <1>1 DEF Sound, Below, Ok
<1> QED
  BY <1>1, <1>2 DEF Kids, Seqs!ToSet

(* A tree holds what its root node holds, in its root block and the blocks of that node. *)
LEMMA TreeContents ==
  ASSUME NEW ns \in Heap, NEW h \in Nat, NEW b, Ok(ns, h, b)
  PROVE  /\ E(ns, h, b) = NE(ns, h, ns[b])
         /\ B(ns, h, b) = {b} \cup NB(ns, h, ns[b])
         /\ E(ns, h, b) \subseteq Entry
         /\ B(ns, h, b) \subseteq 1..Len(ns)
<1>1. h - 1 \in Nat /\ (h - 1) + 1 = h /\ b \in 0..Len(ns) /\ b # NoBlock /\ ~IsLink(ns[b])
  BY BlockIsNode, NodesAreNoLinks DEF NoBlock
<1>2. Kids(ns, b) = {ns[b].kids[i] : i \in DOMAIN ns[b].kids}
  BY KidsOfNode
<1>3. EntriesIn(ns)[h] = EntriesOver(ns, EntriesIn(ns)[h - 1])
  BY <1>1, EntriesUnfold
<1>4. BlocksIn(ns)[h] = BlocksOver(ns, BlocksIn(ns)[h - 1])
  BY <1>1, BlocksUnfold
<1>5. E(ns, h, b) = Seqs!ToSet(ns[b].ents) \cup UNION {E(ns, h - 1, c) : c \in Kids(ns, b)}
  BY <1>1, <1>3 DEF EntriesOver, E
<1>6. B(ns, h, b) = {b} \cup UNION {B(ns, h - 1, c) : c \in Kids(ns, b)}
  BY <1>1, <1>4 DEF BlocksOver, B
<1>7. E(ns, h, b) \subseteq Entry /\ B(ns, h, b) \subseteq 1..Len(ns)
  <2>1. EntriesIn(ns)[h] \in [0..Len(ns) -> SUBSET Entry]
    BY EntriesUnfold
  <2>2. BlocksIn(ns)[h] \in [0..Len(ns) -> SUBSET (1..Len(ns))]
    BY BlocksUnfold
  <2> QED
    BY <1>1, <2>1, <2>2 DEF E, B
<1>8. /\ {E(ns, h - 1, c) : c \in Kids(ns, b)}
           = {E(ns, h - 1, ns[b].kids[i]) : i \in DOMAIN ns[b].kids}
      /\ {B(ns, h - 1, c) : c \in Kids(ns, b)}
           = {B(ns, h - 1, ns[b].kids[i]) : i \in DOMAIN ns[b].kids}
  BY <1>2
<1>9. NE(ns, h, ns[b]) = Seqs!ToSet(ns[b].ents) \cup UNION {E(ns, h - 1, c) : c \in Kids(ns, b)}
  BY <1>8 DEF NE
<1>10. NB(ns, h, ns[b]) = UNION {B(ns, h - 1, c) : c \in Kids(ns, b)}
  BY <1>8 DEF NB
<1> QED
  BY <1>5, <1>6, <1>7, <1>9, <1>10

-----------------------------------------------------------------------------
\* The file has only grown.
Extends(ns, ns2) == Len(ns) <= Len(ns2) /\ \A i \in 1..Len(ns) : ns2[i] = ns[i]

\* What is below a block is as it was.
SameTree(ns, ns2, h, b) ==
  Ok(ns2, h, b) /\ E(ns2, h, b) = E(ns, h, b) /\ B(ns2, h, b) = B(ns, h, b)

(* A node is in the grown file what it is in the file, if the trees below  *)
(* it are.                                                                 *)
LEMMA NodeFrame ==
  ASSUME NEW ns \in Heap, NEW ns2 \in Heap, Extends(ns, ns2), NEW h \in Nat, NEW nd,
         Sound(ns, h, nd), \A b : Ok(ns, h - 1, b) => SameTree(ns, ns2, h - 1, b)
  PROVE  Sound(ns2, h, nd) /\ NE(ns2, h, nd) = NE(ns, h, nd) /\ NB(ns2, h, nd) = NB(ns, h, nd)
<1>1. ASSUME NEW i \in DOMAIN nd.kids
      PROVE  /\ Below(ns2, h, nd, i)
             /\ E(ns2, h - 1, nd.kids[i]) = E(ns, h - 1, nd.kids[i])
             /\ B(ns2, h - 1, nd.kids[i]) = B(ns, h - 1, nd.kids[i])
  <2>1. Below(ns, h, nd, i)
    BY DEF Sound
  <2>2. Ok(ns, h - 1, nd.kids[i]) /\ SameTree(ns, ns2, h - 1, nd.kids[i])
    BY <2>1 DEF Below
  <2>3. ns2[nd.kids[i]] = ns[nd.kids[i]]
    BY <2>2 DEF Ok, Extends
  <2> QED
    BY <2>1, <2>2, <2>3 DEF Below, SameTree
<1>2. Sound(ns2, h, nd)
  BY <1>1 DEF Sound
<1>3. /\ {E(ns2, h - 1, nd.kids[i]) : i \in DOMAIN nd.kids}
           = {E(ns, h - 1, nd.kids[i]) : i \in DOMAIN nd.kids}
      /\ {B(ns2, h - 1, nd.kids[i]) : i \in DOMAIN nd.kids}
           = {B(ns, h - 1, nd.kids[i]) : i \in DOMAIN nd.kids}
  BY <1>1
<1> QED
  BY <1>2, <1>3 DEF NE, NB

(* Whatever is written behind the end of the file, the trees in it stay.   *)
LEMMA TreeFrame ==
  ASSUME NEW ns \in Heap, NEW ns2 \in Heap, Extends(ns, ns2)
  PROVE  \A h \in Nat : \A b : Ok(ns, h, b) => SameTree(ns, ns2, h, b)
<1> DEFINE Ns == {h \in Nat : \A b : Ok(ns, h, b) => SameTree(ns, ns2, h, b)}
<1>1. 0 \in Ns
  BY TreeIsSound
<1>2. ASSUME NEW h \in Nat, h \in Ns PROVE h + 1 \in Ns
  <2> SUFFICES ASSUME NEW b, Ok(ns, h + 1, b) PROVE SameTree(ns, ns2, h + 1, b)
    OBVIOUS
  <2>1. h + 1 \in Nat \ {0} /\ (h + 1) - 1 = h
    OBVIOUS
  <2>2. b \in 1..Len(ns) /\ Sound(ns, h + 1, ns[b])
    BY <2>1, BlockIsNode
  <2>3. b \in 1..Len(ns2) /\ ns2[b] = ns[b]
    BY <2>2 DEF Extends, Heap
  <2>4. \A c : Ok(ns, (h + 1) - 1, c) => SameTree(ns, ns2, (h + 1) - 1, c)
    BY <1>2, <2>1
  <2>5. /\ Sound(ns2, h + 1, ns2[b])
        /\ NE(ns2, h + 1, ns2[b]) = NE(ns, h + 1, ns[b])
        /\ NB(ns2, h + 1, ns2[b]) = NB(ns, h + 1, ns[b])
    BY <2>1, <2>2, <2>3, <2>4, NodeFrame
  <2>6. Ok(ns2, h + 1, b)
    BY <2>1, <2>3, <2>5, SoundBlock
  <2>7. /\ E(ns, h + 1, b) = NE(ns, h + 1, ns[b])
        /\ B(ns, h + 1, b) = {b} \cup NB(ns, h + 1, ns[b])
    BY <2>1, TreeContents
  <2>8. /\ E(ns2, h + 1, b) = NE(ns2, h + 1, ns2[b])
        /\ B(ns2, h + 1, b) = {b} \cup NB(ns2, h + 1, ns2[b])
    BY <2>1, <2>6, TreeContents
  <2> QED
    BY <2>5, <2>6, <2>7, <2>8 DEF SameTree
<1> HIDE DEF Ns
<1>3. \A h \in Nat : h \in Ns
  BY <1>1, <1>2, NumberInduction
<1> QED
  BY <1>3 DEF Ns

(* What a node is and holds is the same in a file that goes on behind this one. *)
LEMMA SoundFrame ==
  ASSUME NEW ns \in Heap, NEW ns2 \in Heap, Extends(ns, ns2), NEW h \in Nat \ {0}, NEW nd,
         Sound(ns, h, nd)
  PROVE  Sound(ns2, h, nd) /\ NE(ns2, h, nd) = NE(ns, h, nd) /\ NB(ns2, h, nd) = NB(ns, h, nd)
<1>1. h - 1 \in Nat
  OBVIOUS
<1> QED
  BY <1>1, TreeFrame, NodeFrame

(* A file that goes on behind one that goes on behind a third goes on behind the third. *)
LEMMA ExtendsTransitive ==
  ASSUME NEW ns \in Heap, NEW ns2 \in Heap, NEW ns3 \in Heap, Extends(ns, ns2), Extends(ns2, ns3)
  PROVE  Extends(ns, ns3)
BY DEF Extends, Heap

-----------------------------------------------------------------------------
(* All leaves are at one depth: a block is the root of trees of one height. *)
LEMMA OneHeight ==
  ASSUME NEW ns \in Heap
  PROVE  \A h \in Nat : \A g \in Nat : \A b : Ok(ns, h, b) /\ Ok(ns, g, b) => g = h
<1> DEFINE Ns == {h \in Nat : \A g \in Nat : \A b : Ok(ns, h, b) /\ Ok(ns, g, b) => g = h}
<1>1. 0 \in Ns
  BY TreeIsSound
<1>2. ASSUME NEW h \in Nat, h \in Ns PROVE h + 1 \in Ns
  <2> SUFFICES ASSUME NEW g \in Nat, NEW b, Ok(ns, h + 1, b), Ok(ns, g, b) PROVE g = h + 1
    OBVIOUS
  <2>1. h + 1 \in Nat /\ (h + 1) - 1 = h
    OBVIOUS
  <2>2. Sound(ns, h + 1, ns[b]) /\ Sound(ns, g, ns[b]) /\ g # 0 /\ g - 1 \in Nat
    BY <2>1, BlockIsNode
  <2>3. CASE ns[b].leaf
    BY <2>2, <2>3 DEF Sound
  <2>4. CASE ~ns[b].leaf
    <3>1. 1 \in DOMAIN ns[b].kids
      BY <2>2, <2>4 DEF Sound, Filled, Node, N
    <3>2. Ok(ns, h, ns[b].kids[1]) /\ Ok(ns, g - 1, ns[b].kids[1])
      BY <2>1, <2>2, <3>1 DEF Sound, Below
    <3>3. g - 1 = h
      BY <1>2, <2>2, <3>2
    <3> QED
      BY <3>3
  <2> QED
    BY <2>3, <2>4
<1> HIDE DEF Ns
<1>3. \A h \in Nat : h \in Ns
  BY <1>1, <1>2, NumberInduction
<1> QED
  BY <1>3 DEF Ns

-----------------------------------------------------------------------------
(* The entries of keys are numbers in order. *)
LEMMA Order ==
  ASSUME Unique, NEW d \in Entry, NEW e \in Entry
  PROVE  /\ Key(d) \in Int
         /\ Precedes(d, e) <=> Key(d) < Key(e)
BY DEF Precedes, Key, Entry

(* The positions of the entries and the children of a node, and what is there. *)
LEMMA EntriesOfNode ==
  ASSUME NEW nd \in Node, Filled(nd)
  PROVE  /\ N(nd) \in Nat
         /\ DOMAIN nd.ents = 1..N(nd)
         /\ nd.ents \in Seq(Entry)
         /\ nd.kids \in Seq(Nat)
         /\ \A i \in 1..N(nd) : nd.ents[i] \in Entry
         /\ DOMAIN nd.kids = IF nd.leaf THEN {} ELSE 1..(N(nd) + 1)
         /\ Len(nd.kids) = IF nd.leaf THEN 0 ELSE N(nd) + 1
         /\ \A i \in DOMAIN nd.kids : nd.kids[i] \in Nat
BY DEF Node, N, Filled

(* What a sound node holds, and what its children hold. *)
LEMMA SoundNode ==
  ASSUME NEW ns \in Heap, NEW h \in Nat \ {0}, NEW nd, Sound(ns, h, nd)
  PROVE  /\ nd \in Node
         /\ Filled(nd)
         /\ NE(ns, h, nd) \subseteq Entry
         /\ NB(ns, h, nd) \subseteq 1..Len(ns)
         /\ \A i \in DOMAIN nd.kids :
              /\ Ok(ns, h - 1, nd.kids[i])
              /\ E(ns, h - 1, nd.kids[i]) \subseteq NE(ns, h, nd)
              /\ B(ns, h - 1, nd.kids[i]) \subseteq NB(ns, h, nd)
<1>1. nd \in Node /\ Filled(nd) /\ h - 1 \in Nat
  BY DEF Sound
<1>2. ASSUME NEW i \in DOMAIN nd.kids
      PROVE  /\ Ok(ns, h - 1, nd.kids[i])
             /\ E(ns, h - 1, nd.kids[i]) \subseteq Entry
             /\ B(ns, h - 1, nd.kids[i]) \subseteq 1..Len(ns)
  <2>1. Ok(ns, h - 1, nd.kids[i])
    BY DEF Sound, Below
  <2> QED
    BY <1>1, <2>1, TreeContents
<1>3. Seqs!ToSet(nd.ents) \subseteq Entry
  BY <1>1, EntriesOfNode DEF Seqs!ToSet
<1> QED
  BY <1>1, <1>2, <1>3 DEF NE, NB

(* The entries below two children of a node are on two sides of the one    *)
(* between them.                                                           *)
LEMMA EntriesApart ==
  ASSUME Unique, NEW ns \in Heap, NEW h \in Nat \ {0}, NEW nd, Sound(ns, h, nd),
         NEW i \in DOMAIN nd.kids, NEW j \in DOMAIN nd.kids, i < j
  PROVE  E(ns, h - 1, nd.kids[i]) \cap E(ns, h - 1, nd.kids[j]) = {}
<1> SUFFICES ASSUME NEW e \in E(ns, h - 1, nd.kids[i]), e \in E(ns, h - 1, nd.kids[j])
             PROVE  FALSE
  OBVIOUS
<1>1. i \in 1..N(nd) /\ i \in 1..(j - 1) /\ i \in i..N(nd) /\ nd.ents[i] \in Entry
  <2>1. nd \in Node /\ Filled(nd)
    BY DEF Sound
  <2>2. /\ N(nd) \in Nat
        /\ DOMAIN nd.kids = IF nd.leaf THEN {} ELSE 1..(N(nd) + 1)
        /\ \A l \in 1..N(nd) : nd.ents[l] \in Entry
    BY <2>1, EntriesOfNode
  <2> QED
    BY <2>2
<1>2. e \in Entry
  BY SoundNode
<1>3. Between(nd, i, E(ns, h - 1, nd.kids[i])) /\ Between(nd, j, E(ns, h - 1, nd.kids[j]))
  BY DEF Sound, Below
<1>4. Precedes(e, nd.ents[i]) /\ Precedes(nd.ents[i], e)
  BY <1>1, <1>3 DEF Between
<1> QED
  BY <1>1, <1>2, <1>4, Order

(* A tree with an entry in its root node is not empty. *)
LEMMA FullTreesHaveEntries ==
  ASSUME NEW ns \in Heap, NEW h \in Nat, NEW b, Ok(ns, h, b), N(ns[b]) >= 1
  PROVE  E(ns, h, b) # {}
<1>1. ns[b] \in Node /\ Filled(ns[b])
  BY BlockIsNode DEF Sound
<1>2. ns[b].ents[1] \in Seqs!ToSet(ns[b].ents)
  BY <1>1, EntriesOfNode DEF Seqs!ToSet
<1>3. E(ns, h, b) = NE(ns, h, ns[b])
  BY TreeContents
<1>4. Seqs!ToSet(ns[b].ents) \subseteq NE(ns, h, ns[b])
  BY DEF NE
<1> QED
  BY <1>2, <1>3, <1>4

(* Every block of a tree is its root, or the root of a lower tree in it.   *)
LEMMA BlocksAreTrees ==
  ASSUME NEW ns \in Heap
  PROVE  \A h \in Nat : \A b, c :
           Ok(ns, h, b) /\ c \in B(ns, h, b) /\ c # b =>
             \E g \in Nat : /\ g < h
                            /\ Ok(ns, g, c)
                            /\ E(ns, g, c) # {}
                            /\ E(ns, g, c) \subseteq E(ns, h, b)
<1> DEFINE Lower(g, h, b, c) ==
             g < h /\ Ok(ns, g, c) /\ E(ns, g, c) # {} /\ E(ns, g, c) \subseteq E(ns, h, b)
<1> DEFINE Ns == {h \in Nat : \A b, c : Ok(ns, h, b) /\ c \in B(ns, h, b) /\ c # b =>
                                          \E g \in Nat : Lower(g, h, b, c)}
<1>1. 0 \in Ns
  BY TreeIsSound
<1>2. ASSUME NEW h \in Nat, h \in Ns PROVE h + 1 \in Ns
  <2> SUFFICES ASSUME NEW b, NEW c, Ok(ns, h + 1, b), c \in B(ns, h + 1, b), c # b
               PROVE  \E g \in Nat : Lower(g, h + 1, b, c)
    OBVIOUS
  <2>1. h + 1 \in Nat \ {0} /\ (h + 1) - 1 = h
    OBVIOUS
  <2>2. Sound(ns, h + 1, ns[b])
    BY <2>1, BlockIsNode
  <2>3. c \in NB(ns, h + 1, ns[b]) /\ E(ns, h + 1, b) = NE(ns, h + 1, ns[b])
    BY <2>1, TreeContents
  <2>4. PICK i \in DOMAIN ns[b].kids : c \in B(ns, h, ns[b].kids[i])
    BY <2>1, <2>3 DEF NB
  <2>5. Below(ns, h + 1, ns[b], i)
    BY <2>2 DEF Sound
  <2>6. Ok(ns, h, ns[b].kids[i]) /\ N(ns[ns[b].kids[i]]) >= T - 1
    BY <2>1, <2>5 DEF Below
  <2>7. E(ns, h, ns[b].kids[i]) \subseteq E(ns, h + 1, b)
    BY <2>1, <2>2, <2>3, SoundNode
  <2>8. CASE c = ns[b].kids[i]
    <3>1. ns[c] \in Node
      BY <2>6, <2>8, BlockIsNode
    <3>2. N(ns[c]) >= 1
      BY <2>6, <2>8, <3>1, DegreeAssumption DEF N, Node
    <3>3. E(ns, h, c) # {}
      BY <2>6, <2>8, <3>2, FullTreesHaveEntries
    <3> QED
      BY <2>6, <2>7, <2>8, <3>3
  <2>9. CASE c # ns[b].kids[i]
    <3>1. PICK g \in Nat : Lower(g, h, ns[b].kids[i], c)
      BY <1>2, <2>4, <2>6, <2>9
    <3>2. Lower(g, h + 1, b, c)
      BY <2>7, <3>1
    <3> QED
      BY <3>2
  <2> QED
    BY <2>8, <2>9
<1> HIDE DEF Ns
<1>3. \A h \in Nat : h \in Ns
  BY <1>1, <1>2, NumberInduction
<1> QED
  BY <1>3 DEF Ns

(* No block is below two children of a node, and none is below itself.     *)
LEMMA BlocksApart ==
  ASSUME Unique, NEW ns \in Heap, NEW h \in Nat \ {0}, NEW nd, Sound(ns, h, nd)
  PROVE  \A i, j \in DOMAIN nd.kids :
           i # j => B(ns, h - 1, nd.kids[i]) \cap B(ns, h - 1, nd.kids[j]) = {}
<1>1. ASSUME NEW i \in DOMAIN nd.kids, NEW c \in B(ns, h - 1, nd.kids[i])
      PROVE  \E g \in Nat : /\ Ok(ns, g, c)
                            /\ E(ns, g, c) # {}
                            /\ E(ns, g, c) \subseteq E(ns, h - 1, nd.kids[i])
  <2>1. Ok(ns, h - 1, nd.kids[i]) /\ N(ns[nd.kids[i]]) >= T - 1 /\ h - 1 \in Nat
    BY DEF Sound, Below
  <2>2. CASE c = nd.kids[i]
    <3>1. ns[c] \in Node
      BY <2>1, <2>2, BlockIsNode
    <3>2. N(ns[c]) >= 1
      BY <2>1, <2>2, <3>1, DegreeAssumption DEF N, Node
    <3> QED
      BY <2>1, <2>2, <3>2, FullTreesHaveEntries
  <2>3. CASE c # nd.kids[i]
    BY <2>1, <2>3, BlocksAreTrees
  <2> QED
    BY <2>2, <2>3
<1>2. ASSUME NEW i \in DOMAIN nd.kids, NEW j \in DOMAIN nd.kids, i < j,
             NEW c \in B(ns, h - 1, nd.kids[i]), c \in B(ns, h - 1, nd.kids[j])
      PROVE  FALSE
  <2>1. PICK g \in Nat : /\ Ok(ns, g, c)
                         /\ E(ns, g, c) # {}
                         /\ E(ns, g, c) \subseteq E(ns, h - 1, nd.kids[i])
    BY <1>1
  <2>2. PICK k \in Nat : /\ Ok(ns, k, c)
                         /\ E(ns, k, c) \subseteq E(ns, h - 1, nd.kids[j])
    BY <1>1, <1>2
  <2>3. g = k
    BY <2>1, <2>2, OneHeight
  <2> QED
    BY <1>2, <2>1, <2>2, <2>3, EntriesApart
<1>3. \A i, j \in DOMAIN nd.kids : i # j => i < j \/ j < i
  <2>1. nd \in Node /\ Filled(nd)
    BY DEF Sound
  <2> QED
    BY <2>1, EntriesOfNode
<1> QED
  BY <1>2, <1>3

(* The root block of a tree is not among the blocks below it: a path never comes back. *)
LEMMA RootApart ==
  ASSUME NEW ns \in Heap, NEW h \in Nat, NEW b, Ok(ns, h, b)
  PROVE  b \notin NB(ns, h, ns[b])
<1> SUFFICES ASSUME b \in NB(ns, h, ns[b]) PROVE FALSE
  OBVIOUS
<1>1. Sound(ns, h, ns[b]) /\ h - 1 \in Nat /\ h \in Nat \ {0}
  BY BlockIsNode
<1>2. PICK i \in DOMAIN ns[b].kids : b \in B(ns, h - 1, ns[b].kids[i])
  BY DEF NB
<1>3. Ok(ns, h - 1, ns[b].kids[i])
  BY <1>1, SoundNode
<1>4. \E g \in Nat : g <= h - 1 /\ Ok(ns, g, b)
  BY <1>1, <1>2, <1>3, BlocksAreTrees
<1> QED
  BY <1>1, <1>4, OneHeight

(* A walk that goes down further than the tree finds no more.              *)
LEMMA DeepEnough ==
  ASSUME NEW ns \in Heap
  PROVE  \A h \in Nat : \A g \in Nat : \A b :
           Ok(ns, h, b) /\ g >= h => E(ns, g, b) = E(ns, h, b) /\ B(ns, g, b) = B(ns, h, b)
<1> DEFINE Ns == {h \in Nat : \A g \in Nat : \A b : Ok(ns, h, b) /\ g >= h =>
                                E(ns, g, b) = E(ns, h, b) /\ B(ns, g, b) = B(ns, h, b)}
<1>1. 0 \in Ns
  BY TreeIsSound
<1>2. ASSUME NEW h \in Nat, h \in Ns PROVE h + 1 \in Ns
  <2> SUFFICES ASSUME NEW g \in Nat, NEW b, Ok(ns, h + 1, b), g >= h + 1
               PROVE  E(ns, g, b) = E(ns, h + 1, b) /\ B(ns, g, b) = B(ns, h + 1, b)
    OBVIOUS
  <2>1. /\ h + 1 \in Nat \ {0} /\ (h + 1) - 1 = h
        /\ g - 1 \in Nat /\ (g - 1) + 1 = g /\ g - 1 >= h
    OBVIOUS
  <2>2. Sound(ns, h + 1, ns[b]) /\ b \in 0..Len(ns) /\ b # NoBlock
    BY <2>1, BlockIsNode DEF NoBlock
  <2>3. Kids(ns, b) = {ns[b].kids[i] : i \in DOMAIN ns[b].kids}
    BY <2>1, KidsOfNode
  <2>4. \A c \in Kids(ns, b) : Ok(ns, h, c)
    BY <2>1, <2>2, <2>3, SoundNode
  <2>5. \A c \in Kids(ns, b) : E(ns, g - 1, c) = E(ns, h, c) /\ B(ns, g - 1, c) = B(ns, h, c)
    BY <1>2, <2>1, <2>4
  <2>6. /\ EntriesIn(ns)[g] = EntriesOver(ns, EntriesIn(ns)[g - 1])
        /\ EntriesIn(ns)[h + 1] = EntriesOver(ns, EntriesIn(ns)[h])
    BY <2>1, EntriesUnfold
  <2>7. /\ BlocksIn(ns)[g] = BlocksOver(ns, BlocksIn(ns)[g - 1])
        /\ BlocksIn(ns)[h + 1] = BlocksOver(ns, BlocksIn(ns)[h])
    BY <2>1, BlocksUnfold
  <2>8. /\ UNION {EntriesIn(ns)[g - 1][c] : c \in Kids(ns, b)}
             = UNION {EntriesIn(ns)[h][c] : c \in Kids(ns, b)}
        /\ UNION {BlocksIn(ns)[g - 1][c] : c \in Kids(ns, b)}
             = UNION {BlocksIn(ns)[h][c] : c \in Kids(ns, b)}
    BY <2>5 DEF E, B
  <2>9. E(ns, g, b) = E(ns, h + 1, b)
    <3>1. EntriesOver(ns, EntriesIn(ns)[g - 1])[b] = EntriesOver(ns, EntriesIn(ns)[h])[b]
      BY <2>2, <2>8 DEF EntriesOver
    <3> QED
      BY <2>6, <3>1 DEF E
  <2>10. B(ns, g, b) = B(ns, h + 1, b)
    <3>1. BlocksOver(ns, BlocksIn(ns)[g - 1])[b] = BlocksOver(ns, BlocksIn(ns)[h])[b]
      BY <2>2, <2>8 DEF BlocksOver
    <3> QED
      BY <2>7, <3>1 DEF B
  <2> QED
    BY <2>9, <2>10
<1> HIDE DEF Ns
<1>3. \A h \in Nat : h \in Ns
  BY <1>1, <1>2, NumberInduction
<1> QED
  BY <1>3 DEF Ns

-----------------------------------------------------------------------------
(***************************************************************************)
(* Stores: writing and staging blocks, and what the blocks of a tree turn  *)
(* into.                                                                   *)
(***************************************************************************)

\* A store in which every block that is allocated is new.
Fresh(f) ==
  /\ f \in Stores
  /\ f.head = NoBlock
  /\ f.count = Len(f.nodes) + 1
  /\ NoBlock \notin f.live
  /\ NoBlock \notin Seqs!ToSet(f.log)
  /\ f.clash = FALSE

New(f, g) == (Len(f.nodes) + 1)..Len(g.nodes)

\* Store g has come from store f, staging the blocks S.
Came(f, g, S) ==
  /\ Fresh(f) /\ Fresh(g)
  /\ Extends(f.nodes, g.nodes)
  /\ Seqs!ToSet(g.pending) = Seqs!ToSet(f.pending) \cup S
  /\ Seqs!ToSet(g.log) = Seqs!ToSet(f.log) \cup New(f, g)

\* On the way the blocks "old" have turned into the blocks "new": the ones that
\* have been written are added, and exactly the ones that have been staged gone.
Turns(f, old, g, new) ==
  \E S \in SUBSET (old \cup New(f, g)) :
    Came(f, g, S) /\ new = (old \cup New(f, g)) \ S

(* The fields of a store. *)
LEMMA StoreFields ==
  ASSUME NEW f \in Stores
  PROVE  /\ f.nodes \in Heap
         /\ Len(f.nodes) \in Nat
         /\ f.pending \in Seq(Nat)
         /\ f.log \in Seq(Nat)
         /\ f.live \in SUBSET Nat
         /\ f.head \in Int
         /\ f.count \in Nat
         /\ f.clash \in BOOLEAN
BY DEF Stores, Heap

(* The elements of a sequence with one more at its end. *)
LEMMA SetOfAppend ==
  ASSUME NEW D, NEW s \in Seq(D), NEW e
  PROVE  Seqs!ToSet(Append(s, e)) = Seqs!ToSet(s) \cup {e}
<1>1. DOMAIN Append(s, e) = 1..(Len(s) + 1) /\ DOMAIN s = 1..Len(s) /\ Len(s) \in Nat
  OBVIOUS
<1>2. \A i \in 1..Len(s) : Append(s, e)[i] = s[i]
  OBVIOUS
<1>3. Append(s, e)[Len(s) + 1] = e
  OBVIOUS
<1>4. 1..(Len(s) + 1) = 1..Len(s) \cup {Len(s) + 1}
  BY <1>1
<1> QED
  BY <1>1, <1>2, <1>3, <1>4 DEF Seqs!ToSet

(* The elements of two sequences one after the other. *)
LEMMA SetOfConcat ==
  ASSUME NEW D, NEW s \in Seq(D), NEW t \in Seq(D)
  PROVE  Seqs!ToSet(s \o t) = Seqs!ToSet(s) \cup Seqs!ToSet(t)
<1>1. /\ DOMAIN (s \o t) = 1..(Len(s) + Len(t)) /\ DOMAIN s = 1..Len(s) /\ DOMAIN t = 1..Len(t)
      /\ Len(s) \in Nat /\ Len(t) \in Nat
  OBVIOUS
<1>2. \A i \in 1..Len(s) : (s \o t)[i] = s[i] /\ i \in 1..(Len(s) + Len(t))
  OBVIOUS
<1>3. \A i \in 1..Len(t) : (s \o t)[Len(s) + i] = t[i] /\ Len(s) + i \in 1..(Len(s) + Len(t))
  OBVIOUS
<1>4. \A i \in 1..(Len(s) + Len(t)) :
        i \in 1..Len(s) \/ (i - Len(s) \in 1..Len(t) /\ i = Len(s) + (i - Len(s)))
  BY <1>1
<1> QED
  BY <1>1, <1>2, <1>3, <1>4 DEF Seqs!ToSet

(* A block is written behind the end of the file. *)
LEMMA Write ==
  ASSUME NEW f, Fresh(f), NEW nd \in Node
  PROVE  /\ Fresh(WriteNode(f, nd).f)
         /\ WriteNode(f, nd).at = Len(f.nodes) + 1
         /\ WriteNode(f, nd).f.nodes = Append(f.nodes, nd)
         /\ WriteNode(f, nd).f.log = Append(f.log, Len(f.nodes) + 1)
         /\ WriteNode(f, nd).f.pending = f.pending
         /\ Len(WriteNode(f, nd).f.nodes) = Len(f.nodes) + 1
         /\ Extends(f.nodes, WriteNode(f, nd).f.nodes)
<1>1. f \in Stores /\ f.head = 0 /\ f.count = Len(f.nodes) + 1 /\ f.clash = FALSE
  BY DEF Fresh, NoBlock
<1>2. ~InUse(f) /\ f.head \notin 1..(f.count - 1)
  BY <1>1 DEF InUse, Fresh, NoBlock, Inside, Seqs!ToSet
<1>3. AllocateBlock(f) = [f |-> Grow(f), at |-> f.count]
  BY <1>2 DEF AllocateBlock
<1> DEFINE g == [Grow(f) EXCEPT !.nodes = Put(@, f.count, nd), !.log = Append(@, f.count)]
<1>4. WriteNode(f, nd) = [f |-> g, at |-> f.count]
  BY <1>3 DEF WriteNode, Stored
<1>5. f.nodes \in Heap /\ Len(f.nodes) \in Nat /\ f.log \in Seq(Nat)
  BY <1>1, StoreFields
<1>6. Put(f.nodes, f.count, nd) = Append(f.nodes, nd)
  <2>1. ~(f.count <= Len(f.nodes))
    BY <1>1, <1>5
  <2> QED
    BY <2>1 DEF Put
<1>7. /\ g.nodes = Append(f.nodes, nd)
      /\ g.log = Append(f.log, f.count)
      /\ g.pending = f.pending
      /\ g.live = f.live
      /\ g.head = 0
      /\ g.count = f.count + 1
      /\ g.clash = FALSE
      /\ g \in Stores
  <2>1. g = [[[[f EXCEPT !.head = 0] EXCEPT !.count = f.count + 1]
                EXCEPT !.nodes = Append(f.nodes, nd)] EXCEPT !.log = Append(f.log, f.count)]
    BY <1>1, <1>6 DEF Grow, Stores, NoBlock
  <2>2. Append(f.nodes, nd) \in Heap
    BY <1>5 DEF Heap
  <2>3. f.count \in Nat /\ f.count + 1 \in Nat /\ Append(f.log, f.count) \in Seq(Nat)
    BY <1>1, <1>5
  <2> QED
    BY <1>1, <2>1, <2>2, <2>3 DEF Stores, Heap
<1> HIDE DEF g
<1>8. Len(g.nodes) = Len(f.nodes) + 1 /\ Extends(f.nodes, g.nodes)
  <2>1. Len(Append(f.nodes, nd)) = Len(f.nodes) + 1
    BY <1>5 DEF Heap
  <2>2. \A i \in 1..Len(f.nodes) : Append(f.nodes, nd)[i] = f.nodes[i]
    BY <1>5 DEF Heap
  <2> QED
    BY <1>5, <1>7, <2>1, <2>2 DEF Extends
<1>9. Seqs!ToSet(g.log) = Seqs!ToSet(f.log) \cup {f.count}
  BY <1>5, <1>7, SetOfAppend
<1>10. Fresh(g)
  BY <1>1, <1>5, <1>7, <1>8, <1>9 DEF Fresh, NoBlock
<1>11. WriteNode(f, nd).f = g /\ WriteNode(f, nd).at = f.count
  BY <1>4
<1>12. g.log = Append(f.log, Len(f.nodes) + 1)
  BY <1>1, <1>7
<1> QED
  BY <1>1, <1>7, <1>8, <1>10, <1>11, <1>12

(* A node is written over the trees that are in the file. *)
LEMMA WriteSound ==
  ASSUME NEW f, Fresh(f), NEW h \in Nat \ {0}, NEW nd, Sound(f.nodes, h, nd),
         NEW r, r = WriteNode(f, nd)
  PROVE  /\ Fresh(r.f)
         /\ r.at = Len(f.nodes) + 1
         /\ Len(r.f.nodes) = Len(f.nodes) + 1
         /\ Extends(f.nodes, r.f.nodes)
         /\ r.f.nodes[r.at] = nd
         /\ Ok(r.f.nodes, h, r.at)
         /\ E(r.f.nodes, h, r.at) = NE(f.nodes, h, nd)
         /\ B(r.f.nodes, h, r.at) = {r.at} \cup NB(f.nodes, h, nd)
         /\ \A a, b : b = a \cup {r.at} => Turns(f, a, r.f, b)
<1>1. nd \in Node
  BY DEF Sound
<1>2. f \in Stores
  BY DEF Fresh
<1>3. f.nodes \in Heap /\ Len(f.nodes) \in Nat /\ f.log \in Seq(Nat)
  BY <1>2, StoreFields
<1>4. /\ Fresh(r.f)
      /\ r.at = Len(f.nodes) + 1
      /\ r.f.nodes = Append(f.nodes, nd)
      /\ r.f.log = Append(f.log, Len(f.nodes) + 1)
      /\ r.f.pending = f.pending
      /\ Len(r.f.nodes) = Len(f.nodes) + 1
      /\ Extends(f.nodes, r.f.nodes)
  BY <1>1, Write
<1>5. r.f.nodes \in Heap
  BY <1>4, StoreFields DEF Fresh
<1>6. r.f.nodes[r.at] = nd /\ r.at \in 1..Len(r.f.nodes)
  BY <1>3, <1>4 DEF Heap
<1>7. /\ Sound(r.f.nodes, h, nd)
      /\ NE(r.f.nodes, h, nd) = NE(f.nodes, h, nd)
      /\ NB(r.f.nodes, h, nd) = NB(f.nodes, h, nd)
  BY <1>3, <1>4, <1>5, SoundFrame
<1>8. Ok(r.f.nodes, h, r.at)
  BY <1>5, <1>6, <1>7, SoundBlock
<1>9. /\ E(r.f.nodes, h, r.at) = NE(f.nodes, h, nd)
      /\ B(r.f.nodes, h, r.at) = {r.at} \cup NB(f.nodes, h, nd)
  BY <1>5, <1>6, <1>7, <1>8, TreeContents
<1>10. New(f, r.f) = {r.at}
  BY <1>3, <1>4 DEF New
<1>11. Came(f, r.f, {})
  BY <1>3, <1>4, <1>10, SetOfAppend DEF Came
<1>12. ASSUME NEW a, NEW b, b = a \cup {r.at} PROVE Turns(f, a, r.f, b)
  BY <1>10, <1>11, <1>12 DEF Turns
<1> QED
  BY <1>4, <1>6, <1>8, <1>9, <1>12

-----------------------------------------------------------------------------
(* Accounts of blocks add up. *)
LEMMA TurnsStores ==
  ASSUME NEW f, NEW g, NEW a, NEW b, Turns(f, a, g, b)
  PROVE  /\ Fresh(f) /\ Fresh(g)
         /\ f \in Stores /\ g \in Stores
         /\ f.nodes \in Heap /\ g.nodes \in Heap
         /\ Len(f.nodes) \in Nat /\ Len(g.nodes) \in Nat /\ Len(f.nodes) <= Len(g.nodes)
         /\ Extends(f.nodes, g.nodes)
         /\ b \subseteq a \cup New(f, g)
BY StoreFields DEF Turns, Came, Fresh, Extends

(* Blocks turn into themselves where nothing is done. *)
LEMMA TurnsRefl ==
  ASSUME NEW f, Fresh(f), NEW a
  PROVE  Turns(f, a, f, a)
<1>1. New(f, f) = {}
  BY StoreFields DEF New, Fresh
<1>2. Came(f, f, {})
  BY <1>1, StoreFields DEF Came, Extends, Fresh
<1> QED
  BY <1>1, <1>2 DEF Turns

(* What blocks have turned into in two operations one after the other. *)
LEMMA TurnsTrans ==
  ASSUME NEW f, NEW g, NEW k, NEW a, NEW b, NEW c, Turns(f, a, g, b), Turns(g, b, k, c),
         a \subseteq 1..Len(f.nodes)
  PROVE  Turns(f, a, k, c)
<1>1. PICK S1 \in SUBSET (a \cup New(f, g)) : Came(f, g, S1) /\ b = (a \cup New(f, g)) \ S1
  BY DEF Turns
<1>2. PICK S2 \in SUBSET (b \cup New(g, k)) : Came(g, k, S2) /\ c = (b \cup New(g, k)) \ S2
  BY DEF Turns
<1>3. /\ Len(f.nodes) \in Nat /\ Len(g.nodes) \in Nat /\ Len(k.nodes) \in Nat
      /\ Len(f.nodes) <= Len(g.nodes) /\ Len(g.nodes) <= Len(k.nodes)
      /\ f.nodes \in Heap /\ g.nodes \in Heap /\ k.nodes \in Heap
  BY TurnsStores
<1>4. New(f, k) = New(f, g) \cup New(g, k)
  BY <1>3 DEF New
<1>5. (a \cup New(f, g)) \cap New(g, k) = {}
  BY <1>3 DEF New
<1>6. Extends(f.nodes, k.nodes)
  BY <1>1, <1>2, <1>3, ExtendsTransitive DEF Came
<1>7. Came(f, k, S1 \cup S2)
  BY <1>1, <1>2, <1>4, <1>6 DEF Came
<1>8. S1 \cup S2 \in SUBSET (a \cup New(f, k))
  BY <1>1, <1>2, <1>4
<1>9. c = (a \cup New(f, k)) \ (S1 \cup S2)
  BY <1>1, <1>2, <1>4, <1>5
<1> QED
  BY <1>7, <1>8, <1>9 DEF Turns

(* The blocks beside them stay. *)
LEMMA TurnsWiden ==
  ASSUME NEW f, NEW g, NEW a, NEW b, Turns(f, a, g, b),
         NEW X, X \subseteq 1..Len(f.nodes), X \cap a = {},
         NEW c, c = a \cup X, NEW d, d = b \cup X
  PROVE  Turns(f, c, g, d)
<1>1. PICK S \in SUBSET (a \cup New(f, g)) : Came(f, g, S) /\ b = (a \cup New(f, g)) \ S
  BY DEF Turns
<1>2. Len(f.nodes) \in Nat /\ Len(g.nodes) \in Nat
  BY TurnsStores
<1>3. X \cap New(f, g) = {}
  BY <1>2 DEF New
<1>4. b \cup X = ((a \cup X) \cup New(f, g)) \ S
  BY <1>1, <1>3
<1> QED
  BY <1>1, <1>4 DEF Turns

(* Blocks are staged. *)
LEMMA FreeingKeeps ==
  ASSUME NEW r, r.f \in Stores, NEW s, NEW w, w = Freeing(r, s)
  PROVE  w.at = r.at /\ w.f.nodes = r.f.nodes
BY DEF Freeing, Stores

(* Blocks that are staged, freed or allocated since, are left out of what the old ones turn into. *)
LEMMA TurnsFree ==
  ASSUME NEW f, NEW r, NEW a, NEW b, Turns(f, a, r.f, b),
         NEW s \in Seq(Nat), Seqs!ToSet(s) \subseteq a \cup New(f, r.f),
         NEW w, w = Freeing(r, s), NEW c, c = b \ Seqs!ToSet(s)
  PROVE  Turns(f, a, w.f, c)
<1> DEFINE g == [r.f EXCEPT !.pending = @ \o s]
<1>1. PICK S \in SUBSET (a \cup New(f, r.f)) :
        Came(f, r.f, S) /\ b = (a \cup New(f, r.f)) \ S
  BY DEF Turns
<1>2. r.f \in Stores /\ Fresh(r.f) /\ r.f.pending \in Seq(Nat)
  BY TurnsStores, StoreFields
<1>3. /\ g \in Stores /\ g.nodes = r.f.nodes /\ g.log = r.f.log /\ g.live = r.f.live
      /\ g.head = r.f.head /\ g.count = r.f.count /\ g.clash = r.f.clash
      /\ g.pending = r.f.pending \o s
  <2>1. r.f.pending \o s \in Seq(Nat)
    BY <1>2
  <2> QED
    BY <1>2, <2>1 DEF Stores
<1>4. Freeing(r, s) = [f |-> g, at |-> r.at]
  BY DEF Freeing
<1> HIDE DEF g
<1>5. Fresh(g)
  BY <1>2, <1>3 DEF Fresh
<1>6. New(f, g) = New(f, r.f)
  BY <1>3 DEF New
<1>7. Seqs!ToSet(g.pending) = Seqs!ToSet(f.pending) \cup (S \cup Seqs!ToSet(s))
  BY <1>1, <1>2, <1>3, SetOfConcat DEF Came
<1>8. Came(f, g, S \cup Seqs!ToSet(s))
  BY <1>1, <1>3, <1>5, <1>6, <1>7 DEF Came
<1>9. Turns(f, a, g, b \ Seqs!ToSet(s))
  BY <1>1, <1>6, <1>8 DEF Turns
<1> QED
  BY <1>3, <1>4, <1>9

-----------------------------------------------------------------------------
(***************************************************************************)
(* Nodes: an operation changes a window of one, a few children and the     *)
(* entries between them, and leaves the rest.                              *)
(***************************************************************************)

\* The children i to i + p of a node and the entries between them, the window,
\* hold these entries and blocks; the rest of the node the other ones.
WE(ns, h, nd, i, p) ==
  (UNION {E(ns, h - 1, nd.kids[j]) : j \in i..(i + p)})
  \cup {nd.ents[j] : j \in i..(i + p - 1)}
WB(ns, h, nd, i, p) == UNION {B(ns, h - 1, nd.kids[j]) : j \in i..(i + p)}

RE(ns, h, nd, i, p) ==
  (UNION {E(ns, h - 1, nd.kids[j]) : j \in 1..(i - 1)})
  \cup (UNION {E(ns, h - 1, nd.kids[j]) : j \in (i + p + 1)..(N(nd) + 1)})
  \cup {nd.ents[j] : j \in 1..(i - 1)} \cup {nd.ents[j] : j \in (i + p)..N(nd)}
RB(ns, h, nd, i, p) ==
  (UNION {B(ns, h - 1, nd.kids[j]) : j \in 1..(i - 1)})
  \cup UNION {B(ns, h - 1, nd.kids[j]) : j \in (i + p + 1)..(N(nd) + 1)}

\* Node nd2 is node nd with the window i to i + p replaced by i to i + q.
Grafted(nd, i, p, nd2, q) ==
  /\ nd2 \in Node
  /\ ~nd2.leaf
  /\ Filled(nd2)
  /\ N(nd2) = N(nd) - p + q
  /\ \A j \in 1..(i - 1) : nd2.ents[j] = nd.ents[j] /\ nd2.kids[j] = nd.kids[j]
  /\ \A j \in (i + p)..N(nd) : nd2.ents[j - p + q] = nd.ents[j]
  /\ \A j \in (i + p + 1)..(N(nd) + 1) : nd2.kids[j - p + q] = nd.kids[j]

\* Key k has its place in the window.
Admits(nd, i, p, k) ==
  /\ \A j \in 1..(i - 1) : Key(nd.ents[j]) < k
  /\ \A j \in (i + p)..N(nd) : k < Key(nd.ents[j])

(* What it takes of a node to reason about its keys. *)
LEMMA KeysOfNode ==
  ASSUME Unique, NEW ns \in Heap, NEW h \in Nat \ {0}, NEW nd, Sound(ns, h, nd)
  PROVE  /\ nd \in Node /\ Filled(nd)
         /\ h - 1 \in Nat
         /\ N(nd) \in Nat
         /\ DOMAIN nd.ents = 1..N(nd)
         /\ DOMAIN nd.kids = IF nd.leaf THEN {} ELSE 1..(N(nd) + 1)
         /\ \A i \in 1..N(nd) : nd.ents[i] \in Entry /\ Key(nd.ents[i]) \in Int
         /\ \A i, j \in 1..N(nd) : i < j => Key(nd.ents[i]) < Key(nd.ents[j])
         /\ \A i \in DOMAIN nd.kids : \A e \in E(ns, h - 1, nd.kids[i]) :
              /\ e \in Entry
              /\ Key(e) \in Int
              /\ \A j \in 1..(i - 1) : Key(nd.ents[j]) < Key(e)
              /\ \A j \in i..N(nd) : Key(e) < Key(nd.ents[j])
<1>1. nd \in Node /\ Filled(nd) /\ h - 1 \in Nat
  BY DEF Sound
<1>2. /\ N(nd) \in Nat
      /\ DOMAIN nd.ents = 1..N(nd)
      /\ DOMAIN nd.kids = IF nd.leaf THEN {} ELSE 1..(N(nd) + 1)
      /\ \A i \in 1..N(nd) : nd.ents[i] \in Entry
  BY <1>1, EntriesOfNode
<1>3. \A i \in 1..N(nd) : Key(nd.ents[i]) \in Int
  BY <1>2, Order
<1>4. ASSUME NEW i \in 1..N(nd), NEW j \in 1..N(nd), i < j
      PROVE  Key(nd.ents[i]) < Key(nd.ents[j])
  <2>1. Precedes(nd.ents[i], nd.ents[j])
    BY <1>2, <1>4 DEF Sound, Ascending
  <2> QED
    BY <1>2, <2>1, Order
<1>5. ASSUME NEW i \in DOMAIN nd.kids, NEW e \in E(ns, h - 1, nd.kids[i])
      PROVE  /\ e \in Entry
             /\ Key(e) \in Int
             /\ \A j \in 1..(i - 1) : Key(nd.ents[j]) < Key(e)
             /\ \A j \in i..N(nd) : Key(e) < Key(nd.ents[j])
  <2>1. e \in Entry
    BY SoundNode
  <2>2. i \in 1..(N(nd) + 1)
    BY <1>2
  <2>3. Between(nd, i, E(ns, h - 1, nd.kids[i]))
    BY DEF Sound, Below
  <2>4. ASSUME NEW j \in 1..(i - 1) PROVE Key(nd.ents[j]) < Key(e)
    <3>1. j \in 1..N(nd)
      BY <1>2, <2>2
    <3>2. Precedes(nd.ents[j], e)
      BY <2>3 DEF Between
    <3> QED
      BY <1>2, <2>1, <3>1, <3>2, Order
  <2>5. ASSUME NEW j \in i..N(nd) PROVE Key(e) < Key(nd.ents[j])
    <3>1. j \in 1..N(nd)
      BY <1>2, <2>2
    <3>2. Precedes(e, nd.ents[j])
      BY <2>3 DEF Between
    <3> QED
      BY <1>2, <2>1, <3>1, <3>2, Order
  <2> QED
    BY <2>1, <2>4, <2>5, Order
<1> QED
  BY <1>1, <1>2, <1>3, <1>4, <1>5

(* And the other way round, what makes a sound node. *)
LEMMA MakesSound ==
  ASSUME Unique, NEW ns \in Heap, NEW h \in Nat \ {0}, NEW nd \in Node, Filled(nd),
         nd.leaf = (h = 1), N(nd) <= 2 * T - 1,
         \A i, j \in 1..N(nd) : i < j => Key(nd.ents[i]) < Key(nd.ents[j]),
         \A i \in DOMAIN nd.kids :
           /\ Ok(ns, h - 1, nd.kids[i])
           /\ N(ns[nd.kids[i]]) >= T - 1
           /\ \A e \in E(ns, h - 1, nd.kids[i]) :
                /\ \A j \in 1..(i - 1) : Key(nd.ents[j]) < Key(e)
                /\ \A j \in i..N(nd) : Key(e) < Key(nd.ents[j])
  PROVE  Sound(ns, h, nd)
<1>1. /\ N(nd) \in Nat
      /\ DOMAIN nd.ents = 1..N(nd)
      /\ DOMAIN nd.kids = IF nd.leaf THEN {} ELSE 1..(N(nd) + 1)
      /\ \A i \in 1..N(nd) : nd.ents[i] \in Entry
  BY EntriesOfNode
<1>2. Ascending(nd.ents)
  <2> SUFFICES ASSUME NEW i \in 1..N(nd), NEW j \in 1..N(nd), i < j
               PROVE  Precedes(nd.ents[i], nd.ents[j])
    BY <1>1 DEF Ascending
  <2> QED
    BY <1>1, Order
<1>3. ASSUME NEW i \in DOMAIN nd.kids PROVE Between(nd, i, E(ns, h - 1, nd.kids[i]))
  <2> SUFFICES ASSUME NEW e \in E(ns, h - 1, nd.kids[i])
               PROVE  /\ \A j \in 1..(i - 1) : Precedes(nd.ents[j], e)
                      /\ \A j \in i..N(nd) : Precedes(e, nd.ents[j])
    BY DEF Between
  <2>1. i \in 1..(N(nd) + 1) /\ h - 1 \in Nat
    BY <1>1
  <2>2. e \in Entry
    BY <2>1, TreeContents
  <2>3. ASSUME NEW j \in 1..(i - 1) PROVE Precedes(nd.ents[j], e)
    <3>1. j \in 1..N(nd)
      BY <1>1, <2>1
    <3> QED
      BY <1>1, <2>2, <3>1, Order
  <2>4. ASSUME NEW j \in i..N(nd) PROVE Precedes(e, nd.ents[j])
    <3>1. j \in 1..N(nd)
      BY <1>1, <2>1
    <3> QED
      BY <1>1, <2>2, <3>1, Order
  <2> QED
    BY <2>3, <2>4
<1> QED
  BY <1>2, <1>3 DEF Sound, Below

(* An entry, or a block, of a node is one of its own or is below one of its children. *)
LEMMA InNode ==
  ASSUME NEW ns, NEW h, NEW nd, NEW e
  PROVE  /\ e \in NE(ns, h, nd) <=>
              \/ \E j \in DOMAIN nd.kids : e \in E(ns, h - 1, nd.kids[j])
              \/ \E j \in DOMAIN nd.ents : e = nd.ents[j]
         /\ e \in NB(ns, h, nd) <=>
              \E j \in DOMAIN nd.kids : e \in B(ns, h - 1, nd.kids[j])
BY DEF NE, NB, Seqs!ToSet

(* The same for the window of a node. *)
LEMMA InWindow ==
  ASSUME NEW ns, NEW h, NEW nd, NEW i, NEW p, NEW e
  PROVE  /\ e \in WE(ns, h, nd, i, p) <=>
              \/ \E j \in i..(i + p) : e \in E(ns, h - 1, nd.kids[j])
              \/ \E j \in i..(i + p - 1) : e = nd.ents[j]
         /\ e \in WB(ns, h, nd, i, p) <=>
              \E j \in i..(i + p) : e \in B(ns, h - 1, nd.kids[j])
<1> DEFINE U == UNION {E(ns, h - 1, nd.kids[j]) : j \in i..(i + p)}
<1> DEFINE V == {nd.ents[j] : j \in i..(i + p - 1)}
<1>1. e \in U <=> \E j \in i..(i + p) : e \in E(ns, h - 1, nd.kids[j])
  OBVIOUS
<1>2. e \in V <=> \E j \in i..(i + p - 1) : e = nd.ents[j]
  OBVIOUS
<1>3. e \in WB(ns, h, nd, i, p) <=> \E j \in i..(i + p) : e \in B(ns, h - 1, nd.kids[j])
  BY DEF WB
<1>4. WE(ns, h, nd, i, p) = U \cup V
  BY DEF WE
<1> HIDE DEF U, V
<1> QED
  BY <1>1, <1>2, <1>3, <1>4

(* The same for the rest of a node. *)
LEMMA InRest ==
  ASSUME NEW ns, NEW h, NEW nd, NEW i, NEW p, NEW e
  PROVE  /\ e \in RE(ns, h, nd, i, p) <=>
              \/ \E j \in 1..(i - 1) : e \in E(ns, h - 1, nd.kids[j])
              \/ \E j \in (i + p + 1)..(N(nd) + 1) : e \in E(ns, h - 1, nd.kids[j])
              \/ \E j \in 1..(i - 1) : e = nd.ents[j]
              \/ \E j \in (i + p)..N(nd) : e = nd.ents[j]
         /\ e \in RB(ns, h, nd, i, p) <=>
              \/ \E j \in 1..(i - 1) : e \in B(ns, h - 1, nd.kids[j])
              \/ \E j \in (i + p + 1)..(N(nd) + 1) : e \in B(ns, h - 1, nd.kids[j])
<1> DEFINE U == UNION {E(ns, h - 1, nd.kids[j]) : j \in 1..(i - 1)}
<1> DEFINE V == UNION {E(ns, h - 1, nd.kids[j]) : j \in (i + p + 1)..(N(nd) + 1)}
<1> DEFINE X == {nd.ents[j] : j \in 1..(i - 1)}
<1> DEFINE Y == {nd.ents[j] : j \in (i + p)..N(nd)}
<1> DEFINE P == UNION {B(ns, h - 1, nd.kids[j]) : j \in 1..(i - 1)}
<1> DEFINE Q == UNION {B(ns, h - 1, nd.kids[j]) : j \in (i + p + 1)..(N(nd) + 1)}
<1>1. e \in U <=> \E j \in 1..(i - 1) : e \in E(ns, h - 1, nd.kids[j])
  OBVIOUS
<1>2. e \in V <=> \E j \in (i + p + 1)..(N(nd) + 1) : e \in E(ns, h - 1, nd.kids[j])
  OBVIOUS
<1>3. e \in X <=> \E j \in 1..(i - 1) : e = nd.ents[j]
  OBVIOUS
<1>4. e \in Y <=> \E j \in (i + p)..N(nd) : e = nd.ents[j]
  OBVIOUS
<1>5. e \in P <=> \E j \in 1..(i - 1) : e \in B(ns, h - 1, nd.kids[j])
  OBVIOUS
<1>6. e \in Q <=> \E j \in (i + p + 1)..(N(nd) + 1) : e \in B(ns, h - 1, nd.kids[j])
  OBVIOUS
<1>7. RE(ns, h, nd, i, p) = U \cup V \cup X \cup Y /\ RB(ns, h, nd, i, p) = P \cup Q
  BY DEF RE, RB
<1> HIDE DEF U, V, X, Y, P, Q
<1> QED
  BY <1>1, <1>2, <1>3, <1>4, <1>5, <1>6, <1>7

(* A node is its window and the rest. *)
LEMMA WindowOfNode ==
  ASSUME Unique, NEW ns \in Heap, NEW h \in Nat \ {0}, NEW nd, Sound(ns, h, nd), ~nd.leaf,
         NEW p \in {0, 1}, NEW i \in 1..(N(nd) + 1 - p)
  PROVE  /\ NE(ns, h, nd) = RE(ns, h, nd, i, p) \cup WE(ns, h, nd, i, p)
         /\ NB(ns, h, nd) = RB(ns, h, nd, i, p) \cup WB(ns, h, nd, i, p)
         /\ \A e \in WE(ns, h, nd, i, p) : Admits(nd, i, p, Key(e))
<1>1. N(nd) \in Nat /\ DOMAIN nd.ents = 1..N(nd) /\ DOMAIN nd.kids = 1..(N(nd) + 1)
  BY KeysOfNode
<1>2. /\ 1..(N(nd) + 1) = 1..(i - 1) \cup i..(i + p) \cup (i + p + 1)..(N(nd) + 1)
      /\ 1..N(nd) = 1..(i - 1) \cup i..(i + p - 1) \cup (i + p)..N(nd)
  BY <1>1
<1> DEFINE K1 == 1..(i - 1)
<1> DEFINE K2 == i..(i + p)
<1> DEFINE K3 == (i + p + 1)..(N(nd) + 1)
<1> DEFINE E2 == i..(i + p - 1)
<1> DEFINE E3 == (i + p)..N(nd)
<1>3. NE(ns, h, nd) = RE(ns, h, nd, i, p) \cup WE(ns, h, nd, i, p)
  <2>1. DOMAIN nd.kids = K1 \cup K2 \cup K3 /\ DOMAIN nd.ents = K1 \cup E2 \cup E3
    BY <1>1, <1>2
  <2>2. \A e : e \in RE(ns, h, nd, i, p) <=>
                 \/ \E j \in K1 : e \in E(ns, h - 1, nd.kids[j])
                 \/ \E j \in K3 : e \in E(ns, h - 1, nd.kids[j])
                 \/ \E j \in K1 : e = nd.ents[j]
                 \/ \E j \in E3 : e = nd.ents[j]
    BY InRest
  <2>3. \A e : e \in WE(ns, h, nd, i, p) <=>
                 \/ \E j \in K2 : e \in E(ns, h - 1, nd.kids[j])
                 \/ \E j \in E2 : e = nd.ents[j]
    BY InWindow
  <2>4. \A e : e \in NE(ns, h, nd) <=>
                 \/ \E j \in DOMAIN nd.kids : e \in E(ns, h - 1, nd.kids[j])
                 \/ \E j \in DOMAIN nd.ents : e = nd.ents[j]
    BY InNode
  <2> HIDE DEF K1, K2, K3, E2, E3
  <2>5. \A e : e \in NE(ns, h, nd) <=> e \in RE(ns, h, nd, i, p) \cup WE(ns, h, nd, i, p)
    BY <2>1, <2>2, <2>3, <2>4
  <2> QED
    BY <2>5
<1>4. NB(ns, h, nd) = RB(ns, h, nd, i, p) \cup WB(ns, h, nd, i, p)
  <2>1. DOMAIN nd.kids = K1 \cup K2 \cup K3
    BY <1>1, <1>2
  <2>2. \A b : b \in RB(ns, h, nd, i, p) <=>
                 \/ \E j \in K1 : b \in B(ns, h - 1, nd.kids[j])
                 \/ \E j \in K3 : b \in B(ns, h - 1, nd.kids[j])
    BY InRest
  <2>3. \A b : b \in WB(ns, h, nd, i, p) <=> \E j \in K2 : b \in B(ns, h - 1, nd.kids[j])
    BY InWindow
  <2>4. \A b : b \in NB(ns, h, nd) <=> \E j \in DOMAIN nd.kids : b \in B(ns, h - 1, nd.kids[j])
    BY InNode
  <2> HIDE DEF K1, K2, K3
  <2>5. \A b : b \in NB(ns, h, nd) <=> b \in RB(ns, h, nd, i, p) \cup WB(ns, h, nd, i, p)
    BY <2>1, <2>2, <2>3, <2>4
  <2> QED
    BY <2>5
<1>5. ASSUME NEW e \in WE(ns, h, nd, i, p) PROVE Admits(nd, i, p, Key(e))
  <2>1. CASE \E j \in i..(i + p) : e \in E(ns, h - 1, nd.kids[j])
    <3>1. PICK j \in i..(i + p) : e \in E(ns, h - 1, nd.kids[j])
      BY <2>1
    <3>2. j \in DOMAIN nd.kids
      BY <1>1
    <3>3. /\ \A l \in 1..(j - 1) : Key(nd.ents[l]) < Key(e)
          /\ \A l \in j..N(nd) : Key(e) < Key(nd.ents[l])
      BY <3>1, <3>2, KeysOfNode
    <3> QED
      BY <1>1, <3>3 DEF Admits
  <2>2. CASE \E j \in i..(i + p - 1) : e = nd.ents[j]
    <3>1. PICK j \in i..(i + p - 1) : e = nd.ents[j]
      BY <2>2
    <3>2. \A l, m \in 1..N(nd) : l < m => Key(nd.ents[l]) < Key(nd.ents[m])
      BY KeysOfNode
    <3>3. j \in 1..N(nd)
      BY <1>1, <3>1
    <3>4. ASSUME NEW l \in 1..(i - 1) PROVE Key(nd.ents[l]) < Key(e)
      <4>1. l \in 1..N(nd) /\ l < j
        BY <1>1, <3>1
      <4> QED
        BY <3>1, <3>2, <3>3, <4>1
    <3>5. ASSUME NEW l \in (i + p)..N(nd) PROVE Key(e) < Key(nd.ents[l])
      <4>1. l \in 1..N(nd) /\ j < l
        BY <1>1, <3>1
      <4> QED
        BY <3>1, <3>2, <3>3, <4>1
    <3> QED
      BY <3>4, <3>5 DEF Admits
  <2> QED
    BY <2>1, <2>2, InWindow
<1> QED
  BY <1>3, <1>4, <1>5

(* What is beside a window has no key that belongs in it.                  *)
LEMMA RestAvoids ==
  ASSUME Unique, NEW ns \in Heap, NEW h \in Nat \ {0}, NEW nd, Sound(ns, h, nd), ~nd.leaf,
         NEW p \in {0, 1}, NEW i \in 1..(N(nd) + 1 - p), NEW k \in Int, Admits(nd, i, p, k)
  PROVE  \A e \in RE(ns, h, nd, i, p) : Key(e) # k
<1> SUFFICES ASSUME NEW e \in RE(ns, h, nd, i, p) PROVE Key(e) # k
  OBVIOUS
<1>1. N(nd) \in Nat /\ DOMAIN nd.ents = 1..N(nd) /\ DOMAIN nd.kids = 1..(N(nd) + 1)
  BY KeysOfNode
<1>2. CASE \E j \in 1..(i - 1) : e \in E(ns, h - 1, nd.kids[j])
  <2>1. PICK j \in 1..(i - 1) : e \in E(ns, h - 1, nd.kids[j])
    BY <1>2
  <2>2. j \in DOMAIN nd.kids /\ j \in 1..N(nd) /\ j \in j..N(nd)
    BY <1>1
  <2>3. Key(e) \in Int /\ Key(e) < Key(nd.ents[j]) /\ Key(nd.ents[j]) \in Int
    BY <2>1, <2>2, KeysOfNode
  <2>4. Key(nd.ents[j]) < k
    BY DEF Admits
  <2> QED
    BY <2>3, <2>4
<1>3. CASE \E j \in (i + p + 1)..(N(nd) + 1) : e \in E(ns, h - 1, nd.kids[j])
  <2>1. PICK j \in (i + p + 1)..(N(nd) + 1) : e \in E(ns, h - 1, nd.kids[j])
    BY <1>3
  <2>2. /\ j \in DOMAIN nd.kids
        /\ j - 1 \in 1..N(nd)
        /\ j - 1 \in 1..(j - 1)
        /\ j - 1 \in (i + p)..N(nd)
    BY <1>1
  <2>3. Key(e) \in Int /\ Key(nd.ents[j - 1]) < Key(e) /\ Key(nd.ents[j - 1]) \in Int
    BY <2>1, <2>2, KeysOfNode
  <2>4. k < Key(nd.ents[j - 1])
    BY <2>2 DEF Admits
  <2> QED
    BY <2>3, <2>4
<1>4. CASE \E j \in 1..(i - 1) : e = nd.ents[j]
  <2>1. PICK j \in 1..(i - 1) : e = nd.ents[j]
    BY <1>4
  <2>2. j \in 1..N(nd)
    BY <1>1
  <2>3. Key(e) \in Int
    BY <2>1, <2>2, KeysOfNode
  <2> QED
    BY <2>1, <2>3 DEF Admits
<1>5. CASE \E j \in (i + p)..N(nd) : e = nd.ents[j]
  <2>1. PICK j \in (i + p)..N(nd) : e = nd.ents[j]
    BY <1>5
  <2>2. j \in 1..N(nd)
    BY <1>1
  <2>3. Key(e) \in Int
    BY <2>1, <2>2, KeysOfNode
  <2> QED
    BY <2>1, <2>3 DEF Admits
<1> QED
  BY <1>2, <1>3, <1>4, <1>5, InRest

-----------------------------------------------------------------------------
(* A sound node is sound with other trees in a window of it, if they and   *)
(* the entry between them are in order and belong there; its entries and   *)
(* blocks are then the ones of the new window, and of the rest.            *)
LEMMA Window ==
  ASSUME Unique, NEW ns \in Heap, NEW h \in Nat \ {0}, NEW nd, Sound(ns, h, nd), ~nd.leaf,
         NEW p \in {0, 1}, NEW q \in {0, 1}, NEW i \in 1..(N(nd) + 1 - p),
         NEW nd2, Grafted(nd, i, p, nd2, q), N(nd2) <= 2 * T - 1,
         \A j \in i..(i + q) : Ok(ns, h - 1, nd2.kids[j]) /\ N(ns[nd2.kids[j]]) >= T - 1,
         \A e \in WE(ns, h, nd2, i, q) : Admits(nd, i, p, Key(e)),
         q = 1 => /\ \A e \in E(ns, h - 1, nd2.kids[i]) : Key(e) < Key(nd2.ents[i])
                  /\ \A e \in E(ns, h - 1, nd2.kids[i + 1]) : Key(nd2.ents[i]) < Key(e)
  PROVE  /\ Sound(ns, h, nd2)
         /\ NE(ns, h, nd2) = RE(ns, h, nd, i, p) \cup WE(ns, h, nd2, i, q)
         /\ NB(ns, h, nd2) = RB(ns, h, nd, i, p) \cup WB(ns, h, nd2, i, q)
<1>1. /\ N(nd) \in Nat /\ DOMAIN nd.ents = 1..N(nd) /\ DOMAIN nd.kids = 1..(N(nd) + 1)
      /\ \A j \in 1..N(nd) : nd.ents[j] \in Entry /\ Key(nd.ents[j]) \in Int
      /\ \A j, l \in 1..N(nd) : j < l => Key(nd.ents[j]) < Key(nd.ents[l])
      /\ \A j \in DOMAIN nd.kids : \A e \in E(ns, h - 1, nd.kids[j]) :
           /\ e \in Entry
           /\ Key(e) \in Int
           /\ \A l \in 1..(j - 1) : Key(nd.ents[l]) < Key(e)
           /\ \A l \in j..N(nd) : Key(e) < Key(nd.ents[l])
  BY KeysOfNode
<1>2. /\ nd2 \in Node /\ ~nd2.leaf /\ Filled(nd2)
      /\ N(nd2) = N(nd) - p + q
      /\ \A j \in 1..(i - 1) : nd2.ents[j] = nd.ents[j] /\ nd2.kids[j] = nd.kids[j]
      /\ \A j \in (i + p)..N(nd) : nd2.ents[j - p + q] = nd.ents[j]
      /\ \A j \in (i + p + 1)..(N(nd) + 1) : nd2.kids[j - p + q] = nd.kids[j]
  BY DEF Grafted
<1>3. /\ N(nd2) \in Nat /\ DOMAIN nd2.ents = 1..N(nd2) /\ DOMAIN nd2.kids = 1..(N(nd2) + 1)
      /\ \A j \in 1..N(nd2) : nd2.ents[j] \in Entry /\ Key(nd2.ents[j]) \in Int
  <2>1. \A j \in 1..N(nd2) : nd2.ents[j] \in Entry
    BY <1>2, EntriesOfNode
  <2> QED
    BY <1>2, <2>1, EntriesOfNode, Order
\* The positions of nd2 behind the window, from the positions of nd.
<1>4. /\ \A j \in (i + q)..N(nd2) :
           j - q + p \in (i + p)..N(nd) /\ nd2.ents[j] = nd.ents[j - q + p]
      /\ \A j \in (i + q + 1)..(N(nd2) + 1) :
           j - q + p \in (i + p + 1)..(N(nd) + 1) /\ nd2.kids[j] = nd.kids[j - q + p]
  <2>1. ASSUME NEW j \in (i + q)..N(nd2)
        PROVE  j - q + p \in (i + p)..N(nd) /\ nd2.ents[j] = nd.ents[j - q + p]
    <3> DEFINE n == N(nd)
    <3> DEFINE n2 == N(nd2)
    <3> HIDE DEF n, n2
    <3>1. n \in Nat /\ n2 = n - p + q /\ j \in (i + q)..n2 /\ i \in 1..(n + 1 - p)
      BY <1>1, <1>2 DEF n, n2
    <3>2. j - q + p \in (i + p)..n /\ (j - q + p) - p + q = j
      BY <3>1
    <3> QED
      BY <1>2, <3>2 DEF n
  <2>2. ASSUME NEW j \in (i + q + 1)..(N(nd2) + 1)
        PROVE  j - q + p \in (i + p + 1)..(N(nd) + 1) /\ nd2.kids[j] = nd.kids[j - q + p]
    <3> DEFINE n == N(nd)
    <3> DEFINE n2 == N(nd2)
    <3> HIDE DEF n, n2
    <3>1. n \in Nat /\ n2 = n - p + q /\ j \in (i + q + 1)..(n2 + 1) /\ i \in 1..(n + 1 - p)
      BY <1>1, <1>2 DEF n, n2
    <3>2. j - q + p \in (i + p + 1)..(n + 1) /\ (j - q + p) - p + q = j
      BY <3>1
    <3> QED
      BY <1>2, <3>2 DEF n
  <2> QED
    BY <2>1, <2>2
\* The entry in the window.
<1>5. q = 1 => /\ nd2.ents[i] \in WE(ns, h, nd2, i, q)
               /\ i \in 1..N(nd2)
               /\ \A l \in 1..(i - 1) : Key(nd.ents[l]) < Key(nd2.ents[i])
               /\ \A l \in (i + p)..N(nd) : Key(nd2.ents[i]) < Key(nd.ents[l])
  <2> SUFFICES ASSUME q = 1
               PROVE  /\ nd2.ents[i] \in WE(ns, h, nd2, i, q)
                      /\ i \in 1..N(nd2)
                      /\ \A l \in 1..(i - 1) : Key(nd.ents[l]) < Key(nd2.ents[i])
                      /\ \A l \in (i + p)..N(nd) : Key(nd2.ents[i]) < Key(nd.ents[l])
    OBVIOUS
  <2>1. i \in i..(i + q - 1) /\ i \in 1..N(nd2)
    BY <1>1, <1>2
  <2>2. nd2.ents[i] \in WE(ns, h, nd2, i, q)
    BY <2>1, InWindow
  <2> QED
    BY <2>1, <2>2 DEF Admits
<1>6. ASSUME NEW j \in 1..N(nd2), NEW l \in 1..N(nd2), j < l
      PROVE  Key(nd2.ents[j]) < Key(nd2.ents[l])
  <2>1. CASE l < i
    <3>1. /\ j \in 1..(i - 1) /\ l \in 1..(i - 1) /\ j \in 1..N(nd) /\ l \in 1..N(nd)
      BY <1>1, <1>6, <2>1
    <3>2. nd2.ents[j] = nd.ents[j] /\ nd2.ents[l] = nd.ents[l]
      BY <1>2, <3>1
    <3> QED
      BY <1>1, <1>6, <3>1, <3>2
  <2>2. CASE j < i /\ l >= i + q
    <3>1. nd2.ents[j] = nd.ents[j] /\ nd2.ents[l] = nd.ents[l - q + p] /\ l - q + p \in 1..N(nd)
      BY <1>1, <1>2, <1>4, <2>2
    <3>2. j \in 1..N(nd) /\ j < l - q + p
      BY <1>1, <2>2
    <3> QED
      BY <1>1, <3>1, <3>2
  <2>3. CASE j >= i + q
    <3>1. /\ nd2.ents[j] = nd.ents[j - q + p] /\ nd2.ents[l] = nd.ents[l - q + p]
          /\ j - q + p \in 1..N(nd) /\ l - q + p \in 1..N(nd) /\ j - q + p < l - q + p
      BY <1>1, <1>4, <1>6, <2>3
    <3> QED
      BY <1>1, <3>1
  <2>4. CASE q = 1 /\ l = i
    <3>1. j \in 1..(i - 1) /\ nd2.ents[j] = nd.ents[j]
      BY <1>2, <1>6, <2>4
    <3> QED
      BY <1>5, <2>4, <3>1
  <2>5. CASE q = 1 /\ j = i
    <3>1. l - q + p \in (i + p)..N(nd) /\ nd2.ents[l] = nd.ents[l - q + p]
      BY <1>4, <1>6, <2>5
    <3> QED
      BY <1>5, <2>5, <3>1
  <2> QED
    BY <2>1, <2>2, <2>3, <2>4, <2>5, <1>6
\* The trees in front of the window, in it, and behind it.
<1>7. ASSUME NEW j \in 1..(i - 1)
      PROVE  /\ Ok(ns, h - 1, nd2.kids[j]) /\ N(ns[nd2.kids[j]]) >= T - 1
             /\ \A e \in E(ns, h - 1, nd2.kids[j]) :
                  /\ \A l \in 1..(j - 1) : Key(nd2.ents[l]) < Key(e)
                  /\ \A l \in j..N(nd2) : Key(e) < Key(nd2.ents[l])
  <2>1. j \in DOMAIN nd.kids /\ nd2.kids[j] = nd.kids[j] /\ j \in 1..N(nd)
    <3>1. PICK n : n = N(nd)
      OBVIOUS
    <3>2. n \in Nat /\ i \in 1..(n + 1 - p) /\ DOMAIN nd.kids = 1..(n + 1)
      BY <1>1, <3>1
    <3>3. j \in 1..n /\ j \in 1..(n + 1)
      BY <3>2
    <3> QED
      BY <1>2, <3>1, <3>2, <3>3
  <2>2. Ok(ns, h - 1, nd2.kids[j]) /\ N(ns[nd2.kids[j]]) >= T - 1
    BY <2>1 DEF Sound, Below
  <2>3. ASSUME NEW e \in E(ns, h - 1, nd2.kids[j]), NEW l \in 1..(j - 1)
        PROVE  Key(nd2.ents[l]) < Key(e)
    <3>1. l \in 1..(i - 1)
      OBVIOUS
    <3> QED
      BY <1>1, <1>2, <2>1, <3>1
  <2>4. ASSUME NEW e \in E(ns, h - 1, nd2.kids[j]) PROVE Key(e) < Key(nd2.ents[j])
    <3>1. j \in j..N(nd)
      BY <2>1
    <3> QED
      BY <1>1, <1>2, <2>1, <3>1
  <2>5. ASSUME NEW e \in E(ns, h - 1, nd2.kids[j]), NEW l \in j..N(nd2)
        PROVE  Key(e) < Key(nd2.ents[l])
    <3>1. Key(e) \in Int
      BY <1>1, <2>1
    <3>2. l \in 1..N(nd2) /\ j \in 1..N(nd2) /\ Key(e) \in Int
      BY <1>3, <2>1, <3>1
    <3>3. j = l \/ Key(nd2.ents[j]) < Key(nd2.ents[l])
      BY <1>6, <3>2
    <3>4. Key(nd2.ents[j]) \in Int /\ Key(nd2.ents[l]) \in Int
      BY <1>3, <3>2
    <3> QED
      BY <2>4, <3>2, <3>3, <3>4
  <2> QED
    BY <2>2, <2>3, <2>5
<1>8. ASSUME NEW j \in i..(i + q)
      PROVE  /\ Ok(ns, h - 1, nd2.kids[j]) /\ N(ns[nd2.kids[j]]) >= T - 1
             /\ \A e \in E(ns, h - 1, nd2.kids[j]) :
                  /\ \A l \in 1..(j - 1) : Key(nd2.ents[l]) < Key(e)
                  /\ \A l \in j..N(nd2) : Key(e) < Key(nd2.ents[l])
  <2>1. Ok(ns, h - 1, nd2.kids[j]) /\ N(ns[nd2.kids[j]]) >= T - 1
    OBVIOUS
  <2>2. ASSUME NEW e \in E(ns, h - 1, nd2.kids[j])
        PROVE  Admits(nd, i, p, Key(e))
    BY InWindow
  <2>3. ASSUME NEW e \in E(ns, h - 1, nd2.kids[j]), NEW l \in 1..(j - 1)
        PROVE  Key(nd2.ents[l]) < Key(e)
    <3>1. CASE l \in 1..(i - 1)
      BY <1>2, <2>2, <3>1 DEF Admits
    <3>2. CASE l \notin 1..(i - 1)
      <4>1. q = 1 /\ l = i /\ j = i + 1
        BY <3>2
      <4> QED
        BY <4>1
    <3> QED
      BY <3>1, <3>2
  <2>4. ASSUME NEW e \in E(ns, h - 1, nd2.kids[j]), NEW l \in j..N(nd2)
        PROVE  Key(e) < Key(nd2.ents[l])
    <3>1. CASE l \in (i + q)..N(nd2)
      BY <1>4, <2>2, <3>1 DEF Admits
    <3>2. CASE l \notin (i + q)..N(nd2)
      <4>1. q = 1 /\ l = i /\ j = i
        BY <1>3, <3>2
      <4> QED
        BY <4>1
    <3> QED
      BY <3>1, <3>2
  <2> QED
    BY <2>1, <2>3, <2>4
<1>9. ASSUME NEW j \in (i + q + 1)..(N(nd2) + 1)
      PROVE  /\ Ok(ns, h - 1, nd2.kids[j]) /\ N(ns[nd2.kids[j]]) >= T - 1
             /\ \A e \in E(ns, h - 1, nd2.kids[j]) :
                  /\ \A l \in 1..(j - 1) : Key(nd2.ents[l]) < Key(e)
                  /\ \A l \in j..N(nd2) : Key(e) < Key(nd2.ents[l])
  <2> DEFINE m == j - q + p
  <2>1. m \in (i + p + 1)..(N(nd) + 1) /\ nd2.kids[j] = nd.kids[m]
    BY <1>4
  <2>2. m \in DOMAIN nd.kids /\ m - 1 \in 1..N(nd) /\ m - 1 \in 1..(m - 1)
    BY <1>1, <2>1
  <2>3. j - 1 \in 1..N(nd2) /\ j - 1 \in (i + q)..N(nd2) /\ (j - 1) - q + p = m - 1
    BY <1>3
  <2>4. nd2.ents[j - 1] = nd.ents[m - 1]
    BY <1>4, <2>3
  <2>5. \A l \in j..N(nd2) : l - q + p \in m..N(nd) /\ nd2.ents[l] = nd.ents[l - q + p]
    <3> SUFFICES ASSUME NEW l \in j..N(nd2)
                 PROVE  l - q + p \in m..N(nd) /\ nd2.ents[l] = nd.ents[l - q + p]
      OBVIOUS
    <3>1. l \in (i + q)..N(nd2)
      BY <1>3
    <3>2. l - q + p \in (i + p)..N(nd) /\ nd2.ents[l] = nd.ents[l - q + p]
      BY <1>4, <3>1
    <3>3. l \in Int /\ l >= j /\ N(nd) \in Nat
      BY <1>1, <1>3
    <3>4. l - q + p \in m..N(nd)
      <4>1. PICK n : n = N(nd)
        OBVIOUS
      <4> QED
        BY <3>2, <3>3, <4>1
    <3> QED
      BY <3>2, <3>4
  <2> HIDE DEF m
  <2>6. Ok(ns, h - 1, nd2.kids[j]) /\ N(ns[nd2.kids[j]]) >= T - 1
    BY <2>1, <2>2 DEF Sound, Below
  <2>7. ASSUME NEW e \in E(ns, h - 1, nd2.kids[j])
        PROVE  Key(nd2.ents[j - 1]) < Key(e) /\ Key(e) \in Int
    BY <1>1, <2>1, <2>2, <2>4
  <2>8. ASSUME NEW e \in E(ns, h - 1, nd2.kids[j]), NEW l \in 1..(j - 1)
        PROVE  Key(nd2.ents[l]) < Key(e)
    <3>1. l \in 1..N(nd2)
      BY <1>3, <2>3
    <3>2. l = j - 1 \/ Key(nd2.ents[l]) < Key(nd2.ents[j - 1])
      BY <1>6, <2>3, <3>1
    <3>3. Key(nd2.ents[j - 1]) \in Int /\ Key(nd2.ents[l]) \in Int
      BY <1>3, <2>3, <3>1
    <3> QED
      BY <2>7, <3>2, <3>3
  <2>9. ASSUME NEW e \in E(ns, h - 1, nd2.kids[j]), NEW l \in j..N(nd2)
        PROVE  Key(e) < Key(nd2.ents[l])
    BY <1>1, <2>1, <2>2, <2>5
  <2> QED
    BY <2>6, <2>8, <2>9
<1>10. ASSUME NEW j \in DOMAIN nd2.kids
       PROVE  /\ Ok(ns, h - 1, nd2.kids[j]) /\ N(ns[nd2.kids[j]]) >= T - 1
              /\ \A e \in E(ns, h - 1, nd2.kids[j]) :
                   /\ \A l \in 1..(j - 1) : Key(nd2.ents[l]) < Key(e)
                   /\ \A l \in j..N(nd2) : Key(e) < Key(nd2.ents[l])
  <2>1. j \in 1..(i - 1) \/ j \in i..(i + q) \/ j \in (i + q + 1)..(N(nd2) + 1)
    BY <1>3
  <2> QED
    BY <1>7, <1>8, <1>9, <2>1
<1>11. Sound(ns, h, nd2)
  <2>1. nd2.leaf = (h = 1)
    BY <1>2 DEF Sound, Node
  <2> QED
    BY <1>2, <1>6, <1>10, <2>1, MakesSound
<1>12. i \in 1..(N(nd2) + 1 - q)
  BY <1>1, <1>2
<1>13. /\ NE(ns, h, nd2) = RE(ns, h, nd2, i, q) \cup WE(ns, h, nd2, i, q)
       /\ NB(ns, h, nd2) = RB(ns, h, nd2, i, q) \cup WB(ns, h, nd2, i, q)
  BY <1>2, <1>11, <1>12, WindowOfNode
\* The rest of the two nodes is the same.
<1>14. /\ \A j \in (i + p)..N(nd) :
            j - p + q \in (i + q)..N(nd2) /\ nd2.ents[j - p + q] = nd.ents[j]
       /\ \A j \in (i + p + 1)..(N(nd) + 1) :
            j - p + q \in (i + q + 1)..(N(nd2) + 1) /\ nd2.kids[j - p + q] = nd.kids[j]
  <2>1. ASSUME NEW j \in (i + p)..N(nd) PROVE j - p + q \in (i + q)..N(nd2)
    BY <1>1, <1>2
  <2>2. ASSUME NEW j \in (i + p + 1)..(N(nd) + 1)
        PROVE  j - p + q \in (i + q + 1)..(N(nd2) + 1)
    BY <1>1, <1>2
  <2> QED
    BY <1>2, <2>1, <2>2
<1>15. \A e : e \in RE(ns, h, nd2, i, q) <=> e \in RE(ns, h, nd, i, p)
  <2> SUFFICES ASSUME NEW e
               PROVE  e \in RE(ns, h, nd2, i, q) <=> e \in RE(ns, h, nd, i, p)
    OBVIOUS
  <2>1. (\E j \in 1..(i - 1) : e \in E(ns, h - 1, nd2.kids[j]))
          <=> \E j \in 1..(i - 1) : e \in E(ns, h - 1, nd.kids[j])
    BY <1>2
  <2>2. (\E j \in 1..(i - 1) : e = nd2.ents[j]) <=> \E j \in 1..(i - 1) : e = nd.ents[j]
    BY <1>2
  <2>3. (\E j \in (i + q + 1)..(N(nd2) + 1) : e \in E(ns, h - 1, nd2.kids[j]))
          <=> \E j \in (i + p + 1)..(N(nd) + 1) : e \in E(ns, h - 1, nd.kids[j])
    BY <1>4, <1>14
  <2>4. (\E j \in (i + q)..N(nd2) : e = nd2.ents[j])
          <=> \E j \in (i + p)..N(nd) : e = nd.ents[j]
    BY <1>4, <1>14
  <2> QED
    BY <2>1, <2>2, <2>3, <2>4, InRest
<1>16. \A c : c \in RB(ns, h, nd2, i, q) <=> c \in RB(ns, h, nd, i, p)
  <2> SUFFICES ASSUME NEW c
               PROVE  c \in RB(ns, h, nd2, i, q) <=> c \in RB(ns, h, nd, i, p)
    OBVIOUS
  <2>1. (\E j \in 1..(i - 1) : c \in B(ns, h - 1, nd2.kids[j]))
          <=> \E j \in 1..(i - 1) : c \in B(ns, h - 1, nd.kids[j])
    BY <1>2
  <2>2. (\E j \in (i + q + 1)..(N(nd2) + 1) : c \in B(ns, h - 1, nd2.kids[j]))
          <=> \E j \in (i + p + 1)..(N(nd) + 1) : c \in B(ns, h - 1, nd.kids[j])
    BY <1>4, <1>14
  <2> QED
    BY <2>1, <2>2, InRest
<1>17. RE(ns, h, nd2, i, q) = RE(ns, h, nd, i, p) /\ RB(ns, h, nd2, i, q) = RB(ns, h, nd, i, p)
  BY <1>15, <1>16
<1> QED
  BY <1>11, <1>13, <1>17

-----------------------------------------------------------------------------
\* Node nd is node lo, its own entry m, and node hi.
Cut(nd, m, lo, hi) ==
  /\ nd \in Node /\ lo \in Node /\ hi \in Node
  /\ Filled(nd) /\ Filled(lo) /\ Filled(hi)
  /\ lo.leaf = nd.leaf /\ hi.leaf = nd.leaf
  /\ m \in 1..N(nd)
  /\ N(lo) = m - 1
  /\ N(hi) = N(nd) - m
  /\ \A j \in 1..(m - 1) : lo.ents[j] = nd.ents[j]
  /\ \A j \in 1..(N(nd) - m) : hi.ents[j] = nd.ents[m + j]
  /\ ~nd.leaf => /\ \A j \in 1..m : lo.kids[j] = nd.kids[j]
                 /\ \A j \in 1..(N(nd) - m + 1) : hi.kids[j] = nd.kids[m + j]

(* Where the entries and children of a node are in the two parts it is cut into. *)
LEMMA CutPositions ==
  ASSUME NEW nd, NEW m, NEW lo, NEW hi, Cut(nd, m, lo, hi)
  PROVE  /\ N(nd) \in Nat /\ m \in 1..N(nd) /\ N(lo) = m - 1 /\ N(hi) = N(nd) - m
         /\ DOMAIN nd.ents = 1..N(nd)
         /\ DOMAIN lo.ents = 1..(m - 1)
         /\ DOMAIN hi.ents = 1..(N(nd) - m)
         /\ DOMAIN nd.kids = IF nd.leaf THEN {} ELSE 1..(N(nd) + 1)
         /\ DOMAIN lo.kids = IF nd.leaf THEN {} ELSE 1..m
         /\ DOMAIN hi.kids = IF nd.leaf THEN {} ELSE 1..(N(nd) - m + 1)
         /\ \A j \in 1..(m - 1) : lo.ents[j] = nd.ents[j]
         /\ \A j \in (m + 1)..N(nd) : j - m \in 1..(N(nd) - m) /\ hi.ents[j - m] = nd.ents[j]
         /\ \A j \in 1..(N(nd) - m) : m + j \in (m + 1)..N(nd) /\ hi.ents[j] = nd.ents[m + j]
         /\ ~nd.leaf =>
              /\ \A j \in 1..m : lo.kids[j] = nd.kids[j]
              /\ \A j \in (m + 1)..(N(nd) + 1) :
                   j - m \in 1..(N(nd) - m + 1) /\ hi.kids[j - m] = nd.kids[j]
              /\ \A j \in 1..(N(nd) - m + 1) :
                   m + j \in (m + 1)..(N(nd) + 1) /\ hi.kids[j] = nd.kids[m + j]
<1> DEFINE n == N(nd)
<1>1. /\ nd \in Node /\ lo \in Node /\ hi \in Node
      /\ Filled(nd) /\ Filled(lo) /\ Filled(hi)
      /\ lo.leaf = nd.leaf /\ hi.leaf = nd.leaf
      /\ m \in 1..n /\ N(lo) = m - 1 /\ N(hi) = n - m
      /\ \A j \in 1..(m - 1) : lo.ents[j] = nd.ents[j]
      /\ \A j \in 1..(n - m) : hi.ents[j] = nd.ents[m + j]
      /\ ~nd.leaf => /\ \A j \in 1..m : lo.kids[j] = nd.kids[j]
                     /\ \A j \in 1..(n - m + 1) : hi.kids[j] = nd.kids[m + j]
  BY DEF Cut
<1>2. /\ n \in Nat
      /\ DOMAIN nd.ents = 1..n
      /\ DOMAIN nd.kids = IF nd.leaf THEN {} ELSE 1..(n + 1)
  BY <1>1, EntriesOfNode
<1>3. /\ DOMAIN lo.ents = 1..(m - 1)
      /\ DOMAIN lo.kids = IF nd.leaf THEN {} ELSE 1..((m - 1) + 1)
  BY <1>1, EntriesOfNode
<1>4. /\ DOMAIN hi.ents = 1..(n - m)
      /\ DOMAIN hi.kids = IF nd.leaf THEN {} ELSE 1..((n - m) + 1)
  BY <1>1, EntriesOfNode
<1> SUFFICES
         /\ n \in Nat /\ m \in 1..n /\ N(lo) = m - 1 /\ N(hi) = n - m
         /\ DOMAIN nd.ents = 1..n
         /\ DOMAIN lo.ents = 1..(m - 1)
         /\ DOMAIN hi.ents = 1..(n - m)
         /\ DOMAIN nd.kids = IF nd.leaf THEN {} ELSE 1..(n + 1)
         /\ DOMAIN lo.kids = IF nd.leaf THEN {} ELSE 1..m
         /\ DOMAIN hi.kids = IF nd.leaf THEN {} ELSE 1..(n - m + 1)
         /\ \A j \in 1..(m - 1) : lo.ents[j] = nd.ents[j]
         /\ \A j \in (m + 1)..n : j - m \in 1..(n - m) /\ hi.ents[j - m] = nd.ents[j]
         /\ \A j \in 1..(n - m) : m + j \in (m + 1)..n /\ hi.ents[j] = nd.ents[m + j]
         /\ ~nd.leaf =>
              /\ \A j \in 1..m : lo.kids[j] = nd.kids[j]
              /\ \A j \in (m + 1)..(n + 1) :
                   j - m \in 1..(n - m + 1) /\ hi.kids[j - m] = nd.kids[j]
              /\ \A j \in 1..(n - m + 1) :
                   m + j \in (m + 1)..(n + 1) /\ hi.kids[j] = nd.kids[m + j]
  OBVIOUS
<1> HIDE DEF n
<1>5. m \in Nat /\ m >= 1 /\ m <= n /\ (m - 1) + 1 = m
  BY <1>1, <1>2
<1>6. \A j \in (m + 1)..n : j - m \in 1..(n - m) /\ m + (j - m) = j
  BY <1>2, <1>5
<1>7. \A j \in (m + 1)..(n + 1) : j - m \in 1..(n - m + 1) /\ m + (j - m) = j
  BY <1>2, <1>5
<1>8. /\ \A j \in 1..(n - m) : m + j \in (m + 1)..n
      /\ \A j \in 1..(n - m + 1) : m + j \in (m + 1)..(n + 1)
  BY <1>2, <1>5
<1>9. \A j \in (m + 1)..n : hi.ents[j - m] = nd.ents[j]
  BY <1>1, <1>6
<1>10. ~nd.leaf => \A j \in (m + 1)..(n + 1) : hi.kids[j - m] = nd.kids[j]
  BY <1>1, <1>7
<1> QED
  BY <1>1, <1>2, <1>3, <1>4, <1>5, <1>6, <1>7, <1>8, <1>9, <1>10

(* What is in a node is in its two parts. *)
LEMMA CutContents ==
  ASSUME NEW nd, NEW m, NEW lo, NEW hi, Cut(nd, m, lo, hi), NEW ns, NEW h
  PROVE  /\ NE(ns, h, nd) = NE(ns, h, lo) \cup {nd.ents[m]} \cup NE(ns, h, hi)
         /\ NB(ns, h, nd) = NB(ns, h, lo) \cup NB(ns, h, hi)
<1>1. N(nd) \in Nat /\ m \in 1..N(nd) /\ m \in Nat
  <2>1. N(nd) \in Nat /\ m \in 1..N(nd)
    BY CutPositions
  <2> QED
    BY <2>1
<1>2. /\ DOMAIN nd.ents = 1..N(nd)
      /\ DOMAIN lo.ents = 1..(m - 1)
      /\ DOMAIN hi.ents = 1..(N(nd) - m)
  BY CutPositions
<1>3. \A e : (\E j \in DOMAIN nd.ents : e = nd.ents[j]) <=>
               \/ \E j \in DOMAIN lo.ents : e = lo.ents[j]
               \/ e = nd.ents[m]
               \/ \E j \in DOMAIN hi.ents : e = hi.ents[j]
  <2>1. \A j \in 1..(m - 1) : lo.ents[j] = nd.ents[j]
    BY CutPositions
  <2>2. \A j \in (m + 1)..N(nd) : j - m \in 1..(N(nd) - m) /\ hi.ents[j - m] = nd.ents[j]
    BY CutPositions
  <2>3. \A j \in 1..(N(nd) - m) : m + j \in (m + 1)..N(nd) /\ hi.ents[j] = nd.ents[m + j]
    BY CutPositions
  <2>4. /\ \A j \in 1..N(nd) : j \in 1..(m - 1) \/ j = m \/ j \in (m + 1)..N(nd)
        /\ \A j \in 1..(m - 1) : j \in 1..N(nd)
        /\ \A j \in (m + 1)..N(nd) : j \in 1..N(nd)
    BY <1>1
  <2> SUFFICES ASSUME NEW e
               PROVE  (\E j \in 1..N(nd) : e = nd.ents[j]) <=>
                        \/ \E j \in 1..(m - 1) : e = lo.ents[j]
                        \/ e = nd.ents[m]
                        \/ \E j \in 1..(N(nd) - m) : e = hi.ents[j]
    BY <1>2
  <2>5. (\E j \in 1..(m - 1) : e = lo.ents[j]) <=> \E j \in 1..(m - 1) : e = nd.ents[j]
    BY <2>1
  <2>6. (\E j \in 1..(N(nd) - m) : e = hi.ents[j])
          <=> \E j \in (m + 1)..N(nd) : e = nd.ents[j]
    BY <2>2, <2>3
  <2>7. (\E j \in 1..N(nd) : e = nd.ents[j]) <=>
          \/ \E j \in 1..(m - 1) : e = nd.ents[j]
          \/ e = nd.ents[m]
          \/ \E j \in (m + 1)..N(nd) : e = nd.ents[j]
    BY <1>1, <2>4
  <2> QED
    BY <2>5, <2>6, <2>7
<1>4. CASE nd.leaf
  <2>1. DOMAIN nd.kids = {} /\ DOMAIN lo.kids = {} /\ DOMAIN hi.kids = {}
    BY <1>4, CutPositions
  <2>2. ASSUME NEW e
        PROVE  e \in NE(ns, h, nd) <=> e \in NE(ns, h, lo) \/ e = nd.ents[m] \/ e \in NE(ns, h, hi)
    <3>1. e \in NE(ns, h, nd) <=> \E j \in DOMAIN nd.ents : e = nd.ents[j]
      BY <2>1, InNode
    <3>2. e \in NE(ns, h, lo) <=> \E j \in DOMAIN lo.ents : e = lo.ents[j]
      BY <2>1, InNode
    <3>3. e \in NE(ns, h, hi) <=> \E j \in DOMAIN hi.ents : e = hi.ents[j]
      BY <2>1, InNode
    <3> QED
      BY <1>3, <3>1, <3>2, <3>3
  <2>3. \A c : c \in NB(ns, h, nd) <=> c \in NB(ns, h, lo) \/ c \in NB(ns, h, hi)
    BY <2>1, InNode
  <2> QED
    BY <2>2, <2>3
<1>5. CASE ~nd.leaf
  <2>1. /\ DOMAIN nd.kids = 1..(N(nd) + 1)
        /\ DOMAIN lo.kids = 1..m
        /\ DOMAIN hi.kids = 1..(N(nd) - m + 1)
    BY <1>5, CutPositions
  <2>2. \A j \in 1..m : lo.kids[j] = nd.kids[j]
    BY <1>5, CutPositions
  <2>3. \A j \in (m + 1)..(N(nd) + 1) :
          j - m \in 1..(N(nd) - m + 1) /\ hi.kids[j - m] = nd.kids[j]
    BY <1>5, CutPositions
  <2>4. \A j \in 1..(N(nd) - m + 1) :
          m + j \in (m + 1)..(N(nd) + 1) /\ hi.kids[j] = nd.kids[m + j]
    BY <1>5, CutPositions
  <2>5. /\ \A j \in 1..(N(nd) + 1) : j \in 1..m \/ j \in (m + 1)..(N(nd) + 1)
        /\ \A j \in 1..m : j \in 1..(N(nd) + 1)
        /\ \A j \in (m + 1)..(N(nd) + 1) : j \in 1..(N(nd) + 1)
    BY <1>1
  <2>6. \A e : (\E j \in DOMAIN nd.kids : e \in E(ns, h - 1, nd.kids[j])) <=>
                 \/ \E j \in DOMAIN lo.kids : e \in E(ns, h - 1, lo.kids[j])
                 \/ \E j \in DOMAIN hi.kids : e \in E(ns, h - 1, hi.kids[j])
    BY <2>1, <2>2, <2>3, <2>4, <2>5
  <2>7. \A c : (\E j \in DOMAIN nd.kids : c \in B(ns, h - 1, nd.kids[j])) <=>
                 \/ \E j \in DOMAIN lo.kids : c \in B(ns, h - 1, lo.kids[j])
                 \/ \E j \in DOMAIN hi.kids : c \in B(ns, h - 1, hi.kids[j])
    BY <2>1, <2>2, <2>3, <2>4, <2>5
  <2>8. \A e : e \in NE(ns, h, nd) <=> e \in NE(ns, h, lo) \/ e = nd.ents[m] \/ e \in NE(ns, h, hi)
    BY <1>3, <2>6, InNode
  <2>9. \A c : c \in NB(ns, h, nd) <=> c \in NB(ns, h, lo) \/ c \in NB(ns, h, hi)
    BY <2>7, InNode
  <2> QED
    BY <2>8, <2>9
<1> QED
  BY <1>4, <1>5

(* The parts of a sound node are sound, one below the entry, one above.    *)
LEMMA CutSound ==
  ASSUME Unique, NEW ns \in Heap, NEW h \in Nat \ {0}, NEW nd, Sound(ns, h, nd),
         NEW m, NEW lo, NEW hi, Cut(nd, m, lo, hi)
  PROVE  /\ Sound(ns, h, lo)
         /\ Sound(ns, h, hi)
         /\ \A e \in NE(ns, h, lo) : Key(e) < Key(nd.ents[m])
         /\ \A e \in NE(ns, h, hi) : Key(nd.ents[m]) < Key(e)
<1>1. N(nd) \in Nat /\ m \in 1..N(nd) /\ m \in Nat /\ N(lo) = m - 1 /\ N(hi) = N(nd) - m
  <2>1. N(nd) \in Nat /\ m \in 1..N(nd) /\ N(lo) = m - 1 /\ N(hi) = N(nd) - m
    BY CutPositions
  <2> QED
    BY <2>1
<1>2. /\ lo \in Node /\ hi \in Node /\ Filled(lo) /\ Filled(hi)
      /\ lo.leaf = nd.leaf /\ hi.leaf = nd.leaf /\ nd.leaf = (h = 1)
      /\ N(lo) <= 2 * T - 1 /\ N(hi) <= 2 * T - 1
  <2>1. N(nd) <= 2 * T - 1 /\ nd.leaf = (h = 1)
    BY DEF Sound
  <2> QED
    BY <1>1, <2>1, DegreeAssumption DEF Cut
<1>3. /\ \A j \in 1..N(nd) : Key(nd.ents[j]) \in Int
      /\ \A j, l \in 1..N(nd) : j < l => Key(nd.ents[j]) < Key(nd.ents[l])
  BY KeysOfNode
<1>4. \A j \in 1..(m - 1) : j \in 1..N(nd) /\ lo.ents[j] = nd.ents[j]
  <2>1. \A j \in 1..(m - 1) : lo.ents[j] = nd.ents[j]
    BY CutPositions
  <2> QED
    BY <1>1, <2>1
<1>5. \A j \in 1..(N(nd) - m) : m + j \in 1..N(nd) /\ m < m + j /\ hi.ents[j] = nd.ents[m + j]
  <2>1. \A j \in 1..(N(nd) - m) : hi.ents[j] = nd.ents[m + j]
    BY CutPositions
  <2> QED
    BY <1>1, <2>1
<1>6. DOMAIN lo.ents = 1..(m - 1) /\ DOMAIN hi.ents = 1..(N(nd) - m)
  BY CutPositions
<1>7. ASSUME NEW j \in DOMAIN lo.kids
      PROVE  /\ j \in 1..m
             /\ j \in DOMAIN nd.kids
             /\ lo.kids[j] = nd.kids[j]
  <2>1. ~nd.leaf
    BY CutPositions
  <2>2. /\ DOMAIN nd.kids = 1..(N(nd) + 1)
        /\ DOMAIN lo.kids = 1..m
        /\ \A l \in 1..m : lo.kids[l] = nd.kids[l]
    BY <2>1, CutPositions
  <2> QED
    BY <1>1, <2>2
<1>8. ASSUME NEW j \in DOMAIN hi.kids
      PROVE  /\ j \in 1..(N(nd) - m + 1)
             /\ m + j \in DOMAIN nd.kids
             /\ hi.kids[j] = nd.kids[m + j]
  <2>1. ~nd.leaf
    BY CutPositions
  <2>2. /\ DOMAIN nd.kids = 1..(N(nd) + 1)
        /\ DOMAIN hi.kids = 1..(N(nd) - m + 1)
        /\ \A l \in 1..(N(nd) - m + 1) : hi.kids[l] = nd.kids[m + l]
    BY <2>1, CutPositions
  <2> QED
    BY <1>1, <2>2
<1>9. Sound(ns, h, lo)
  <2>1. \A j, l \in 1..N(lo) : j < l => Key(lo.ents[j]) < Key(lo.ents[l])
    BY <1>1, <1>3, <1>4
  <2>2. ASSUME NEW j \in DOMAIN lo.kids
        PROVE  /\ Ok(ns, h - 1, lo.kids[j])
               /\ N(ns[lo.kids[j]]) >= T - 1
               /\ \A e \in E(ns, h - 1, lo.kids[j]) :
                    /\ \A l \in 1..(j - 1) : Key(lo.ents[l]) < Key(e)
                    /\ \A l \in j..N(lo) : Key(e) < Key(lo.ents[l])
    <3>1. j \in 1..m /\ j \in DOMAIN nd.kids /\ lo.kids[j] = nd.kids[j]
      BY <1>7
    <3>2. Ok(ns, h - 1, lo.kids[j]) /\ N(ns[lo.kids[j]]) >= T - 1
      BY <3>1 DEF Sound, Below
    <3>3. \A e \in E(ns, h - 1, lo.kids[j]) :
            /\ \A l \in 1..(j - 1) : Key(nd.ents[l]) < Key(e)
            /\ \A l \in j..N(nd) : Key(e) < Key(nd.ents[l])
      BY <3>1, KeysOfNode
    <3>4. /\ \A l \in 1..(j - 1) : l \in 1..(m - 1)
          /\ \A l \in j..N(lo) : l \in 1..(m - 1) /\ l \in j..N(nd)
      BY <1>1, <3>1
    <3> QED
      BY <1>4, <3>2, <3>3, <3>4
  <2> QED
    BY <1>2, <2>1, <2>2, MakesSound
<1>10. Sound(ns, h, hi)
  <2>1. \A j, l \in 1..N(hi) : j < l => Key(hi.ents[j]) < Key(hi.ents[l])
    BY <1>1, <1>3, <1>5
  <2>2. ASSUME NEW j \in DOMAIN hi.kids
        PROVE  /\ Ok(ns, h - 1, hi.kids[j])
               /\ N(ns[hi.kids[j]]) >= T - 1
               /\ \A e \in E(ns, h - 1, hi.kids[j]) :
                    /\ \A l \in 1..(j - 1) : Key(hi.ents[l]) < Key(e)
                    /\ \A l \in j..N(hi) : Key(e) < Key(hi.ents[l])
    <3>1. j \in 1..(N(nd) - m + 1) /\ m + j \in DOMAIN nd.kids /\ hi.kids[j] = nd.kids[m + j]
      BY <1>8
    <3>2. Ok(ns, h - 1, hi.kids[j]) /\ N(ns[hi.kids[j]]) >= T - 1
      BY <3>1 DEF Sound, Below
    <3>3. \A e \in E(ns, h - 1, hi.kids[j]) :
            /\ \A l \in 1..((m + j) - 1) : Key(nd.ents[l]) < Key(e)
            /\ \A l \in (m + j)..N(nd) : Key(e) < Key(nd.ents[l])
      BY <3>1, KeysOfNode
    <3>4. /\ \A l \in 1..(j - 1) : l \in 1..(N(nd) - m) /\ m + l \in 1..((m + j) - 1)
          /\ \A l \in j..N(hi) : l \in 1..(N(nd) - m) /\ m + l \in (m + j)..N(nd)
      BY <1>1, <3>1
    <3> QED
      BY <1>5, <3>2, <3>3, <3>4
  <2> QED
    BY <1>2, <2>1, <2>2, MakesSound
<1>11. ASSUME NEW e \in NE(ns, h, lo) PROVE Key(e) < Key(nd.ents[m])
  <2>1. CASE \E j \in DOMAIN lo.kids : e \in E(ns, h - 1, lo.kids[j])
    <3>1. PICK j \in DOMAIN lo.kids : e \in E(ns, h - 1, lo.kids[j])
      BY <2>1
    <3>2. j \in DOMAIN nd.kids /\ e \in E(ns, h - 1, nd.kids[j]) /\ m \in j..N(nd)
      BY <1>1, <1>7, <3>1
    <3> QED
      BY <3>2, KeysOfNode
  <2>2. CASE \E j \in DOMAIN lo.ents : e = lo.ents[j]
    <3>1. PICK j \in DOMAIN lo.ents : e = lo.ents[j]
      BY <2>2
    <3>2. j \in 1..N(nd) /\ j < m /\ e = nd.ents[j]
      BY <1>1, <1>4, <1>6, <3>1
    <3> QED
      BY <1>1, <1>3, <3>2
  <2> QED
    BY <2>1, <2>2, InNode
<1>12. ASSUME NEW e \in NE(ns, h, hi) PROVE Key(nd.ents[m]) < Key(e)
  <2>1. CASE \E j \in DOMAIN hi.kids : e \in E(ns, h - 1, hi.kids[j])
    <3>1. PICK j \in DOMAIN hi.kids : e \in E(ns, h - 1, hi.kids[j])
      BY <2>1
    <3>2. j \in 1..(N(nd) - m + 1) /\ m + j \in DOMAIN nd.kids /\ e \in E(ns, h - 1, nd.kids[m + j])
      BY <1>8, <3>1
    <3>3. m \in 1..((m + j) - 1)
      BY <1>1, <3>2
    <3> QED
      BY <3>2, <3>3, KeysOfNode
  <2>2. CASE \E j \in DOMAIN hi.ents : e = hi.ents[j]
    <3>1. PICK j \in DOMAIN hi.ents : e = hi.ents[j]
      BY <2>2
    <3>2. m + j \in 1..N(nd) /\ m < m + j /\ e = nd.ents[m + j]
      BY <1>5, <1>6, <3>1
    <3> QED
      BY <1>1, <1>3, <3>2
  <2> QED
    BY <2>1, <2>2, InNode
<1> QED
  BY <1>9, <1>10, <1>11, <1>12

(* Two sound nodes and an entry between them make a sound node.            *)
LEMMA PasteSound ==
  ASSUME Unique, NEW ns \in Heap, NEW h \in Nat \ {0},
         NEW nd, NEW m, NEW lo, NEW hi, Cut(nd, m, lo, hi),
         Sound(ns, h, lo), Sound(ns, h, hi), N(nd) <= 2 * T - 1,
         \A e \in NE(ns, h, lo) : Key(e) < Key(nd.ents[m]),
         \A e \in NE(ns, h, hi) : Key(nd.ents[m]) < Key(e)
  PROVE  Sound(ns, h, nd)
<1>1. N(nd) \in Nat /\ m \in 1..N(nd) /\ m \in Nat /\ N(lo) = m - 1 /\ N(hi) = N(nd) - m
  <2>1. N(nd) \in Nat /\ m \in 1..N(nd) /\ N(lo) = m - 1 /\ N(hi) = N(nd) - m
    BY CutPositions
  <2> QED
    BY <2>1
<1>2. nd \in Node /\ Filled(nd) /\ nd.leaf = (h = 1)
  BY DEF Sound, Cut
<1>3. /\ \A j \in 1..(m - 1) : Key(lo.ents[j]) \in Int
      /\ \A j, l \in 1..(m - 1) : j < l => Key(lo.ents[j]) < Key(lo.ents[l])
  BY <1>1, KeysOfNode
<1>4. /\ \A j \in 1..(N(nd) - m) : Key(hi.ents[j]) \in Int
      /\ \A j, l \in 1..(N(nd) - m) : j < l => Key(hi.ents[j]) < Key(hi.ents[l])
  BY <1>1, KeysOfNode
<1>5. /\ \A j \in 1..N(nd) : nd.ents[j] \in Entry
      /\ \A j \in 1..N(nd) : Key(nd.ents[j]) \in Int
  <2>1. \A j \in 1..N(nd) : nd.ents[j] \in Entry
    BY <1>2, EntriesOfNode
  <2> QED
    BY <2>1, Order
<1>6. DOMAIN lo.ents = 1..(m - 1) /\ DOMAIN hi.ents = 1..(N(nd) - m)
  BY CutPositions
<1>7. \A j \in 1..(m - 1) : lo.ents[j] = nd.ents[j] /\ Key(nd.ents[j]) < Key(nd.ents[m])
  <2> SUFFICES ASSUME NEW j \in 1..(m - 1)
               PROVE  lo.ents[j] = nd.ents[j] /\ Key(nd.ents[j]) < Key(nd.ents[m])
    OBVIOUS
  <2>1. lo.ents[j] = nd.ents[j]
    BY CutPositions
  <2>2. lo.ents[j] \in NE(ns, h, lo)
    BY <1>6, InNode
  <2> QED
    BY <2>1, <2>2
<1>8. \A j \in (m + 1)..N(nd) :
        /\ j - m \in 1..(N(nd) - m)
        /\ hi.ents[j - m] = nd.ents[j]
        /\ Key(nd.ents[m]) < Key(nd.ents[j])
  <2> SUFFICES ASSUME NEW j \in (m + 1)..N(nd)
               PROVE  /\ j - m \in 1..(N(nd) - m)
                      /\ hi.ents[j - m] = nd.ents[j]
                      /\ Key(nd.ents[m]) < Key(nd.ents[j])
    OBVIOUS
  <2>1. j - m \in 1..(N(nd) - m) /\ hi.ents[j - m] = nd.ents[j]
    BY CutPositions
  <2>2. hi.ents[j - m] \in NE(ns, h, hi)
    BY <1>6, <2>1, InNode
  <2> QED
    BY <2>1, <2>2
<1>9. ASSUME NEW j \in 1..N(nd), NEW l \in 1..N(nd), j < l
      PROVE  Key(nd.ents[j]) < Key(nd.ents[l])
  <2>1. CASE l < m
    <3>1. j \in 1..(m - 1) /\ l \in 1..(m - 1)
      BY <1>1, <1>9, <2>1
    <3> QED
      BY <1>3, <1>7, <1>9, <3>1
  <2>2. CASE j > m
    <3>1. j \in (m + 1)..N(nd) /\ l \in (m + 1)..N(nd) /\ j - m < l - m
      BY <1>1, <1>9, <2>2
    <3>2. j - m \in 1..(N(nd) - m) /\ l - m \in 1..(N(nd) - m)
      BY <1>8, <3>1
    <3>3. hi.ents[j - m] = nd.ents[j] /\ hi.ents[l - m] = nd.ents[l]
      BY <1>8, <3>1
    <3> QED
      BY <1>4, <3>1, <3>2, <3>3
  <2>3. CASE j <= m /\ m <= l
    <3>1. j = m \/ Key(nd.ents[j]) < Key(nd.ents[m])
      <4>1. j = m \/ j \in 1..(m - 1)
        BY <1>1, <2>3
      <4> QED
        BY <1>7, <4>1
    <3>2. l = m \/ Key(nd.ents[m]) < Key(nd.ents[l])
      <4>1. l = m \/ l \in (m + 1)..N(nd)
        BY <1>1, <2>3
      <4> QED
        BY <1>8, <4>1
    <3> QED
      BY <1>1, <1>5, <1>9, <3>1, <3>2
  <2> QED
    BY <1>1, <2>1, <2>2, <2>3
<1>10. ASSUME NEW j \in DOMAIN nd.kids
       PROVE  /\ Ok(ns, h - 1, nd.kids[j])
              /\ N(ns[nd.kids[j]]) >= T - 1
              /\ \A e \in E(ns, h - 1, nd.kids[j]) :
                   /\ \A l \in 1..(j - 1) : Key(nd.ents[l]) < Key(e)
                   /\ \A l \in j..N(nd) : Key(e) < Key(nd.ents[l])
  <2>1. ~nd.leaf
    BY CutPositions
  <2>2. /\ DOMAIN nd.kids = 1..(N(nd) + 1)
        /\ DOMAIN lo.kids = 1..m
        /\ DOMAIN hi.kids = 1..(N(nd) - m + 1)
    BY <2>1, CutPositions
  <2>3. CASE j \in 1..m
    <3>1. nd.kids[j] = lo.kids[j] /\ j \in DOMAIN lo.kids
      BY <2>1, <2>2, <2>3, CutPositions
    <3>2. Ok(ns, h - 1, nd.kids[j]) /\ N(ns[nd.kids[j]]) >= T - 1
      BY <3>1 DEF Sound, Below
    <3>3. ASSUME NEW e \in E(ns, h - 1, nd.kids[j])
          PROVE  /\ Key(e) \in Int
                 /\ \A l \in 1..(j - 1) : Key(lo.ents[l]) < Key(e)
                 /\ \A l \in j..N(lo) : Key(e) < Key(lo.ents[l])
                 /\ Key(e) < Key(nd.ents[m])
      <4>1. e \in NE(ns, h, lo)
        BY <3>1, InNode
      <4> QED
        BY <3>1, <4>1, KeysOfNode
    <3>4. ASSUME NEW e \in E(ns, h - 1, nd.kids[j]), NEW l \in 1..(j - 1)
          PROVE  Key(nd.ents[l]) < Key(e)
      <4>1. l \in 1..(m - 1)
        BY <1>1, <2>3
      <4> QED
        BY <1>7, <3>3, <4>1
    <3>5. ASSUME NEW e \in E(ns, h - 1, nd.kids[j]), NEW l \in j..N(nd)
          PROVE  Key(e) < Key(nd.ents[l])
      <4>1. CASE l \in 1..(m - 1)
        <5>1. l \in j..N(lo)
          BY <1>1, <4>1
        <5> QED
          BY <1>7, <3>3, <4>1, <5>1
      <4>2. CASE l = m
        BY <3>3, <4>2
      <4>3. CASE l \in (m + 1)..N(nd)
        <5>1. Key(nd.ents[m]) < Key(nd.ents[l]) /\ Key(nd.ents[m]) \in Int /\ Key(nd.ents[l]) \in Int
          <6>1. l \in 1..N(nd)
            BY <1>1, <4>3
          <6> QED
            BY <1>1, <1>5, <1>8, <4>3, <6>1
        <5>2. Key(e) \in Int /\ Key(e) < Key(nd.ents[m])
          BY <3>3
        <5> QED
          BY <5>1, <5>2
      <4> QED
        BY <1>1, <2>3, <4>1, <4>2, <4>3
    <3> QED
      BY <3>2, <3>4, <3>5
  <2>4. CASE j \in (m + 1)..(N(nd) + 1)
    <3>1. nd.kids[j] = hi.kids[j - m] /\ j - m \in DOMAIN hi.kids
      <4>1. j - m \in 1..(N(nd) - m + 1) /\ hi.kids[j - m] = nd.kids[j]
        <5>1. ~nd.leaf => \A l \in (m + 1)..(N(nd) + 1) :
                           l - m \in 1..(N(nd) - m + 1) /\ hi.kids[l - m] = nd.kids[l]
          BY CutPositions
        <5>2. \A l \in (m + 1)..(N(nd) + 1) :
                l - m \in 1..(N(nd) - m + 1) /\ hi.kids[l - m] = nd.kids[l]
          BY <2>1, <5>1
        <5> QED
          BY <2>4, <5>2
      <4>2. DOMAIN hi.kids = 1..(N(nd) - m + 1)
        BY <2>1, <2>2, CutPositions
      <4> QED
        BY <4>1, <4>2
    <3>2. Ok(ns, h - 1, nd.kids[j]) /\ N(ns[nd.kids[j]]) >= T - 1
      BY <3>1 DEF Sound, Below
    <3>3. ASSUME NEW e \in E(ns, h - 1, nd.kids[j])
          PROVE  /\ Key(e) \in Int
                 /\ \A l \in 1..((j - m) - 1) : Key(hi.ents[l]) < Key(e)
                 /\ \A l \in (j - m)..N(hi) : Key(e) < Key(hi.ents[l])
                 /\ Key(nd.ents[m]) < Key(e)
      <4>1. e \in NE(ns, h, hi)
        BY <3>1, InNode
      <4> QED
        BY <3>1, <4>1, KeysOfNode
    <3>4. ASSUME NEW e \in E(ns, h - 1, nd.kids[j]), NEW l \in j..N(nd)
          PROVE  Key(e) < Key(nd.ents[l])
      <4>1. l \in (m + 1)..N(nd) /\ l - m \in (j - m)..N(hi)
        BY <1>1, <2>4
      <4> QED
        BY <1>8, <3>3, <4>1
    <3>5. ASSUME NEW e \in E(ns, h - 1, nd.kids[j]), NEW l \in 1..(j - 1)
          PROVE  Key(nd.ents[l]) < Key(e)
      <4>1. CASE l \in (m + 1)..N(nd)
        <5>1. l - m \in 1..((j - m) - 1)
          BY <1>1, <2>4, <4>1
        <5> QED
          BY <1>8, <3>3, <4>1, <5>1
      <4>2. CASE l = m
        BY <3>3, <4>2
      <4>3. CASE l \in 1..(m - 1)
        <5>1. Key(nd.ents[l]) < Key(nd.ents[m]) /\ Key(nd.ents[m]) \in Int /\ Key(nd.ents[l]) \in Int
          <6>1. l \in 1..N(nd)
            BY <1>1, <4>3
          <6> QED
            BY <1>1, <1>5, <1>7, <4>3, <6>1
        <5>2. Key(e) \in Int /\ Key(nd.ents[m]) < Key(e)
          BY <3>3
        <5> QED
          BY <5>1, <5>2
      <4> QED
        BY <1>1, <2>4, <4>1, <4>2, <4>3
    <3> QED
      BY <3>2, <3>4, <3>5
  <2> QED
    BY <1>1, <2>2, <2>3, <2>4
<1> QED
  BY <1>2, <1>9, <1>10, MakesSound

-----------------------------------------------------------------------------
(***************************************************************************)
(* The sequences in a node, and the nodes the operations make of them.     *)
(***************************************************************************)

(* A part of a sequence, and two sequences one after the other. *)
LEMMA Part ==
  ASSUME NEW D, NEW s \in Seq(D), NEW m \in 1..(Len(s) + 1), NEW n \in (m - 1)..Len(s)
  PROVE  /\ SubSeq(s, m, n) \in Seq(D)
         /\ Len(SubSeq(s, m, n)) = n - m + 1
         /\ \A j \in 1..(n - m + 1) : SubSeq(s, m, n)[j] = s[m + j - 1]
<1>1. SubSeq(s, m, n) = [j \in 1..(n - m + 1) |-> s[m + j - 1]] /\ SubSeq(s, m, n) \in Seq(D)
  BY SubSeqProperties
<1> QED
  BY <1>1, SubSeqProperties

\* Sequence u is s followed by t.
Chained(D, s, t, u) ==
  /\ u \in Seq(D)
  /\ Len(u) = Len(s) + Len(t)
  /\ \A j \in 1..Len(s) : u[j] = s[j]
  /\ \A j \in 1..Len(t) : u[Len(s) + j] = t[j]

(* Two sequences one after the other. *)
LEMMA Chain ==
  ASSUME NEW D, NEW s \in Seq(D), NEW t \in Seq(D)
  PROVE  Chained(D, s, t, s \o t)
BY ConcatProperties DEF Chained

\* Sequence u is s with its element i replaced by e, with e inserted before
\* it, or without it.
Replaced(D, s, i, e, u) ==
  /\ u \in Seq(D)
  /\ Len(u) = Len(s)
  /\ \A j \in 1..Len(s) : u[j] = IF j = i THEN e ELSE s[j]

Inserting(D, s, i, e, u) ==
  /\ u \in Seq(D)
  /\ Len(u) = Len(s) + 1
  /\ \A j \in 1..(i - 1) : u[j] = s[j]
  /\ u[i] = e
  /\ \A j \in i..Len(s) : u[j + 1] = s[j]

Removing(D, s, i, u) ==
  /\ u \in Seq(D)
  /\ Len(u) = Len(s) - 1
  /\ \A j \in 1..(i - 1) : u[j] = s[j]
  /\ \A j \in i..(Len(s) - 1) : u[j] = s[j + 1]

(* What the library's operators on sequences come to. *)
LEMMA Replacement ==
  ASSUME NEW D, NEW s \in Seq(D), NEW i \in 1..Len(s), NEW e \in D
  PROVE  Replaced(D, s, i, e, Seqs!ReplaceAt(s, i, e))
BY DEF Seqs!ReplaceAt, Replaced

(* InsertAt() puts the element in and moves the later ones by one. *)
LEMMA Insertion ==
  ASSUME NEW D, NEW s \in Seq(D), NEW i \in 1..(Len(s) + 1), NEW e \in D
  PROVE  Inserting(D, s, i, e, Seqs!InsertAt(s, i, e))
<1> DEFINE a == SubSeq(s, 1, i - 1)
           b == SubSeq(s, i, Len(s))
           c == a \o <<e>>
<1>1. a \in Seq(D) /\ Len(a) = i - 1 /\ \A j \in 1..(i - 1) : a[j] = s[j]
  BY Part
<1>2. b \in Seq(D) /\ Len(b) = Len(s) - i + 1 /\ \A j \in 1..(Len(s) - i + 1) : b[j] = s[i + j - 1]
  BY Part
<1>3. Seqs!InsertAt(s, i, e) = c \o b
  BY DEF Seqs!InsertAt
<1> HIDE DEF a, b
<1>4. c \in Seq(D) /\ Len(c) = i /\ c[i] = e /\ \A j \in 1..(i - 1) : c[j] = a[j]
  <2>1. <<e>> \in Seq(D) /\ Len(<<e>>) = 1 /\ <<e>>[1] = e
    OBVIOUS
  <2>2. Chained(D, a, <<e>>, c)
    BY <1>1, <2>1, Chain
  <2> QED
    BY <1>1, <2>1, <2>2 DEF Chained
<1> HIDE DEF c
<1>5. Chained(D, c, b, c \o b)
  BY <1>2, <1>4, Chain
<1>6. ASSUME NEW j \in i..Len(s) PROVE (c \o b)[j + 1] = s[j]
  <2>1. j - i + 1 \in 1..Len(b) /\ Len(c) + (j - i + 1) = j + 1 /\ i + (j - i + 1) - 1 = j
    BY <1>2, <1>4
  <2>2. (c \o b)[Len(c) + (j - i + 1)] = b[j - i + 1]
    BY <1>5, <2>1 DEF Chained
  <2>3. b[j - i + 1] = s[i + (j - i + 1) - 1]
    BY <1>2, <2>1
  <2> QED
    BY <2>1, <2>2, <2>3
<1>7. c \o b \in Seq(D) /\ Len(c \o b) = Len(s) + 1
  <2>1. c \o b \in Seq(D) /\ Len(c \o b) = Len(c) + Len(b)
    BY <1>5 DEF Chained
  <2> QED
    BY <1>2, <1>4, <2>1
<1>8. (c \o b)[i] = e /\ \A j \in 1..(i - 1) : (c \o b)[j] = s[j]
  BY <1>1, <1>4, <1>5 DEF Chained
<1> QED
  BY <1>3, <1>6, <1>7, <1>8 DEF Inserting

(* RemoveAt() moves the later elements back by one. *)
LEMMA Removal ==
  ASSUME NEW D, NEW s \in Seq(D), NEW i \in 1..Len(s)
  PROVE  Removing(D, s, i, Seqs!RemoveAt(s, i))
<1> DEFINE a == SubSeq(s, 1, i - 1)
           b == SubSeq(s, i + 1, Len(s))
<1>1. a \in Seq(D) /\ Len(a) = i - 1 /\ \A j \in 1..(i - 1) : a[j] = s[j]
  BY Part
<1>2. b \in Seq(D) /\ Len(b) = Len(s) - i /\ \A j \in 1..(Len(s) - i) : b[j] = s[i + j]
  <2>1. i + 1 \in 1..(Len(s) + 1) /\ Len(s) \in ((i + 1) - 1)..Len(s)
    OBVIOUS
  <2>2. /\ b \in Seq(D)
        /\ Len(b) = Len(s) - (i + 1) + 1
        /\ \A j \in 1..(Len(s) - (i + 1) + 1) : b[j] = s[(i + 1) + j - 1]
    BY <2>1, Part
  <2> QED
    BY <2>2
<1>3. Seqs!RemoveAt(s, i) = a \o b
  BY DEF Seqs!RemoveAt
<1> HIDE DEF a, b
<1>4. Chained(D, a, b, a \o b)
  BY <1>1, <1>2, Chain
<1>5. ASSUME NEW j \in i..(Len(s) - 1) PROVE (a \o b)[j] = s[j + 1]
  <2>1. j - i + 1 \in 1..Len(b) /\ Len(a) + (j - i + 1) = j /\ i + (j - i + 1) = j + 1
    <3>1. PICK l, la, lb : l = Len(s) /\ la = Len(a) /\ lb = Len(b)
      OBVIOUS
    <3>2. l \in Nat /\ i \in 1..l /\ j \in i..(l - 1) /\ la = i - 1 /\ lb = l - i
      BY <1>1, <1>2, <3>1
    <3>3. j - i + 1 \in 1..lb /\ la + (j - i + 1) = j /\ i + (j - i + 1) = j + 1
      BY <3>2
    <3> QED
      BY <3>1, <3>3
  <2>2. (a \o b)[Len(a) + (j - i + 1)] = b[j - i + 1]
    <3>1. \A l \in 1..Len(b) : (a \o b)[Len(a) + l] = b[l]
      BY <1>4 DEF Chained
    <3> QED
      BY <2>1, <3>1
  <2>3. b[j - i + 1] = s[i + (j - i + 1)]
    BY <1>2, <2>1
  <2> QED
    BY <2>1, <2>2, <2>3
<1>6. a \o b \in Seq(D) /\ Len(a \o b) = Len(s) - 1
  <2>1. a \o b \in Seq(D) /\ Len(a \o b) = Len(a) + Len(b)
    BY <1>4 DEF Chained
  <2> QED
    BY <1>1, <1>2, <2>1
<1>7. \A j \in 1..(i - 1) : (a \o b)[j] = s[j]
  BY <1>1, <1>4 DEF Chained
<1> QED
  BY <1>3, <1>5, <1>6, <1>7 DEF Removing

-----------------------------------------------------------------------------
\* A node of no entries, over one block unless it is a leaf.
Stub(leaf, b) == [leaf |-> leaf, ents |-> <<>>, kids |-> IF leaf THEN <<>> ELSE <<b>>]

(* Nodes made of the parts of others. *)
LEMMA StubNode ==
  ASSUME NEW leaf \in BOOLEAN, NEW b, leaf \/ b \in Nat
  PROVE  /\ Stub(leaf, b) \in Node
         /\ Filled(Stub(leaf, b))
         /\ Stub(leaf, b).leaf = leaf
         /\ N(Stub(leaf, b)) = 0
         /\ ~leaf => Len(Stub(leaf, b).kids) = 1 /\ Stub(leaf, b).kids[1] = b
BY DEF Stub, Node, Filled, N

(* A full node is its halves and the entry between them. *)
LEMMA SplitCut ==
  ASSUME NEW y \in Node, Filled(y), N(y) = 2 * T - 1
  PROVE  Cut(y, T, LowerHalf(y), UpperHalf(y))
<1> USE DegreeAssumption
<1> DEFINE le == SubSeq(y.ents, 1, T - 1)
           ue == SubSeq(y.ents, T + 1, 2 * T - 1)
           lk == IF y.leaf THEN y.kids ELSE SubSeq(y.kids, 1, T)
           uk == IF y.leaf THEN y.kids ELSE SubSeq(y.kids, T + 1, 2 * T)
<1>1. /\ y.ents \in Seq(Entry) /\ y.kids \in Seq(Nat) /\ y.leaf \in BOOLEAN
      /\ Len(y.ents) = 2 * T - 1
      /\ Len(y.kids) = IF y.leaf THEN 0 ELSE 2 * T
  BY DEF Node, Filled, N
<1>2. le \in Seq(Entry) /\ Len(le) = T - 1 /\ \A j \in 1..(T - 1) : le[j] = y.ents[j]
  <2>1. 1 \in 1..(Len(y.ents) + 1) /\ T - 1 \in (1 - 1)..Len(y.ents)
    BY <1>1
  <2> QED
    BY <1>1, <2>1, Part
<1>3. ue \in Seq(Entry) /\ Len(ue) = T - 1 /\ \A j \in 1..(T - 1) : ue[j] = y.ents[T + j]
  <2>1. T + 1 \in 1..(Len(y.ents) + 1) /\ 2 * T - 1 \in ((T + 1) - 1)..Len(y.ents)
    BY <1>1
  <2>2. /\ ue \in Seq(Entry)
        /\ Len(ue) = (2 * T - 1) - (T + 1) + 1
        /\ \A j \in 1..((2 * T - 1) - (T + 1) + 1) : ue[j] = y.ents[(T + 1) + j - 1]
    BY <1>1, <2>1, Part
  <2> QED
    BY <2>2
<1>4. /\ lk \in Seq(Nat) /\ Len(lk) = IF y.leaf THEN 0 ELSE T
      /\ ~y.leaf => \A j \in 1..T : lk[j] = y.kids[j]
  <2>1. CASE y.leaf
    BY <1>1, <2>1
  <2>2. CASE ~y.leaf
    <3>1. 1 \in 1..(Len(y.kids) + 1) /\ T \in (1 - 1)..Len(y.kids)
      BY <1>1, <2>2
    <3>2. lk = SubSeq(y.kids, 1, T)
      BY <2>2
    <3>3. lk \in Seq(Nat) /\ Len(lk) = T /\ \A j \in 1..T : lk[j] = y.kids[j]
      <4>1. PICK s, one : s = y.kids /\ one = 1
        OBVIOUS
      <4>2. s \in Seq(Nat) /\ one \in 1..(Len(s) + 1) /\ T \in (one - 1)..Len(s)
        BY <1>1, <3>1, <4>1
      <4>3. SubSeq(s, one, T) \in Seq(Nat)
        BY <4>2, Part
      <4>4. Len(SubSeq(s, one, T)) = T - one + 1
        BY <4>2, Part
      <4>5. \A j \in 1..(T - one + 1) : SubSeq(s, one, T)[j] = s[one + j - 1]
        BY <4>2, Part
      <4> QED
        BY <3>2, <4>1, <4>3, <4>4, <4>5
    <3> QED
      BY <2>2, <3>3
  <2> QED
    BY <2>1, <2>2
<1>5. ~y.leaf => \A j \in 1..T : lk[j] = y.kids[j]
  BY <1>4
<1>6. uk \in Seq(Nat) /\ (Len(uk) = IF y.leaf THEN 0 ELSE T)
      /\ (~y.leaf => \A j \in 1..T : uk[j] = y.kids[T + j])
  <2>1. CASE y.leaf
    BY <1>1, <2>1
  <2>2. CASE ~y.leaf
    <3>1. T + 1 \in 1..(Len(y.kids) + 1) /\ 2 * T \in ((T + 1) - 1)..Len(y.kids)
      BY <1>1, <2>2
    <3>2. /\ SubSeq(y.kids, T + 1, 2 * T) \in Seq(Nat)
          /\ Len(SubSeq(y.kids, T + 1, 2 * T)) = 2 * T - (T + 1) + 1
          /\ \A j \in 1..(2 * T - (T + 1) + 1) :
               SubSeq(y.kids, T + 1, 2 * T)[j] = y.kids[(T + 1) + j - 1]
      BY <1>1, <3>1, Part
    <3> QED
      BY <2>2, <3>2
  <2> QED
    BY <2>1, <2>2
<1>7. LowerHalf(y) = [y EXCEPT !.ents = le, !.kids = lk]
  BY DEF LowerHalf
<1>8. UpperHalf(y) = [y EXCEPT !.ents = ue, !.kids = uk]
  BY DEF UpperHalf
<1> HIDE DEF le, ue, lk, uk
<1>9. /\ LowerHalf(y) \in Node /\ LowerHalf(y).leaf = y.leaf /\ LowerHalf(y).ents = le
      /\ LowerHalf(y).kids = lk /\ N(LowerHalf(y)) = T - 1
  BY <1>2, <1>4, <1>7 DEF Node, N
<1>10. /\ UpperHalf(y) \in Node /\ UpperHalf(y).leaf = y.leaf /\ UpperHalf(y).ents = ue
       /\ UpperHalf(y).kids = uk /\ N(UpperHalf(y)) = T - 1
  BY <1>3, <1>6, <1>8 DEF Node, N
<1>11. Filled(LowerHalf(y)) /\ Filled(UpperHalf(y))
  BY <1>4, <1>6, <1>9, <1>10 DEF Filled
<1>12. T \in 1..N(y) /\ N(y) - T = T - 1 /\ N(y) - T + 1 = T
  OBVIOUS
<1> QED
  BY <1>2, <1>3, <1>5, <1>6, <1>9, <1>10, <1>11, <1>12 DEF Cut

(* A node is all but its last entry, that entry, and a stub. *)
LEMMA LastCut ==
  ASSUME NEW y \in Node, Filled(y), N(y) >= 1
  PROVE  Cut(y, N(y), Curtailed(y), Stub(y.leaf, Seqs!Last(y.kids)))
<1> DEFINE n == N(y)
           es == Seqs!Front(y.ents)
           ks == IF y.leaf THEN y.kids ELSE Seqs!Front(y.kids)
           s == Stub(y.leaf, Seqs!Last(y.kids))
<1>1. /\ y.ents \in Seq(Entry) /\ y.kids \in Seq(Nat) /\ y.leaf \in BOOLEAN
      /\ n \in Nat /\ Len(y.ents) = n
      /\ Len(y.kids) = IF y.leaf THEN 0 ELSE n + 1
  BY DEF Node, Filled, N
<1> HIDE DEF n
<1>2. es \in Seq(Entry) /\ Len(es) = n - 1 /\ \A j \in 1..(n - 1) : es[j] = y.ents[j]
  BY <1>1, Part DEF Seqs!Front, n
<1>3. ks \in Seq(Nat) /\ (Len(ks) = IF y.leaf THEN 0 ELSE n)
  BY <1>1, Part DEF Seqs!Front
<1>4. ~y.leaf => \A j \in 1..n : ks[j] = y.kids[j]
  BY <1>1, Part DEF Seqs!Front
<1>5. y.leaf \/ Seqs!Last(y.kids) \in Nat
  BY <1>1 DEF Seqs!Last
<1>6. /\ s \in Node /\ Filled(s) /\ s.leaf = y.leaf /\ N(s) = 0
      /\ ~y.leaf => s.kids[1] = y.kids[n + 1]
  BY <1>1, <1>5, StubNode DEF Seqs!Last
<1>7. Curtailed(y) = [y EXCEPT !.ents = es, !.kids = ks]
  BY DEF Curtailed
<1> HIDE DEF es, ks, s
<1>8. /\ Curtailed(y) \in Node /\ Curtailed(y).leaf = y.leaf /\ Curtailed(y).ents = es
      /\ Curtailed(y).kids = ks /\ N(Curtailed(y)) = n - 1
  BY <1>2, <1>3, <1>7 DEF Node, N
<1>9. Filled(Curtailed(y))
  BY <1>1, <1>3, <1>8 DEF Filled
<1>10. n \in 1..n /\ n - n = 0 /\ n - n + 1 = 1
  BY <1>1 DEF n
<1>11. Cut(y, n, Curtailed(y), s)
  BY <1>1, <1>2, <1>4, <1>6, <1>8, <1>9, <1>10 DEF Cut, n
<1> QED
  BY <1>11 DEF n, s

(* A node with an entry more in front is a stub, that entry, and the node. *)
LEMMA PrependCut ==
  ASSUME NEW c \in Node, Filled(c), NEW e \in Entry, NEW b, c.leaf \/ b \in Nat
  PROVE  /\ Cut(Prepended(c, e, b), 1, Stub(c.leaf, b), c)
         /\ Prepended(c, e, b).ents[1] = e
         /\ N(Prepended(c, e, b)) = N(c) + 1
<1> DEFINE n == N(c)
           es == <<e>> \o c.ents
           ks == IF c.leaf THEN c.kids ELSE <<b>> \o c.kids
           s == Stub(c.leaf, b)
           p == Prepended(c, e, b)
<1>1. /\ c.ents \in Seq(Entry) /\ c.kids \in Seq(Nat) /\ c.leaf \in BOOLEAN
      /\ n \in Nat /\ Len(c.ents) = n
      /\ Len(c.kids) = IF c.leaf THEN 0 ELSE n + 1
  BY DEF Node, Filled, N
<1> HIDE DEF n
<1>2. es \in Seq(Entry) /\ Len(es) = n + 1 /\ es[1] = e /\ \A j \in 1..n : es[1 + j] = c.ents[j]
  <2>1. <<e>> \in Seq(Entry) /\ Len(<<e>>) = 1 /\ <<e>>[1] = e
    OBVIOUS
  <2>2. Chained(Entry, <<e>>, c.ents, es)
    BY <1>1, <2>1, Chain
  <2> QED
    BY <1>1, <2>1, <2>2 DEF Chained
<1>3. /\ ks \in Seq(Nat) /\ Len(ks) = (IF c.leaf THEN 0 ELSE n + 2)
      /\ ~c.leaf => ks[1] = b /\ \A j \in 1..(n + 1) : ks[1 + j] = c.kids[j]
  <2>1. CASE c.leaf
    BY <1>1, <2>1
  <2>2. CASE ~c.leaf
    <3>1. <<b>> \in Seq(Nat) /\ Len(<<b>>) = 1 /\ <<b>>[1] = b
      BY <2>2
    <3>2. ks = <<b>> \o c.kids
      BY <2>2
    <3>3. Chained(Nat, <<b>>, c.kids, ks)
      BY <1>1, <3>1, <3>2, Chain
    <3> QED
      BY <1>1, <2>2, <3>1, <3>3 DEF Chained
  <2> QED
    BY <2>1, <2>2
<1>4. s \in Node /\ Filled(s) /\ s.leaf = c.leaf /\ N(s) = 0 /\ (~c.leaf => s.kids[1] = b)
  BY <1>1, StubNode
<1>5. p = [c EXCEPT !.ents = es, !.kids = ks]
  BY DEF Prepended
<1> HIDE DEF es, ks, s, p
<1>6. p \in Node /\ p.leaf = c.leaf /\ p.ents = es /\ p.kids = ks /\ N(p) = n + 1
  BY <1>2, <1>3, <1>5 DEF Node, N
<1>7. Filled(p)
  BY <1>1, <1>3, <1>6 DEF Filled
<1>8. 1 \in 1..N(p) /\ N(p) - 1 = n /\ (N(p) - 1) + 1 = n + 1
  BY <1>1, <1>6
<1>9. Cut(p, 1, s, c)
  <2>1. /\ p \in Node /\ s \in Node /\ c \in Node /\ Filled(p) /\ Filled(s) /\ Filled(c)
        /\ s.leaf = p.leaf /\ c.leaf = p.leaf
        /\ 1 \in 1..N(p) /\ N(s) = 1 - 1 /\ N(c) = N(p) - 1
    BY <1>1, <1>4, <1>6, <1>7, <1>8 DEF n
  <2>2. \A j \in 1..(1 - 1) : s.ents[j] = p.ents[j]
    OBVIOUS
  <2>3. \A j \in 1..(N(p) - 1) : c.ents[j] = p.ents[1 + j]
    BY <1>2, <1>6, <1>8
  <2>4. ~p.leaf => /\ \A j \in 1..1 : s.kids[j] = p.kids[j]
                   /\ \A j \in 1..(N(p) - 1 + 1) : c.kids[j] = p.kids[1 + j]
    BY <1>3, <1>4, <1>6, <1>8
  <2> QED
    BY <2>1, <2>2, <2>3, <2>4 DEF Cut
<1> QED
  BY <1>2, <1>6, <1>9 DEF n, s, p

(* A node is a stub, its first entry, and the rest. *)
LEMMA FirstCut ==
  ASSUME NEW y \in Node, Filled(y), N(y) >= 1
  PROVE  /\ Cut(y, 1, Stub(y.leaf, Head(y.kids)), Beheaded(y))
         /\ Head(y.ents) = y.ents[1]
<1> DEFINE n == N(y)
           es == Tail(y.ents)
           ks == IF y.leaf THEN y.kids ELSE Tail(y.kids)
           s == Stub(y.leaf, Head(y.kids))
           p == Beheaded(y)
<1>1. /\ y.ents \in Seq(Entry) /\ y.kids \in Seq(Nat) /\ y.leaf \in BOOLEAN
      /\ n \in Nat /\ n >= 1 /\ Len(y.ents) = n
      /\ Len(y.kids) = IF y.leaf THEN 0 ELSE n + 1
  BY DEF Node, Filled, N
<1> HIDE DEF n
<1>2. es \in Seq(Entry) /\ Len(es) = n - 1 /\ \A j \in 1..(n - 1) : es[j] = y.ents[1 + j]
  BY <1>1, HeadTailProperties
<1>3. /\ ks \in Seq(Nat) /\ Len(ks) = (IF y.leaf THEN 0 ELSE n)
      /\ ~y.leaf => \A j \in 1..n : ks[j] = y.kids[1 + j]
  BY <1>1, HeadTailProperties
<1>4. Head(y.ents) = y.ents[1] /\ (~y.leaf => Head(y.kids) = y.kids[1] /\ y.kids[1] \in Nat)
  BY <1>1
<1>5. s \in Node /\ Filled(s) /\ s.leaf = y.leaf /\ N(s) = 0 /\ (~y.leaf => s.kids[1] = y.kids[1])
  BY <1>1, <1>4, StubNode
<1>6. p = [y EXCEPT !.ents = es, !.kids = ks]
  BY DEF Beheaded
<1> HIDE DEF es, ks, s, p
<1>7. p \in Node /\ p.leaf = y.leaf /\ p.ents = es /\ p.kids = ks /\ N(p) = n - 1
  BY <1>2, <1>3, <1>6 DEF Node, N
<1>8. Filled(p)
  BY <1>1, <1>3, <1>7 DEF Filled
<1>9. Cut(y, 1, s, p)
  <2>1. /\ y \in Node /\ s \in Node /\ p \in Node /\ Filled(y) /\ Filled(s) /\ Filled(p)
        /\ s.leaf = y.leaf /\ p.leaf = y.leaf
        /\ 1 \in 1..N(y) /\ N(s) = 1 - 1 /\ N(p) = N(y) - 1
    BY <1>1, <1>5, <1>7, <1>8 DEF n
  <2>2. \A j \in 1..(1 - 1) : s.ents[j] = y.ents[j]
    OBVIOUS
  <2>3. \A j \in 1..(N(y) - 1) : p.ents[j] = y.ents[1 + j]
    BY <1>2, <1>7 DEF n
  <2>4. ~y.leaf => \A j \in 1..1 : s.kids[j] = y.kids[j]
    BY <1>5
  <2>5. ~y.leaf => \A j \in 1..(N(y) - 1 + 1) : p.kids[j] = y.kids[1 + j]
    <3>1. N(y) - 1 + 1 = n
      BY <1>1 DEF n
    <3> QED
      BY <3>1, <1>3, <1>7
  <2> QED
    BY <2>1, <2>2, <2>3, <2>4, <2>5 DEF Cut
<1> QED
  BY <1>4, <1>9 DEF s, p

(* A node with an entry more at its end is the node, that entry, and a stub. *)
LEMMA ExtendCut ==
  ASSUME NEW c \in Node, Filled(c), NEW e \in Entry, NEW b, c.leaf \/ b \in Nat
  PROVE  /\ Cut(Extended(c, e, b), N(c) + 1, c, Stub(c.leaf, b))
         /\ Extended(c, e, b).ents[N(c) + 1] = e
         /\ N(Extended(c, e, b)) = N(c) + 1
<1> DEFINE n == N(c)
           es == Append(c.ents, e)
           ks == IF c.leaf THEN c.kids ELSE Append(c.kids, b)
           s == Stub(c.leaf, b)
           p == Extended(c, e, b)
<1>1. /\ c.ents \in Seq(Entry) /\ c.kids \in Seq(Nat) /\ c.leaf \in BOOLEAN
      /\ n \in Nat /\ Len(c.ents) = n
      /\ Len(c.kids) = IF c.leaf THEN 0 ELSE n + 1
  BY DEF Node, Filled, N
<1> HIDE DEF n
<1>2. /\ es \in Seq(Entry) /\ Len(es) = n + 1 /\ es[n + 1] = e
      /\ \A j \in 1..n : c.ents[j] = es[j]
  BY <1>1
<1>3. /\ ks \in Seq(Nat) /\ Len(ks) = (IF c.leaf THEN 0 ELSE n + 2)
      /\ ~c.leaf => ks[n + 2] = b /\ \A j \in 1..(n + 1) : c.kids[j] = ks[j]
  <2>1. CASE c.leaf
    BY <1>1, <2>1
  <2>2. CASE ~c.leaf
    <3>1. ks = Append(c.kids, b) /\ Len(c.kids) = n + 1 /\ b \in Nat
      BY <1>1, <2>2
    <3>2. ks \in Seq(Nat) /\ Len(ks) = (n + 1) + 1
      BY <1>1, <3>1
    <3>3. ks[(n + 1) + 1] = b
      BY <1>1, <3>1
    <3>4. \A j \in 1..(n + 1) : c.kids[j] = ks[j]
      BY <1>1, <3>1
    <3> QED
      BY <1>1, <2>2, <3>2, <3>3, <3>4
  <2> QED
    BY <2>1, <2>2
<1>4. s \in Node /\ Filled(s) /\ s.leaf = c.leaf /\ N(s) = 0 /\ (~c.leaf => s.kids[1] = b)
  BY <1>1, StubNode
<1>5. p = [c EXCEPT !.ents = es, !.kids = ks]
  BY DEF Extended
<1> HIDE DEF es, ks, s, p
<1>6. p \in Node /\ p.leaf = c.leaf /\ p.ents = es /\ p.kids = ks /\ N(p) = n + 1
  BY <1>2, <1>3, <1>5 DEF Node, N
<1>7. Filled(p)
  BY <1>1, <1>3, <1>6 DEF Filled
<1>8. Cut(p, n + 1, c, s)
  <2>1. /\ p \in Node /\ s \in Node /\ c \in Node /\ Filled(p) /\ Filled(s) /\ Filled(c)
        /\ s.leaf = p.leaf /\ c.leaf = p.leaf
        /\ n + 1 \in 1..N(p) /\ N(s) = N(p) - (n + 1) /\ N(c) = (n + 1) - 1
    BY <1>1, <1>4, <1>6, <1>7 DEF n
  <2>2. \A j \in 1..((n + 1) - 1) : c.ents[j] = p.ents[j]
    BY <1>1, <1>2, <1>6
  <2>3. \A j \in 1..(N(p) - (n + 1)) : s.ents[j] = p.ents[(n + 1) + j]
    BY <1>1, <1>6
  <2>4. ~p.leaf => \A j \in 1..(n + 1) : c.kids[j] = p.kids[j]
    BY <1>3, <1>6
  <2>5. ~p.leaf => \A j \in 1..(N(p) - (n + 1) + 1) : s.kids[j] = p.kids[(n + 1) + j]
    <3>1. N(p) - (n + 1) + 1 = 1 /\ (n + 1) + 1 = n + 2
      BY <1>1, <1>6
    <3> QED
      BY <3>1, <1>3, <1>4, <1>6
  <2> QED
    BY <2>1, <2>2, <2>3, <2>4, <2>5 DEF Cut
<1> QED
  BY <1>2, <1>6, <1>8 DEF n, s, p

(* Two nodes joined are the two, and the entry between them. *)
LEMMA JoinCut ==
  ASSUME NEW a \in Node, Filled(a), N(a) = T - 1, NEW e \in Entry,
         NEW b \in Node, Filled(b), a.leaf = b.leaf
  PROVE  /\ Cut(Joined(a, e, b), T, a, b)
         /\ Joined(a, e, b).ents[T] = e
         /\ N(Joined(a, e, b)) = T + N(b)
<1> USE DegreeAssumption
<1> DEFINE n == N(b)
           s == SubSeq(a.ents, 1, T - 1)
           u == s \o <<e>>
           es == u \o b.ents
           ks == a.kids \o b.kids
           p == Joined(a, e, b)
<1>1. /\ a.ents \in Seq(Entry) /\ a.kids \in Seq(Nat) /\ a.leaf \in BOOLEAN
      /\ Len(a.ents) = T - 1
      /\ Len(a.kids) = IF a.leaf THEN 0 ELSE T
  BY DEF Node, Filled, N
<1>2. /\ b.ents \in Seq(Entry) /\ b.kids \in Seq(Nat)
      /\ n \in Nat /\ Len(b.ents) = n
      /\ Len(b.kids) = IF a.leaf THEN 0 ELSE n + 1
  BY DEF Node, Filled, N
<1> HIDE DEF n
<1>3. s \in Seq(Entry) /\ Len(s) = T - 1 /\ \A j \in 1..(T - 1) : s[j] = a.ents[j]
  <2>1. 1 \in 1..(Len(a.ents) + 1) /\ T - 1 \in (1 - 1)..Len(a.ents)
    BY <1>1
  <2> QED
    BY <1>1, <2>1, Part
<1> HIDE DEF s
<1>4. u \in Seq(Entry) /\ Len(u) = T /\ u[T] = e /\ \A j \in 1..(T - 1) : u[j] = a.ents[j]
  <2>1. <<e>> \in Seq(Entry) /\ Len(<<e>>) = 1 /\ <<e>>[1] = e
    OBVIOUS
  <2>2. Chained(Entry, s, <<e>>, u)
    BY <1>3, <2>1, Chain
  <2> QED
    BY <1>3, <2>1, <2>2 DEF Chained
<1> HIDE DEF u
<1>5. /\ es \in Seq(Entry) /\ Len(es) = T + n
      /\ \A j \in 1..T : es[j] = u[j]
      /\ \A j \in 1..n : es[T + j] = b.ents[j]
  <2>1. Chained(Entry, u, b.ents, es)
    BY <1>2, <1>4, Chain
  <2> QED
    BY <1>2, <1>4, <2>1 DEF Chained
<1>6. /\ ks \in Seq(Nat) /\ Len(ks) = (IF a.leaf THEN 0 ELSE T + (n + 1))
      /\ ~a.leaf => /\ \A j \in 1..T : ks[j] = a.kids[j]
                    /\ \A j \in 1..(n + 1) : ks[T + j] = b.kids[j]
  <2>1. Chained(Nat, a.kids, b.kids, ks)
    BY <1>1, <1>2, Chain
  <2>2. CASE a.leaf
    BY <1>1, <1>2, <2>1, <2>2 DEF Chained
  <2>3. CASE ~a.leaf
    BY <1>1, <1>2, <2>1, <2>3 DEF Chained
  <2> QED
    BY <2>2, <2>3
<1>7. p = [a EXCEPT !.ents = es, !.kids = ks]
  BY DEF Joined, s, u
<1> HIDE DEF es, ks, p
<1>8. p \in Node /\ p.leaf = a.leaf /\ p.ents = es /\ p.kids = ks /\ N(p) = T + n
  BY <1>5, <1>6, <1>7 DEF Node, N
<1>9. Filled(p)
  BY <1>2, <1>6, <1>8 DEF Filled
<1>10. Cut(p, T, a, b)
  <2>1. /\ p \in Node /\ a \in Node /\ b \in Node /\ Filled(p) /\ Filled(a) /\ Filled(b)
        /\ a.leaf = p.leaf /\ b.leaf = p.leaf
        /\ T \in 1..N(p) /\ N(a) = T - 1 /\ N(b) = N(p) - T
    BY <1>2, <1>8, <1>9 DEF n
  <2>2. \A j \in 1..(T - 1) : a.ents[j] = p.ents[j]
    BY <1>4, <1>5, <1>8
  <2>3. \A j \in 1..(N(p) - T) : b.ents[j] = p.ents[T + j]
    BY <1>2, <1>5, <1>8
  <2>4. ~p.leaf => \A j \in 1..T : a.kids[j] = p.kids[j]
    BY <1>6, <1>8
  <2>5. ~p.leaf => \A j \in 1..(N(p) - T + 1) : b.kids[j] = p.kids[T + j]
    <3>1. N(p) - T + 1 = n + 1
      BY <1>2, <1>8
    <3> QED
      BY <3>1, <1>6, <1>8
  <2> QED
    BY <2>1, <2>2, <2>3, <2>4, <2>5 DEF Cut
<1> QED
  BY <1>4, <1>5, <1>8, <1>10 DEF n, p

-----------------------------------------------------------------------------
\* Node p is nd with its child i replaced by b, or its entry i by e.
KidReplaced(nd, i, b, p) ==
  /\ p \in Node
  /\ Filled(p)
  /\ ~p.leaf
  /\ N(p) = N(nd)
  /\ p.ents = nd.ents
  /\ \A j \in 1..(N(nd) + 1) : p.kids[j] = IF j = i THEN b ELSE nd.kids[j]

EntryReplaced(nd, i, e, p) ==
  /\ p \in Node
  /\ Filled(p)
  /\ p.leaf = nd.leaf
  /\ N(p) = N(nd)
  /\ p.kids = nd.kids
  /\ \A j \in 1..N(nd) : p.ents[j] = IF j = i THEN e ELSE nd.ents[j]

(* What WithKid and WithEntry come to. *)
LEMMA OtherKid ==
  ASSUME NEW nd \in Node, Filled(nd), ~nd.leaf, NEW i \in 1..(N(nd) + 1), NEW b \in Nat
  PROVE  KidReplaced(nd, i, b, WithKid(nd, i, b))
<1> DEFINE ks == Seqs!ReplaceAt(nd.kids, i, b)
           p == WithKid(nd, i, b)
<1>1. nd.ents \in Seq(Entry) /\ nd.kids \in Seq(Nat) /\ Len(nd.kids) = N(nd) + 1
  BY DEF Node, Filled
<1>2. /\ ks \in Seq(Nat) /\ Len(ks) = N(nd) + 1
      /\ \A j \in 1..(N(nd) + 1) : ks[j] = IF j = i THEN b ELSE nd.kids[j]
  <2>1. i \in 1..Len(nd.kids)
    BY <1>1
  <2>2. Replaced(Nat, nd.kids, i, b, ks)
    BY <1>1, <2>1, Replacement
  <2> QED
    BY <1>1, <2>2 DEF Replaced
<1>3. p = [nd EXCEPT !.kids = ks]
  BY DEF WithKid
<1> HIDE DEF ks, p
<1>4. p \in Node /\ p.leaf = nd.leaf /\ p.ents = nd.ents /\ p.kids = ks
  BY <1>1, <1>2, <1>3 DEF Node
<1>5. N(p) = N(nd)
  BY <1>4 DEF N
<1>6. Filled(p)
  BY <1>2, <1>4, <1>5 DEF Filled
<1> QED
  BY <1>2, <1>4, <1>5, <1>6 DEF p, KidReplaced

(* A node with another entry at one position. *)
LEMMA OtherEntry ==
  ASSUME NEW nd \in Node, Filled(nd), NEW i \in 1..N(nd), NEW e \in Entry
  PROVE  EntryReplaced(nd, i, e, WithEntry(nd, i, e))
<1> DEFINE es == Seqs!ReplaceAt(nd.ents, i, e)
           p == WithEntry(nd, i, e)
<1>1. nd.ents \in Seq(Entry) /\ nd.kids \in Seq(Nat) /\ Len(nd.ents) = N(nd)
  BY DEF Node, N
<1>2. /\ es \in Seq(Entry) /\ Len(es) = N(nd)
      /\ \A j \in 1..N(nd) : es[j] = IF j = i THEN e ELSE nd.ents[j]
  <2>1. i \in 1..Len(nd.ents)
    BY <1>1
  <2>2. Replaced(Entry, nd.ents, i, e, es)
    BY <1>1, <2>1, Replacement
  <2> QED
    BY <1>1, <2>2 DEF Replaced
<1>3. p = [nd EXCEPT !.ents = es]
  BY DEF WithEntry
<1> HIDE DEF es, p
<1>4. p \in Node /\ p.leaf = nd.leaf /\ p.ents = es /\ p.kids = nd.kids
  BY <1>1, <1>2, <1>3 DEF Node
<1>5. N(p) = N(nd)
  BY <1>2, <1>4 DEF N
<1>6. Filled(p)
  BY <1>4, <1>5 DEF Filled
<1> QED
  BY <1>2, <1>4, <1>5, <1>6 DEF p, EntryReplaced

(* A node with another child i. *)
LEMMA GraftKid ==
  ASSUME NEW nd \in Node, Filled(nd), ~nd.leaf, NEW i \in 1..(N(nd) + 1), NEW b \in Nat
  PROVE  /\ Grafted(nd, i, 0, WithKid(nd, i, b), 0)
         /\ WithKid(nd, i, b).kids[i] = b
         /\ N(WithKid(nd, i, b)) = N(nd)
<1> DEFINE p == WithKid(nd, i, b)
<1>1. /\ p \in Node /\ Filled(p) /\ ~p.leaf /\ N(p) = N(nd) /\ p.ents = nd.ents
      /\ \A j \in 1..(N(nd) + 1) : p.kids[j] = IF j = i THEN b ELSE nd.kids[j]
  <2>1. KidReplaced(nd, i, b, p)
    BY OtherKid
  <2> QED
    BY <2>1 DEF KidReplaced
<1>2. N(nd) \in Nat
  BY DEF Node, N
<1> HIDE DEF p
<1>3. Grafted(nd, i, 0, p, 0)
  BY <1>1, <1>2 DEF Grafted
<1> QED
  BY <1>1, <1>3 DEF p

(* A node with another entry i, and with another child on its one side, or *)
(* on both.                                                                *)
LEMMA GraftEntry ==
  ASSUME NEW nd \in Node, Filled(nd), ~nd.leaf, NEW i \in 1..N(nd), NEW e \in Entry,
         NEW j \in {i, i + 1}, NEW b \in Nat,
         NEW nd2, nd2 = WithKid(WithEntry(nd, i, e), j, b)
  PROVE  /\ Grafted(nd, i, 1, nd2, 1)
         /\ nd2.ents[i] = e
         /\ nd2.kids[j] = b
         /\ \A k \in {i, i + 1} : k # j => nd2.kids[k] = nd.kids[k]
         /\ N(nd2) = N(nd)
<1> DEFINE u == WithEntry(nd, i, e)
           p == WithKid(u, j, b)
<1>1. N(nd) \in Nat
  BY DEF Node, N
<1>2. /\ u \in Node /\ Filled(u) /\ ~u.leaf /\ N(u) = N(nd) /\ u.kids = nd.kids
      /\ \A m \in 1..N(nd) : u.ents[m] = IF m = i THEN e ELSE nd.ents[m]
  <2>1. EntryReplaced(nd, i, e, u)
    BY OtherEntry
  <2> QED
    BY <2>1 DEF EntryReplaced
<1> HIDE DEF u
<1>3. /\ p \in Node /\ Filled(p) /\ ~p.leaf /\ N(p) = N(nd) /\ p.ents = u.ents
      /\ \A m \in 1..(N(nd) + 1) : p.kids[m] = IF m = j THEN b ELSE nd.kids[m]
  <2>1. j \in 1..(N(u) + 1)
    BY <1>1, <1>2
  <2>2. KidReplaced(u, j, b, p)
    BY <1>2, <2>1, OtherKid
  <2> QED
    BY <1>2, <2>2 DEF KidReplaced
<1> HIDE DEF p
<1>4. Grafted(nd, i, 1, p, 1)
  BY <1>1, <1>2, <1>3 DEF Grafted
<1>5. p.ents[i] = e /\ p.kids[j] = b /\ \A k \in {i, i + 1} : k # j => p.kids[k] = nd.kids[k]
  BY <1>1, <1>2, <1>3
<1>6. N(p) = N(nd)
  BY <1>3
<1> QED
  BY <1>4, <1>5, <1>6 DEF p, u

(* A node with another entry and other children beside it is as before but for its window. *)
LEMMA GraftTwo ==
  ASSUME NEW nd \in Node, Filled(nd), ~nd.leaf, NEW m \in 1..N(nd), NEW e \in Entry,
         NEW i \in {m, m + 1}, NEW j \in {m, m + 1}, i # j, NEW b \in Nat, NEW c \in Nat,
         NEW nd2, nd2 = WithKid(WithKid(WithEntry(nd, m, e), i, b), j, c)
  PROVE  /\ Grafted(nd, m, 1, nd2, 1)
         /\ nd2.ents[m] = e
         /\ nd2.kids[i] = b
         /\ nd2.kids[j] = c
         /\ N(nd2) = N(nd)
<1> DEFINE u == WithEntry(nd, m, e)
           v == WithKid(u, i, b)
           p == WithKid(v, j, c)
<1>1. N(nd) \in Nat
  BY DEF Node, N
<1>2. /\ u \in Node /\ Filled(u) /\ ~u.leaf /\ N(u) = N(nd) /\ u.kids = nd.kids
      /\ \A k \in 1..N(nd) : u.ents[k] = IF k = m THEN e ELSE nd.ents[k]
  <2>1. EntryReplaced(nd, m, e, u)
    BY OtherEntry
  <2> QED
    BY <2>1 DEF EntryReplaced
<1> HIDE DEF u
<1>3. /\ v \in Node /\ Filled(v) /\ ~v.leaf /\ N(v) = N(nd) /\ v.ents = u.ents
      /\ \A k \in 1..(N(nd) + 1) : v.kids[k] = IF k = i THEN b ELSE nd.kids[k]
  <2>1. i \in 1..(N(u) + 1)
    BY <1>1, <1>2
  <2>2. KidReplaced(u, i, b, v)
    BY <1>2, <2>1, OtherKid
  <2> QED
    BY <1>2, <2>2 DEF KidReplaced
<1> HIDE DEF v
<1>4. /\ p \in Node /\ Filled(p) /\ ~p.leaf /\ N(p) = N(nd) /\ p.ents = v.ents
      /\ \A k \in 1..(N(nd) + 1) : p.kids[k] = IF k = j THEN c ELSE v.kids[k]
  <2>1. j \in 1..(N(v) + 1)
    BY <1>1, <1>3
  <2>2. KidReplaced(v, j, c, p)
    BY <1>3, <2>1, OtherKid
  <2> QED
    BY <1>3, <2>2 DEF KidReplaced
<1> HIDE DEF p
<1>5. Grafted(nd, m, 1, p, 1)
  BY <1>1, <1>2, <1>3, <1>4 DEF Grafted
<1>6. p.ents[m] = e /\ p.kids[i] = b /\ p.kids[j] = c
  BY <1>1, <1>2, <1>3, <1>4
<1>7. N(p) = N(nd)
  BY <1>4
<1> QED
  BY <1>5, <1>6, <1>7 DEF p, v, u

(* A new inner node over these children. *)
LEMMA InnerNode ==
  ASSUME NEW es \in Seq(Entry), NEW ks \in Seq(Nat)
  PROVE  /\ Inner(es, ks) \in Node
         /\ ~Inner(es, ks).leaf
         /\ Inner(es, ks).ents = es
         /\ Inner(es, ks).kids = ks
         /\ N(Inner(es, ks)) = Len(es)
         /\ Filled(Inner(es, ks)) <=> Len(ks) = Len(es) + 1
BY DEF Inner, Node, N, Filled

(* A node with a new entry, between two children in place of one. *)
LEMMA GraftSplit ==
  ASSUME NEW nd \in Node, Filled(nd), ~nd.leaf, NEW i \in 1..(N(nd) + 1), NEW e \in Entry,
         NEW b \in Nat, NEW c \in Nat,
         NEW nd2, nd2 = Inner(Seqs!InsertAt(nd.ents, i, e),
                              Seqs!InsertAt(Seqs!ReplaceAt(nd.kids, i, b), i + 1, c))
  PROVE  /\ Grafted(nd, i, 0, nd2, 1)
         /\ nd2.ents[i] = e
         /\ nd2.kids[i] = b
         /\ nd2.kids[i + 1] = c
         /\ N(nd2) = N(nd) + 1
<1> DEFINE n == N(nd)
           es == Seqs!InsertAt(nd.ents, i, e)
           ls == Seqs!ReplaceAt(nd.kids, i, b)
           ks == Seqs!InsertAt(ls, i + 1, c)
           p == Inner(es, ks)
<1>1. /\ nd.ents \in Seq(Entry) /\ nd.kids \in Seq(Nat) /\ Len(nd.kids) = n + 1
      /\ n \in Nat /\ Len(nd.ents) = n
  BY DEF Node, Filled, N
<1>2. i \in 1..(n + 1)
  OBVIOUS
<1> HIDE DEF n
<1>3. /\ es \in Seq(Entry) /\ Len(es) = n + 1 /\ es[i] = e
      /\ \A j \in 1..(i - 1) : es[j] = nd.ents[j]
      /\ \A j \in i..n : es[j + 1] = nd.ents[j]
  <2>1. i \in 1..(Len(nd.ents) + 1)
    BY <1>1, <1>2
  <2>2. Inserting(Entry, nd.ents, i, e, es)
    BY <1>1, <2>1, Insertion
  <2> QED
    BY <1>1, <2>2 DEF Inserting
<1>4. /\ ls \in Seq(Nat) /\ Len(ls) = n + 1
      /\ \A j \in 1..(n + 1) : ls[j] = IF j = i THEN b ELSE nd.kids[j]
  <2>1. i \in 1..Len(nd.kids)
    BY <1>1, <1>2
  <2>2. Replaced(Nat, nd.kids, i, b, ls)
    BY <1>1, <2>1, Replacement
  <2> QED
    BY <1>1, <2>2 DEF Replaced
<1> HIDE DEF es, ls
<1>5. /\ ks \in Seq(Nat) /\ Len(ks) = n + 2 /\ ks[i + 1] = c
      /\ \A j \in 1..i : ks[j] = ls[j]
      /\ \A j \in (i + 1)..(n + 1) : ks[j + 1] = ls[j]
  <2>1. i + 1 \in 1..(Len(ls) + 1)
    BY <1>1, <1>2, <1>4
  <2>2. Inserting(Nat, ls, i + 1, c, ks)
    BY <1>4, <2>1, Insertion
  <2>3. (i + 1) - 1 = i
    BY <1>2
  <2> QED
    BY <1>1, <1>4, <2>2, <2>3 DEF Inserting
<1> HIDE DEF ks
<1>6. /\ p \in Node /\ ~p.leaf /\ p.ents = es /\ p.kids = ks /\ N(p) = n + 1 /\ Filled(p)
  BY <1>1, <1>3, <1>5, InnerNode
<1> HIDE DEF p
<1>7. Grafted(nd, i, 0, p, 1)
  <2>1. N(p) = N(nd) - 0 + 1
    BY <1>1, <1>6 DEF n
  <2>2. ASSUME NEW j \in 1..(i - 1)
        PROVE  p.ents[j] = nd.ents[j] /\ p.kids[j] = nd.kids[j]
    <3>1. j \in 1..i /\ j \in 1..(n + 1) /\ j # i
      BY <1>1, <1>2
    <3> QED
      BY <3>1, <1>3, <1>4, <1>5, <1>6
  <2>3. \A j \in (i + 0)..N(nd) : p.ents[j - 0 + 1] = nd.ents[j]
    BY <1>1, <1>2, <1>3, <1>6 DEF n
  <2>4. ASSUME NEW j \in (i + 0 + 1)..(N(nd) + 1) PROVE p.kids[j - 0 + 1] = nd.kids[j]
    <3>1. j \in (i + 1)..(n + 1) /\ j \in 1..(n + 1) /\ j # i /\ j - 0 + 1 = j + 1
      BY <1>1, <1>2 DEF n
    <3> QED
      BY <3>1, <1>4, <1>5, <1>6
  <2> QED
    BY <1>6, <2>1, <2>2, <2>3, <2>4 DEF Grafted
<1>8. p.ents[i] = e /\ p.kids[i] = b /\ p.kids[i + 1] = c
  BY <1>1, <1>2, <1>3, <1>4, <1>5, <1>6
<1>9. N(p) = N(nd) + 1
  BY <1>6 DEF n
<1> QED
  BY <1>7, <1>8, <1>9 DEF p, es, ks, ls

(* A node with an entry less, and one child in place of the two beside it. *)
LEMMA GraftMerge ==
  ASSUME NEW nd \in Node, Filled(nd), ~nd.leaf, NEW i \in 1..N(nd), NEW b \in Nat,
         NEW nd2, nd2 = Inner(Seqs!RemoveAt(nd.ents, i),
                              Seqs!RemoveAt(Seqs!ReplaceAt(nd.kids, i, b), i + 1))
  PROVE  /\ Grafted(nd, i, 1, nd2, 0)
         /\ nd2.kids[i] = b
         /\ N(nd2) = N(nd) - 1
<1> DEFINE n == N(nd)
           es == Seqs!RemoveAt(nd.ents, i)
           ls == Seqs!ReplaceAt(nd.kids, i, b)
           ks == Seqs!RemoveAt(ls, i + 1)
           p == Inner(es, ks)
<1>1. /\ nd.ents \in Seq(Entry) /\ nd.kids \in Seq(Nat) /\ Len(nd.kids) = n + 1
      /\ n \in Nat /\ Len(nd.ents) = n
  BY DEF Node, Filled, N
<1>2. i \in 1..n
  OBVIOUS
<1> HIDE DEF n
<1>3. /\ es \in Seq(Entry) /\ Len(es) = n - 1
      /\ \A j \in 1..(i - 1) : es[j] = nd.ents[j]
      /\ \A j \in i..(n - 1) : es[j] = nd.ents[j + 1]
  <2>1. i \in 1..Len(nd.ents)
    BY <1>1, <1>2
  <2>2. Removing(Entry, nd.ents, i, es)
    BY <1>1, <2>1, Removal
  <2> QED
    BY <1>1, <2>2 DEF Removing
<1>4. /\ ls \in Seq(Nat) /\ Len(ls) = n + 1
      /\ \A j \in 1..(n + 1) : ls[j] = IF j = i THEN b ELSE nd.kids[j]
  <2>1. i \in 1..Len(nd.kids)
    BY <1>1, <1>2
  <2>2. Replaced(Nat, nd.kids, i, b, ls)
    BY <1>1, <2>1, Replacement
  <2> QED
    BY <1>1, <2>2 DEF Replaced
<1> HIDE DEF es, ls
<1>5. /\ ks \in Seq(Nat) /\ Len(ks) = n
      /\ \A j \in 1..i : ks[j] = ls[j]
      /\ \A j \in (i + 1)..n : ks[j] = ls[j + 1]
  <2>1. i + 1 \in 1..Len(ls)
    <3>1. Len(ls) = n + 1 /\ n \in Nat /\ i \in 1..n
      BY <1>1, <1>2, <1>4
    <3> QED
      BY <3>1
  <2>2. Removing(Nat, ls, i + 1, ks)
    BY <1>4, <2>1, Removal
  <2>3. (i + 1) - 1 = i /\ Len(ls) - 1 = n
    BY <1>1, <1>2, <1>4
  <2> QED
    BY <2>2, <2>3 DEF Removing
<1> HIDE DEF ks
<1>6. p \in Node /\ ~p.leaf /\ p.ents = es /\ p.kids = ks /\ N(p) = n - 1 /\ Filled(p)
  BY <1>1, <1>3, <1>5, InnerNode
<1> HIDE DEF p
<1>7. Grafted(nd, i, 1, p, 0)
  <2>1. N(p) = N(nd) - 1 + 0
    BY <1>1, <1>6 DEF n
  <2>2. ASSUME NEW j \in 1..(i - 1)
        PROVE  p.ents[j] = nd.ents[j] /\ p.kids[j] = nd.kids[j]
    <3>1. j \in 1..i /\ j \in 1..(n + 1) /\ j # i
      BY <1>1, <1>2
    <3> QED
      BY <3>1, <1>3, <1>4, <1>5, <1>6
  <2>3. ASSUME NEW j \in (i + 1)..N(nd) PROVE p.ents[j - 1 + 0] = nd.ents[j]
    <3>1. j - 1 \in i..(n - 1) /\ j - 1 + 0 = j - 1 /\ (j - 1) + 1 = j
      BY <1>1, <1>2 DEF n
    <3> QED
      BY <3>1, <1>3, <1>6
  <2>4. ASSUME NEW j \in (i + 1 + 1)..(N(nd) + 1) PROVE p.kids[j - 1 + 0] = nd.kids[j]
    <3>1. /\ j - 1 \in (i + 1)..n /\ j - 1 + 0 = j - 1 /\ (j - 1) + 1 = j
          /\ j \in 1..(n + 1) /\ j # i
      BY <1>1, <1>2 DEF n
    <3>2. p.kids[j - 1] = ls[(j - 1) + 1]
      BY <1>5, <1>6, <3>1
    <3>3. ls[j] = nd.kids[j]
      BY <1>4, <3>1
    <3> QED
      BY <3>1, <3>2, <3>3
  <2> QED
    BY <1>6, <2>1, <2>2, <2>3, <2>4 DEF Grafted
<1>8. p.kids[i] = b
  <2>1. i \in 1..i /\ i \in 1..(n + 1)
    BY <1>1, <1>2
  <2>2. p.kids[i] = ls[i]
    BY <1>5, <1>6, <2>1
  <2>3. ls[i] = b
    BY <1>4, <2>1
  <2> QED
    BY <2>2, <2>3
<1>9. N(p) = N(nd) - 1
  BY <1>6 DEF n
<1> QED
  BY <1>7, <1>8, <1>9 DEF p, es, ks, ls

-----------------------------------------------------------------------------
\* Without the entry of a key.
Without(entries, k) == {d \in entries : Key(d) # k}

(* A new leaf with these entries. *)
LEMMA LeafNode ==
  ASSUME NEW es \in Seq(Entry)
  PROVE  /\ Leaf(es) \in Node
         /\ Leaf(es).leaf
         /\ Leaf(es).ents = es
         /\ Leaf(es).kids = <<>> /\ DOMAIN Leaf(es).kids = {}
         /\ N(Leaf(es)) = Len(es)
         /\ Filled(Leaf(es))
BY DEF Leaf, Node, N, Filled

(* A leaf takes an entry at its place. *)
LEMMA LeafInserted ==
  ASSUME Unique, NEW ns \in Heap, NEW nd, Sound(ns, 1, nd), N(nd) <= 2 * T - 2,
         NEW i \in 1..(N(nd) + 1), NEW e \in Entry,
         \A j \in 1..(i - 1) : Key(nd.ents[j]) < Key(e),
         \A j \in i..N(nd) : Key(e) < Key(nd.ents[j]),
         NEW nd2, nd2 = Leaf(Seqs!InsertAt(nd.ents, i, e))
  PROVE  /\ Sound(ns, 1, nd2)
         /\ NE(ns, 1, nd2) = NE(ns, 1, nd) \cup {e}
         /\ NB(ns, 1, nd2) = NB(ns, 1, nd)
         /\ N(nd2) = N(nd) + 1
<1> USE DegreeAssumption
<1> DEFINE n == N(nd)
           es == Seqs!InsertAt(nd.ents, i, e)
<1>1. /\ nd \in Node /\ Filled(nd) /\ n \in Nat
      /\ DOMAIN nd.ents = 1..n
      /\ \A j \in 1..n : nd.ents[j] \in Entry /\ Key(nd.ents[j]) \in Int
      /\ \A j, k \in 1..n : j < k => Key(nd.ents[j]) < Key(nd.ents[k])
      /\ DOMAIN nd.kids = IF nd.leaf THEN {} ELSE 1..(n + 1)
  BY KeysOfNode
<1>2. nd.leaf /\ DOMAIN nd.kids = {}
  BY <1>1 DEF Sound
<1>3. nd.ents \in Seq(Entry) /\ Len(nd.ents) = n
  BY <1>1 DEF Node, N
<1>4. i \in 1..(n + 1) /\ n <= 2 * T - 2 /\ Key(e) \in Int
  BY Order
<1>5. \A j \in 1..(i - 1) : Key(nd.ents[j]) < Key(e)
  OBVIOUS
<1>6. \A j \in i..n : Key(e) < Key(nd.ents[j])
  OBVIOUS
<1> HIDE DEF n
<1>7. Inserting(Entry, nd.ents, i, e, es)
  BY <1>3, <1>4, Insertion
<1>8. /\ es \in Seq(Entry) /\ Len(es) = n + 1 /\ es[i] = e
      /\ \A j \in 1..(i - 1) : es[j] = nd.ents[j]
      /\ \A j \in (i + 1)..(n + 1) : es[j] = nd.ents[j - 1]
  <2>1. /\ es \in Seq(Entry) /\ Len(es) = n + 1 /\ es[i] = e
        /\ \A j \in 1..(i - 1) : es[j] = nd.ents[j]
        /\ \A j \in i..n : es[j + 1] = nd.ents[j]
    BY <1>3, <1>7 DEF Inserting
  <2>2. ASSUME NEW j \in (i + 1)..(n + 1) PROVE es[j] = nd.ents[j - 1]
    <3>1. j - 1 \in i..n /\ (j - 1) + 1 = j
      BY <1>1, <1>4
    <3> QED
      BY <2>1, <3>1
  <2> QED
    BY <2>1, <2>2
<1> HIDE DEF es
<1>9. /\ nd2 \in Node /\ nd2.leaf /\ nd2.ents = es /\ DOMAIN nd2.kids = {} /\ N(nd2) = n + 1
      /\ Filled(nd2)
  BY <1>8, LeafNode DEF es
<1>10. ASSUME NEW j \in 1..(n + 1), NEW k \in 1..(n + 1), j < k
       PROVE  Key(es[j]) < Key(es[k])
  <2>1. CASE j < i /\ k < i
    <3>1. j \in 1..(i - 1) /\ k \in 1..(i - 1) /\ j \in 1..n /\ k \in 1..n
      BY <2>1, <1>1, <1>4
    <3> QED
      BY <3>1, <1>1, <1>8, <1>10
  <2>2. CASE j < i /\ k = i
    <3>1. j \in 1..(i - 1)
      BY <2>2, <1>1, <1>4
    <3> QED
      BY <3>1, <2>2, <1>5, <1>8
  <2>3. CASE j < i /\ k > i
    <3>1. j \in 1..(i - 1) /\ k \in (i + 1)..(n + 1) /\ j \in 1..n /\ k - 1 \in 1..n /\ j < k - 1
      BY <2>3, <1>1, <1>4
    <3> QED
      BY <3>1, <1>1, <1>8
  <2>4. CASE j = i
    <3>1. k \in (i + 1)..(n + 1) /\ k - 1 \in i..n
      BY <2>4, <1>1, <1>4, <1>10
    <3> QED
      BY <3>1, <2>4, <1>6, <1>8
  <2>5. CASE j > i
    <3>1. /\ j \in (i + 1)..(n + 1) /\ k \in (i + 1)..(n + 1)
          /\ j - 1 \in 1..n /\ k - 1 \in 1..n /\ j - 1 < k - 1
      BY <2>5, <1>1, <1>4, <1>10
    <3> QED
      BY <3>1, <1>1, <1>8
  <2> QED
    BY <2>1, <2>2, <2>3, <2>4, <2>5, <1>4, <1>10
<1>11. Sound(ns, 1, nd2)
  <2>1. nd2.leaf = (1 = 1)
    BY <1>9 DEF Node
  <2>2. N(nd2) <= 2 * T - 1
    BY <1>1, <1>4, <1>9
  <2>3. \A j, k \in 1..N(nd2) : j < k => Key(nd2.ents[j]) < Key(nd2.ents[k])
    BY <1>9, <1>10
  <2> QED
    BY <1>9, <2>1, <2>2, <2>3, MakesSound
<1>12. ASSUME NEW d PROVE d \in NE(ns, 1, nd2) <=> d \in NE(ns, 1, nd) \/ d = e
  <2>1. d \in NE(ns, 1, nd) <=> \E j \in 1..n : d = nd.ents[j]
    BY <1>1, <1>2, InNode
  <2>2. d \in NE(ns, 1, nd2) <=> \E j \in 1..(n + 1) : d = es[j]
    <3>1. DOMAIN nd2.ents = 1..(n + 1)
      BY <1>8, <1>9
    <3> QED
      BY <3>1, <1>9 DEF NE, Seqs!ToSet
  <2>3. ASSUME NEW j \in 1..(n + 1) PROVE es[j] = e \/ \E k \in 1..n : es[j] = nd.ents[k]
    <3>1. CASE j < i
      <4>1. j \in 1..(i - 1) /\ j \in 1..n
        BY <3>1, <1>1, <1>4
      <4> QED
        BY <4>1, <1>8
    <3>2. CASE j = i
      BY <3>2, <1>8
    <3>3. CASE j > i
      <4>1. j \in (i + 1)..(n + 1) /\ j - 1 \in 1..n
        BY <3>3, <1>1, <1>4
      <4> QED
        BY <4>1, <1>8
    <3> QED
      BY <3>1, <3>2, <3>3, <1>4
  <2>4. ASSUME NEW j \in 1..n PROVE \E k \in 1..(n + 1) : es[k] = nd.ents[j]
    <3>1. CASE j < i
      <4>1. j \in 1..(i - 1) /\ j \in 1..(n + 1)
        BY <3>1, <1>1, <1>4
      <4> QED
        BY <4>1, <1>8
    <3>2. CASE j >= i
      <4>1. j + 1 \in (i + 1)..(n + 1) /\ j + 1 \in 1..(n + 1) /\ (j + 1) - 1 = j
        BY <3>2, <1>1, <1>4
      <4>2. es[j + 1] = nd.ents[(j + 1) - 1]
        BY <4>1, <1>8
      <4> QED
        BY <4>1, <4>2
    <3> QED
      BY <3>1, <3>2, <1>4
  <2>5. \E k \in 1..(n + 1) : es[k] = e
    BY <1>4, <1>8
  <2> QED
    BY <2>1, <2>2, <2>3, <2>4, <2>5
<1>13. NB(ns, 1, nd2) = NB(ns, 1, nd)
  BY <1>2, <1>9 DEF NB
<1> QED
  BY <1>9, <1>11, <1>12, <1>13 DEF n

(* A leaf loses an entry. *)
LEMMA LeafRemoved ==
  ASSUME Unique, NEW ns \in Heap, NEW nd, Sound(ns, 1, nd), NEW i \in 1..N(nd),
         NEW nd2, nd2 = Leaf(Seqs!RemoveAt(nd.ents, i))
  PROVE  /\ Sound(ns, 1, nd2)
         /\ NE(ns, 1, nd2) = Without(NE(ns, 1, nd), Key(nd.ents[i]))
         /\ NB(ns, 1, nd2) = NB(ns, 1, nd)
         /\ N(nd2) = N(nd) - 1
<1> USE DegreeAssumption
<1> DEFINE n == N(nd)
           es == Seqs!RemoveAt(nd.ents, i)
<1>1. /\ nd \in Node /\ Filled(nd) /\ n \in Nat
      /\ DOMAIN nd.ents = 1..n
      /\ \A j \in 1..n : nd.ents[j] \in Entry /\ Key(nd.ents[j]) \in Int
      /\ \A j, k \in 1..n : j < k => Key(nd.ents[j]) < Key(nd.ents[k])
      /\ DOMAIN nd.kids = IF nd.leaf THEN {} ELSE 1..(n + 1)
  <2>1. PICK h : h = 1 /\ h \in Nat \ {0}
    OBVIOUS
  <2>2. Sound(ns, h, nd)
    BY <2>1
  <2>3. nd \in Node /\ Filled(nd) /\ n \in Nat
    BY <2>1, <2>2, KeysOfNode
  <2>4. DOMAIN nd.ents = 1..n /\ DOMAIN nd.kids = IF nd.leaf THEN {} ELSE 1..(n + 1)
    BY <2>1, <2>2, KeysOfNode
  <2>5. \A j \in 1..n : nd.ents[j] \in Entry /\ Key(nd.ents[j]) \in Int
    BY <2>1, <2>2, KeysOfNode
  <2>6. \A j, k \in 1..n : j < k => Key(nd.ents[j]) < Key(nd.ents[k])
    BY <2>1, <2>2, KeysOfNode
  <2> QED
    BY <2>3, <2>4, <2>5, <2>6
<1>2. nd.leaf /\ DOMAIN nd.kids = {}
  BY <1>1 DEF Sound
<1>3. nd.ents \in Seq(Entry) /\ Len(nd.ents) = n /\ n <= 2 * T - 1
  BY <1>1 DEF Node, N, Sound
<1>4. i \in 1..n
  OBVIOUS
<1> HIDE DEF n
<1>5. Removing(Entry, nd.ents, i, es)
  BY <1>3, <1>4, Removal
<1>6. /\ es \in Seq(Entry) /\ Len(es) = n - 1
      /\ \A j \in 1..(i - 1) : es[j] = nd.ents[j]
      /\ \A j \in i..(n - 1) : es[j] = nd.ents[j + 1]
  BY <1>3, <1>5 DEF Removing
<1> HIDE DEF es
<1>7. /\ nd2 \in Node /\ nd2.leaf /\ nd2.ents = es /\ DOMAIN nd2.kids = {} /\ N(nd2) = n - 1
      /\ Filled(nd2)
  BY <1>6, LeafNode DEF es
<1>8. ASSUME NEW j \in 1..(n - 1)
      PROVE  \E k \in 1..n : es[j] = nd.ents[k] /\ k # i /\ k = IF j < i THEN j ELSE j + 1
  <2>1. CASE j < i
    <3>1. j \in 1..(i - 1) /\ j \in 1..n /\ j # i
      BY <2>1, <1>1, <1>4
    <3> QED
      BY <3>1, <2>1, <1>6
  <2>2. CASE j >= i
    <3>1. j \in i..(n - 1) /\ j + 1 \in 1..n /\ j + 1 # i /\ ~(j < i)
      BY <2>2, <1>1, <1>4
    <3> QED
      BY <3>1, <1>6
  <2> QED
    BY <2>1, <2>2, <1>4
<1>9. ASSUME NEW j \in 1..(n - 1), NEW k \in 1..(n - 1), j < k
      PROVE  Key(es[j]) < Key(es[k])
  <2>1. PICK p \in 1..n : es[j] = nd.ents[p] /\ p = IF j < i THEN j ELSE j + 1
    BY <1>8
  <2>2. PICK q \in 1..n : es[k] = nd.ents[q] /\ q = IF k < i THEN k ELSE k + 1
    BY <1>8
  <2>3. p < q
    BY <2>1, <2>2, <1>4, <1>9
  <2> QED
    BY <2>1, <2>2, <2>3, <1>1
<1>10. Sound(ns, 1, nd2)
  <2>1. nd2.leaf = (1 = 1)
    BY <1>7 DEF Node
  <2>2. N(nd2) <= 2 * T - 1
    BY <1>1, <1>3, <1>7
  <2>3. \A j, k \in 1..N(nd2) : j < k => Key(nd2.ents[j]) < Key(nd2.ents[k])
    BY <1>7, <1>9
  <2> QED
    BY <1>7, <2>1, <2>2, <2>3, MakesSound
<1>11. ASSUME NEW d
       PROVE  d \in NE(ns, 1, nd2) <=> d \in NE(ns, 1, nd) /\ Key(d) # Key(nd.ents[i])
  <2>1. d \in NE(ns, 1, nd) <=> \E j \in 1..n : d = nd.ents[j]
    BY <1>1, <1>2, InNode
  <2>2. d \in NE(ns, 1, nd2) <=> \E j \in 1..(n - 1) : d = es[j]
    <3>1. DOMAIN nd2.ents = 1..(n - 1)
      BY <1>1, <1>4, <1>6, <1>7
    <3> QED
      BY <3>1, <1>7 DEF NE, Seqs!ToSet
  <2>3. ASSUME NEW k \in 1..n, k # i
        PROVE  Key(nd.ents[k]) # Key(nd.ents[i]) /\ \E j \in 1..(n - 1) : es[j] = nd.ents[k]
    <3>1. CASE k < i
      <4>1. k \in 1..(i - 1) /\ k \in 1..(n - 1)
        BY <3>1, <1>1, <1>4
      <4>2. Key(nd.ents[k]) < Key(nd.ents[i])
        BY <3>1, <1>1, <1>4
      <4>3. Key(nd.ents[k]) \in Int /\ Key(nd.ents[i]) \in Int
        BY <1>1, <1>4
      <4> QED
        BY <4>1, <4>2, <4>3, <1>6
    <3>2. CASE k > i
      <4>1. k - 1 \in i..(n - 1) /\ k - 1 \in 1..(n - 1) /\ (k - 1) + 1 = k
        BY <3>2, <1>1, <1>4
      <4>2. Key(nd.ents[i]) < Key(nd.ents[k])
        BY <3>2, <1>1, <1>4
      <4>3. Key(nd.ents[k]) \in Int /\ Key(nd.ents[i]) \in Int
        BY <1>1, <1>4
      <4>4. es[k - 1] = nd.ents[(k - 1) + 1]
        BY <4>1, <1>6
      <4> QED
        BY <4>1, <4>2, <4>3, <4>4
    <3> QED
      BY <3>1, <3>2, <2>3, <1>4
  <2> QED
    BY <2>1, <2>2, <2>3, <1>8
<1>12. NB(ns, 1, nd2) = NB(ns, 1, nd)
  BY <1>2, <1>7 DEF NB
<1>13. NE(ns, 1, nd2) = Without(NE(ns, 1, nd), Key(nd.ents[i]))
  BY <1>11 DEF Without
<1> QED
  BY <1>7, <1>10, <1>12, <1>13 DEF n

(* A node's entry takes another value. *)
LEMMA EntryUpdated ==
  ASSUME Unique, NEW ns \in Heap, NEW h \in Nat \ {0}, NEW nd, Sound(ns, h, nd),
         NEW i \in 1..N(nd), NEW e \in Entry, Key(nd.ents[i]) = Key(e),
         NEW nd2, nd2 = WithEntry(nd, i, e)
  PROVE  /\ Sound(ns, h, nd2)
         /\ NE(ns, h, nd2) = Without(NE(ns, h, nd), Key(e)) \cup {e}
         /\ NB(ns, h, nd2) = NB(ns, h, nd)
         /\ N(nd2) = N(nd)
<1> USE DegreeAssumption
<1>1. /\ nd \in Node /\ Filled(nd)
      /\ h - 1 \in Nat
      /\ N(nd) \in Nat
      /\ DOMAIN nd.ents = 1..N(nd)
      /\ DOMAIN nd.kids = IF nd.leaf THEN {} ELSE 1..(N(nd) + 1)
      /\ \A j \in 1..N(nd) : nd.ents[j] \in Entry /\ Key(nd.ents[j]) \in Int
      /\ \A j, k \in 1..N(nd) : j < k => Key(nd.ents[j]) < Key(nd.ents[k])
  BY KeysOfNode
<1>2. \A j \in DOMAIN nd.kids : \A d \in E(ns, h - 1, nd.kids[j]) :
        /\ d \in Entry
        /\ Key(d) \in Int
        /\ \A k \in 1..(j - 1) : Key(nd.ents[k]) < Key(d)
        /\ \A k \in j..N(nd) : Key(d) < Key(nd.ents[k])
  BY KeysOfNode
<1>3. EntryReplaced(nd, i, e, nd2)
  BY <1>1, OtherEntry
<1>4. /\ nd2 \in Node /\ Filled(nd2) /\ nd2.leaf = nd.leaf /\ N(nd2) = N(nd)
      /\ nd2.kids = nd.kids
      /\ \A j \in 1..N(nd) : nd2.ents[j] = IF j = i THEN e ELSE nd.ents[j]
  BY <1>3 DEF EntryReplaced
<1>5. \A j \in 1..N(nd) : Key(nd2.ents[j]) = Key(nd.ents[j])
  BY <1>4
<1>6. \A j \in DOMAIN nd2.kids :
        /\ Ok(ns, h - 1, nd2.kids[j])
        /\ N(ns[nd2.kids[j]]) >= T - 1
  BY <1>4 DEF Sound, Below
<1>7. ASSUME NEW j \in DOMAIN nd2.kids, NEW d \in E(ns, h - 1, nd2.kids[j])
      PROVE  /\ \A k \in 1..(j - 1) : Key(nd2.ents[k]) < Key(d)
             /\ \A k \in j..N(nd2) : Key(d) < Key(nd2.ents[k])
  <2>1. j \in DOMAIN nd.kids /\ d \in E(ns, h - 1, nd.kids[j])
    BY <1>4
  <2>2. j \in 1..(N(nd) + 1)
    BY <1>1, <2>1
  <2>3. \A k \in 1..(j - 1) : k \in 1..N(nd)
    BY <1>1, <2>2
  <2>4. \A k \in j..N(nd) : k \in 1..N(nd)
    BY <1>1, <2>2
  <2>5. /\ \A k \in 1..(j - 1) : Key(nd.ents[k]) < Key(d)
        /\ \A k \in j..N(nd) : Key(d) < Key(nd.ents[k])
    BY <1>2, <2>1
  <2> QED
    BY <1>4, <1>5, <2>3, <2>4, <2>5
<1>8. nd2.leaf = (h = 1) /\ N(nd2) <= 2 * T - 1
  BY <1>4 DEF Sound
<1>9. \A j, k \in 1..N(nd2) : j < k => Key(nd2.ents[j]) < Key(nd2.ents[k])
  BY <1>1, <1>4, <1>5
<1>10. Sound(ns, h, nd2)
  BY <1>4, <1>6, <1>7, <1>8, <1>9, MakesSound
<1>11. DOMAIN nd2.ents = 1..N(nd)
  BY <1>1, <1>4 DEF Node, N
<1>12. ASSUME NEW d
       PROVE  d \in NE(ns, h, nd2) <=> (d \in NE(ns, h, nd) /\ Key(d) # Key(e)) \/ d = e
  <2>1. d \in NE(ns, h, nd) <=> \/ \E j \in DOMAIN nd.kids : d \in E(ns, h - 1, nd.kids[j])
                                \/ \E j \in 1..N(nd) : d = nd.ents[j]
    BY <1>1 DEF NE, Seqs!ToSet
  <2>2. d \in NE(ns, h, nd2) <=> \/ \E j \in DOMAIN nd.kids : d \in E(ns, h - 1, nd.kids[j])
                                 \/ \E j \in 1..N(nd) : d = nd2.ents[j]
    BY <1>4, <1>11 DEF NE, Seqs!ToSet
  <2>3. ASSUME NEW j \in DOMAIN nd.kids, d \in E(ns, h - 1, nd.kids[j]) PROVE Key(d) # Key(e)
    <3>1. Key(d) \in Int /\ Key(e) \in Int
      BY <2>3, <1>2, Order
    <3>2. j \in 1..(N(nd) + 1)
      BY <1>1, <2>3
    <3>3. CASE i < j
      <4>1. i \in 1..(j - 1)
        BY <1>1, <3>2, <3>3
      <4>2. Key(nd.ents[i]) < Key(d)
        BY <4>1, <2>3, <1>2
      <4> QED
        BY <4>2, <3>1
    <3>4. CASE i >= j
      <4>1. i \in j..N(nd)
        BY <1>1, <3>2, <3>4
      <4>2. Key(d) < Key(nd.ents[i])
        BY <4>1, <2>3, <1>2
      <4> QED
        BY <4>2, <3>1
    <3> QED
      BY <3>2, <3>3, <3>4
  <2>4. ASSUME NEW j \in 1..N(nd) PROVE Key(nd.ents[j]) = Key(e) <=> j = i
    <3>1. Key(nd.ents[j]) \in Int /\ Key(e) \in Int
      BY <1>1, Order
    <3>2. j < i => Key(nd.ents[j]) < Key(e)
      BY <1>1
    <3>3. i < j => Key(e) < Key(nd.ents[j])
      BY <1>1
    <3> QED
      BY <3>1, <3>2, <3>3
  <2>5. (\E j \in 1..N(nd) : d = nd2.ents[j]) <=>
          (d = e \/ \E j \in 1..N(nd) : j # i /\ d = nd.ents[j])
    BY <1>4
  <2> QED
    BY <2>1, <2>2, <2>3, <2>4, <2>5
<1>13. NE(ns, h, nd2) = Without(NE(ns, h, nd), Key(e)) \cup {e}
  BY <1>12 DEF Without
<1>14. NB(ns, h, nd2) = NB(ns, h, nd)
  BY <1>4 DEF NB
<1> QED
  BY <1>4, <1>10, <1>13, <1>14

-----------------------------------------------------------------------------
(***************************************************************************)
(* A node written anew over children that have moved.                      *)
(***************************************************************************)

\* Result r of an operation on the blocks "old": the tree of h levels now at
\* r.at holds these entries, and its blocks are what the old ones turned into.
Moved(f, old, h, r, entries) ==
  /\ Turns(f, old, r.f, B(r.f.nodes, h, r.at))
  /\ Ok(r.f.nodes, h, r.at)
  /\ E(r.f.nodes, h, r.at) = entries

(* The stores before and after such an operation. *)
LEMMA MovedStores ==
  ASSUME NEW f, NEW old, NEW h, NEW r, NEW entries, Moved(f, old, h, r, entries)
  PROVE  /\ Fresh(f) /\ Fresh(r.f)
         /\ f.nodes \in Heap /\ r.f.nodes \in Heap
         /\ Len(f.nodes) \in Nat /\ Len(r.f.nodes) \in Nat /\ Len(f.nodes) <= Len(r.f.nodes)
         /\ Extends(f.nodes, r.f.nodes)
         /\ B(r.f.nodes, h, r.at) \subseteq old \cup New(f, r.f)
BY TurnsStores DEF Moved

\* The blocks "old" of a file are a node's block, if it has one (A is that block
\* or empty), the ones of a window W below it, and the rest R.  The blocks s to
\* be staged are A and some blocks X of the window.
Parted(f, old, A, R, W, X, s) ==
  /\ old = A \cup R \cup W
  /\ old \subseteq 1..Len(f.nodes)
  /\ A \cap R = {}
  /\ A \cap W = {}
  /\ R \cap W = {}
  /\ X \subseteq W
  /\ s \in Seq(Nat)
  /\ Seqs!ToSet(s) = A \cup X

(* A node is written over trees that have changed: the window of it has    *)
(* turned into V, the rest has stayed.                                     *)
LEMMA ParentWritten ==
  ASSUME NEW f, NEW g, NEW h \in Nat \ {0}, NEW A, NEW R, NEW W, NEW V, NEW X, NEW s, NEW old,
         Turns(f, W, g, V), Parted(f, old, A, R, W, X, s),
         NEW nd, Sound(g.nodes, h, nd), NB(g.nodes, h, nd) = R \cup (V \ X),
         NEW w, w = Freeing(WriteNode(g, nd), s)
  PROVE  /\ Moved(f, old, h, w, NE(g.nodes, h, nd))
         /\ w.f.nodes[w.at] = nd
         /\ A \cap B(w.f.nodes, h, w.at) = {}
         /\ w.at = Len(g.nodes) + 1
         /\ Extends(g.nodes, w.f.nodes)
<1>1. /\ old = A \cup R \cup W
      /\ A \subseteq 1..Len(f.nodes) /\ R \subseteq 1..Len(f.nodes) /\ W \subseteq 1..Len(f.nodes)
      /\ A \cap R = {} /\ A \cap W = {} /\ R \cap W = {} /\ X \subseteq W
      /\ s \in Seq(Nat) /\ Seqs!ToSet(s) = A \cup X
  BY DEF Parted
<1>2. /\ Fresh(f) /\ Fresh(g)
      /\ Len(f.nodes) \in Nat /\ Len(g.nodes) \in Nat /\ Len(f.nodes) <= Len(g.nodes)
      /\ V \subseteq W \cup New(f, g)
  BY TurnsStores
<1>3. PICK r, O, P, Q, Z :
        /\ r = WriteNode(g, nd)
        /\ O = W \cup (A \cup R) /\ P = V \cup (A \cup R)
        /\ Q = P \cup {r.at} /\ Z = Q \ Seqs!ToSet(s)
  OBVIOUS
<1>4. /\ r.at = Len(g.nodes) + 1
      /\ Extends(g.nodes, r.f.nodes)
      /\ r.f.nodes[r.at] = nd
      /\ Ok(r.f.nodes, h, r.at)
      /\ E(r.f.nodes, h, r.at) = NE(g.nodes, h, nd)
      /\ B(r.f.nodes, h, r.at) = {r.at} \cup NB(g.nodes, h, nd)
      /\ Turns(g, P, r.f, Q)
  <2>1. /\ r.at = Len(g.nodes) + 1
        /\ Extends(g.nodes, r.f.nodes)
        /\ r.f.nodes[r.at] = nd
    BY <1>2, <1>3, WriteSound
  <2>2. Ok(r.f.nodes, h, r.at) /\ E(r.f.nodes, h, r.at) = NE(g.nodes, h, nd)
    BY <1>2, <1>3, WriteSound
  <2>3. B(r.f.nodes, h, r.at) = {r.at} \cup NB(g.nodes, h, nd)
    BY <1>2, <1>3, WriteSound
  <2>4. Turns(g, P, r.f, Q)
    BY <1>2, <1>3, WriteSound
  <2> QED
    BY <2>1, <2>2, <2>4, <2>3
<1>5. Turns(f, O, r.f, Q)
  <2>1. Turns(f, O, g, P)
    <3>1. A \cup R \subseteq 1..Len(f.nodes) /\ (A \cup R) \cap W = {}
      BY <1>1
    <3> QED
      BY <1>3, <3>1, TurnsWiden
  <2>2. O \subseteq 1..Len(f.nodes)
    BY <1>1, <1>3
  <2> QED
    BY <1>4, <2>1, <2>2, TurnsTrans
<1>6. Turns(f, O, w.f, Z) /\ w.at = r.at /\ w.f.nodes = r.f.nodes
  <2>1. Seqs!ToSet(s) \subseteq O \cup New(f, r.f)
    BY <1>1, <1>3
  <2>2. w = Freeing(r, s)
    BY <1>3
  <2>3. Turns(f, O, w.f, Z)
    BY <1>1, <1>3, <1>5, <2>1, <2>2, TurnsFree
  <2>4. r.f \in Stores
    BY <1>5, TurnsStores
  <2> QED
    BY <2>2, <2>3, <2>4, FreeingKeeps
<1>7. r.at \notin 1..Len(f.nodes)
  BY <1>2, <1>4
<1>8. A \cap V = {}
  <2>1. A \cap New(f, g) = {}
    BY <1>1, <1>2 DEF New
  <2> QED
    BY <1>1, <1>2, <2>1
<1>9. Z = {r.at} \cup (R \cup (V \ X))
  BY <1>1, <1>3, <1>7, <1>8
<1>10. A \cap ({r.at} \cup (R \cup (V \ X))) = {}
  BY <1>1, <1>7, <1>8
<1>11. O = old
  BY <1>1, <1>3
<1>12. B(w.f.nodes, h, w.at) = {r.at} \cup (R \cup (V \ X))
  BY <1>4, <1>6
<1>13. Turns(f, old, w.f, B(w.f.nodes, h, w.at))
  BY <1>6, <1>9, <1>11, <1>12
<1>14. Ok(w.f.nodes, h, w.at) /\ E(w.f.nodes, h, w.at) = NE(g.nodes, h, nd)
  BY <1>4, <1>6
<1>15. Moved(f, old, h, w, NE(g.nodes, h, nd))
  BY <1>13, <1>14 DEF Moved
<1>16. w.f.nodes[w.at] = nd /\ w.at = Len(g.nodes) + 1 /\ Extends(g.nodes, w.f.nodes)
  BY <1>4, <1>6
<1>17. A \cap B(w.f.nodes, h, w.at) = {}
  BY <1>10, <1>12
<1> QED
  BY <1>15, <1>16, <1>17

-----------------------------------------------------------------------------
(* What is beside a window stays in a file that grows, and has no block in *)
(* common with the window.                                                 *)
LEMMA RestFrame ==
  ASSUME NEW ns \in Heap, NEW ns2 \in Heap, Extends(ns, ns2), NEW h \in Nat \ {0}, NEW nd,
         Sound(ns, h, nd), ~nd.leaf, NEW p \in {0, 1}, NEW i \in 1..(N(nd) + 1 - p)
  PROVE  RE(ns2, h, nd, i, p) = RE(ns, h, nd, i, p) /\ RB(ns2, h, nd, i, p) = RB(ns, h, nd, i, p)
<1>1. /\ N(nd) \in Nat /\ h - 1 \in Nat
      /\ DOMAIN nd.kids = 1..(N(nd) + 1)
      /\ \A j \in DOMAIN nd.kids : Ok(ns, h - 1, nd.kids[j])
  BY SoundNode, EntriesOfNode
<1>2. ASSUME NEW j \in 1..(N(nd) + 1)
      PROVE  /\ E(ns2, h - 1, nd.kids[j]) = E(ns, h - 1, nd.kids[j])
             /\ B(ns2, h - 1, nd.kids[j]) = B(ns, h - 1, nd.kids[j])
  <2>1. Ok(ns, h - 1, nd.kids[j])
    BY <1>1
  <2>2. SameTree(ns, ns2, h - 1, nd.kids[j])
    BY <1>1, <2>1, TreeFrame
  <2> QED
    BY <2>2 DEF SameTree
<1>3. \A j \in 1..(i - 1) : j \in 1..(N(nd) + 1)
  BY <1>1
<1>4. \A j \in (i + p + 1)..(N(nd) + 1) : j \in 1..(N(nd) + 1)
  BY <1>1
<1>5. ASSUME NEW e PROVE e \in RE(ns2, h, nd, i, p) <=> e \in RE(ns, h, nd, i, p)
  <2>1. (\E j \in 1..(i - 1) : e \in E(ns2, h - 1, nd.kids[j])) <=>
          (\E j \in 1..(i - 1) : e \in E(ns, h - 1, nd.kids[j]))
    BY <1>2, <1>3
  <2>2. (\E j \in (i + p + 1)..(N(nd) + 1) : e \in E(ns2, h - 1, nd.kids[j])) <=>
          (\E j \in (i + p + 1)..(N(nd) + 1) : e \in E(ns, h - 1, nd.kids[j]))
    BY <1>2, <1>4
  <2> QED
    BY <2>1, <2>2 DEF RE
<1>6. ASSUME NEW e PROVE e \in RB(ns2, h, nd, i, p) <=> e \in RB(ns, h, nd, i, p)
  <2>1. (\E j \in 1..(i - 1) : e \in B(ns2, h - 1, nd.kids[j])) <=>
          (\E j \in 1..(i - 1) : e \in B(ns, h - 1, nd.kids[j]))
    BY <1>2, <1>3
  <2>2. (\E j \in (i + p + 1)..(N(nd) + 1) : e \in B(ns2, h - 1, nd.kids[j])) <=>
          (\E j \in (i + p + 1)..(N(nd) + 1) : e \in B(ns, h - 1, nd.kids[j]))
    BY <1>2, <1>4
  <2> QED
    BY <2>1, <2>2 DEF RB
<1> QED
  BY <1>5, <1>6

(* The blocks in the window of a node are apart from those in the rest of it. *)
LEMMA RestApart ==
  ASSUME Unique, NEW ns \in Heap, NEW h \in Nat \ {0}, NEW nd,
         Sound(ns, h, nd), ~nd.leaf, NEW p \in {0, 1}, NEW i \in 1..(N(nd) + 1 - p)
  PROVE  RB(ns, h, nd, i, p) \cap WB(ns, h, nd, i, p) = {}
<1>1. N(nd) \in Nat /\ DOMAIN nd.kids = 1..(N(nd) + 1)
  BY SoundNode, EntriesOfNode
<1>2. SUFFICES ASSUME NEW b, b \in RB(ns, h, nd, i, p), b \in WB(ns, h, nd, i, p)
               PROVE  FALSE
  OBVIOUS
<1>3. PICK j \in i..(i + p) : b \in B(ns, h - 1, nd.kids[j])
  BY <1>2 DEF WB
<1>4. j \in 1..(N(nd) + 1)
  BY <1>1
<1>5. PICK k \in 1..(N(nd) + 1) : k # j /\ b \in B(ns, h - 1, nd.kids[k])
  <2>1. CASE \E k \in 1..(i - 1) : b \in B(ns, h - 1, nd.kids[k])
    BY <1>1, <2>1
  <2>2. CASE \E k \in (i + p + 1)..(N(nd) + 1) : b \in B(ns, h - 1, nd.kids[k])
    BY <1>1, <2>2
  <2> QED
    BY <1>2, <2>1, <2>2 DEF RB
<1>6. B(ns, h - 1, nd.kids[j]) \cap B(ns, h - 1, nd.kids[k]) = {}
  BY <1>1, <1>4, <1>5, BlocksApart
<1> QED
  BY <1>3, <1>5, <1>6

\* In a file, node nd2 has a window of trees and entries in order in place of
\* one of nd.
Fits(ns, h, nd, i, p, nd2, q) ==
  /\ Grafted(nd, i, p, nd2, q)
  /\ N(nd2) <= 2 * T - 1
  /\ \A j \in i..(i + q) : Ok(ns, h - 1, nd2.kids[j]) /\ N(ns[nd2.kids[j]]) >= T - 1
  /\ \A e \in WE(ns, h, nd2, i, q) : Admits(nd, i, p, Key(e))
  /\ q = 1 => /\ \A e \in E(ns, h - 1, nd2.kids[i]) : Key(e) < Key(nd2.ents[i])
              /\ \A e \in E(ns, h - 1, nd2.kids[i + 1]) : Key(nd2.ents[i]) < Key(e)

(* A node whose new window fits is sound, and holds the rest and the new window. *)
LEMMA FittingWindow ==
  ASSUME Unique, NEW ns \in Heap, NEW h \in Nat \ {0}, NEW nd, Sound(ns, h, nd), ~nd.leaf,
         NEW p \in {0, 1}, NEW q \in {0, 1}, NEW i \in 1..(N(nd) + 1 - p),
         NEW nd2, Fits(ns, h, nd, i, p, nd2, q)
  PROVE  /\ Sound(ns, h, nd2)
         /\ NE(ns, h, nd2) = RE(ns, h, nd, i, p) \cup WE(ns, h, nd2, i, q)
         /\ NB(ns, h, nd2) = RB(ns, h, nd, i, p) \cup WB(ns, h, nd2, i, q)
<1>1. Grafted(nd, i, p, nd2, q) /\ N(nd2) <= 2 * T - 1
  BY DEF Fits
<1>2. \A j \in i..(i + q) : Ok(ns, h - 1, nd2.kids[j]) /\ N(ns[nd2.kids[j]]) >= T - 1
  BY DEF Fits
<1>3. \A e \in WE(ns, h, nd2, i, q) : Admits(nd, i, p, Key(e))
  BY DEF Fits
<1>4. q = 1 => /\ \A e \in E(ns, h - 1, nd2.kids[i]) : Key(e) < Key(nd2.ents[i])
               /\ \A e \in E(ns, h - 1, nd2.kids[i + 1]) : Key(nd2.ents[i]) < Key(e)
  BY DEF Fits
<1> QED
  BY <1>1, <1>2, <1>3, <1>4, Window

\* The node nd has been written over the trees of store g, in place of the block
\* in A, if it had one.
Rewritten(f, old, h, A, g, w, nd, entries) ==
  /\ Moved(f, old, h, w, entries)
  /\ w.f.nodes[w.at] = nd
  /\ A \cap B(w.f.nodes, h, w.at) = {}
  /\ w.at = Len(g.nodes) + 1
  /\ Extends(g.nodes, w.f.nodes)

\* The place of a rewrite: the window i to i + p of node nd, of which it stages
\* the blocks X, and A, the node's block, if it has one; s is what it stages.
Site(f, old, h, nd, i, p, A, X, s) ==
  /\ Sound(f.nodes, h, nd)
  /\ ~nd.leaf
  /\ i \in 1..(N(nd) + 1 - p)
  /\ A \subseteq 1..Len(f.nodes)
  /\ A \cap NB(f.nodes, h, nd) = {}
  /\ old = A \cup NB(f.nodes, h, nd)
  /\ X \subseteq WB(f.nodes, h, nd, i, p)
  /\ s \in Seq(Nat)
  /\ Seqs!ToSet(s) = A \cup X

\* What is put there: the node nd2 over trees of store g that have come from the
\* ones in the window.  It has the entries es.
Patch(f, g, h, nd, i, p, nd2, q, X, es) ==
  /\ Fits(g.nodes, h, nd, i, p, nd2, q)
  /\ \E V : /\ Turns(f, WB(f.nodes, h, nd, i, p), g, V)
            /\ WB(g.nodes, h, nd2, i, q) = V \ X
  /\ es = RE(f.nodes, h, nd, i, p) \cup WE(g.nodes, h, nd2, i, q)

(* A node is written with another window, over the trees that have turned  *)
(* into it.                                                                *)
LEMMA WindowWritten ==
  ASSUME Unique, NEW f, NEW g, NEW h \in Nat \ {0}, NEW nd, NEW i,
         NEW p \in {0, 1}, NEW q \in {0, 1},
         NEW old, NEW A, NEW X, NEW s, Site(f, old, h, nd, i, p, A, X, s),
         NEW nd2, NEW es, Patch(f, g, h, nd, i, p, nd2, q, X, es),
         NEW w, w = Freeing(WriteNode(g, nd2), s)
  PROVE  Rewritten(f, old, h, A, g, w, nd2, es)
<1>1. PICK W, V : /\ W = WB(f.nodes, h, nd, i, p)
                  /\ Turns(f, W, g, V)
                  /\ WB(g.nodes, h, nd2, i, q) = V \ X
  BY DEF Patch
<1> /\ Sound(f.nodes, h, nd) /\ ~nd.leaf /\ i \in 1..(N(nd) + 1 - p)
    /\ A \subseteq 1..Len(f.nodes) /\ A \cap NB(f.nodes, h, nd) = {}
    /\ old = A \cup NB(f.nodes, h, nd)
    /\ X \subseteq W
    /\ s \in Seq(Nat) /\ Seqs!ToSet(s) = A \cup X
    /\ Fits(g.nodes, h, nd, i, p, nd2, q)
    /\ es = RE(f.nodes, h, nd, i, p) \cup WE(g.nodes, h, nd2, i, q)
  BY <1>1 DEF Site, Patch
<1>2. /\ Fresh(f) /\ Fresh(g) /\ f.nodes \in Heap /\ g.nodes \in Heap
      /\ Extends(f.nodes, g.nodes)
  BY <1>1, TurnsStores
<1>3. PICK R : R = RB(f.nodes, h, nd, i, p)
  OBVIOUS
<1>4. Sound(g.nodes, h, nd)
  BY <1>2, SoundFrame
<1>5. /\ RE(g.nodes, h, nd, i, p) = RE(f.nodes, h, nd, i, p)
      /\ RB(g.nodes, h, nd, i, p) = R
  BY <1>2, <1>3, RestFrame
<1>6. /\ Sound(g.nodes, h, nd2)
      /\ NE(g.nodes, h, nd2) = RE(g.nodes, h, nd, i, p) \cup WE(g.nodes, h, nd2, i, q)
      /\ NB(g.nodes, h, nd2) = RB(g.nodes, h, nd, i, p) \cup WB(g.nodes, h, nd2, i, q)
  BY <1>2, <1>4, FittingWindow
<1>7. NE(g.nodes, h, nd2) = es /\ NB(g.nodes, h, nd2) = R \cup (V \ X)
  BY <1>1, <1>5, <1>6
<1>8. NB(f.nodes, h, nd) = R \cup W /\ R \cap W = {}
  BY <1>1, <1>2, <1>3, WindowOfNode, RestApart
<1>9. NB(f.nodes, h, nd) \subseteq 1..Len(f.nodes)
  BY <1>2, SoundNode
<1>10. /\ R \subseteq 1..Len(f.nodes) /\ W \subseteq 1..Len(f.nodes)
      /\ A \cap R = {} /\ A \cap W = {}
  BY <1>8, <1>9
<1>11. Parted(f, old, A, R, W, X, s)
  BY <1>8, <1>10 DEF Parted
<1>12. Sound(g.nodes, h, nd2) /\ NB(g.nodes, h, nd2) = R \cup (V \ X)
  BY <1>6, <1>7
<1>13. Moved(f, old, h, w, NE(g.nodes, h, nd2))
  BY <1>1, <1>11, <1>12, ParentWritten
<1>14. w.f.nodes[w.at] = nd2
  BY <1>1, <1>11, <1>12, ParentWritten
<1>15. A \cap B(w.f.nodes, h, w.at) = {}
  BY <1>1, <1>11, <1>12, ParentWritten
<1>16. w.at = Len(g.nodes) + 1
  BY <1>1, <1>11, <1>12, ParentWritten
<1>17. Extends(g.nodes, w.f.nodes)
  BY <1>1, <1>11, <1>12, ParentWritten
<1> QED
  BY <1>7, <1>13, <1>14, <1>15, <1>16, <1>17 DEF Rewritten

-----------------------------------------------------------------------------
(* A window of one child, and of two. *)
LEMMA OneKid ==
  ASSUME NEW ns, NEW h, NEW nd, NEW i \in Nat
  PROVE  /\ WE(ns, h, nd, i, 0) = E(ns, h - 1, nd.kids[i])
         /\ WB(ns, h, nd, i, 0) = B(ns, h - 1, nd.kids[i])
<1>1. i..(i + 0) = {i} /\ i..(i + 0 - 1) = {}
  OBVIOUS
<1> QED
  BY <1>1 DEF WE, WB

(* What a window of two children and the entry between them holds. *)
LEMMA TwoKids ==
  ASSUME NEW ns, NEW h, NEW nd, NEW i \in Nat
  PROVE  /\ WE(ns, h, nd, i, 1) =
              E(ns, h - 1, nd.kids[i]) \cup {nd.ents[i]} \cup E(ns, h - 1, nd.kids[i + 1])
         /\ WB(ns, h, nd, i, 1) = B(ns, h - 1, nd.kids[i]) \cup B(ns, h - 1, nd.kids[i + 1])
<1>1. i..(i + 1) = {i, i + 1} /\ i..(i + 1 - 1) = {i}
  OBVIOUS
<1> QED
  BY <1>1 DEF WE, WB

\* Result r of an operation on the tree of h levels at block "at": it holds these
\* entries, and has moved or is where it was.
Turned(f, h, at, r, entries) ==
  /\ Moved(f, B(f.nodes, h, at), h, r, entries)
  /\ r.at = at \/ at \notin B(r.f.nodes, h, r.at)

(* A tree that has not moved has not changed. *)
LEMMA SameBlock ==
  ASSUME NEW f, NEW h \in Nat, NEW at, Ok(f.nodes, h, at), NEW r, NEW entries,
         Turned(f, h, at, r, entries), r.at = at
  PROVE  /\ entries = E(f.nodes, h, at)
         /\ B(r.f.nodes, h, at) = B(f.nodes, h, at)
         /\ r.f.nodes[at] = f.nodes[at]
<1>1. Moved(f, B(f.nodes, h, at), h, r, entries)
  BY DEF Turned
<1>2. f.nodes \in Heap /\ r.f.nodes \in Heap /\ Extends(f.nodes, r.f.nodes)
  BY <1>1, MovedStores
<1>3. SameTree(f.nodes, r.f.nodes, h, at)
  BY <1>2, TreeFrame
<1>4. r.f.nodes[at] = f.nodes[at]
  BY <1>2 DEF Extends, Ok
<1> QED
  BY <1>1, <1>3, <1>4 DEF Moved, SameTree

(* What is there where a tree has turned. *)
LEMMA TurnedStores ==
  ASSUME NEW f, NEW h \in Nat, NEW at, NEW r, NEW entries, Turned(f, h, at, r, entries)
  PROVE  /\ Fresh(f) /\ Fresh(r.f)
         /\ r.f.nodes \in Heap
         /\ Ok(r.f.nodes, h, r.at)
         /\ E(r.f.nodes, h, r.at) = entries
         /\ N(r.f.nodes[r.at]) \in Nat
<1>1. PICK old : old = B(f.nodes, h, at) /\ Moved(f, old, h, r, entries)
  BY DEF Turned
<1>2. /\ Fresh(f) /\ Fresh(r.f) /\ r.f.nodes \in Heap
      /\ Ok(r.f.nodes, h, r.at) /\ E(r.f.nodes, h, r.at) = entries
  BY <1>1, MovedStores DEF Moved
<1>3. r.f.nodes[r.at] \in Node /\ Filled(r.f.nodes[r.at])
  BY <1>2, BlockIsNode DEF Sound
<1>4. N(r.f.nodes[r.at]) \in Nat
  BY <1>3, EntriesOfNode
<1> QED
  BY <1>2, <1>4

\* A result with as many entries at its root as a node has.
Keeps(w, nd) == N(w.f.nodes[w.at]) = N(nd)

\* Entries that have their place below child i of a node.
AllAdmitted(nd, i, es) == \A e \in es : Admits(nd, i, 0, Key(e))

\* The tree at a node's block has turned, the node keeps its entries.
Relinked(f, h, at, nd, w, entries) == Turned(f, h, at, w, entries) /\ Keeps(w, nd)

(* A node is rewritten after its child i has moved. *)
LEMMA KidRewritten ==
  ASSUME Unique, NEW f, NEW h \in Nat \ {0}, NEW at, Ok(f.nodes, h, at),
         NEW nd, nd = f.nodes[at], ~nd.leaf, NEW i \in 1..(N(nd) + 1),
         NEW r, NEW es, Turned(f, h - 1, nd.kids[i], r, es), r.at # nd.kids[i],
         N(r.f.nodes[r.at]) >= T - 1, AllAdmitted(nd, i, es),
         NEW w, w = Rewrite(r, nd, at, i),
         NEW fs, fs = RE(f.nodes, h, nd, i, 0) \cup es
  PROVE  Relinked(f, h, at, nd, w, fs)
<1> DEFINE b == nd.kids[i]
<1>1. Moved(f, B(f.nodes, h - 1, b), h - 1, r, es) /\ b \notin B(r.f.nodes, h - 1, r.at)
  BY DEF Turned
<1>2. /\ Fresh(f) /\ Fresh(r.f) /\ f.nodes \in Heap /\ r.f.nodes \in Heap
      /\ Extends(f.nodes, r.f.nodes)
  BY <1>1, MovedStores
<1>3. /\ nd \in Node /\ Sound(f.nodes, h, nd) /\ h - 1 \in Nat
      /\ at \in 1..Len(f.nodes)
  BY <1>2, BlockIsNode
<1>4. Filled(nd) /\ N(nd) \in Nat /\ DOMAIN nd.kids = 1..(N(nd) + 1) /\ N(nd) <= 2 * T - 1
  BY <1>3, EntriesOfNode DEF Sound
<1>5. Ok(f.nodes, h - 1, b) /\ b \in Nat
  <2>1. Ok(f.nodes, h - 1, b)
    BY <1>2, <1>3, <1>4, SoundNode
  <2>2. b \in 1..Len(f.nodes)
    BY <2>1 DEF Ok
  <2> QED
    BY <2>1, <2>2
<1>6. /\ Ok(r.f.nodes, h - 1, r.at) /\ r.at \in Nat
      /\ E(r.f.nodes, h - 1, r.at) = es
      /\ Turns(f, B(f.nodes, h - 1, b), r.f, B(r.f.nodes, h - 1, r.at))
  BY <1>1 DEF Moved, Ok
<1>7. PICK W, V, X, A, nd2, s, old :
        /\ W = WB(f.nodes, h, nd, i, 0)
        /\ V = B(r.f.nodes, h - 1, r.at)
        /\ X = {b}
        /\ A = {at}
        /\ nd2 = WithKid(nd, i, r.at)
        /\ s = <<b, at>>
        /\ old = B(f.nodes, h, at)
  OBVIOUS
<1>8. W = B(f.nodes, h - 1, b) /\ WE(f.nodes, h, nd, i, 0) = E(f.nodes, h - 1, b)
  BY <1>7, OneKid
<1>9. Turns(f, W, r.f, V)
  BY <1>6, <1>7, <1>8
<1>10. X \subseteq W
  <2>1. b \in B(f.nodes, h - 1, b)
    BY <1>2, <1>3, <1>5, TreeContents
  <2> QED
    BY <1>7, <1>8, <2>1
<1>11. Grafted(nd, i, 0, nd2, 0) /\ nd2.kids[i] = r.at /\ N(nd2) = N(nd)
  BY <1>3, <1>4, <1>6, <1>7, GraftKid
<1>12. WE(r.f.nodes, h, nd2, i, 0) = es /\ WB(r.f.nodes, h, nd2, i, 0) = V
  BY <1>6, <1>7, <1>11, OneKid
<1>13. Fits(r.f.nodes, h, nd, i, 0, nd2, 0)
  <2>1. ASSUME NEW j \in i..(i + 0)
        PROVE  Ok(r.f.nodes, h - 1, nd2.kids[j]) /\ N(r.f.nodes[nd2.kids[j]]) >= T - 1
    <3>1. j = i
      OBVIOUS
    <3> QED
      BY <3>1, <1>6, <1>11
  <2> QED
    BY <1>4, <1>11, <1>12, <2>1 DEF Fits, AllAdmitted
<1>14. Patch(f, r.f, h, nd, i, 0, nd2, 0, X, fs)
  <2>1. WB(r.f.nodes, h, nd2, i, 0) = V \ X
    BY <1>1, <1>7, <1>12
  <2>2. fs = RE(f.nodes, h, nd, i, 0) \cup WE(r.f.nodes, h, nd2, i, 0)
    BY <1>12
  <2> QED
    BY <1>7, <1>9, <1>13, <2>1, <2>2 DEF Patch
<1>15. old = A \cup NB(f.nodes, h, nd) /\ A \cap NB(f.nodes, h, nd) = {}
  BY <1>2, <1>7, TreeContents, RootApart
<1>16. A \subseteq 1..Len(f.nodes) /\ s \in Seq(Nat) /\ Seqs!ToSet(s) = A \cup X
  <2>1. at \in Nat
    BY <1>3
  <2>2. s \in Seq(Nat) /\ Len(s) = 2 /\ s[1] = b /\ s[2] = at
    BY <1>5, <1>7, <2>1
  <2>3. Seqs!ToSet(s) = {s[1], s[2]}
    BY <2>2 DEF Seqs!ToSet
  <2> QED
    BY <1>3, <1>7, <2>2, <2>3
<1>17. w = Freeing(WriteNode(r.f, nd2), s)
  BY <1>7 DEF Rewrite
<1>18. Site(f, old, h, nd, i, 0, A, X, s)
  <2>1. i \in 1..(N(nd) + 1 - 0)
    BY <1>4
  <2> QED
    BY <1>3, <1>7, <1>10, <1>15, <1>16, <2>1 DEF Site
<1>19. Rewritten(f, old, h, A, r.f, w, nd2, fs)
  BY <1>14, <1>17, <1>18, WindowWritten
<1> QED
  BY <1>7, <1>11, <1>19 DEF Rewritten, Turned, Keeps, Relinked

(* The same, or nothing is written where the child has not moved. *)
LEMMA KidRelinked ==
  ASSUME Unique, NEW f, NEW h \in Nat \ {0}, NEW at, Ok(f.nodes, h, at),
         NEW nd, nd = f.nodes[at], ~nd.leaf, NEW i \in 1..(N(nd) + 1),
         NEW r, NEW es, Turned(f, h - 1, nd.kids[i], r, es),
         N(r.f.nodes[r.at]) >= T - 1, AllAdmitted(nd, i, es),
         NEW w, w = Relink(r, nd, at, i),
         NEW fs, fs = RE(f.nodes, h, nd, i, 0) \cup es
  PROVE  Relinked(f, h, at, nd, w, fs)
<1>1. CASE r.at # nd.kids[i]
  <2>1. w = Rewrite(r, nd, at, i)
    BY <1>1 DEF Relink
  <2> QED
    BY <1>1, <2>1, KidRewritten
<1>2. CASE r.at = nd.kids[i]
  <2>1. PICK b, O, P : b = nd.kids[i] /\ O = B(f.nodes, h, at) /\ P = B(f.nodes, h - 1, b)
    OBVIOUS
  <2>2. w.f = r.f /\ w.at = at
    BY <1>2 DEF Relink
  <2>3. Moved(f, P, h - 1, r, es)
    BY <2>1 DEF Turned
  <2>4. f.nodes \in Heap /\ r.f.nodes \in Heap /\ Extends(f.nodes, r.f.nodes)
    BY <2>3, MovedStores
  <2>5. Sound(f.nodes, h, nd) /\ h - 1 \in Nat
    BY <2>4, BlockIsNode
  <2>6. DOMAIN nd.kids = 1..(N(nd) + 1) /\ N(nd) \in Nat
    BY <2>5, EntriesOfNode DEF Sound
  <2>7. Ok(f.nodes, h - 1, b) /\ P \subseteq NB(f.nodes, h, nd)
    BY <2>1, <2>4, <2>5, <2>6, SoundNode
  <2>8. es = E(f.nodes, h - 1, b) /\ B(r.f.nodes, h - 1, b) = P
    <3>1. PICK g : g = h - 1 /\ g \in Nat
      BY <2>5
    <3>2. Ok(f.nodes, g, b) /\ Turned(f, g, b, r, es) /\ r.at = b
      BY <1>2, <2>1, <2>7, <3>1
    <3>3. es = E(f.nodes, g, b) /\ B(r.f.nodes, g, b) = B(f.nodes, g, b)
      BY <3>1, <3>2, SameBlock
    <3> QED
      BY <2>1, <3>1, <3>3
  <2>9. Ok(r.f.nodes, h, at) /\ E(r.f.nodes, h, at) = E(f.nodes, h, at)
        /\ B(r.f.nodes, h, at) = O
    <3>1. SameTree(f.nodes, r.f.nodes, h, at)
      BY <2>4, TreeFrame
    <3> QED
      BY <2>1, <3>1 DEF SameTree
  <2>10. E(f.nodes, h, at) = fs
    <3>1. i \in Nat /\ i \in 1..(N(nd) + 1 - 0)
      BY <2>6
    <3>2. WE(f.nodes, h, nd, i, 0) = es
      BY <2>1, <2>8, <3>1, OneKid
    <3>3. NE(f.nodes, h, nd) = RE(f.nodes, h, nd, i, 0) \cup WE(f.nodes, h, nd, i, 0)
      BY <2>4, <2>5, <3>1, WindowOfNode
    <3> QED
      BY <2>4, <3>2, <3>3, TreeContents
  <2>11. Turns(f, O, r.f, O)
    <3>1. PICK X : X = O \ P
      OBVIOUS
    <3>2. Turns(f, P, r.f, P)
      BY <1>2, <2>1, <2>3, <2>8 DEF Moved
    <3>3. P \subseteq O /\ O \subseteq 1..Len(f.nodes)
      BY <2>1, <2>4, <2>7, TreeContents
    <3>4. O = P \cup X /\ X \subseteq 1..Len(f.nodes) /\ X \cap P = {}
      BY <3>1, <3>3
    <3> QED
      BY <3>2, <3>4, TurnsWiden
  <2>12. Keeps(w, nd)
    <3>1. r.f.nodes[at] = f.nodes[at]
      BY <2>4 DEF Extends, Ok
    <3> QED
      BY <2>2, <3>1 DEF Keeps
  <2> QED
    BY <2>1, <2>2, <2>9, <2>10, <2>11, <2>12 DEF Turned, Moved, Relinked
<1> QED
  BY <1>1, <1>2

-----------------------------------------------------------------------------
(* One rewrite follows another. *)
LEMMA MovedThenTurned ==
  ASSUME NEW f, NEW old, old \subseteq 1..Len(f.nodes), NEW h \in Nat, NEW p, NEW es,
         Moved(f, old, h, p, es), NEW w, NEW fs, Turned(p.f, h, p.at, w, fs)
  PROVE  /\ Moved(f, old, h, w, fs)
         /\ \A a \in 1..Len(f.nodes) :
              a \notin B(p.f.nodes, h, p.at) => a \notin B(w.f.nodes, h, w.at)
<1>1. PICK P, Q : P = B(p.f.nodes, h, p.at) /\ Q = B(w.f.nodes, h, w.at)
  OBVIOUS
<1>2. Moved(p.f, P, h, w, fs)
  BY <1>1 DEF Turned
<1>3. Turns(f, old, p.f, P)
  BY <1>1 DEF Moved
<1>4. Turns(p.f, P, w.f, Q)
  BY <1>1, <1>2 DEF Moved
<1>5. Turns(f, old, w.f, Q)
  BY <1>3, <1>4, TurnsTrans
<1>6. Moved(f, old, h, w, fs)
  BY <1>1, <1>2, <1>5 DEF Moved
<1>7. ASSUME NEW a \in 1..Len(f.nodes), a \notin P PROVE a \notin Q
  <2>1. Q \subseteq P \cup New(p.f, w.f)
    BY <1>4, TurnsStores
  <2>2. Len(f.nodes) \in Nat /\ Len(p.f.nodes) \in Nat /\ Len(f.nodes) <= Len(p.f.nodes)
    BY <1>3, TurnsStores
  <2>3. a \notin New(p.f, w.f)
    BY <2>2 DEF New
  <2> QED
    BY <1>7, <2>1, <2>3
<1> QED
  BY <1>1, <1>6, <1>7

(* Two operations on the same tree one after the other. *)
LEMMA TurnedThenTurned ==
  ASSUME NEW f, NEW h \in Nat, NEW at, Ok(f.nodes, h, at), NEW p, NEW es,
         Moved(f, B(f.nodes, h, at), h, p, es), at \notin B(p.f.nodes, h, p.at),
         NEW w, NEW fs, Turned(p.f, h, p.at, w, fs)
  PROVE  Turned(f, h, at, w, fs)
<1>1. f.nodes \in Heap
  BY MovedStores
<1>2. B(f.nodes, h, at) \subseteq 1..Len(f.nodes) /\ at \in 1..Len(f.nodes)
  BY <1>1, TreeContents DEF Ok
<1>3. Moved(f, B(f.nodes, h, at), h, w, fs)
  BY <1>2, MovedThenTurned
<1>4. at \notin B(w.f.nodes, h, w.at)
  <2>1. \A a \in 1..Len(f.nodes) : a \notin B(p.f.nodes, h, p.at) => a \notin B(w.f.nodes, h, w.at)
    BY <1>2, MovedThenTurned
  <2> QED
    BY <1>2, <2>1
<1> QED
  BY <1>3, <1>4 DEF Turned

(* A node is replaced by a changed copy of itself over the same children.  *)
LEMMA NodeReplaced ==
  ASSUME Unique, NEW f, Fresh(f), NEW h \in Nat \ {0}, NEW at, Ok(f.nodes, h, at),
         NEW nd, Sound(f.nodes, h, nd),
         NB(f.nodes, h, nd) = NB(f.nodes, h, f.nodes[at]),
         NEW w, w = Replace(f, nd, at), NEW es, es = NE(f.nodes, h, nd)
  PROVE  Turned(f, h, at, w, es) /\ w.f.nodes[w.at] = nd
<1>1. f.nodes \in Heap /\ at \in 1..Len(f.nodes) /\ at \in Nat
  BY StoreFields DEF Fresh, Ok
<1>2. PICK old, A, R, X, s :
        /\ old = B(f.nodes, h, at)
        /\ A = {at}
        /\ R = NB(f.nodes, h, nd)
        /\ X = {}
        /\ s = <<at>>
  OBVIOUS
<1>3. old = A \cup R /\ old \subseteq 1..Len(f.nodes) /\ A \cap R = {}
  BY <1>1, <1>2, TreeContents, RootApart
<1>4. s \in Seq(Nat) /\ Seqs!ToSet(s) = A \cup X
  <2>1. s \in Seq(Nat) /\ Len(s) = 1 /\ s[1] = at
    BY <1>1, <1>2
  <2>2. Seqs!ToSet(s) = {s[1]}
    BY <2>1 DEF Seqs!ToSet
  <2> QED
    BY <1>2, <2>1, <2>2
<1>5. Parted(f, old, A, R, X, X, s)
  BY <1>2, <1>3, <1>4 DEF Parted
<1>6. Turns(f, X, f, X)
  BY TurnsRefl
<1>7. NB(f.nodes, h, nd) = R \cup (X \ X)
  BY <1>2
<1>8. w = Freeing(WriteNode(f, nd), s)
  BY <1>2 DEF Replace
<1>9. /\ Moved(f, old, h, w, NE(f.nodes, h, nd))
      /\ w.f.nodes[w.at] = nd
      /\ A \cap B(w.f.nodes, h, w.at) = {}
  BY <1>5, <1>6, <1>7, <1>8, ParentWritten
<1> QED
  BY <1>2, <1>9 DEF Turned

-----------------------------------------------------------------------------
(***************************************************************************)
(* The pieces of a split, a borrow and a merge.                            *)
(***************************************************************************)

\* Node x has been written at block b of store g, over the trees of store f.
Wrote(f, g, h, x, b) ==
  /\ Ok(g.nodes, h, b)
  /\ b \notin 1..Len(f.nodes)
  /\ b \in Nat
  /\ g.nodes[b] = x
  /\ E(g.nodes, h, b) = NE(f.nodes, h, x)
  /\ B(g.nodes, h, b) = {b} \cup NB(f.nodes, h, x)

\* From store f to store g the blocks b and c have been written.
Grew(f, g, b, c) ==
  \A old \in SUBSET (1..Len(f.nodes)) : \A new :
    new = old \cup {b, c} => Turns(f, old, g, new)

(* Two nodes written one after the other, over the trees in the file.      *)
LEMMA TwoWritten ==
  ASSUME NEW f, Fresh(f), NEW h \in Nat \ {0}, NEW x, NEW y,
         Sound(f.nodes, h, x), Sound(f.nodes, h, y), NEW w, w = WriteTwo(f, x, y)
  PROVE  /\ Wrote(f, w.f, h, x, w.at[1])
         /\ Wrote(f, w.f, h, y, w.at[2])
         /\ Grew(f, w.f, w.at[1], w.at[2])
<1>1. PICK p, q : p = WriteNode(f, x) /\ q = WriteNode(p.f, y)
  OBVIOUS
<1>2. w.f = q.f /\ w.at[1] = p.at /\ w.at[2] = q.at
  BY <1>1 DEF WriteTwo, WriteAfter, Both
<1>3. f.nodes \in Heap /\ Len(f.nodes) \in Nat
  BY StoreFields DEF Fresh
<1>4. /\ Fresh(p.f)
      /\ p.at = Len(f.nodes) + 1
      /\ Len(p.f.nodes) = Len(f.nodes) + 1
      /\ Extends(f.nodes, p.f.nodes)
      /\ p.f.nodes[p.at] = x
      /\ Ok(p.f.nodes, h, p.at)
      /\ E(p.f.nodes, h, p.at) = NE(f.nodes, h, x)
      /\ B(p.f.nodes, h, p.at) = {p.at} \cup NB(f.nodes, h, x)
  <2>1. p = WriteNode(f, x)
    BY <1>1
  <2>2. Fresh(p.f)
    BY <2>1, WriteSound
  <2>3. p.at = Len(f.nodes) + 1 /\ Len(p.f.nodes) = Len(f.nodes) + 1
    BY <2>1, WriteSound
  <2>4. Extends(f.nodes, p.f.nodes) /\ p.f.nodes[p.at] = x
    BY <2>1, WriteSound
  <2>5. Ok(p.f.nodes, h, p.at)
    BY <2>1, WriteSound
  <2>6. E(p.f.nodes, h, p.at) = NE(f.nodes, h, x)
    BY <2>1, WriteSound
  <2>7. B(p.f.nodes, h, p.at) = {p.at} \cup NB(f.nodes, h, x)
    BY <2>1, WriteSound
  <2> QED
    BY <2>2, <2>3, <2>4, <2>5, <2>6, <2>7
<1>5. p.f.nodes \in Heap
  BY <1>4, StoreFields DEF Fresh
<1>6. /\ Sound(p.f.nodes, h, y)
      /\ NE(p.f.nodes, h, y) = NE(f.nodes, h, y)
      /\ NB(p.f.nodes, h, y) = NB(f.nodes, h, y)
  BY <1>3, <1>4, <1>5, SoundFrame
<1>7. /\ Fresh(q.f)
      /\ q.at = Len(p.f.nodes) + 1
      /\ Extends(p.f.nodes, q.f.nodes)
      /\ q.f.nodes[q.at] = y
      /\ Ok(q.f.nodes, h, q.at)
      /\ E(q.f.nodes, h, q.at) = NE(p.f.nodes, h, y)
      /\ B(q.f.nodes, h, q.at) = {q.at} \cup NB(p.f.nodes, h, y)
  <2>1. PICK g : g = p.f
    OBVIOUS
  <2>2. Fresh(g) /\ Sound(g.nodes, h, y) /\ q = WriteNode(g, y)
    BY <1>1, <1>4, <1>6, <2>1
  <2>3. Fresh(q.f) /\ q.at = Len(g.nodes) + 1
    BY <2>2, WriteSound
  <2>4. Extends(g.nodes, q.f.nodes) /\ q.f.nodes[q.at] = y
    BY <2>2, WriteSound
  <2>5. Ok(q.f.nodes, h, q.at) /\ E(q.f.nodes, h, q.at) = NE(g.nodes, h, y)
    BY <2>2, WriteSound
  <2>6. B(q.f.nodes, h, q.at) = {q.at} \cup NB(g.nodes, h, y)
    BY <2>2, WriteSound
  <2> QED
    BY <2>1, <2>3, <2>4, <2>5, <2>6
<1>8. q.f.nodes \in Heap
  BY <1>7, StoreFields DEF Fresh
<1>9. SameTree(p.f.nodes, q.f.nodes, h, p.at)
  BY <1>4, <1>5, <1>7, <1>8, TreeFrame
<1>10. q.f.nodes[p.at] = x
  <2>1. p.at \in 1..Len(p.f.nodes)
    BY <1>3, <1>4
  <2> QED
    BY <1>4, <1>7, <2>1 DEF Extends
<1>11. Wrote(f, w.f, h, x, w.at[1])
  <2>1. Ok(q.f.nodes, h, p.at) /\ E(q.f.nodes, h, p.at) = NE(f.nodes, h, x)
        /\ B(q.f.nodes, h, p.at) = {p.at} \cup NB(f.nodes, h, x)
    BY <1>4, <1>9 DEF SameTree
  <2> QED
    BY <1>2, <1>3, <1>4, <1>10, <2>1 DEF Wrote
<1>12. Wrote(f, w.f, h, y, w.at[2])
  BY <1>2, <1>3, <1>4, <1>6, <1>7 DEF Wrote
<1>13. Grew(f, w.f, w.at[1], w.at[2])
  <2>1. SUFFICES ASSUME NEW old \in SUBSET (1..Len(f.nodes)), NEW new,
                        new = old \cup {p.at, q.at}
                 PROVE  Turns(f, old, q.f, new)
    BY <1>2 DEF Grew
  <2>2. PICK P, Q : P = old \cup {p.at} /\ Q = P \cup {q.at}
    OBVIOUS
  <2>3. Turns(f, old, p.f, P)
    BY <1>1, <2>2, WriteSound
  <2>4. Turns(p.f, P, q.f, Q)
    BY <1>1, <1>4, <1>6, <2>2, WriteSound
  <2>5. Q = new
    BY <2>1, <2>2
  <2> QED
    BY <2>3, <2>4, <2>5, TurnsTrans
<1> QED
  BY <1>11, <1>12, <1>13

(* The order in which the two blocks are named makes no difference. *)
LEMMA GrewEither ==
  ASSUME NEW f, NEW g, NEW b, NEW c, Grew(f, g, b, c)
  PROVE  Grew(f, g, c, b)
<1>1. {b, c} = {c, b}
  OBVIOUS
<1> QED
  BY <1>1 DEF Grew

-----------------------------------------------------------------------------
\* What is in a window of a node is the node lo, entry m and the node hi, of which
\* the blocks X are not part.
Pieces(f, h, nd, i, p, lo, m, hi, X) ==
  /\ Sound(f.nodes, h - 1, lo)
  /\ Sound(f.nodes, h - 1, hi)
  /\ N(lo) >= T - 1
  /\ N(hi) >= T - 1
  /\ \A e \in NE(f.nodes, h - 1, lo) : Key(e) < Key(m)
  /\ \A e \in NE(f.nodes, h - 1, hi) : Key(m) < Key(e)
  /\ WE(f.nodes, h, nd, i, p) = NE(f.nodes, h - 1, lo) \cup {m} \cup NE(f.nodes, h - 1, hi)
  /\ WB(f.nodes, h, nd, i, p) = X \cup NB(f.nodes, h - 1, lo) \cup NB(f.nodes, h - 1, hi)
  /\ X \cap NB(f.nodes, h - 1, lo) = {}
  /\ X \cap NB(f.nodes, h - 1, hi) = {}

\* Node nd2 has two children around an entry in the window, and is not too large.
Spread(nd, i, p, b, m, c, nd2) ==
  /\ Grafted(nd, i, p, nd2, 1)
  /\ nd2.ents[i] = m
  /\ nd2.kids[i] = b
  /\ nd2.kids[i + 1] = c
  /\ N(nd2) <= 2 * T - 1

(* A window can be replaced by two new nodes and an entry between them.    *)
LEMMA PatchOfTwo ==
  ASSUME Unique, NEW f, Fresh(f), NEW g, Fresh(g), NEW h \in Nat \ {0}, NEW nd,
         Sound(f.nodes, h, nd), ~nd.leaf,
         NEW p \in {0, 1}, NEW i, i \in 1..(N(nd) + 1 - p), NEW lo, NEW m, NEW hi, NEW X,
         Pieces(f, h, nd, i, p, lo, m, hi, X), NEW b, NEW c,
         Wrote(f, g, h - 1, lo, b), Wrote(f, g, h - 1, hi, c), Grew(f, g, b, c),
         NEW nd2, Spread(nd, i, p, b, m, c, nd2), NEW es, es = NE(f.nodes, h, nd)
  PROVE  Patch(f, g, h, nd, i, p, nd2, 1, X, es)
<1>1. f.nodes \in Heap /\ g.nodes \in Heap /\ Len(f.nodes) \in Nat
  BY StoreFields DEF Fresh
<1>2. /\ N(nd) \in Nat /\ i \in Nat
      /\ WE(f.nodes, h, nd, i, p) \subseteq NE(f.nodes, h, nd)
      /\ WB(f.nodes, h, nd, i, p) \subseteq 1..Len(f.nodes)
      /\ es = RE(f.nodes, h, nd, i, p) \cup WE(f.nodes, h, nd, i, p)
  <2>1. N(nd) \in Nat
    BY <1>1, SoundNode, EntriesOfNode
  <2>2. NE(f.nodes, h, nd) = RE(f.nodes, h, nd, i, p) \cup WE(f.nodes, h, nd, i, p)
        /\ NB(f.nodes, h, nd) = RB(f.nodes, h, nd, i, p) \cup WB(f.nodes, h, nd, i, p)
    BY <1>1, WindowOfNode
  <2>3. NB(f.nodes, h, nd) \subseteq 1..Len(f.nodes)
    BY <1>1, SoundNode
  <2> QED
    BY <2>1, <2>2, <2>3
<1>3. /\ WE(g.nodes, h, nd2, i, 1) = WE(f.nodes, h, nd, i, p)
      /\ WB(g.nodes, h, nd2, i, 1) =
           {b, c} \cup NB(f.nodes, h - 1, lo) \cup NB(f.nodes, h - 1, hi)
  <2>1. /\ WE(g.nodes, h, nd2, i, 1) =
              E(g.nodes, h - 1, b) \cup {m} \cup E(g.nodes, h - 1, c)
        /\ WB(g.nodes, h, nd2, i, 1) = B(g.nodes, h - 1, b) \cup B(g.nodes, h - 1, c)
    BY <1>2, TwoKids DEF Spread
  <2>2. /\ E(g.nodes, h - 1, b) = NE(f.nodes, h - 1, lo)
        /\ B(g.nodes, h - 1, b) = {b} \cup NB(f.nodes, h - 1, lo)
        /\ E(g.nodes, h - 1, c) = NE(f.nodes, h - 1, hi)
        /\ B(g.nodes, h - 1, c) = {c} \cup NB(f.nodes, h - 1, hi)
    BY DEF Wrote
  <2>3. WE(f.nodes, h, nd, i, p) =
          NE(f.nodes, h - 1, lo) \cup {m} \cup NE(f.nodes, h - 1, hi)
    BY DEF Pieces
  <2> QED
    BY <2>1, <2>2, <2>3
<1>4. Fits(g.nodes, h, nd, i, p, nd2, 1)
  <2>1. ASSUME NEW j \in i..(i + 1)
        PROVE  Ok(g.nodes, h - 1, nd2.kids[j]) /\ N(g.nodes[nd2.kids[j]]) >= T - 1
    <3>1. CASE j = i
      <4>1. nd2.kids[j] = b
        BY <3>1 DEF Spread
      <4> QED
        BY <4>1 DEF Wrote, Pieces
    <3>2. CASE j = i + 1
      <4>1. nd2.kids[j] = c
        BY <3>2 DEF Spread
      <4> QED
        BY <4>1 DEF Wrote, Pieces
    <3> QED
      BY <1>2, <3>1, <3>2
  <2>2. \A e \in WE(f.nodes, h, nd, i, p) : Admits(nd, i, p, Key(e))
    BY <1>1, WindowOfNode
  <2>3. /\ \A e \in E(g.nodes, h - 1, nd2.kids[i]) : Key(e) < Key(nd2.ents[i])
        /\ \A e \in E(g.nodes, h - 1, nd2.kids[i + 1]) : Key(nd2.ents[i]) < Key(e)
    <3>1. nd2.kids[i] = b /\ nd2.kids[i + 1] = c /\ nd2.ents[i] = m
      BY DEF Spread
    <3>2. E(g.nodes, h - 1, b) = NE(f.nodes, h - 1, lo)
          /\ E(g.nodes, h - 1, c) = NE(f.nodes, h - 1, hi)
      BY DEF Wrote
    <3>3. /\ \A e \in NE(f.nodes, h - 1, lo) : Key(e) < Key(m)
          /\ \A e \in NE(f.nodes, h - 1, hi) : Key(m) < Key(e)
      BY DEF Pieces
    <3> QED
      BY <3>1, <3>2, <3>3
  <2>4. \A e \in WE(g.nodes, h, nd2, i, 1) : Admits(nd, i, p, Key(e))
    BY <1>3, <2>2
  <2>5. Grafted(nd, i, p, nd2, 1) /\ N(nd2) <= 2 * T - 1
    BY DEF Spread
  <2> QED
    BY <2>1, <2>3, <2>4, <2>5 DEF Fits
<1>5. PICK W, V : W = WB(f.nodes, h, nd, i, p) /\ V = W \cup {b, c}
  OBVIOUS
<1>6. Turns(f, W, g, V)
  BY <1>2, <1>5 DEF Grew
<1>7. WB(g.nodes, h, nd2, i, 1) = V \ X
  <2>1. b \notin 1..Len(f.nodes) /\ c \notin 1..Len(f.nodes)
    BY DEF Wrote
  <2>2. /\ W = X \cup NB(f.nodes, h - 1, lo) \cup NB(f.nodes, h - 1, hi)
        /\ X \cap NB(f.nodes, h - 1, lo) = {}
        /\ X \cap NB(f.nodes, h - 1, hi) = {}
    BY <1>5 DEF Pieces
  <2>3. b \notin X /\ c \notin X
    BY <1>2, <1>5, <2>1, <2>2
  <2> QED
    BY <1>3, <1>5, <2>2, <2>3
<1>8. es = RE(f.nodes, h, nd, i, p) \cup WE(g.nodes, h, nd2, i, 1)
  BY <1>2, <1>3
<1> QED
  BY <1>4, <1>5, <1>6, <1>7, <1>8 DEF Patch

(* One node written over the trees in the file. *)
LEMMA OneWritten ==
  ASSUME NEW f, Fresh(f), NEW h \in Nat \ {0}, NEW x, Sound(f.nodes, h, x),
         NEW w, w = WriteNode(f, x)
  PROVE  Wrote(f, w.f, h, x, w.at) /\ Grew(f, w.f, w.at, w.at)
<1>1. f.nodes \in Heap /\ Len(f.nodes) \in Nat
  BY StoreFields DEF Fresh
<1>2. /\ w.at = Len(f.nodes) + 1
      /\ w.f.nodes[w.at] = x
      /\ Ok(w.f.nodes, h, w.at)
      /\ E(w.f.nodes, h, w.at) = NE(f.nodes, h, x)
      /\ B(w.f.nodes, h, w.at) = {w.at} \cup NB(f.nodes, h, x)
  BY WriteSound
<1>3. Wrote(f, w.f, h, x, w.at)
  BY <1>1, <1>2 DEF Wrote
<1>4. ASSUME NEW old \in SUBSET (1..Len(f.nodes)), NEW new, new = old \cup {w.at, w.at}
      PROVE  Turns(f, old, w.f, new)
  <2>1. new = old \cup {w.at}
    BY <1>4
  <2> QED
    BY <2>1, WriteSound
<1> QED
  BY <1>3, <1>4 DEF Grew

\* What is in a window of two children is the node x, but for the blocks X.
Whole(f, h, nd, i, x, X) ==
  /\ Sound(f.nodes, h - 1, x)
  /\ N(x) >= T - 1
  /\ WE(f.nodes, h, nd, i, 1) = NE(f.nodes, h - 1, x)
  /\ WB(f.nodes, h, nd, i, 1) = X \cup NB(f.nodes, h - 1, x)
  /\ X \cap NB(f.nodes, h - 1, x) = {}

(* A window of two children can be replaced by one new node.               *)
LEMMA PatchOfOne ==
  ASSUME Unique, NEW f, Fresh(f), NEW g, Fresh(g), NEW h \in Nat \ {0}, NEW nd,
         Sound(f.nodes, h, nd), ~nd.leaf,
         NEW i, i \in 1..N(nd), NEW x, NEW X, Whole(f, h, nd, i, x, X), NEW b,
         Wrote(f, g, h - 1, x, b), Grew(f, g, b, b),
         NEW nd2, Grafted(nd, i, 1, nd2, 0), nd2.kids[i] = b,
         NEW es, es = NE(f.nodes, h, nd)
  PROVE  Patch(f, g, h, nd, i, 1, nd2, 0, X, es)
<1>1. f.nodes \in Heap /\ g.nodes \in Heap /\ Len(f.nodes) \in Nat
  BY StoreFields DEF Fresh
<1>2. N(nd) \in Nat /\ i \in Nat /\ i \in 1..(N(nd) + 1 - 1) /\ N(nd) <= 2 * T - 1
  <2>1. N(nd) \in Nat
    BY <1>1, SoundNode, EntriesOfNode
  <2> QED
    BY <2>1 DEF Sound
<1>3. /\ WB(f.nodes, h, nd, i, 1) \subseteq 1..Len(f.nodes)
      /\ es = RE(f.nodes, h, nd, i, 1) \cup WE(f.nodes, h, nd, i, 1)
  <2>1. NE(f.nodes, h, nd) = RE(f.nodes, h, nd, i, 1) \cup WE(f.nodes, h, nd, i, 1)
        /\ NB(f.nodes, h, nd) = RB(f.nodes, h, nd, i, 1) \cup WB(f.nodes, h, nd, i, 1)
    BY <1>1, <1>2, WindowOfNode
  <2>2. NB(f.nodes, h, nd) \subseteq 1..Len(f.nodes)
    BY <1>1, SoundNode
  <2> QED
    BY <2>1, <2>2
<1>4. /\ WE(g.nodes, h, nd2, i, 0) = WE(f.nodes, h, nd, i, 1)
      /\ WB(g.nodes, h, nd2, i, 0) = {b} \cup NB(f.nodes, h - 1, x)
  <2>1. /\ WE(g.nodes, h, nd2, i, 0) = E(g.nodes, h - 1, b)
        /\ WB(g.nodes, h, nd2, i, 0) = B(g.nodes, h - 1, b)
    BY <1>2, OneKid
  <2> QED
    BY <2>1 DEF Wrote, Whole
<1>5. Fits(g.nodes, h, nd, i, 1, nd2, 0)
  <2>1. ASSUME NEW j \in i..(i + 0)
        PROVE  Ok(g.nodes, h - 1, nd2.kids[j]) /\ N(g.nodes[nd2.kids[j]]) >= T - 1
    <3>1. nd2.kids[j] = b
      BY <1>2
    <3> QED
      BY <3>1 DEF Wrote, Whole
  <2>2. \A e \in WE(f.nodes, h, nd, i, 1) : Admits(nd, i, 1, Key(e))
    BY <1>1, <1>2, WindowOfNode
  <2>3. \A e \in WE(g.nodes, h, nd2, i, 0) : Admits(nd, i, 1, Key(e))
    BY <1>4, <2>2
  <2>4. N(nd2) <= 2 * T - 1
    <3>1. N(nd2) = N(nd) - 1 + 0
      BY DEF Grafted
    <3> QED
      BY <1>2, <3>1, DegreeAssumption
  <2> QED
    BY <2>1, <2>3, <2>4 DEF Fits
<1>6. PICK W, V : W = WB(f.nodes, h, nd, i, 1) /\ V = W \cup {b, b}
  OBVIOUS
<1>7. Turns(f, W, g, V)
  BY <1>3, <1>6 DEF Grew
<1>8. WB(g.nodes, h, nd2, i, 0) = V \ X
  <2>1. b \notin 1..Len(f.nodes)
    BY DEF Wrote
  <2>2. W = X \cup NB(f.nodes, h - 1, x) /\ X \cap NB(f.nodes, h - 1, x) = {}
    BY <1>6 DEF Whole
  <2>3. b \notin X
    BY <1>3, <1>6, <2>1, <2>2
  <2> QED
    BY <1>4, <1>6, <2>2, <2>3
<1>9. es = RE(f.nodes, h, nd, i, 1) \cup WE(g.nodes, h, nd2, i, 0)
  BY <1>3, <1>4
<1> QED
  BY <1>5, <1>6, <1>7, <1>8, <1>9 DEF Patch

-----------------------------------------------------------------------------
\* Child i of a node is the node x.
Child(f, h, nd, i, x) ==
  /\ h - 1 \in Nat \ {0}
  /\ nd.kids[i] \in Nat
  /\ x = f.nodes[nd.kids[i]]
  /\ x \in Node /\ Filled(x)
  /\ x.leaf = (h - 1 = 1)
  /\ Sound(f.nodes, h - 1, x)
  /\ Ok(f.nodes, h - 1, nd.kids[i])
  /\ N(x) \in (T - 1)..(2 * T - 1)
  /\ E(f.nodes, h - 1, nd.kids[i]) = NE(f.nodes, h - 1, x)
  /\ B(f.nodes, h - 1, nd.kids[i]) = {nd.kids[i]} \cup NB(f.nodes, h - 1, x)
  /\ nd.kids[i] \notin NB(f.nodes, h - 1, x)

(* Every child of a sound node can be read as one. *)
LEMMA ChildOfNode ==
  ASSUME NEW f, Fresh(f), NEW h \in Nat \ {0}, NEW nd, Sound(f.nodes, h, nd), ~nd.leaf,
         NEW i, i \in 1..(N(nd) + 1), NEW x, x = f.nodes[nd.kids[i]]
  PROVE  Child(f, h, nd, i, x)
<1>1. f.nodes \in Heap
  BY StoreFields DEF Fresh
<1>2. PICK b : b = nd.kids[i]
  OBVIOUS
<1>3. /\ i \in DOMAIN nd.kids /\ b \in Nat
  BY <1>2, SoundNode, EntriesOfNode, <1>1
<1>4. Ok(f.nodes, h - 1, b) /\ N(x) >= T - 1
  BY <1>2, <1>3 DEF Sound, Below
<1>5. h - 1 \in Nat \ {0}
  <2>1. nd.leaf = (h = 1)
    BY DEF Sound
  <2>2. h # 1
    BY <2>1, Zenon
  <2> QED
    BY <2>2
<1>6. x \in Node /\ Sound(f.nodes, h - 1, x)
  BY <1>1, <1>2, <1>4, <1>5, BlockIsNode
<1>7. /\ Filled(x) /\ x.leaf = (h - 1 = 1) /\ N(x) <= 2 * T - 1
  BY <1>6 DEF Sound
<1>8. N(x) \in (T - 1)..(2 * T - 1)
  <2>1. N(x) \in Nat
    BY <1>6, <1>7, EntriesOfNode
  <2> QED
    BY <1>4, <1>7, <2>1, DegreeAssumption
<1>9. /\ E(f.nodes, h - 1, b) = NE(f.nodes, h - 1, x)
      /\ B(f.nodes, h - 1, b) = {b} \cup NB(f.nodes, h - 1, x)
      /\ b \notin NB(f.nodes, h - 1, x)
  BY <1>1, <1>2, <1>4, <1>5, TreeContents, RootApart
<1> QED
  BY <1>2, <1>3, <1>4, <1>5, <1>6, <1>7, <1>8, <1>9 DEF Child

\* Children i and i + 1 of a node are the nodes x and y.
Neighbours(f, h, nd, i, x, y) ==
  /\ Child(f, h, nd, i, x)
  /\ Child(f, h, nd, i + 1, y)
  /\ nd.ents[i] \in Entry
  /\ \A e \in NE(f.nodes, h - 1, x) : Key(e) < Key(nd.ents[i])
  /\ \A e \in NE(f.nodes, h - 1, y) : Key(nd.ents[i]) < Key(e)
  /\ nd.kids[i] \notin NB(f.nodes, h - 1, y)
  /\ nd.kids[i + 1] \notin NB(f.nodes, h - 1, x)
  /\ WE(f.nodes, h, nd, i, 1) =
       NE(f.nodes, h - 1, x) \cup {nd.ents[i]} \cup NE(f.nodes, h - 1, y)
  /\ WB(f.nodes, h, nd, i, 1) =
       {nd.kids[i], nd.kids[i + 1]} \cup NB(f.nodes, h - 1, x) \cup NB(f.nodes, h - 1, y)

(* And so can two children beside each other. *)
LEMMA NeighboursOfNode ==
  ASSUME Unique, NEW f, Fresh(f), NEW h \in Nat \ {0}, NEW nd, Sound(f.nodes, h, nd), ~nd.leaf,
         NEW i, i \in 1..N(nd), NEW x, x = f.nodes[nd.kids[i]],
         NEW y, y = f.nodes[nd.kids[i + 1]]
  PROVE  Neighbours(f, h, nd, i, x, y)
<1>1. f.nodes \in Heap
  BY StoreFields DEF Fresh
<1>2. /\ N(nd) \in Nat /\ i \in Nat
      /\ DOMAIN nd.kids = 1..(N(nd) + 1)
      /\ nd.ents[i] \in Entry
      /\ \A j \in DOMAIN nd.kids : \A e \in E(f.nodes, h - 1, nd.kids[j]) :
           /\ \A k \in 1..(j - 1) : Key(nd.ents[k]) < Key(e)
           /\ \A k \in j..N(nd) : Key(e) < Key(nd.ents[k])
  BY <1>1, KeysOfNode
<1>3. i \in DOMAIN nd.kids /\ i + 1 \in DOMAIN nd.kids /\ i # i + 1 /\ i \in 1..(i + 1 - 1)
      /\ i \in i..N(nd)
  BY <1>2
<1>4. Child(f, h, nd, i, x) /\ Child(f, h, nd, i + 1, y)
  BY <1>2, <1>3, ChildOfNode
<1>5. PICK b, c : b = nd.kids[i] /\ c = nd.kids[i + 1]
  OBVIOUS
<1>6. /\ E(f.nodes, h - 1, b) = NE(f.nodes, h - 1, x)
      /\ E(f.nodes, h - 1, c) = NE(f.nodes, h - 1, y)
      /\ B(f.nodes, h - 1, b) = {b} \cup NB(f.nodes, h - 1, x)
      /\ B(f.nodes, h - 1, c) = {c} \cup NB(f.nodes, h - 1, y)
  BY <1>4, <1>5 DEF Child
<1>7. \A e \in NE(f.nodes, h - 1, x) : Key(e) < Key(nd.ents[i])
  BY <1>2, <1>3, <1>5, <1>6
<1>8. \A e \in NE(f.nodes, h - 1, y) : Key(nd.ents[i]) < Key(e)
  BY <1>2, <1>3, <1>5, <1>6
<1>9. B(f.nodes, h - 1, b) \cap B(f.nodes, h - 1, c) = {}
  BY <1>1, <1>3, <1>5, BlocksApart
<1>10. b \notin NB(f.nodes, h - 1, y) /\ c \notin NB(f.nodes, h - 1, x)
  BY <1>6, <1>9
<1>11. /\ WE(f.nodes, h, nd, i, 1) =
            E(f.nodes, h - 1, b) \cup {nd.ents[i]} \cup E(f.nodes, h - 1, c)
       /\ WB(f.nodes, h, nd, i, 1) = B(f.nodes, h - 1, b) \cup B(f.nodes, h - 1, c)
  BY <1>2, <1>5, TwoKids
<1>12. /\ WE(f.nodes, h, nd, i, 1) =
            NE(f.nodes, h - 1, x) \cup {nd.ents[i]} \cup NE(f.nodes, h - 1, y)
       /\ WB(f.nodes, h, nd, i, 1) =
            {b, c} \cup NB(f.nodes, h - 1, x) \cup NB(f.nodes, h - 1, y)
  BY <1>6, <1>11
<1> QED
  BY <1>2, <1>4, <1>5, <1>7, <1>8, <1>10, <1>12 DEF Neighbours

-----------------------------------------------------------------------------
(* The halves of a full child, and the entry between them. *)
LEMMA SplitPieces ==
  ASSUME Unique, NEW f, Fresh(f), NEW h, NEW nd, NEW i \in Nat, NEW y, Child(f, h, nd, i, y),
         N(y) = 2 * T - 1, NEW lo, lo = LowerHalf(y), NEW hi, hi = UpperHalf(y),
         NEW m, m = y.ents[T], NEW X, X = {nd.kids[i]}
  PROVE  Pieces(f, h, nd, i, 0, lo, m, hi, X) /\ m \in Entry
<1>1. f.nodes \in Heap
  BY StoreFields DEF Fresh
<1>2. /\ h - 1 \in Nat \ {0}
      /\ y \in Node /\ Filled(y) /\ Sound(f.nodes, h - 1, y)
      /\ E(f.nodes, h - 1, nd.kids[i]) = NE(f.nodes, h - 1, y)
      /\ B(f.nodes, h - 1, nd.kids[i]) = {nd.kids[i]} \cup NB(f.nodes, h - 1, y)
      /\ nd.kids[i] \notin NB(f.nodes, h - 1, y)
  BY DEF Child
<1>3. Cut(y, T, lo, hi)
  BY <1>2, SplitCut
<1>4. /\ Sound(f.nodes, h - 1, lo)
      /\ Sound(f.nodes, h - 1, hi)
      /\ \A e \in NE(f.nodes, h - 1, lo) : Key(e) < Key(m)
      /\ \A e \in NE(f.nodes, h - 1, hi) : Key(m) < Key(e)
  BY <1>1, <1>2, <1>3, CutSound
<1>5. /\ NE(f.nodes, h - 1, y) = NE(f.nodes, h - 1, lo) \cup {m} \cup NE(f.nodes, h - 1, hi)
      /\ NB(f.nodes, h - 1, y) = NB(f.nodes, h - 1, lo) \cup NB(f.nodes, h - 1, hi)
  BY <1>3, CutContents
<1>6. N(lo) >= T - 1 /\ N(hi) >= T - 1 /\ m \in Entry
  <2>1. N(lo) = T - 1 /\ N(hi) = N(y) - T /\ T \in 1..N(y)
    BY <1>3, CutPositions
  <2>2. \A j \in 1..N(y) : y.ents[j] \in Entry
    BY <1>2, EntriesOfNode
  <2> QED
    BY <2>1, <2>2, DegreeAssumption
<1>7. /\ WE(f.nodes, h, nd, i, 0) = E(f.nodes, h - 1, nd.kids[i])
      /\ WB(f.nodes, h, nd, i, 0) = B(f.nodes, h - 1, nd.kids[i])
  BY OneKid
<1>8. /\ WE(f.nodes, h, nd, i, 0) =
           NE(f.nodes, h - 1, lo) \cup {m} \cup NE(f.nodes, h - 1, hi)
      /\ WB(f.nodes, h, nd, i, 0) =
           X \cup NB(f.nodes, h - 1, lo) \cup NB(f.nodes, h - 1, hi)
      /\ X \cap NB(f.nodes, h - 1, lo) = {}
      /\ X \cap NB(f.nodes, h - 1, hi) = {}
  BY <1>2, <1>5, <1>7
<1> QED
  BY <1>4, <1>6, <1>8 DEF Pieces

(* Entry e comes between x and the first of y: x with e at its end, then   *)
(* the first entry of y, then y without it.                                *)
LEMMA NextPieces ==
  ASSUME Unique, NEW f, Fresh(f), NEW h, NEW nd, NEW i, NEW x, NEW y,
         Neighbours(f, h, nd, i, x, y), N(x) = T - 1, N(y) >= T,
         NEW lo, lo = Extended(x, nd.ents[i], Head(y.kids)), NEW hi, hi = Beheaded(y),
         NEW m, m = Head(y.ents), NEW X, X = {nd.kids[i], nd.kids[i + 1]}
  PROVE  /\ Pieces(f, h, nd, i, 1, lo, m, hi, X)
         /\ m \in Entry
         /\ Key(nd.ents[i]) < Key(m)
         /\ N(lo) = T
<1>1. f.nodes \in Heap
  BY StoreFields DEF Fresh
<1>2. PICK e, st, ns, g : e = nd.ents[i] /\ st = Stub(y.leaf, Head(y.kids))
                          /\ ns = f.nodes /\ g = h - 1
  OBVIOUS
<1>3. /\ g \in Nat \ {0}
      /\ x \in Node /\ Filled(x) /\ Sound(ns, g, x)
      /\ y \in Node /\ Filled(y) /\ Sound(ns, g, y) /\ N(y) \in (T - 1)..(2 * T - 1)
      /\ x.leaf = y.leaf
      /\ nd.kids[i] \notin NB(ns, g, x) /\ nd.kids[i + 1] \notin NB(ns, g, y)
  BY <1>2 DEF Neighbours, Child
<1>4. /\ e \in Entry
      /\ \A d \in NE(ns, g, x) : Key(d) < Key(e)
      /\ \A d \in NE(ns, g, y) : Key(e) < Key(d)
      /\ nd.kids[i] \notin NB(ns, g, y) /\ nd.kids[i + 1] \notin NB(ns, g, x)
      /\ WE(ns, h, nd, i, 1) = NE(ns, g, x) \cup {e} \cup NE(ns, g, y)
      /\ WB(ns, h, nd, i, 1) =
           {nd.kids[i], nd.kids[i + 1]} \cup NB(ns, g, x) \cup NB(ns, g, y)
  BY <1>2 DEF Neighbours
<1>5. Cut(y, 1, st, hi) /\ m = y.ents[1]
  <2>1. N(y) >= 1
    BY <1>3, DegreeAssumption
  <2> QED
    BY <1>2, <1>3, <2>1, FirstCut
<1>6. Cut(lo, N(x) + 1, x, st) /\ lo.ents[N(x) + 1] = e /\ N(lo) = N(x) + 1
  <2>1. y.leaf \/ Head(y.kids) \in Nat
    <3>1. /\ y.kids \in Seq(Nat)
          /\ N(y) \in Nat
          /\ Len(y.kids) = IF y.leaf THEN 0 ELSE N(y) + 1
      BY <1>3, EntriesOfNode
    <3>2. ~y.leaf => y.kids # <<>>
      BY <3>1
    <3> QED
      BY <3>1, <3>2
  <2>2. x.leaf \/ Head(y.kids) \in Nat
    BY <1>3, <2>1, Zenon
  <2>3. st = Stub(x.leaf, Head(y.kids))
    BY <1>2, <1>3, Zenon
  <2> QED
    BY <1>2, <1>3, <1>4, <2>2, <2>3, ExtendCut
<1>7. /\ Sound(ns, g, st) /\ Sound(ns, g, hi)
      /\ \A d \in NE(ns, g, st) : Key(d) < Key(m)
      /\ \A d \in NE(ns, g, hi) : Key(m) < Key(d)
  BY <1>1, <1>2, <1>3, <1>5, CutSound
<1>8. /\ NE(ns, g, y) = NE(ns, g, st) \cup {m} \cup NE(ns, g, hi)
      /\ NB(ns, g, y) = NB(ns, g, st) \cup NB(ns, g, hi)
  BY <1>5, CutContents
<1>9. /\ NE(ns, g, lo) = NE(ns, g, x) \cup {e} \cup NE(ns, g, st)
      /\ NB(ns, g, lo) = NB(ns, g, x) \cup NB(ns, g, st)
  BY <1>6, CutContents
<1>10. N(lo) = T /\ N(lo) <= 2 * T - 1
  BY <1>6, DegreeAssumption
<1>11. Sound(ns, g, lo)
  <2>1. \A d \in NE(ns, g, st) : Key(e) < Key(d)
    BY <1>4, <1>8
  <2>2. PICK k : k = N(x) + 1
    OBVIOUS
  <2>3. Cut(lo, k, x, st) /\ lo.ents[k] = e
    BY <1>6, <2>2
  <2> QED
    BY <1>1, <1>2, <1>3, <1>4, <1>7, <1>10, <2>1, <2>3, PasteSound
<1>12. Key(e) < Key(m)
  BY <1>4, <1>8
<1>13. m \in Entry
  <2>1. NE(ns, g, y) \subseteq Entry
    BY <1>1, <1>2, <1>3, SoundNode
  <2> QED
    BY <1>8, <2>1
<1>14. \A d \in NE(ns, g, lo) : Key(d) < Key(m)
  <2>1. ASSUME NEW d \in NE(ns, g, x) PROVE Key(d) < Key(m)
    <3>1. d \in Entry
      BY <1>1, <1>2, <1>3, SoundNode
    <3>2. Key(d) \in Int /\ Key(e) \in Int /\ Key(m) \in Int
      BY <1>4, <1>13, <3>1, Order
    <3>3. Key(d) < Key(e)
      BY <1>4
    <3> QED
      BY <1>12, <3>2, <3>3
  <2> QED
    BY <1>7, <1>9, <1>12, <2>1
<1>15. N(lo) >= T - 1 /\ N(hi) >= T - 1
  <2>1. N(hi) = N(y) - 1
    BY <1>5, CutPositions
  <2> QED
    BY <1>3, <1>10, <2>1, DegreeAssumption
<1>16. WE(ns, h, nd, i, 1) = NE(ns, g, lo) \cup {m} \cup NE(ns, g, hi)
  BY <1>4, <1>8, <1>9
<1>17. /\ WB(ns, h, nd, i, 1) = X \cup NB(ns, g, lo) \cup NB(ns, g, hi)
       /\ X \cap NB(ns, g, lo) = {}
       /\ X \cap NB(ns, g, hi) = {}
  BY <1>3, <1>4, <1>8, <1>9
<1>18. Pieces(f, h, nd, i, 1, lo, m, hi, X)
  BY <1>2, <1>7, <1>11, <1>14, <1>15, <1>16, <1>17 DEF Pieces
<1> QED
  BY <1>2, <1>10, <1>12, <1>13, <1>18

(* Entry e comes between the last entry of x and y: x without its last     *)
(* entry, that entry, then y with e in front.                              *)
LEMMA PrevPieces ==
  ASSUME Unique, NEW f, Fresh(f), NEW h, NEW nd, NEW i, NEW x, NEW y,
         Neighbours(f, h, nd, i, x, y), N(x) >= T, N(y) = T - 1,
         NEW lo, lo = Curtailed(x),
         NEW hi, hi = Prepended(y, nd.ents[i], Seqs!Last(x.kids)),
         NEW m, m = Seqs!Last(x.ents), NEW X, X = {nd.kids[i], nd.kids[i + 1]}
  PROVE  /\ Pieces(f, h, nd, i, 1, lo, m, hi, X)
         /\ m \in Entry
         /\ Key(m) < Key(nd.ents[i])
         /\ N(hi) = T
<1>1. f.nodes \in Heap
  BY StoreFields DEF Fresh
<1>2. PICK e, st, ns, g : e = nd.ents[i] /\ st = Stub(x.leaf, Seqs!Last(x.kids))
                          /\ ns = f.nodes /\ g = h - 1
  OBVIOUS
<1>3. /\ g \in Nat \ {0}
      /\ x \in Node /\ Filled(x) /\ Sound(ns, g, x) /\ N(x) \in (T - 1)..(2 * T - 1)
      /\ y \in Node /\ Filled(y) /\ Sound(ns, g, y)
      /\ x.leaf = y.leaf
      /\ nd.kids[i] \notin NB(ns, g, x) /\ nd.kids[i + 1] \notin NB(ns, g, y)
  BY <1>2 DEF Neighbours, Child
<1>4. /\ e \in Entry
      /\ \A d \in NE(ns, g, x) : Key(d) < Key(e)
      /\ \A d \in NE(ns, g, y) : Key(e) < Key(d)
      /\ nd.kids[i] \notin NB(ns, g, y) /\ nd.kids[i + 1] \notin NB(ns, g, x)
      /\ WE(ns, h, nd, i, 1) = NE(ns, g, x) \cup {e} \cup NE(ns, g, y)
      /\ WB(ns, h, nd, i, 1) =
           {nd.kids[i], nd.kids[i + 1]} \cup NB(ns, g, x) \cup NB(ns, g, y)
  BY <1>2 DEF Neighbours
<1>5. Cut(x, N(x), lo, st) /\ m = x.ents[N(x)]
  <2>1. N(x) >= 1
    BY <1>3, DegreeAssumption
  <2>2. m = x.ents[N(x)]
    BY DEF N, Seqs!Last
  <2> QED
    BY <1>2, <1>3, <2>1, <2>2, LastCut
<1>6. Cut(hi, 1, st, y) /\ hi.ents[1] = e /\ N(hi) = N(y) + 1
  <2>1. x.leaf \/ Seqs!Last(x.kids) \in Nat
    <3>1. /\ x.kids \in Seq(Nat)
          /\ N(x) \in Nat
          /\ Len(x.kids) = IF x.leaf THEN 0 ELSE N(x) + 1
      BY <1>3, EntriesOfNode
    <3>2. ~x.leaf => Len(x.kids) \in DOMAIN x.kids
      BY <3>1
    <3> QED
      BY <3>1, <3>2 DEF Seqs!Last
  <2>2. y.leaf \/ Seqs!Last(x.kids) \in Nat
    BY <1>3, <2>1, Zenon
  <2>3. st = Stub(y.leaf, Seqs!Last(x.kids))
    BY <1>2, <1>3, Zenon
  <2> QED
    BY <1>2, <1>3, <1>4, <2>2, <2>3, PrependCut
<1>7. /\ Sound(ns, g, lo) /\ Sound(ns, g, st)
      /\ \A d \in NE(ns, g, lo) : Key(d) < Key(m)
      /\ \A d \in NE(ns, g, st) : Key(m) < Key(d)
  <2>1. PICK k : k = N(x)
    OBVIOUS
  <2>2. Cut(x, k, lo, st) /\ m = x.ents[k]
    BY <1>5, <2>1
  <2> QED
    BY <1>1, <1>2, <1>3, <2>2, CutSound
<1>8. /\ NE(ns, g, x) = NE(ns, g, lo) \cup {m} \cup NE(ns, g, st)
      /\ NB(ns, g, x) = NB(ns, g, lo) \cup NB(ns, g, st)
  BY <1>5, CutContents
<1>9. /\ NE(ns, g, hi) = NE(ns, g, st) \cup {e} \cup NE(ns, g, y)
      /\ NB(ns, g, hi) = NB(ns, g, st) \cup NB(ns, g, y)
  BY <1>6, CutContents
<1>10. N(hi) = T /\ N(hi) <= 2 * T - 1
  BY <1>6, DegreeAssumption
<1>11. Sound(ns, g, hi)
  <2>1. \A d \in NE(ns, g, st) : Key(d) < Key(e)
    BY <1>4, <1>8
  <2> QED
    BY <1>1, <1>2, <1>3, <1>4, <1>6, <1>7, <1>10, <2>1, PasteSound
<1>12. Key(m) < Key(e)
  BY <1>4, <1>8
<1>13. m \in Entry
  <2>1. NE(ns, g, x) \subseteq Entry
    BY <1>1, <1>2, <1>3, SoundNode
  <2> QED
    BY <1>8, <2>1
<1>14. \A d \in NE(ns, g, hi) : Key(m) < Key(d)
  <2>1. ASSUME NEW d \in NE(ns, g, y) PROVE Key(m) < Key(d)
    <3>1. d \in Entry
      BY <1>1, <1>2, <1>3, SoundNode
    <3>2. Key(d) \in Int /\ Key(e) \in Int /\ Key(m) \in Int
      BY <1>4, <1>13, <3>1, Order
    <3>3. Key(e) < Key(d)
      BY <1>4
    <3> QED
      BY <1>12, <3>2, <3>3
  <2> QED
    BY <1>7, <1>9, <1>12, <2>1
<1>15. N(lo) >= T - 1 /\ N(hi) >= T - 1
  <2>1. N(lo) = N(x) - 1
    BY <1>5, CutPositions
  <2> QED
    BY <1>3, <1>10, <2>1, DegreeAssumption
<1>16. WE(ns, h, nd, i, 1) = NE(ns, g, lo) \cup {m} \cup NE(ns, g, hi)
  BY <1>4, <1>8, <1>9
<1>17. /\ WB(ns, h, nd, i, 1) = X \cup NB(ns, g, lo) \cup NB(ns, g, hi)
       /\ X \cap NB(ns, g, lo) = {}
       /\ X \cap NB(ns, g, hi) = {}
  BY <1>3, <1>4, <1>8, <1>9
<1>18. Pieces(f, h, nd, i, 1, lo, m, hi, X)
  BY <1>2, <1>7, <1>11, <1>14, <1>15, <1>16, <1>17 DEF Pieces
<1> QED
  BY <1>2, <1>10, <1>12, <1>13, <1>18

(* Two minimal neighbours, joined. *)
LEMMA JoinedWhole ==
  ASSUME Unique, NEW f, Fresh(f), NEW h, NEW nd, NEW i, NEW x, NEW y,
         Neighbours(f, h, nd, i, x, y), N(x) = T - 1, N(y) = T - 1,
         NEW z, z = Joined(x, nd.ents[i], y), NEW X, X = {nd.kids[i], nd.kids[i + 1]}
  PROVE  Whole(f, h, nd, i, z, X) /\ N(z) = 2 * T - 1
<1>1. f.nodes \in Heap
  BY StoreFields DEF Fresh
<1>2. PICK e, ns, g : e = nd.ents[i] /\ ns = f.nodes /\ g = h - 1
  OBVIOUS
<1>3. /\ g \in Nat \ {0}
      /\ x \in Node /\ Filled(x) /\ Sound(ns, g, x)
      /\ y \in Node /\ Filled(y) /\ Sound(ns, g, y)
      /\ x.leaf = y.leaf
      /\ nd.kids[i] \notin NB(ns, g, x) /\ nd.kids[i + 1] \notin NB(ns, g, y)
  BY <1>2 DEF Neighbours, Child
<1>4. /\ e \in Entry
      /\ \A d \in NE(ns, g, x) : Key(d) < Key(e)
      /\ \A d \in NE(ns, g, y) : Key(e) < Key(d)
      /\ nd.kids[i] \notin NB(ns, g, y) /\ nd.kids[i + 1] \notin NB(ns, g, x)
      /\ WE(ns, h, nd, i, 1) = NE(ns, g, x) \cup {e} \cup NE(ns, g, y)
      /\ WB(ns, h, nd, i, 1) =
           {nd.kids[i], nd.kids[i + 1]} \cup NB(ns, g, x) \cup NB(ns, g, y)
  BY <1>2 DEF Neighbours
<1>5. Cut(z, T, x, y) /\ z.ents[T] = e /\ N(z) = T + N(y)
  BY <1>2, <1>3, <1>4, JoinCut
<1>6. N(z) = 2 * T - 1 /\ N(z) <= 2 * T - 1 /\ N(z) >= T - 1
  BY <1>5, DegreeAssumption
<1>7. Sound(ns, g, z)
  BY <1>1, <1>2, <1>3, <1>4, <1>5, <1>6, PasteSound
<1>8. /\ NE(ns, g, z) = NE(ns, g, x) \cup {e} \cup NE(ns, g, y)
      /\ NB(ns, g, z) = NB(ns, g, x) \cup NB(ns, g, y)
  BY <1>5, CutContents
<1>9. /\ WB(ns, h, nd, i, 1) = X \cup NB(ns, g, z)
      /\ X \cap NB(ns, g, z) = {}
  BY <1>3, <1>4, <1>8
<1> QED
  BY <1>2, <1>4, <1>6, <1>7, <1>8, <1>9 DEF Whole

-----------------------------------------------------------------------------
(***************************************************************************)
(* splitChild(), borrowFromPrev(), borrowFromNext() and merge().           *)
(***************************************************************************)

\* A holds the block of node nd, if it has one.
Holds(f, h, A, nd) == A \subseteq 1..Len(f.nodes) /\ A \cap NB(f.nodes, h, nd) = {}

\* Result w of a change to node nd and its children that keeps the entries.
Shifted(f, h, A, nd, w) ==
  /\ \A old : old = A \cup NB(f.nodes, h, nd) => Moved(f, old, h, w, NE(f.nodes, h, nd))
  /\ A \cap B(w.f.nodes, h, w.at) = {}

\* In node nd there is a window from i to i + p.
Opening(f, h, nd, i, p) ==
  Sound(f.nodes, h, nd) /\ ~nd.leaf /\ i \in 1..(N(nd) + 1 - p)

\* Result w is node nd2, and has lo at block b and hi at block c.
Placed(w, nd2, b, lo, c, hi) ==
  w.f.nodes[w.at] = nd2 /\ w.f.nodes[b] = lo /\ w.f.nodes[c] = hi

\* What is to be staged: the blocks X, and A.
Stages(s, A, X) == s \in Seq(Nat) /\ Seqs!ToSet(s) = A \cup X

(* A node is rewritten after two nodes below it. *)
LEMMA TwoShifted ==
  ASSUME Unique, NEW f, Fresh(f), NEW g, NEW h \in Nat \ {0}, NEW nd,
         NEW i, NEW p \in {0, 1}, Opening(f, h, nd, i, p), NEW lo, NEW m, NEW hi, NEW X,
         Pieces(f, h, nd, i, p, lo, m, hi, X), NEW b, NEW c,
         Wrote(f, g, h - 1, lo, b), Wrote(f, g, h - 1, hi, c), Grew(f, g, b, c),
         NEW nd2, Spread(nd, i, p, b, m, c, nd2),
         NEW A, Holds(f, h, A, nd), NEW s, Stages(s, A, X),
         NEW w, w = Freeing(WriteNode(g, nd2), s)
  PROVE  Shifted(f, h, A, nd, w) /\ Placed(w, nd2, b, lo, c, hi)
<1>1. Sound(f.nodes, h, nd) /\ ~nd.leaf /\ i \in 1..(N(nd) + 1 - p)
  BY DEF Opening
<1>2. PICK old, es : old = A \cup NB(f.nodes, h, nd) /\ es = NE(f.nodes, h, nd)
  OBVIOUS
<1>3. Fresh(g)
  <2>1. PICK none, new : none = {} /\ new = none \cup {b, c}
    OBVIOUS
  <2>2. none \in SUBSET (1..Len(f.nodes))
    BY <2>1
  <2>3. Turns(f, none, g, new)
    BY <2>1, <2>2 DEF Grew
  <2> QED
    BY <2>3, TurnsStores
<1>4. Patch(f, g, h, nd, i, p, nd2, 1, X, es)
  BY <1>1, <1>2, <1>3, PatchOfTwo
<1>5. X \subseteq WB(f.nodes, h, nd, i, p)
  BY DEF Pieces
<1>6. Site(f, old, h, nd, i, p, A, X, s)
  BY <1>1, <1>2, <1>5 DEF Site, Holds, Stages
<1>7. Rewritten(f, old, h, A, g, w, nd2, es)
  BY <1>4, <1>6, WindowWritten
<1>8. /\ Moved(f, old, h, w, es)
      /\ w.f.nodes[w.at] = nd2
      /\ A \cap B(w.f.nodes, h, w.at) = {}
      /\ Extends(g.nodes, w.f.nodes)
  BY <1>7 DEF Rewritten
<1>9. Shifted(f, h, A, nd, w)
  BY <1>2, <1>8 DEF Shifted
<1>10. w.f.nodes[b] = lo /\ w.f.nodes[c] = hi
  <2>1. b \in 1..Len(g.nodes) /\ g.nodes[b] = lo /\ c \in 1..Len(g.nodes) /\ g.nodes[c] = hi
    BY DEF Wrote, Ok
  <2> QED
    BY <1>8, <2>1 DEF Extends
<1> QED
  BY <1>8, <1>9, <1>10 DEF Placed

(* A node is rewritten after one node in place of two below it. *)
LEMMA OneShifted ==
  ASSUME Unique, NEW f, Fresh(f), NEW g, NEW h \in Nat \ {0}, NEW nd,
         NEW i, Opening(f, h, nd, i, 1), NEW x, NEW X, Whole(f, h, nd, i, x, X), NEW b,
         Wrote(f, g, h - 1, x, b), Grew(f, g, b, b),
         NEW nd2, Grafted(nd, i, 1, nd2, 0), nd2.kids[i] = b,
         NEW A, Holds(f, h, A, nd), NEW s, Stages(s, A, X),
         NEW w, w = Freeing(WriteNode(g, nd2), s)
  PROVE  Shifted(f, h, A, nd, w) /\ Placed(w, nd2, b, x, b, x)
<1>1. Sound(f.nodes, h, nd) /\ ~nd.leaf /\ i \in 1..(N(nd) + 1 - 1)
  BY DEF Opening
<1>2. PICK old, es : old = A \cup NB(f.nodes, h, nd) /\ es = NE(f.nodes, h, nd)
  OBVIOUS
<1>3. Fresh(g)
  <2>1. PICK none, new : none = {} /\ new = none \cup {b, b}
    OBVIOUS
  <2>2. none \in SUBSET (1..Len(f.nodes))
    BY <2>1
  <2>3. Turns(f, none, g, new)
    BY <2>1, <2>2 DEF Grew
  <2> QED
    BY <2>3, TurnsStores
<1>4. Patch(f, g, h, nd, i, 1, nd2, 0, X, es)
  <2>1. N(nd) \in Nat
    BY <1>1, StoreFields, SoundNode, EntriesOfNode DEF Fresh
  <2>2. i \in 1..N(nd)
    BY <1>1, <2>1
  <2> QED
    BY <1>1, <1>2, <1>3, <2>2, PatchOfOne
<1>5. X \subseteq WB(f.nodes, h, nd, i, 1)
  BY DEF Whole
<1>6. Site(f, old, h, nd, i, 1, A, X, s)
  BY <1>1, <1>2, <1>5 DEF Site, Holds, Stages
<1>7. Rewritten(f, old, h, A, g, w, nd2, es)
  BY <1>4, <1>6, WindowWritten
<1>8. /\ Moved(f, old, h, w, es)
      /\ w.f.nodes[w.at] = nd2
      /\ A \cap B(w.f.nodes, h, w.at) = {}
      /\ Extends(g.nodes, w.f.nodes)
  BY <1>7 DEF Rewritten
<1>9. Shifted(f, h, A, nd, w)
  BY <1>2, <1>8 DEF Shifted
<1>10. w.f.nodes[b] = x
  <2>1. b \in 1..Len(g.nodes) /\ g.nodes[b] = x
    BY DEF Wrote, Ok
  <2> QED
    BY <1>8, <2>1 DEF Extends
<1> QED
  BY <1>8, <1>9, <1>10 DEF Placed

(* Staged sequences as sets. *)
LEMMA StagesOne ==
  ASSUME NEW b, b \in Nat, NEW s, s = <<b>>, NEW A, A = {}, NEW X, X = {b}
  PROVE  Stages(s, A, X)
<1>1. s \in Seq(Nat) /\ Len(s) = 1 /\ s[1] = b
  OBVIOUS
<1>2. Seqs!ToSet(s) = {s[1]}
  BY <1>1 DEF Seqs!ToSet
<1> QED
  BY <1>1, <1>2 DEF Stages

(* The old child and the old node are staged. *)
LEMMA StagesTwo ==
  ASSUME NEW b, b \in Nat, NEW a, a \in Nat,
         NEW s, s = <<b, a>>, NEW A, A = {a}, NEW X, X = {b}
  PROVE  Stages(s, A, X)
<1>1. s \in Seq(Nat) /\ Len(s) = 2 /\ s[1] = b /\ s[2] = a
  OBVIOUS
<1>2. Seqs!ToSet(s) = {s[1], s[2]}
  BY <1>1 DEF Seqs!ToSet
<1> QED
  BY <1>1, <1>2 DEF Stages

(* Two old children and the old node are staged. *)
LEMMA StagesThree ==
  ASSUME NEW b, b \in Nat, NEW c, c \in Nat, NEW a, a \in Nat,
         NEW s, s = <<b, c, a>>, NEW A, A = {a}, NEW X, X = {b, c} \/ X = {c, b}
  PROVE  Stages(s, A, X)
<1>1. s \in Seq(Nat) /\ Len(s) = 3 /\ s[1] = b /\ s[2] = c /\ s[3] = a
  OBVIOUS
<1>2. Seqs!ToSet(s) = {s[1], s[2], s[3]}
  BY <1>1 DEF Seqs!ToSet
<1> QED
  BY <1>1, <1>2 DEF Stages

-----------------------------------------------------------------------------
\* The node at result w is nd with an entry between two minimal children in place
\* of its child i.
HasSplit(w, nd, i, nd2) ==
  /\ nd2 = w.f.nodes[w.at]
  /\ Grafted(nd, i, 0, nd2, 1)
  /\ N(nd2) = N(nd) + 1
  /\ N(w.f.nodes[nd2.kids[i]]) = T - 1
  /\ N(w.f.nodes[nd2.kids[i + 1]]) = T - 1

\* Node nd2 is node nd with the blocks b and c around entry m in place of child i.
SplitInto(nd, i, b, m, c, nd2) ==
  nd2 = Inner(Seqs!InsertAt(nd.ents, i, m),
              Seqs!InsertAt(Seqs!ReplaceAt(nd.kids, i, b), i + 1, c))

(* A node has the two halves of a child around its median, where the child was. *)
LEMMA SplitSpread ==
  ASSUME NEW nd \in Node, Filled(nd), ~nd.leaf, N(nd) <= 2 * T - 2, NEW i, i \in 1..(N(nd) + 1),
         NEW m, m \in Entry, NEW b, b \in Nat, NEW c, c \in Nat,
         NEW nd2, SplitInto(nd, i, b, m, c, nd2)
  PROVE  Spread(nd, i, 0, b, m, c, nd2) /\ N(nd2) = N(nd) + 1
<1>1. nd2 = Inner(Seqs!InsertAt(nd.ents, i, m),
                  Seqs!InsertAt(Seqs!ReplaceAt(nd.kids, i, b), i + 1, c))
  BY DEF SplitInto
<1>2. /\ Grafted(nd, i, 0, nd2, 1)
      /\ nd2.ents[i] = m
      /\ nd2.kids[i] = b
      /\ nd2.kids[i + 1] = c
      /\ N(nd2) = N(nd) + 1
  BY <1>1, GraftSplit
<1>3. N(nd) \in Nat
  BY EntriesOfNode
<1>4. N(nd2) <= 2 * T - 1
  BY <1>2, <1>3, DegreeAssumption
<1> QED
  BY <1>2, <1>4 DEF Spread

(* splitChild() on a full child. *)
LEMMA SplitShifts ==
  ASSUME Unique, NEW f, Fresh(f), NEW h \in Nat \ {0}, NEW nd,
         Sound(f.nodes, h, nd), ~nd.leaf, N(nd) <= 2 * T - 2,
         NEW i, i \in 1..(N(nd) + 1), N(f.nodes[nd.kids[i]]) = 2 * T - 1,
         NEW at \in Nat, NEW A, A = IF at = NoBlock THEN {} ELSE {at}, Holds(f, h, A, nd),
         NEW w, w = SplitChild(f, nd, at, i)
  PROVE  Shifted(f, h, A, nd, w) /\ HasSplit(w, nd, i, w.f.nodes[w.at])
<1>1. f.nodes \in Heap
  BY StoreFields DEF Fresh
<1>2. nd \in Node /\ Filled(nd) /\ N(nd) \in Nat /\ i \in Nat /\ i \in 1..(N(nd) + 1 - 0)
  BY <1>1, SoundNode, EntriesOfNode
<1>3. PICK y, lo, hi, m, X, b, c, r, g, nd2, s :
        /\ y = f.nodes[nd.kids[i]]
        /\ lo = LowerHalf(y) /\ hi = UpperHalf(y) /\ m = y.ents[T]
        /\ X = {nd.kids[i]}
        /\ r = WriteTwo(f, hi, lo) /\ g = r.f /\ c = r.at[1] /\ b = r.at[2]
        /\ nd2 = Inner(Seqs!InsertAt(nd.ents, i, m),
                       Seqs!InsertAt(Seqs!ReplaceAt(nd.kids, i, b), i + 1, c))
        /\ s = IF at = NoBlock THEN <<nd.kids[i]>> ELSE <<nd.kids[i], at>>
  OBVIOUS
<1>4. Child(f, h, nd, i, y)
  BY <1>2, <1>3, ChildOfNode
<1>5. h - 1 \in Nat \ {0} /\ nd.kids[i] \in Nat /\ Filled(y) /\ y \in Node /\ N(y) = 2 * T - 1
  BY <1>3, <1>4 DEF Child
<1>6. Pieces(f, h, nd, i, 0, lo, m, hi, X) /\ m \in Entry
  BY <1>2, <1>3, <1>4, <1>5, SplitPieces
<1>7. Sound(f.nodes, h - 1, lo) /\ Sound(f.nodes, h - 1, hi)
  BY <1>6 DEF Pieces
<1>8. Wrote(f, g, h - 1, hi, c) /\ Wrote(f, g, h - 1, lo, b) /\ Grew(f, g, c, b)
  <2>1. PICK k : k = h - 1
    OBVIOUS
  <2>2. k \in Nat \ {0} /\ Sound(f.nodes, k, lo) /\ Sound(f.nodes, k, hi)
    BY <1>5, <1>7, <2>1
  <2>3. Wrote(f, r.f, k, hi, r.at[1])
    BY <1>3, <2>2, TwoWritten
  <2>4. Wrote(f, r.f, k, lo, r.at[2])
    BY <1>3, <2>2, TwoWritten
  <2>5. Grew(f, r.f, r.at[1], r.at[2])
    BY <1>3, <2>2, TwoWritten
  <2> QED
    BY <1>3, <2>1, <2>3, <2>4, <2>5
<1>9. Grew(f, g, b, c) /\ b \in Nat /\ c \in Nat
  BY <1>8, GrewEither DEF Wrote
<1>10. Spread(nd, i, 0, b, m, c, nd2) /\ N(nd2) = N(nd) + 1
  <2>1. SplitInto(nd, i, b, m, c, nd2)
    BY <1>3 DEF SplitInto
  <2> QED
    BY <1>2, <1>6, <1>9, <2>1, SplitSpread
<1>11. Opening(f, h, nd, i, 0)
  BY <1>2 DEF Opening
<1>12. Stages(s, A, X)
  <2>1. CASE at = NoBlock
    <3>1. s = <<nd.kids[i]>> /\ A = {}
      BY <1>3, <2>1
    <3> QED
      BY <1>3, <1>5, <3>1, StagesOne
  <2>2. CASE at # NoBlock
    <3>1. s = <<nd.kids[i], at>> /\ A = {at}
      BY <1>3, <2>2
    <3> QED
      BY <1>3, <1>5, <3>1, StagesTwo
  <2> QED
    BY <2>1, <2>2
<1>13. w = Freeing(WriteNode(g, nd2), s)
  BY <1>3 DEF SplitChild, WriteSplit, ReadNode
<1>14. Shifted(f, h, A, nd, w)
  BY <1>6, <1>8, <1>9, <1>10, <1>11, <1>12, <1>13, TwoShifted
<1>15. Placed(w, nd2, b, lo, c, hi)
  BY <1>6, <1>8, <1>9, <1>10, <1>11, <1>12, <1>13, TwoShifted
<1>16. N(lo) = T - 1 /\ N(hi) = T - 1
  <2>1. Cut(y, T, lo, hi)
    BY <1>3, <1>5, SplitCut
  <2>2. N(lo) = T - 1 /\ N(hi) = N(y) - T
    BY <2>1, CutPositions
  <2> QED
    BY <1>5, <2>2, DegreeAssumption
<1> QED
  BY <1>10, <1>14, <1>16, <1>15 DEF HasSplit, Placed, Spread

-----------------------------------------------------------------------------
\* Node nd2 is node nd with entry e at m and the blocks b and c beside it.
Shuffled(nd, m, e, b, c, nd2) ==
  \/ nd2 = WithKid(WithKid(WithEntry(nd, m, e), m, b), m + 1, c)
  \/ nd2 = WithKid(WithKid(WithEntry(nd, m, e), m + 1, c), m, b)

(* A node has two new children around another entry, where two children were. *)
LEMMA ShuffledSpread ==
  ASSUME NEW nd \in Node, Filled(nd), ~nd.leaf, N(nd) <= 2 * T - 1, NEW m, m \in 1..N(nd),
         NEW e, e \in Entry, NEW b, b \in Nat, NEW c, c \in Nat, NEW nd2,
         Shuffled(nd, m, e, b, c, nd2)
  PROVE  Spread(nd, m, 1, b, e, c, nd2) /\ N(nd2) = N(nd)
<1>1. N(nd) \in Nat /\ m \in Nat /\ m # m + 1
  BY EntriesOfNode
<1>2. /\ Grafted(nd, m, 1, nd2, 1)
      /\ nd2.ents[m] = e
      /\ nd2.kids[m] = b
      /\ nd2.kids[m + 1] = c
      /\ N(nd2) = N(nd)
  <2>1. PICK j : j = m + 1
    OBVIOUS
  <2>2. CASE nd2 = WithKid(WithKid(WithEntry(nd, m, e), m, b), m + 1, c)
    <3>1. nd2 = WithKid(WithKid(WithEntry(nd, m, e), m, b), j, c)
      BY <2>1, <2>2
    <3> QED
      BY <1>1, <2>1, <3>1, GraftTwo
  <2>3. CASE nd2 = WithKid(WithKid(WithEntry(nd, m, e), m + 1, c), m, b)
    <3>1. nd2 = WithKid(WithKid(WithEntry(nd, m, e), j, c), m, b)
      BY <2>1, <2>3
    <3> QED
      BY <1>1, <2>1, <3>1, GraftTwo
  <2> QED
    BY <2>2, <2>3 DEF Shuffled
<1> QED
  BY <1>2 DEF Spread

\* The node at result w has a child that key k belongs to, with an entry to spare.
Room(w, nd2, j, k) ==
  /\ nd2 = w.f.nodes[w.at]
  /\ ~nd2.leaf
  /\ j \in 1..(N(nd2) + 1)
  /\ Admits(nd2, j, 0, k)
  /\ N(w.f.nodes[nd2.kids[j]]) >= T

(* Where a key belongs in a node with another entry between two children.  *)
LEMMA AdmitsMoved ==
  ASSUME NEW nd \in Node, Filled(nd), NEW m, m \in 1..N(nd), NEW nd2, NEW b, NEW c, NEW e,
         Spread(nd, m, 1, b, e, c, nd2), NEW k \in Int, Key(e) \in Int, Key(nd.ents[m]) \in Int
  PROVE  /\ Key(e) < Key(nd.ents[m]) /\ Admits(nd, m + 1, 0, k) => Admits(nd2, m + 1, 0, k)
         /\ Key(nd.ents[m]) < Key(e) /\ Admits(nd, m, 0, k) => Admits(nd2, m, 0, k)
<1>1. N(nd) \in Nat /\ m \in Nat
  BY EntriesOfNode
<1>2. /\ N(nd2) = N(nd) - 1 + 1
      /\ \A j \in 1..(m - 1) : nd2.ents[j] = nd.ents[j]
      /\ nd2.ents[m] = e
  BY DEF Spread, Grafted
<1>3. N(nd2) = N(nd)
  BY <1>1, <1>2
<1>4. ASSUME NEW j \in (m + 1)..N(nd) PROVE nd2.ents[j] = nd.ents[j]
  <2>1. nd2.ents[j - 1 + 1] = nd.ents[j]
    BY DEF Spread, Grafted
  <2>2. j - 1 + 1 = j
    BY <1>1
  <2> QED
    BY <2>1, <2>2
<1>5. ASSUME Key(e) < Key(nd.ents[m]), Admits(nd, m + 1, 0, k)
      PROVE  Admits(nd2, m + 1, 0, k)
  <2>1. ASSUME NEW j \in 1..(m + 1 - 1) PROVE Key(nd2.ents[j]) < k
    <3>1. Key(nd.ents[j]) < k
      BY <1>5 DEF Admits
    <3>2. CASE j = m
      BY <1>2, <1>5, <3>1, <3>2
    <3>3. CASE j # m
      BY <1>1, <1>2, <3>1, <3>3
    <3> QED
      BY <3>2, <3>3
  <2>2. ASSUME NEW j \in (m + 1 + 0)..N(nd2) PROVE k < Key(nd2.ents[j])
    <3>1. j \in (m + 1)..N(nd) /\ j \in (m + 1 + 0)..N(nd)
      BY <1>1, <1>3
    <3>2. k < Key(nd.ents[j])
      BY <1>5, <3>1 DEF Admits
    <3> QED
      BY <1>4, <3>1, <3>2
  <2> QED
    BY <2>1, <2>2 DEF Admits
<1>6. ASSUME Key(nd.ents[m]) < Key(e), Admits(nd, m, 0, k)
      PROVE  Admits(nd2, m, 0, k)
  <2>1. ASSUME NEW j \in 1..(m - 1) PROVE Key(nd2.ents[j]) < k
    <3>1. Key(nd.ents[j]) < k
      BY <1>6 DEF Admits
    <3> QED
      BY <1>2, <3>1
  <2>2. ASSUME NEW j \in (m + 0)..N(nd2) PROVE k < Key(nd2.ents[j])
    <3>1. j \in (m + 0)..N(nd)
      BY <1>3
    <3>2. k < Key(nd.ents[j])
      BY <1>6, <3>1 DEF Admits
    <3>3. CASE j = m
      BY <1>2, <1>6, <3>2, <3>3
    <3>4. CASE j # m
      <4>1. j \in (m + 1)..N(nd)
        BY <1>1, <3>1, <3>4
      <4> QED
        BY <1>4, <3>2, <4>1
    <3> QED
      BY <3>3, <3>4
  <2> QED
    BY <2>1, <2>2 DEF Admits
<1> QED
  BY <1>5, <1>6

(* borrowFromPrev(). *)
LEMMA PrevShifts ==
  ASSUME Unique, NEW f, Fresh(f), NEW h \in Nat \ {0}, NEW nd,
         NEW m, Opening(f, h, nd, m, 1), NEW i, i = m + 1,
         N(f.nodes[nd.kids[m]]) >= T, N(f.nodes[nd.kids[i]]) = T - 1,
         NEW k \in Int, Admits(nd, i, 0, k),
         NEW at \in Nat, NEW A, A = {at}, Holds(f, h, A, nd),
         NEW w, w = BorrowFromPrev(f, nd, at, i)
  PROVE  /\ Shifted(f, h, A, nd, w)
         /\ Keeps(w, nd)
         /\ Room(w, w.f.nodes[w.at], i, k)
<1>1. Sound(f.nodes, h, nd) /\ ~nd.leaf /\ m \in 1..(N(nd) + 1 - 1)
  BY DEF Opening
<1>2. f.nodes \in Heap
  BY StoreFields DEF Fresh
<1>3. /\ nd \in Node /\ Filled(nd) /\ N(nd) \in Nat /\ m \in 1..N(nd) /\ N(nd) <= 2 * T - 1
      /\ m \in Nat /\ i - 1 = m
  BY <1>1, <1>2, SoundNode, EntriesOfNode DEF Sound
<1>4. PICK x, y, lo, hi, e, X, r, g, b, c, nd2, s, nde :
        /\ x = f.nodes[nd.kids[m]] /\ y = f.nodes[nd.kids[m + 1]]
        /\ lo = Curtailed(x) /\ hi = Prepended(y, nd.ents[m], Seqs!Last(x.kids))
        /\ e = Seqs!Last(x.ents)
        /\ X = {nd.kids[m], nd.kids[m + 1]}
        /\ r = WriteTwo(f, hi, lo) /\ g = r.f /\ c = r.at[1] /\ b = r.at[2]
        /\ nde = WithEntry(nd, m, e)
        /\ nd2 = WithKid(WithKid(nde, m + 1, c), m, b)
        /\ s = <<nd.kids[m + 1], nd.kids[m], at>>
  OBVIOUS
<1>5. Neighbours(f, h, nd, m, x, y)
  BY <1>1, <1>3, <1>4, NeighboursOfNode
<1>6. N(x) >= T /\ N(y) = T - 1
  BY <1>4
<1>7. Pieces(f, h, nd, m, 1, lo, e, hi, X)
  BY <1>4, <1>5, <1>6, PrevPieces
<1>8. e \in Entry /\ Key(e) < Key(nd.ents[m]) /\ N(hi) = T
  BY <1>4, <1>5, <1>6, PrevPieces
<1>9. Sound(f.nodes, h - 1, lo) /\ Sound(f.nodes, h - 1, hi) /\ h - 1 \in Nat \ {0}
      /\ nd.kids[m] \in Nat /\ nd.kids[m + 1] \in Nat /\ nd.ents[m] \in Entry
  BY <1>5, <1>7 DEF Pieces, Neighbours, Child
<1>10. Wrote(f, g, h - 1, hi, c) /\ Wrote(f, g, h - 1, lo, b) /\ Grew(f, g, c, b)
  <2>1. PICK j : j = h - 1
    OBVIOUS
  <2>2. j \in Nat \ {0} /\ Sound(f.nodes, j, lo) /\ Sound(f.nodes, j, hi)
    BY <1>9, <2>1
  <2>3. Wrote(f, r.f, j, hi, r.at[1])
    BY <1>4, <2>2, TwoWritten
  <2>4. Wrote(f, r.f, j, lo, r.at[2])
    BY <1>4, <2>2, TwoWritten
  <2>5. Grew(f, r.f, r.at[1], r.at[2])
    BY <1>4, <2>2, TwoWritten
  <2> QED
    BY <1>4, <2>1, <2>3, <2>4, <2>5
<1>11. Grew(f, g, b, c) /\ b \in Nat /\ c \in Nat
  BY <1>10, GrewEither DEF Wrote
<1>12. Spread(nd, m, 1, b, e, c, nd2) /\ N(nd2) = N(nd)
  <2>1. Shuffled(nd, m, e, b, c, nd2)
    BY <1>4 DEF Shuffled
  <2>2. Spread(nd, m, 1, b, e, c, nd2)
    BY <1>1, <1>3, <1>8, <1>11, <2>1, ShuffledSpread
  <2>3. N(nd2) = N(nd) - 1 + 1
    BY <2>2 DEF Spread, Grafted
  <2> QED
    BY <1>3, <2>2, <2>3
<1>13. Stages(s, A, X)
  BY <1>4, <1>9, StagesThree
<1>14. w = Freeing(WriteNode(g, nd2), s)
  <2>1. nde.kids = nd.kids
    <3>1. EntryReplaced(nd, m, e, nde)
      BY <1>3, <1>4, <1>8, OtherEntry
    <3> QED
      BY <3>1 DEF EntryReplaced
  <2>2. w = RewriteTwo(f, nde, at, m + 1, hi, m, lo)
    BY <1>3, <1>4 DEF BorrowFromPrev, ReadNode
  <2> QED
    BY <1>4, <2>1, <2>2 DEF RewriteTwo, WriteParent
<1>15. Shifted(f, h, A, nd, w)
  BY <1>7, <1>10, <1>11, <1>12, <1>13, <1>14, TwoShifted
<1>16. Placed(w, nd2, b, lo, c, hi)
  BY <1>7, <1>10, <1>11, <1>12, <1>13, <1>14, TwoShifted
<1>17. Keeps(w, nd)
  BY <1>12, <1>16 DEF Placed, Keeps
<1>18. Admits(nd2, m + 1, 0, k)
  <2>1. Key(e) \in Int /\ Key(nd.ents[m]) \in Int
    BY <1>8, <1>9, Order
  <2> QED
    BY <1>3, <1>8, <1>12, <2>1, AdmitsMoved
<1>19. nd2 = w.f.nodes[w.at] /\ nd2.kids[m + 1] = c /\ w.f.nodes[c] = hi /\ ~nd2.leaf
  BY <1>12, <1>16 DEF Placed, Spread, Grafted
<1>20. Room(w, nd2, i, k)
  <2>1. i \in 1..(N(nd2) + 1)
    BY <1>3, <1>12
  <2>2. N(w.f.nodes[nd2.kids[i]]) >= T
    <3>1. w.f.nodes[nd2.kids[i]] = hi
      BY <1>19
    <3>2. N(hi) = T
      BY <1>8
    <3>3. N(w.f.nodes[nd2.kids[i]]) = T
      BY <3>1, <3>2
    <3> QED
      BY <3>3, DegreeAssumption
  <2>3. Admits(nd2, i, 0, k)
    BY <1>18
  <2> QED
    BY <1>19, <2>1, <2>2, <2>3 DEF Room
<1> QED
  BY <1>15, <1>17, <1>19, <1>20

(* borrowFromNext(). *)
LEMMA NextShifts ==
  ASSUME Unique, NEW f, Fresh(f), NEW h \in Nat \ {0}, NEW nd,
         NEW m, Opening(f, h, nd, m, 1), NEW i, i = m,
         N(f.nodes[nd.kids[i]]) = T - 1, N(f.nodes[nd.kids[m + 1]]) >= T,
         NEW k \in Int, Admits(nd, i, 0, k),
         NEW at \in Nat, NEW A, A = {at}, Holds(f, h, A, nd),
         NEW w, w = BorrowFromNext(f, nd, at, i)
  PROVE  /\ Shifted(f, h, A, nd, w)
         /\ Keeps(w, nd)
         /\ Room(w, w.f.nodes[w.at], i, k)
<1>1. Sound(f.nodes, h, nd) /\ ~nd.leaf /\ m \in 1..(N(nd) + 1 - 1)
  BY DEF Opening
<1>2. f.nodes \in Heap
  BY StoreFields DEF Fresh
<1>3. /\ nd \in Node /\ Filled(nd) /\ N(nd) \in Nat /\ m \in 1..N(nd) /\ N(nd) <= 2 * T - 1
      /\ m \in Nat
  BY <1>1, <1>2, SoundNode, EntriesOfNode DEF Sound
<1>4. PICK x, y, lo, hi, e, X, r, g, b, c, nd2, s, nde :
        /\ x = f.nodes[nd.kids[m]] /\ y = f.nodes[nd.kids[m + 1]]
        /\ lo = Extended(x, nd.ents[m], Head(y.kids)) /\ hi = Beheaded(y)
        /\ e = Head(y.ents)
        /\ X = {nd.kids[m], nd.kids[m + 1]}
        /\ r = WriteTwo(f, lo, hi) /\ g = r.f /\ b = r.at[1] /\ c = r.at[2]
        /\ nde = WithEntry(nd, m, e)
        /\ nd2 = WithKid(WithKid(nde, m, b), m + 1, c)
        /\ s = <<nd.kids[m], nd.kids[m + 1], at>>
  OBVIOUS
<1>5. Neighbours(f, h, nd, m, x, y)
  BY <1>1, <1>3, <1>4, NeighboursOfNode
<1>6. N(x) = T - 1 /\ N(y) >= T
  BY <1>4
<1>7. Pieces(f, h, nd, m, 1, lo, e, hi, X)
  <2>1. lo = Extended(x, nd.ents[m], Head(y.kids)) /\ hi = Beheaded(y) /\ e = Head(y.ents)
    BY <1>4
  <2>2. X = {nd.kids[m], nd.kids[m + 1]}
    BY <1>4
  <2> QED
    BY <1>5, <1>6, <2>1, <2>2, NextPieces
<1>8. e \in Entry /\ Key(nd.ents[m]) < Key(e) /\ N(lo) = T
  <2>1. lo = Extended(x, nd.ents[m], Head(y.kids)) /\ hi = Beheaded(y) /\ e = Head(y.ents)
    BY <1>4
  <2>2. X = {nd.kids[m], nd.kids[m + 1]}
    BY <1>4
  <2>3. e \in Entry
    BY <1>5, <1>6, <2>1, <2>2, NextPieces
  <2>4. Key(nd.ents[m]) < Key(e)
    BY <1>5, <1>6, <2>1, <2>2, NextPieces
  <2>5. N(lo) = T
    BY <1>5, <1>6, <2>1, <2>2, NextPieces
  <2> QED
    BY <2>3, <2>4, <2>5
<1>9. Sound(f.nodes, h - 1, lo) /\ Sound(f.nodes, h - 1, hi) /\ h - 1 \in Nat \ {0}
      /\ nd.kids[m] \in Nat /\ nd.kids[m + 1] \in Nat /\ nd.ents[m] \in Entry
  BY <1>5, <1>7 DEF Pieces, Neighbours, Child
<1>10. Wrote(f, g, h - 1, hi, c) /\ Wrote(f, g, h - 1, lo, b) /\ Grew(f, g, b, c)
  <2>1. PICK j : j = h - 1
    OBVIOUS
  <2>2. j \in Nat \ {0} /\ Sound(f.nodes, j, lo) /\ Sound(f.nodes, j, hi)
    BY <1>9, <2>1
  <2>3. Wrote(f, r.f, j, lo, r.at[1])
    BY <1>4, <2>2, TwoWritten
  <2>4. Wrote(f, r.f, j, hi, r.at[2])
    BY <1>4, <2>2, TwoWritten
  <2>5. Grew(f, r.f, r.at[1], r.at[2])
    BY <1>4, <2>2, TwoWritten
  <2> QED
    BY <1>4, <2>1, <2>3, <2>4, <2>5
<1>11. Grew(f, g, b, c) /\ b \in Nat /\ c \in Nat
  BY <1>10 DEF Wrote
<1>12. Spread(nd, m, 1, b, e, c, nd2) /\ N(nd2) = N(nd)
  <2>1. Shuffled(nd, m, e, b, c, nd2)
    BY <1>4 DEF Shuffled
  <2>2. Spread(nd, m, 1, b, e, c, nd2)
    BY <1>1, <1>3, <1>8, <1>11, <2>1, ShuffledSpread
  <2>3. N(nd2) = N(nd) - 1 + 1
    BY <2>2 DEF Spread, Grafted
  <2> QED
    BY <1>3, <2>2, <2>3
<1>13. Stages(s, A, X)
  BY <1>4, <1>9, StagesThree
<1>14. w = Freeing(WriteNode(g, nd2), s)
  <2>1. nde.kids = nd.kids
    <3>1. EntryReplaced(nd, m, e, nde)
      BY <1>3, <1>4, <1>8, OtherEntry
    <3> QED
      BY <3>1 DEF EntryReplaced
  <2>2. w = RewriteTwo(f, nde, at, m, lo, m + 1, hi)
    BY <1>3, <1>4 DEF BorrowFromNext, ReadNode
  <2> QED
    BY <1>4, <2>1, <2>2 DEF RewriteTwo, WriteParent
<1>15. Shifted(f, h, A, nd, w)
  BY <1>7, <1>10, <1>11, <1>12, <1>13, <1>14, TwoShifted
<1>16. Placed(w, nd2, b, lo, c, hi)
  BY <1>7, <1>10, <1>11, <1>12, <1>13, <1>14, TwoShifted
<1>17. Keeps(w, nd)
  BY <1>12, <1>16 DEF Placed, Keeps
<1>18. Admits(nd2, m, 0, k)
  <2>1. Key(e) \in Int /\ Key(nd.ents[m]) \in Int
    BY <1>8, <1>9, Order
  <2> QED
    BY <1>3, <1>8, <1>12, <2>1, AdmitsMoved
<1>19. nd2 = w.f.nodes[w.at] /\ nd2.kids[m] = b /\ w.f.nodes[b] = lo /\ ~nd2.leaf
  BY <1>12, <1>16 DEF Placed, Spread, Grafted
<1>20. Room(w, nd2, i, k)
  <2>1. i \in 1..(N(nd2) + 1)
    BY <1>3, <1>12
  <2>2. N(w.f.nodes[nd2.kids[i]]) >= T
    BY <1>3, <1>8, <1>19, DegreeAssumption
  <2>3. Admits(nd2, i, 0, k)
    BY <1>18
  <2> QED
    BY <1>19, <2>1, <2>2, <2>3 DEF Room
<1> QED
  BY <1>15, <1>17, <1>19, <1>20

(* Where a key belongs in a node with one child in place of two. *)
LEMMA AdmitsMerged ==
  ASSUME NEW nd \in Node, Filled(nd), NEW m, m \in 1..N(nd), NEW nd2,
         Grafted(nd, m, 1, nd2, 0), NEW k, Admits(nd, m, 1, k)
  PROVE  Admits(nd2, m, 0, k)
<1>1. N(nd) \in Nat /\ m \in Nat
  BY EntriesOfNode
<1>2. /\ N(nd2) = N(nd) - 1 + 0
      /\ \A j \in 1..(m - 1) : nd2.ents[j] = nd.ents[j]
  BY DEF Grafted
<1>3. ASSUME NEW j \in 1..(m - 1) PROVE Key(nd2.ents[j]) < k
  BY <1>2 DEF Admits
<1>4. ASSUME NEW j \in (m + 0)..N(nd2) PROVE k < Key(nd2.ents[j])
  <2>1. PICK l : l = j + 1
    OBVIOUS
  <2>2. l \in (m + 1)..N(nd) /\ l - 1 + 0 = j
    BY <1>1, <1>2, <2>1
  <2>3. nd2.ents[l - 1 + 0] = nd.ents[l]
    BY <2>2 DEF Grafted
  <2>4. k < Key(nd.ents[l])
    BY <2>2 DEF Admits
  <2> QED
    BY <2>2, <2>3, <2>4
<1> QED
  BY <1>3, <1>4 DEF Admits

\* Node nd2 is node nd without its entry m, over block b in place of two children.
MergedInto(nd, m, b, nd2) ==
  nd2 = Inner(Seqs!RemoveAt(nd.ents, m), Seqs!RemoveAt(Seqs!ReplaceAt(nd.kids, m, b), m + 1))

(* A node has one child where it had two and an entry. *)
LEMMA MergedGraft ==
  ASSUME NEW nd \in Node, Filled(nd), ~nd.leaf, NEW m, m \in 1..N(nd),
         NEW b, b \in Nat, NEW nd2, MergedInto(nd, m, b, nd2)
  PROVE  Grafted(nd, m, 1, nd2, 0) /\ nd2.kids[m] = b
<1>1. nd2 = Inner(Seqs!RemoveAt(nd.ents, m),
                  Seqs!RemoveAt(Seqs!ReplaceAt(nd.kids, m, b), m + 1))
  BY DEF MergedInto
<1> QED
  BY <1>1, GraftMerge

(* merge(). *)
LEMMA MergeShifts ==
  ASSUME Unique, NEW f, Fresh(f), NEW h \in Nat \ {0}, NEW nd,
         NEW m, Opening(f, h, nd, m, 1),
         N(f.nodes[nd.kids[m]]) = T - 1, N(f.nodes[nd.kids[m + 1]]) = T - 1,
         NEW k \in Int, Admits(nd, m, 1, k),
         NEW at \in Nat, NEW A, A = {at}, Holds(f, h, A, nd),
         NEW w, w = Merge(f, nd, at, m)
  PROVE  /\ Shifted(f, h, A, nd, w)
         /\ N(w.f.nodes[w.at]) = N(nd) - 1
         /\ Room(w, w.f.nodes[w.at], m, k)
<1>1. Sound(f.nodes, h, nd) /\ ~nd.leaf /\ m \in 1..(N(nd) + 1 - 1)
  BY DEF Opening
<1>2. f.nodes \in Heap
  BY StoreFields DEF Fresh
<1>3. /\ nd \in Node /\ Filled(nd) /\ N(nd) \in Nat /\ m \in 1..N(nd) /\ m \in Nat
  BY <1>1, <1>2, SoundNode, EntriesOfNode DEF Sound
<1>4. PICK x, y, z, X, r, g, b, nd2, s :
        /\ x = f.nodes[nd.kids[m]] /\ y = f.nodes[nd.kids[m + 1]]
        /\ z = Joined(x, nd.ents[m], y)
        /\ X = {nd.kids[m], nd.kids[m + 1]}
        /\ r = WriteNode(f, z) /\ g = r.f /\ b = r.at
        /\ nd2 = Inner(Seqs!RemoveAt(nd.ents, m),
                       Seqs!RemoveAt(Seqs!ReplaceAt(nd.kids, m, b), m + 1))
        /\ s = <<nd.kids[m], nd.kids[m + 1], at>>
  OBVIOUS
<1>5. Neighbours(f, h, nd, m, x, y)
  BY <1>1, <1>3, <1>4, NeighboursOfNode
<1>6. N(x) = T - 1 /\ N(y) = T - 1
  BY <1>4
<1>7. Whole(f, h, nd, m, z, X)
  BY <1>4, <1>5, <1>6, JoinedWhole
<1>8. N(z) = 2 * T - 1
  BY <1>4, <1>5, <1>6, JoinedWhole
<1>9. Sound(f.nodes, h - 1, z) /\ h - 1 \in Nat \ {0}
      /\ nd.kids[m] \in Nat /\ nd.kids[m + 1] \in Nat
  BY <1>5, <1>7 DEF Whole, Neighbours, Child
<1>10. Wrote(f, g, h - 1, z, b) /\ Grew(f, g, b, b)
  <2>1. PICK j : j = h - 1
    OBVIOUS
  <2>2. j \in Nat \ {0} /\ Sound(f.nodes, j, z)
    BY <1>9, <2>1
  <2>3. Wrote(f, r.f, j, z, r.at)
    BY <1>4, <2>2, OneWritten
  <2>4. Grew(f, r.f, r.at, r.at)
    BY <1>4, <2>2, OneWritten
  <2> QED
    BY <1>4, <2>1, <2>3, <2>4
<1>11. Grafted(nd, m, 1, nd2, 0) /\ nd2.kids[m] = b
  <2>1. MergedInto(nd, m, b, nd2)
    BY <1>4 DEF MergedInto
  <2>2. b \in Nat
    BY <1>10 DEF Wrote
  <2> QED
    BY <1>1, <1>3, <2>1, <2>2, MergedGraft
<1>12. N(nd2) = N(nd) - 1 /\ ~nd2.leaf
  <2>1. N(nd2) = N(nd) - 1 + 0 /\ ~nd2.leaf
    BY <1>11 DEF Grafted
  <2> QED
    BY <1>3, <2>1
<1>13. Stages(s, A, X)
  BY <1>4, <1>9, StagesThree
<1>14. w = Freeing(WriteNode(g, nd2), s)
  BY <1>4 DEF Merge, WriteMerged, ReadNode
<1>15. Shifted(f, h, A, nd, w)
  BY <1>7, <1>10, <1>11, <1>13, <1>14, OneShifted
<1>16. Placed(w, nd2, b, z, b, z)
  BY <1>7, <1>10, <1>11, <1>13, <1>14, OneShifted
<1>17. Admits(nd2, m, 0, k)
  BY <1>3, <1>11, AdmitsMerged
<1>18. nd2 = w.f.nodes[w.at] /\ w.f.nodes[b] = z
  BY <1>16 DEF Placed
<1>19. Room(w, nd2, m, k)
  <2>1. m \in 1..(N(nd2) + 1)
    BY <1>3, <1>12
  <2>2. N(w.f.nodes[nd2.kids[m]]) >= T
    BY <1>8, <1>11, <1>18, DegreeAssumption
  <2> QED
    BY <1>12, <1>17, <1>18, <2>1, <2>2 DEF Room
<1> QED
  BY <1>12, <1>15, <1>18, <1>19

-----------------------------------------------------------------------------
(***************************************************************************)
(* The place of a key in a node.                                           *)
(***************************************************************************)

\* Position i is the one of key k in a node, or of the child where it belongs.
PlaceOf(nd, k, i) ==
  /\ i \in 1..(N(nd) + 1)
  /\ ~HasKeyAt(nd, i, k) => Admits(nd, i, 0, k)
  /\ HasKeyAt(nd, i, k) => i \in 1..N(nd) /\ Key(nd.ents[i]) = k /\ Admits(nd, i, 1, k)

(* findKey() stops at the key, or where it belongs. *)
LEMMA KeyPlace ==
  ASSUME Unique, NEW ns \in Heap, NEW h \in Nat \ {0}, NEW nd, Sound(ns, h, nd), NEW k \in Int,
         NEW i, i = FindKey(nd, k)
  PROVE  PlaceOf(nd, k, i)
<1>1. /\ N(nd) \in Nat
      /\ \A j \in 1..N(nd) : Key(nd.ents[j]) \in Int
      /\ \A j, l \in 1..N(nd) : j < l => Key(nd.ents[j]) < Key(nd.ents[l])
  BY KeysOfNode
<1>2. \E j \in 1..(N(nd) + 1) :
        /\ \A l \in 1..(j - 1) : Key(nd.ents[l]) < k
        /\ j <= N(nd) => Key(nd.ents[j]) >= k
  <2>1. PICK S : S = {j \in 1..(N(nd) + 1) : j <= N(nd) => Key(nd.ents[j]) >= k}
    OBVIOUS
  <2>2. N(nd) + 1 \in S /\ S \in SUBSET Nat
    BY <1>1, <2>1
  <2>3. PICK j \in S : \A l \in S : j <= l
    BY <2>2, LeastElement
  <2>4. ASSUME NEW l \in 1..(j - 1) PROVE Key(nd.ents[l]) < k
    <3>1. j \in 1..(N(nd) + 1) /\ l \in 1..N(nd) /\ l \notin S
      BY <1>1, <2>1, <2>2, <2>3
    <3> QED
      BY <1>1, <2>1, <3>1
  <2> QED
    BY <2>1, <2>3, <2>4
<1>3. /\ i \in 1..(N(nd) + 1)
      /\ \A l \in 1..(i - 1) : Key(nd.ents[l]) < k
      /\ i <= N(nd) => Key(nd.ents[i]) >= k
  BY <1>2 DEF FindKey
<1>4. ASSUME ~HasKeyAt(nd, i, k) PROVE Admits(nd, i, 0, k)
  <2>1. ASSUME NEW j \in (i + 0)..N(nd) PROVE k < Key(nd.ents[j])
    <3>1. i \in 1..N(nd) /\ j \in 1..N(nd) /\ Key(nd.ents[i]) # k
      BY <1>1, <1>3, <1>4 DEF HasKeyAt
    <3>2. k < Key(nd.ents[i])
      BY <1>1, <1>3, <3>1
    <3> QED
      BY <1>1, <3>1, <3>2
  <2> QED
    BY <1>3, <2>1 DEF Admits
<1>5. ASSUME HasKeyAt(nd, i, k)
      PROVE  i \in 1..N(nd) /\ Key(nd.ents[i]) = k /\ Admits(nd, i, 1, k)
  <2>1. i \in 1..N(nd) /\ Key(nd.ents[i]) = k
    BY <1>1, <1>3, <1>5 DEF HasKeyAt
  <2>2. ASSUME NEW j \in (i + 1)..N(nd) PROVE k < Key(nd.ents[j])
    BY <1>1, <2>1
  <2> QED
    BY <1>3, <2>1, <2>2 DEF Admits
<1> QED
  BY <1>3, <1>4, <1>5 DEF PlaceOf

(* The loops of insertNonFull() stop where a new key belongs. *)
LEMMA InsertPlace ==
  ASSUME Unique, NEW ns \in Heap, NEW h \in Nat \ {0}, NEW nd, Sound(ns, h, nd), NEW k \in Int,
         \A j \in 1..N(nd) : Key(nd.ents[j]) # k, NEW i, i = InsertPosition(nd, k)
  PROVE  i \in 1..(N(nd) + 1) /\ Admits(nd, i, 0, k)
<1>1. /\ N(nd) \in Nat
      /\ \A j \in 1..N(nd) : Key(nd.ents[j]) \in Int
      /\ \A j, l \in 1..N(nd) : j < l => Key(nd.ents[j]) < Key(nd.ents[l])
  BY KeysOfNode
<1>2. \E j \in 1..(N(nd) + 1) :
        /\ \A l \in j..N(nd) : Key(nd.ents[l]) > k
        /\ j > 1 => Key(nd.ents[j - 1]) <= k
  <2>1. PICK S : S = {j \in 1..(N(nd) + 1) : \A l \in j..N(nd) : Key(nd.ents[l]) > k}
    OBVIOUS
  <2>2. N(nd) + 1 \in S /\ S \in SUBSET Nat
    BY <1>1, <2>1
  <2>3. PICK j \in S : \A l \in S : j <= l
    BY <2>2, LeastElement
  <2>4. j \in 1..(N(nd) + 1) /\ \A l \in j..N(nd) : Key(nd.ents[l]) > k
    BY <2>1, <2>3
  <2>5. ASSUME j > 1 PROVE Key(nd.ents[j - 1]) <= k
    <3>1. PICK l : l = j - 1
      OBVIOUS
    <3>2. l \in 1..N(nd) /\ l \in 1..(N(nd) + 1) /\ ~(j <= l)
      BY <1>1, <2>4, <2>5, <3>1
    <3>3. l \notin S
      BY <2>3, <3>2
    <3>4. PICK n \in l..N(nd) : ~(Key(nd.ents[n]) > k)
      BY <2>1, <3>2, <3>3
    <3>5. n = l
      BY <1>1, <2>4, <3>1, <3>2, <3>4
    <3> QED
      BY <1>1, <3>1, <3>2, <3>4, <3>5
  <2> QED
    BY <2>4, <2>5
<1>3. /\ i \in 1..(N(nd) + 1)
      /\ \A l \in i..N(nd) : Key(nd.ents[l]) > k
      /\ i > 1 => Key(nd.ents[i - 1]) <= k
  BY <1>2 DEF InsertPosition
<1>4. ASSUME NEW j \in 1..(i - 1) PROVE Key(nd.ents[j]) < k
  <2>1. PICK l : l = i - 1
    OBVIOUS
  <2>2. l \in 1..N(nd) /\ j \in 1..N(nd) /\ Key(nd.ents[l]) <= k /\ j <= l
    BY <1>1, <1>3, <2>1
  <2>3. Key(nd.ents[l]) < k
    BY <1>1, <2>2
  <2> QED
    BY <1>1, <2>2, <2>3
<1>5. ASSUME NEW j \in (i + 0)..N(nd) PROVE k < Key(nd.ents[j])
  <2>1. j \in i..N(nd) /\ j \in 1..N(nd)
    BY <1>1, <1>3
  <2> QED
    BY <1>1, <1>3, <2>1
<1> QED
  BY <1>3, <1>4, <1>5 DEF Admits

(* A key is not in a tree if it is not in the child where it belongs. *)
LEMMA KeyBelongs ==
  ASSUME Unique, NEW ns \in Heap, NEW h \in Nat \ {0}, NEW nd, Sound(ns, h, nd), ~nd.leaf,
         NEW i, i \in 1..(N(nd) + 1), NEW k \in Int, Admits(nd, i, 0, k)
  PROVE  /\ \A e \in RE(ns, h, nd, i, 0) : Key(e) # k
         /\ NE(ns, h, nd) = RE(ns, h, nd, i, 0) \cup E(ns, h - 1, nd.kids[i])
         /\ AllAdmitted(nd, i, E(ns, h - 1, nd.kids[i]))
<1>1. N(nd) \in Nat /\ i \in Nat /\ i \in 1..(N(nd) + 1 - 0)
  BY SoundNode, EntriesOfNode
<1>2. WE(ns, h, nd, i, 0) = E(ns, h - 1, nd.kids[i])
  BY <1>1, OneKid
<1>3. \A e \in RE(ns, h, nd, i, 0) : Key(e) # k
  BY <1>1, RestAvoids
<1>4. NE(ns, h, nd) = RE(ns, h, nd, i, 0) \cup WE(ns, h, nd, i, 0)
      /\ \A e \in WE(ns, h, nd, i, 0) : Admits(nd, i, 0, Key(e))
  BY <1>1, WindowOfNode
<1> QED
  BY <1>2, <1>3, <1>4 DEF AllAdmitted

(* No two entries of a tree have the same key. *)
LEMMA KeysDiffer ==
  ASSUME Unique, NEW ns \in Heap
  PROVE  \A h \in Nat : \A b : Ok(ns, h, b) =>
           \A d, e \in E(ns, h, b) : Key(d) = Key(e) => d = e
<1> DEFINE S == {h \in Nat : \A b : Ok(ns, h, b) =>
                   \A d, e \in E(ns, h, b) : Key(d) = Key(e) => d = e}
<1>1. 0 \in S
  BY TreeIsSound
<1>2. ASSUME NEW h \in Nat, h \in S PROVE h + 1 \in S
  <2>1. SUFFICES ASSUME NEW b, Ok(ns, h + 1, b),
                        NEW d \in E(ns, h + 1, b), NEW e \in E(ns, h + 1, b), Key(d) = Key(e)
                 PROVE  d = e
    OBVIOUS
  <2>2. PICK g, nd, k : g = h + 1 /\ nd = ns[b] /\ k = Key(d)
    OBVIOUS
  <2>3. g \in Nat \ {0} /\ g - 1 = h /\ Ok(ns, g, b)
    BY <2>1, <2>2
  <2>4. Sound(ns, g, nd) /\ E(ns, g, b) = NE(ns, g, nd)
    BY <2>2, <2>3, BlockIsNode, TreeContents
  <2>5. /\ nd \in Node /\ Filled(nd)
        /\ N(nd) \in Nat
        /\ DOMAIN nd.ents = 1..N(nd)
        /\ DOMAIN nd.kids = IF nd.leaf THEN {} ELSE 1..(N(nd) + 1)
        /\ \A i \in 1..N(nd) : nd.ents[i] \in Entry /\ Key(nd.ents[i]) \in Int
        /\ \A i, j \in 1..N(nd) : i < j => Key(nd.ents[i]) < Key(nd.ents[j])
    BY <2>3, <2>4, KeysOfNode
  <2>6. k \in Int
    <3>1. d \in NE(ns, g, nd)
      BY <2>2, <2>4
    <3>2. d \in Entry
      BY <2>3, <2>4, <3>1, SoundNode
    <3> QED
      BY <2>2, <3>2, Order
  <2>7. PICK i : i = FindKey(nd, k)
    OBVIOUS
  <2>8. /\ i \in 1..(N(nd) + 1)
        /\ ~HasKeyAt(nd, i, k) => Admits(nd, i, 0, k)
        /\ HasKeyAt(nd, i, k) =>
             i \in 1..N(nd) /\ Key(nd.ents[i]) = k /\ Admits(nd, i, 1, k)
    BY <2>3, <2>4, <2>6, <2>7, KeyPlace DEF PlaceOf
  <2>9. ASSUME NEW c \in NE(ns, g, nd), Key(c) = k
        PROVE  \/ HasKeyAt(nd, i, k) /\ c = nd.ents[i]
               \/ ~HasKeyAt(nd, i, k) /\ ~nd.leaf /\ c \in E(ns, h, nd.kids[i])
    <3>1. CASE \E j \in DOMAIN nd.ents : c = nd.ents[j]
      <4>1. PICK j \in 1..N(nd) : c = nd.ents[j]
        BY <2>5, <3>1
      <4>2. HasKeyAt(nd, i, k)
        <5>1. SUFFICES ASSUME ~HasKeyAt(nd, i, k) PROVE FALSE
          OBVIOUS
        <5>2. /\ \A l \in 1..(i - 1) : Key(nd.ents[l]) < k
              /\ \A l \in (i + 0)..N(nd) : k < Key(nd.ents[l])
          BY <2>8, <5>1 DEF Admits
        <5>3. j \in 1..(i - 1) \/ j \in (i + 0)..N(nd)
          BY <2>5, <2>8
        <5> QED
          BY <2>6, <2>9, <4>1, <5>2, <5>3
      <4>3. i = j
        BY <2>5, <2>6, <2>8, <2>9, <4>1, <4>2
      <4> QED
        BY <4>1, <4>2, <4>3
    <3>2. CASE \E j \in DOMAIN nd.kids : c \in E(ns, h, nd.kids[j])
      <4>1. PICK j \in DOMAIN nd.kids : c \in E(ns, h, nd.kids[j])
        BY <3>2
      <4>2. ~nd.leaf /\ j \in 1..(N(nd) + 1)
        BY <2>5, <4>1
      <4>3. /\ \A l \in 1..(j - 1) : Key(nd.ents[l]) < Key(c)
            /\ \A l \in j..N(nd) : Key(c) < Key(nd.ents[l])
        BY <2>3, <2>4, <4>1, KeysOfNode
      <4>4. ~HasKeyAt(nd, i, k)
        <5>1. SUFFICES ASSUME HasKeyAt(nd, i, k) PROVE FALSE
          OBVIOUS
        <5>2. i \in 1..N(nd) /\ Key(nd.ents[i]) = k
          BY <2>8, <5>1
        <5>3. i \in 1..(j - 1) \/ i \in j..N(nd)
          BY <2>5, <4>2, <5>2
        <5> QED
          BY <2>6, <2>9, <4>3, <5>2, <5>3
      <4>5. /\ \A l \in 1..(i - 1) : Key(nd.ents[l]) < k
            /\ \A l \in (i + 0)..N(nd) : k < Key(nd.ents[l])
        BY <2>8, <4>4 DEF Admits
      <4>6. j = i
        <5>1. CASE j < i
          <6>1. j \in 1..(i - 1) /\ j \in j..N(nd)
            BY <2>5, <2>8, <4>2, <5>1
          <6>2. Key(nd.ents[j]) < k /\ k < Key(nd.ents[j]) /\ Key(nd.ents[j]) \in Int
            BY <2>5, <2>9, <4>3, <4>5, <6>1
          <6> QED
            BY <2>6, <6>2
        <5>2. CASE i < j
          <6>1. i \in 1..(j - 1) /\ i \in (i + 0)..N(nd) /\ i \in 1..N(nd)
            BY <2>5, <2>8, <4>2, <5>2
          <6>2. Key(nd.ents[i]) < k /\ k < Key(nd.ents[i]) /\ Key(nd.ents[i]) \in Int
            BY <2>5, <2>9, <4>3, <4>5, <6>1
          <6> QED
            BY <2>6, <6>2
        <5> QED
          BY <2>5, <2>8, <4>2, <5>1, <5>2
      <4> QED
        BY <4>1, <4>2, <4>4, <4>6
    <3> QED
      BY <2>3, <3>1, <3>2, InNode
  <2>10. d \in NE(ns, g, nd) /\ e \in NE(ns, g, nd) /\ Key(d) = k /\ Key(e) = k
    BY <2>1, <2>2, <2>4
  <2>11. CASE HasKeyAt(nd, i, k)
    BY <2>9, <2>10, <2>11
  <2>12. CASE ~HasKeyAt(nd, i, k)
    <3>1. ~nd.leaf /\ d \in E(ns, h, nd.kids[i]) /\ e \in E(ns, h, nd.kids[i])
      BY <2>9, <2>10, <2>12
    <3>2. i \in DOMAIN nd.kids
      BY <2>5, <2>8, <3>1
    <3>3. Ok(ns, h, nd.kids[i])
      BY <2>3, <2>4, <3>2, SoundNode
    <3> QED
      BY <1>2, <2>1, <3>1, <3>3
  <2> QED
    BY <2>11, <2>12
<1> HIDE DEF S
<1>3. \A h \in Nat : h \in S
  BY <1>1, <1>2, NumberInduction
<1> QED
  BY <1>3 DEF S

-----------------------------------------------------------------------------
(***************************************************************************)
(* The operations that call themselves, one level after the other.         *)
(***************************************************************************)

\* One level of each of the recursive operations.
SearchLevel(below) == [c \in Searches |-> SearchNode(c, below)]
UpdateLevel(below) == [c \in Writes |-> UpdateNode(c, below)]
InsertLevel(below) == [c \in Writes |-> InsertNode(c, below)]
RemoveLevel(below) == [c \in Searches |-> RemoveNode(c, below)]
PredLevel(below) == [c \in Searches |-> PredLeaf(c, below)]
SuccLevel(below) == [c \in Searches |-> SuccLeaf(c, below)]

SearchCalls == INSTANCE Recursion WITH Base <- <<>>, Step <- SearchLevel
UpdateCalls == INSTANCE Recursion WITH Base <- <<>>, Step <- UpdateLevel
InsertCalls == INSTANCE Recursion WITH Base <- <<>>, Step <- InsertLevel
RemoveCalls == INSTANCE Recursion WITH Base <- <<>>, Step <- RemoveLevel
PredCalls == INSTANCE Recursion WITH Base <- <<>>, Step <- PredLevel
SuccCalls == INSTANCE Recursion WITH Base <- <<>>, Step <- SuccLevel

(* Each of the recursive operations goes on level by level. *)
LEMMA SearchUnfolds ==
  ASSUME NEW g \in Nat \ {0}, NEW c \in Searches
  PROVE  SearchRec[g][c] = SearchNode(c, SearchRec[g - 1])
<1>1. SearchRec = SearchCalls!Rec
  BY DEF SearchRec, SearchCalls!Rec, SearchLevel
<1>2. SearchRec[g] = SearchLevel(SearchRec[g - 1])
  BY <1>1, SearchCalls!RecUnfolds
<1> QED
  BY <1>2 DEF SearchLevel

(* updateRec() calls itself on a child. *)
LEMMA UpdateUnfolds ==
  ASSUME NEW g \in Nat \ {0}, NEW c \in Writes
  PROVE  UpdateRec[g][c] = UpdateNode(c, UpdateRec[g - 1])
<1>1. UpdateRec = UpdateCalls!Rec
  BY DEF UpdateRec, UpdateCalls!Rec, UpdateLevel
<1>2. UpdateRec[g] = UpdateLevel(UpdateRec[g - 1])
  BY <1>1, UpdateCalls!RecUnfolds
<1> QED
  BY <1>2 DEF UpdateLevel

(* insertNonFull() calls itself on a child. *)
LEMMA InsertUnfolds ==
  ASSUME NEW g \in Nat \ {0}, NEW c \in Writes
  PROVE  InsertNonFull[g][c] = InsertNode(c, InsertNonFull[g - 1])
<1>1. InsertNonFull = InsertCalls!Rec
  BY DEF InsertNonFull, InsertCalls!Rec, InsertLevel
<1>2. InsertNonFull[g] = InsertLevel(InsertNonFull[g - 1])
  BY <1>1, InsertCalls!RecUnfolds
<1> QED
  BY <1>2 DEF InsertLevel

(* removeRec() calls itself on a child. *)
LEMMA RemoveUnfolds ==
  ASSUME NEW g \in Nat \ {0}, NEW c \in Searches
  PROVE  RemoveRec[g][c] = RemoveNode(c, RemoveRec[g - 1])
<1>1. RemoveRec = RemoveCalls!Rec
  BY DEF RemoveRec, RemoveCalls!Rec, RemoveLevel
<1>2. RemoveRec[g] = RemoveLevel(RemoveRec[g - 1])
  BY <1>1, RemoveCalls!RecUnfolds
<1> QED
  BY <1>2 DEF RemoveLevel

(* getPred() goes down to the last child. *)
LEMMA PredUnfolds ==
  ASSUME NEW g \in Nat \ {0}, NEW c \in Searches
  PROVE  GetPred[g][c] = PredLeaf(c, GetPred[g - 1])
<1>1. GetPred = PredCalls!Rec
  BY DEF GetPred, PredCalls!Rec, PredLevel
<1>2. GetPred[g] = PredLevel(GetPred[g - 1])
  BY <1>1, PredCalls!RecUnfolds
<1> QED
  BY <1>2 DEF PredLevel

(* getSucc() goes down to the first child. *)
LEMMA SuccUnfolds ==
  ASSUME NEW g \in Nat \ {0}, NEW c \in Searches
  PROVE  GetSucc[g][c] = SuccLeaf(c, GetSucc[g - 1])
<1>1. GetSucc = SuccCalls!Rec
  BY DEF GetSucc, SuccCalls!Rec, SuccLevel
<1>2. GetSucc[g] = SuccLevel(GetSucc[g - 1])
  BY <1>1, SuccCalls!RecUnfolds
<1> QED
  BY <1>2 DEF SuccLevel

\* The values stored under a key.
Values(entries, k) == {e[2] : e \in {e \in entries : Key(e) = k}}

(* A search finds the values of its key. *)
LEMMA SearchFinds ==
  ASSUME Unique, NEW f \in Stores, NEW k \in Int
  PROVE  \A h \in Nat : \A g \in Nat : \A at : Ok(f.nodes, h, at) /\ g >= h =>
           SearchRec[g][[f |-> f, at |-> at, k |-> k]] = Values(E(f.nodes, h, at), k)
<1> DEFINE S == {h \in Nat : \A g \in Nat : \A at : Ok(f.nodes, h, at) /\ g >= h =>
                   SearchRec[g][[f |-> f, at |-> at, k |-> k]] = Values(E(f.nodes, h, at), k)}
<1>1. f.nodes \in Heap
  BY StoreFields
<1>2. 0 \in S
  BY <1>1, TreeIsSound
<1>3. ASSUME NEW h \in Nat, h \in S PROVE h + 1 \in S
  <2>1. SUFFICES ASSUME NEW g \in Nat, NEW at, Ok(f.nodes, h + 1, at), g >= h + 1
                 PROVE  SearchRec[g][[f |-> f, at |-> at, k |-> k]] =
                          Values(E(f.nodes, h + 1, at), k)
    OBVIOUS
  <2>2. PICK l, nd, i, c, below, ns :
          /\ l = h + 1 /\ nd = f.nodes[at] /\ i = FindKey(nd, k)
          /\ c = [f |-> f, at |-> at, k |-> k] /\ below = SearchRec[g - 1] /\ ns = f.nodes
    OBVIOUS
  <2>3. l \in Nat \ {0} /\ l - 1 = h /\ Ok(ns, l, at) /\ ns \in Heap
    BY <1>1, <2>1, <2>2
  <2>4. /\ Sound(ns, l, nd) /\ E(ns, l, at) = NE(ns, l, nd)
        /\ at \in 1..Len(ns) /\ at \in Nat
    BY <2>2, <2>3, BlockIsNode, TreeContents
  <2>5. /\ i \in 1..(N(nd) + 1)
        /\ ~HasKeyAt(nd, i, k) => Admits(nd, i, 0, k)
        /\ HasKeyAt(nd, i, k) => i \in 1..N(nd) /\ Key(nd.ents[i]) = k
    <3>1. PlaceOf(nd, k, i)
      BY <2>2, <2>3, <2>4, KeyPlace
    <3> QED
      BY <3>1 DEF PlaceOf
  <2>6. /\ N(nd) \in Nat /\ DOMAIN nd.ents = 1..N(nd)
        /\ DOMAIN nd.kids = IF nd.leaf THEN {} ELSE 1..(N(nd) + 1)
        /\ \A j \in 1..N(nd) : Key(nd.ents[j]) \in Int
    BY <2>3, <2>4, KeysOfNode
  <2>7. SearchRec[g][c] = SearchNode(c, below)
    <3>1. c \in Searches
      BY <2>2, <2>4 DEF Searches
    <3>2. g \in Nat \ {0}
      BY <2>1
    <3> QED
      BY <2>2, <3>1, <3>2, SearchUnfolds
  <2>8. SearchNode(c, below) =
          IF HasKeyAt(nd, i, k) THEN {nd.ents[i][2]}
          ELSE IF nd.leaf THEN {} ELSE below[[f |-> f, at |-> nd.kids[i], k |-> k]]
    <3>1. c.f = f /\ c.at = at /\ c.k = k /\ at # NoBlock
      BY <2>2, <2>4 DEF NoBlock
    <3>2. [c EXCEPT !.at = nd.kids[i]] = [f |-> f, at |-> nd.kids[i], k |-> k]
      BY <2>2
    <3> QED
      BY <2>2, <3>1, <3>2 DEF SearchNode, ReadNode
  <2>9. CASE HasKeyAt(nd, i, k)
    <3>1. nd.ents[i] \in NE(ns, l, nd) /\ Key(nd.ents[i]) = k
      BY <2>5, <2>6, <2>9, InNode
    <3>2. \A e \in E(ns, l, at) : Key(e) = k => e = nd.ents[i]
      BY <2>3, <2>4, <3>1, KeysDiffer
    <3>3. {e \in E(ns, l, at) : Key(e) = k} = {nd.ents[i]}
      BY <2>4, <3>1, <3>2
    <3>4. Values(E(ns, l, at), k) = {nd.ents[i][2]}
      BY <3>3 DEF Values
    <3> QED
      BY <2>2, <2>7, <2>8, <2>9, <3>4
  <2>10. CASE ~HasKeyAt(nd, i, k) /\ nd.leaf
    <3>1. ASSUME NEW e \in NE(ns, l, nd), Key(e) = k PROVE FALSE
      <4>1. PICK j \in 1..N(nd) : e = nd.ents[j]
        BY <2>6, <2>10, InNode
      <4>2. /\ \A m \in 1..(i - 1) : Key(nd.ents[m]) < k
            /\ \A m \in (i + 0)..N(nd) : k < Key(nd.ents[m])
        BY <2>5, <2>10 DEF Admits
      <4>3. j \in 1..(i - 1) \/ j \in (i + 0)..N(nd)
        BY <2>5, <2>6
      <4> QED
        BY <3>1, <4>1, <4>2, <4>3
    <3>2. Values(E(ns, l, at), k) = {}
      BY <2>4, <3>1 DEF Values
    <3> QED
      BY <2>2, <2>7, <2>8, <2>10, <3>2
  <2>11. CASE ~HasKeyAt(nd, i, k) /\ ~nd.leaf
    <3>1. i \in DOMAIN nd.kids
      BY <2>5, <2>6, <2>11
    <3>2. Ok(ns, h, nd.kids[i])
      BY <2>3, <2>4, <3>1, SoundNode
    <3>3. below[[f |-> f, at |-> nd.kids[i], k |-> k]] = Values(E(ns, h, nd.kids[i]), k)
      <4>1. g - 1 \in Nat /\ g - 1 >= h
        BY <2>1
      <4> QED
        BY <1>3, <2>2, <3>2, <4>1
    <3>4. /\ \A e \in RE(ns, l, nd, i, 0) : Key(e) # k
          /\ NE(ns, l, nd) = RE(ns, l, nd, i, 0) \cup E(ns, h, nd.kids[i])
      BY <2>3, <2>4, <2>5, <2>11, KeyBelongs
    <3>5. {e \in E(ns, l, at) : Key(e) = k} = {e \in E(ns, h, nd.kids[i]) : Key(e) = k}
      BY <2>4, <3>4
    <3>6. Values(E(ns, l, at), k) = Values(E(ns, h, nd.kids[i]), k)
      BY <3>5 DEF Values
    <3> QED
      BY <2>2, <2>7, <2>8, <2>11, <3>3, <3>6
  <2> QED
    BY <2>9, <2>10, <2>11
<1> HIDE DEF S
<1>4. \A h \in Nat : h \in S
  BY <1>2, <1>3, NumberInduction
<1> QED
  BY <1>4 DEF S
=============================================================================
