---------------------------- MODULE DbFileProofs ----------------------------
(***************************************************************************)
(* What holds of the block file for every number of blocks, every choice   *)
(* of faults, everything the client may stage and whatever the first bytes *)
(* of its nodes say, until the file is damaged in one of the three ways of *)
(* Damaged: an operation throws with blocks staged, a block staged twice is *)
(* linked twice, or an empty node is taken for a link of the free list.    *)
(***************************************************************************)
EXTENDS DbFile, SetInduction, FiniteSetTheorems, TLAPS

(* An element of a sequence over S is in S. *)
LEMMA SeqElement ==
  ASSUME NEW S, NEW s \in Seq(S), NEW i \in 1..Len(s)
  PROVE  s[i] \in S
OBVIOUS

(* What the updates of a header leave of it. *)
LEMMA HeaderUpdate ==
  ASSUME NEW h \in HeaderType, NEW o \in Offset, NEW F \in SUBSET Block,
         NEW T \in SUBSET Block, NEW c \in 1..(MaxBlocks + 1)
  PROVE  /\ [h EXCEPT !.head = o, !.free = F, !.count = c] \in HeaderType
         /\ [h EXCEPT !.head = o, !.free = F] \in HeaderType
         /\ [h EXCEPT !.free = F] \in HeaderType
         /\ [h EXCEPT !.tree = T] \in HeaderType
BY DEF HeaderType

(* TypeOK is inductive: no action leaves the types of the state. *)
LEMMA TypeStep == TypeOK /\ [Next]_vars => TypeOK'
<1> SUFFICES ASSUME TypeOK, [Next]_vars PROVE TypeOK'
  OBVIOUS
<1> DEFINE Faulted == {"none", "some", "unwound", "relinked", "misread"}
<1> USE DEF TypeOK
<1>0. /\ NoBlock \in Offset
      /\ Block \cup {Wild, Inside} \subseteq Offset
      /\ NodeWords \subseteq Offset
      /\ Worse \in Faulted /\ fault \in Faulted
      /\ {"unwound", "relinked", "misread"} \subseteq Faulted
      /\ StreamAfterFailedWrite \in BOOLEAN
  BY BoundsAssumption, WordsAssumption
  DEF Offset, Block, NoBlock, Wild, Inside, Worse, StreamAfterFailedWrite
<1>1. CASE Open
  BY <1>1 DEF Open
<1>2. CASE PopFree
  <2>1. NextFree \in Offset /\ header.head \in Offset
    BY <1>0, <1>2 DEF PopFree, NextFree, BlockType, HeaderType
  <2>2. header' \in HeaderType
    BY <1>2, <2>1, HeaderUpdate DEF PopFree, HeaderType
  <2>3. fault' \in Faulted
    BY <1>0, <1>2 DEF PopFree
  <2> QED
    BY <1>2, <2>1, <2>2, <2>3 DEF PopFree
<1>3. CASE Extend
  <2>1. header.count \in Block /\ header.count + 1 \in 1..(MaxBlocks + 1)
    BY <1>3, BoundsAssumption DEF Extend, HeaderType, Block
  <2>2. header' \in HeaderType
    <3>1. header' = [header EXCEPT !.head = NoBlock, !.free = {}, !.count = header.count + 1]
      BY <1>3 DEF Extend
    <3> QED
      BY <1>0, <2>1, <3>1, HeaderUpdate
  <2>3. blocks' \in [Block -> BlockType]
    BY <1>0, <1>3, <2>1 DEF Extend, BlockType
  <2> QED
    BY <1>0, <1>3, <2>1, <2>2, <2>3 DEF Extend
<1>4. CASE ExtendFails
  <2>1. [header EXCEPT !.head = NoBlock, !.free = {}] \in HeaderType
    BY <1>0 DEF HeaderType
  <2> QED
    BY <1>0, <1>4, <2>1 DEF ExtendFails
<1>5. CASE WriteNode
  <2>1. slot \in Block /\ {slot} \in SUBSET Block
    BY <1>5 DEF WriteNode
  <2>3. [dheader EXCEPT !.free = {slot}] \in HeaderType
    BY <2>1 DEF HeaderType
  <2>2. blocks' \in [Block -> BlockType]
    <3> PICK w \in NodeWords : blocks' = [blocks EXCEPT ![slot] = [kind |-> "node", next |-> w]]
      BY <1>5 DEF WriteNode
    <3> QED
      BY <1>0, <2>1 DEF BlockType
  <2> QED
    BY <1>0, <1>5, <2>1, <2>2, <2>3 DEF WriteNode
<1>6. CASE WriteNodeFails
  BY <1>0, <1>6 DEF WriteNodeFails
<1>7. CASE \E b \in Block : FreeBlock(b)
  <2> PICK b \in Block : FreeBlock(b)
    BY <1>7
  <2>1. pending' \in Seq(Block) /\ Len(pending') = Len(pending) + 1
    BY DEF FreeBlock
  <2>2. gcIndex' \in 0..Len(pending')
    BY <2>1 DEF FreeBlock
  <2> QED
    BY <2>1, <2>2 DEF FreeBlock
<1>8. CASE ReadFails
  BY <1>0, <1>8 DEF ReadFails
<1>9. CASE CommitRoot
  <2>1. header' \in HeaderType
    BY <1>9, HeaderUpdate DEF CommitRoot, HeaderType
  <2>2. gcIndex' \in 0..Len(pending')
    BY <1>9 DEF CommitRoot
  <2> QED
    BY <1>9, <2>1, <2>2 DEF CommitRoot, RootFlipped
<1>10. CASE CommitRootFails
  <2>1. header' \in HeaderType
    BY <1>10, HeaderUpdate DEF CommitRootFails, HeaderType
  <2> QED
    BY <1>0, <1>10, <2>1 DEF CommitRootFails
<1>11. CASE GcBlock
  <2>1. gcIndex + 1 \in 1..Len(pending)
    BY <1>11 DEF GcBlock, Collecting
  <2>2. pending[gcIndex + 1] \in Block
    BY <2>1, SeqElement
  <2>3. header' \in HeaderType
    BY <1>0, <1>11, <2>2, HeaderUpdate DEF GcBlock, HeaderType
  <2>4. blocks' \in [Block -> BlockType]
    BY <1>11, <2>2 DEF GcBlock, CurrentHead, HeaderType, BlockType
  <2>5. fault' \in Faulted
    BY <1>0, <1>11 DEF GcBlock
  <2> QED
    BY <1>11, <2>1, <2>3, <2>4, <2>5 DEF GcBlock
<1>12. CASE GcBlockFails
  <2>1. gcIndex' \in 0..Len(pending')
    BY <1>12 DEF GcBlockFails, PastFailed, Collecting
  <2> QED
    BY <1>0, <1>12, <2>1 DEF GcBlockFails
<1>13. CASE GcFinish
  BY <1>13 DEF GcFinish, HeadSaved
<1>14. CASE GcFinishFails
  BY <1>0, <1>14 DEF GcFinishFails
<1>15. CASE StartClose
  BY <1>15 DEF StartClose
<1>16. CASE FinishClose
  BY <1>0, <1>16 DEF FinishClose, Forget
<1>17. CASE FinishCloseFails
  BY <1>0, <1>17 DEF FinishCloseFails, Forget
<1>18. CASE Crash
  BY <1>0, <1>18 DEF Crash, Forget
<1>19. CASE UNCHANGED vars
  BY <1>19 DEF vars
<1> QED
  BY <1>1, <1>2, <1>3, <1>4, <1>5, <1>6, <1>7, <1>8, <1>9, <1>10, <1>11,
     <1>12, <1>13, <1>14, <1>15, <1>16, <1>17, <1>18, <1>19 DEF Next

(* Every state of the block file has the types of its variables. *)
THEOREM TypeCorrect == Spec => []TypeOK
<1>1. Init => TypeOK
  BY BoundsAssumption
  DEF Init, TypeOK, EmptyHeader, HeaderType, BlockType, Block, Offset, NoBlock
<1> QED
  BY <1>1, TypeStep, PTL DEF Spec

-----------------------------------------------------------------------------
\* The contents of a file.
BlocksType == [Block -> BlockType]

(* A free list is sound as long as nobody writes to its blocks. *)
LEMMA ListFrame ==
  ASSUME NEW h \in HeaderType, NEW B, NEW C, ListOK(h, B),
         \A b \in h.free : C[b] = B[b]
  PROVE  ListOK(h, C)
BY DEF ListOK

(* A tree is readable as long as nobody writes to its blocks. *)
LEMMA TreeFrame ==
  ASSUME NEW h \in HeaderType, NEW B, NEW C, TreeOK(h, B),
         \A b \in h.tree : C[b] = B[b]
  PROVE  TreeOK(h, C)
BY DEF TreeOK

(* Taking the head leaves a sound list. *)
LEMMA ListPop ==
  ASSUME NEW h \in HeaderType, NEW B \in BlocksType, ListOK(h, B), h.head \in Block,
         NEW g \in HeaderType, g.tree = h.tree, g.head = B[h.head].next,
         g.free = h.free \ {h.head}, g.count = h.count
  PROVE  ListOK(g, B)
<1>1. h.head \in h.free
  BY BoundsAssumption DEF ListOK, NoLinks, Block, NoBlock, Wild, Inside
<1>2. g.head \in g.free \cup NoLinks
  BY <1>1 DEF ListOK
<1>3. \A b \in g.free : B[b].next \in (g.free \ {g.head}) \cup NoLinks
  <2> SUFFICES ASSUME NEW b \in g.free
               PROVE  B[b].next \in (g.free \ {g.head}) \cup NoLinks
    OBVIOUS
  <2>1. B[b].next \in g.free \cup NoLinks
    BY DEF ListOK
  <2>2. CASE B[b].next \in Block /\ B[b].next = g.head
    BY <1>1, <2>2 DEF ListOK
  <2>3. CASE B[b].next \notin Block
    BY <2>1, <2>3 DEF HeaderType
  <2> QED
    BY <2>1, <2>2, <2>3
<1> QED
  BY <1>1, <1>2, <1>3 DEF ListOK

(* Linking a block of neither the list nor the tree in front of the list   *)
(* leaves a sound list.                                                    *)
LEMMA ListPush ==
  ASSUME NEW h \in HeaderType, NEW B \in BlocksType, ListOK(h, B),
         NEW b \in Block, b \notin h.free, b \notin h.tree, b < h.count,
         NEW C \in BlocksType, \A a \in Block \ {b} : C[a] = B[a], C[b].next = h.head,
         NEW g \in HeaderType, g.tree = h.tree, g.head = b,
         g.free = h.free \cup {b}, g.count = h.count
  PROVE  ListOK(g, C)
<1>0. h.free \subseteq Block /\ NoLinks \cap Block = {}
  BY BoundsAssumption DEF HeaderType, Block, NoLinks, NoBlock, Wild, Inside
<1>1. \A a \in h.free : C[a] = B[a]
  BY <1>0
<1>2. \A a \in g.free : C[a].next \in (g.free \ {g.head}) \cup NoLinks
  BY <1>1 DEF ListOK
<1>3. \A a \in h.free : C[a].next = h.head => h.head \notin Block
  BY <1>0, <1>1 DEF ListOK
<1>4. ASSUME NEW a \in g.free, NEW c \in g.free, C[a].next = C[c].next, C[a].next \in Block
      PROVE  a = c
  BY <1>1, <1>3, <1>4 DEF ListOK
<1> QED
  BY <1>0, <1>2, <1>4 DEF ListOK

(* The stream part of the invariant is inductive by itself. *)
LEMMA StreamStep == TypeOK /\ StreamInv /\ [Next]_vars => StreamInv'
<1> SUFFICES ASSUME TypeOK, StreamInv, [Next]_vars PROVE StreamInv'
  OBVIOUS
<1> USE DEF StreamInv, StreamAfterFailedWrite
<1>1. CASE Open
  BY <1>1 DEF Open
<1>2. CASE PopFree
  BY <1>2 DEF PopFree, Allocating, TypeOK, HeaderType
<1>3. CASE Extend
  BY <1>3 DEF Extend, Allocating, TypeOK, HeaderType
<1>4. CASE ExtendFails
  BY <1>4 DEF ExtendFails, Allocating
<1>5. CASE WriteNode
  BY <1>5 DEF WriteNode, TypeOK, HeaderType
<1>6. CASE WriteNodeFails
  BY <1>6 DEF WriteNodeFails
<1>7. CASE \E b \in Block : FreeBlock(b)
  BY <1>7 DEF FreeBlock, Writing
<1>8. CASE ReadFails
  BY <1>8 DEF ReadFails, Writing
<1>9. CASE CommitRoot
  BY <1>9 DEF CommitRoot, RootFlipped, Writing
<1>10. CASE CommitRootFails
  BY <1>10 DEF CommitRootFails, Writing
<1>11. CASE GcBlock
  BY <1>11 DEF GcBlock, Collecting, TypeOK, HeaderType
<1>12. CASE GcBlockFails
  BY <1>12 DEF GcBlockFails, Collecting
<1>13. CASE GcFinish
  BY <1>13 DEF GcFinish, HeadSaved
<1>14. CASE GcFinishFails
  BY <1>14 DEF GcFinishFails
<1>15. CASE StartClose
  BY <1>15 DEF StartClose
<1>16. CASE FinishClose
  BY <1>16 DEF FinishClose, Forget
<1>17. CASE FinishCloseFails
  BY <1>17 DEF FinishCloseFails, Forget
<1>18. CASE Crash
  BY <1>18 DEF Crash, Forget
<1>19. CASE UNCHANGED vars
  BY <1>19 DEF vars
<1> QED
  BY <1>1, <1>2, <1>3, <1>4, <1>5, <1>6, <1>7, <1>8, <1>9, <1>10, <1>11,
     <1>12, <1>13, <1>14, <1>15, <1>16, <1>17, <1>18, <1>19 DEF Next

-----------------------------------------------------------------------------
(* allocateBlock() taking the head of the list. *)
LEMMA PopStep ==
  ASSUME TypeOK, TypeOK', StreamInv, FileInv, PopFree, ~Damaged'
  PROVE  FileInv'
<1>1. /\ header' = [header EXCEPT !.head = NextFree, !.free = @ \ {header.head}]
      /\ slot = NoBlock /\ slot' = header.head
      /\ mode' = "txn"
      /\ UNCHANGED <<dheader, blocks, pending, fresh, good>>
  BY DEF PopFree, Allocating
<1>2. ListOK(header, blocks) /\ dheader.count <= header.count
  BY DEF PopFree, Allocating, FileInv, TxnOK, IdleOK, TypeOK, HeaderType
<1>3. header.head \in header.free /\ header.head \in Block /\ header.head # Inside
  BY <1>2, BoundsAssumption
  DEF PopFree, Damaged, ListOK, NoLinks, TypeOK, HeaderType, Block, NoBlock, Wild, Inside
<1>4. /\ header'.tree = header.tree /\ header'.count = header.count
      /\ header'.head = blocks[header.head].next
      /\ header'.free = header.free \ {header.head}
  BY <1>1, <1>3 DEF TypeOK, HeaderType, NextFree
<1>5. ListOK(header', blocks)
  BY <1>1, <1>2, <1>3, <1>4, ListPop DEF TypeOK, BlocksType
<1>6. /\ fresh \cap (header.tree \cup header.free) = {}
      /\ \A b \in fresh : blocks[b].kind = "node" /\ b < header.count
      /\ Staged \subseteq header.tree \cup fresh
  BY DEF PopFree, Allocating, FileInv, TxnOK, IdleOK, Staged
<1>7. ListsApart'
  <2>1. CASE mode = "idle"
    BY <1>1, <1>3, <1>4, <2>1 DEF FileInv, IdleOK, ListsApart
  <2>2. CASE mode = "txn"
    <3>1. NoBlock \notin dheader.free
      BY DEF TypeOK, HeaderType, Block, NoBlock
    <3>2. header.free \cap dheader.free = {}
      BY <1>1, <2>2, <3>1 DEF FileInv, TxnOK, ListsApart
    <3> QED
      BY <1>1, <1>4, <1>3, <3>2 DEF ListsApart
  <2> QED
    BY <2>1, <2>2 DEF PopFree, Allocating
<1>8. slot' \in Block \ (header'.tree \cup fresh' \cup header'.free) /\ slot' < header'.count
  BY <1>1, <1>4, <1>2, <1>3, <1>6 DEF ListOK
<1>9. TxnOK'
  <2>1. (Staged \subseteq header.tree \cup fresh)'
    BY <1>1, <1>4, <1>6 DEF Staged
  <2> QED
    BY <1>1, <1>4, <1>2, <1>5, <1>6, <1>7, <1>8, <2>1 DEF TxnOK
<1> QED
  BY <1>1, <1>9 DEF FileInv

(* allocateBlock() growing the file. *)
LEMMA ExtendStep ==
  ASSUME TypeOK, TypeOK', StreamInv, FileInv, Extend
  PROVE  FileInv'
<1>1. /\ header' = [header EXCEPT !.head = NoBlock, !.free = {}, !.count = header.count + 1]
      /\ header.count \in Block
      /\ slot = NoBlock /\ slot' = header.count
      /\ blocks' = [blocks EXCEPT ![header.count] = [kind |-> "zero", next |-> NoBlock]]
      /\ mode' = "txn"
      /\ UNCHANGED <<dheader, pending, fresh, good>>
  BY BoundsAssumption DEF Extend, Allocating, TypeOK, HeaderType, Block
<1>2. /\ header'.tree = header.tree /\ header'.count = header.count + 1
      /\ header'.head = NoBlock /\ header'.free = {}
  BY <1>1 DEF TypeOK, HeaderType
<1>3. /\ dheader.count <= header.count
      /\ \A b \in fresh : blocks[b].kind = "node" /\ b < header.count
      /\ fresh \cap header.tree = {}
      /\ Staged \subseteq header.tree \cup fresh
  BY DEF Extend, Allocating, FileInv, TxnOK, IdleOK, TypeOK, HeaderType, Staged
<1>4. header.tree = dheader.tree
  BY DEF Extend, Allocating, StreamInv
<1>5. \A b \in dheader.tree \cup dheader.free \cup fresh : b < header.count
  BY <1>3 DEF FileInv, TreeOK, ListOK, TypeOK, HeaderType, Block
<1>6. \A b \in dheader.tree \cup dheader.free \cup fresh : blocks'[b] = blocks[b]
  BY <1>1, <1>5 DEF TypeOK, HeaderType, Block
<1>7. TreeOK(dheader, blocks') /\ ListOK(dheader, blocks')
  BY <1>6, ListFrame, TreeFrame DEF FileInv, TypeOK
<1>8. ListOK(header', blocks')
  BY <1>2 DEF ListOK, NoLinks
<1>9. ListsApart'
  BY <1>1, <1>2, <1>5 DEF ListsApart, TypeOK, HeaderType
<1>10. slot' \in Block \ (header'.tree \cup fresh' \cup header'.free) /\ slot' < header'.count
  BY <1>1, <1>2, <1>4, <1>5 DEF TypeOK, HeaderType, Block
<1>11. TxnOK'
  <2>1. (Staged \subseteq header.tree \cup fresh)'
    BY <1>1, <1>2, <1>3 DEF Staged
  <2>2. (\A b \in fresh : blocks[b].kind = "node" /\ b < header.count)'
    BY <1>1, <1>2, <1>3, <1>6 DEF TypeOK, HeaderType, Block
  <2>3. dheader'.count <= header'.count
    BY <1>1, <1>2, <1>3 DEF TypeOK, HeaderType
  <2> QED
    BY <1>1, <1>2, <1>3, <1>8, <1>9, <1>10, <2>1, <2>2, <2>3 DEF TxnOK
<1> QED
  BY <1>1, <1>7, <1>11 DEF FileInv

(* writeNode() filling the block it was given. *)
LEMMA WriteStep ==
  ASSUME TypeOK, TypeOK', StreamInv, FileInv, WriteNode
  PROVE  FileInv'
<1>1. PICK w \in NodeWords : blocks' = [blocks EXCEPT ![slot] = [kind |-> "node", next |-> w]]
  BY DEF WriteNode
<1>2. /\ mode = "txn" /\ mode' = "txn"
      /\ slot \in Block /\ slot' = NoBlock
      /\ fresh' = fresh \cup {slot}
      /\ UNCHANGED <<header, pending, good>>
  BY DEF WriteNode
<1>3. TxnOK /\ slot # NoBlock
  BY <1>2, BoundsAssumption DEF FileInv, Block, NoBlock
<1>4. slot \notin header.tree \cup fresh \cup header.free /\ slot < header.count
  BY <1>3 DEF TxnOK
<1>5. \A b \in Block : b # slot => blocks'[b] = blocks[b]
  BY <1>1 DEF TypeOK
<1>6. blocks'[slot].kind = "node" /\ blocks'[slot].next \in NoLinks
  BY <1>1, <1>2, WordsAssumption DEF TypeOK, NoLinks
<1>7. header.tree = dheader.tree /\ slot \notin dheader.tree
  BY <1>2, <1>4 DEF StreamInv
<1>8. ListOK(header', blocks')
  BY <1>2, <1>3, <1>4, <1>5, ListFrame DEF TxnOK, TypeOK, HeaderType
<1>9. /\ dheader'.tree = dheader.tree /\ dheader'.count = dheader.count
      /\ dheader'.head = dheader.head
      /\ dheader'.free = IF slot \in dheader.free THEN {slot} ELSE dheader.free
  BY DEF WriteNode, TypeOK, HeaderType
<1>10. TreeOK(dheader', blocks')
  BY <1>5, <1>7, <1>9 DEF FileInv, TreeOK, TypeOK, HeaderType
<1>11. ListOK(dheader', blocks')
  <2>1. CASE slot \in dheader.free
    <3>1. slot = dheader.head /\ slot < dheader.count
      BY <1>3, <2>1 DEF TxnOK, ListsApart, FileInv, ListOK
    <3>2. NoLinks \cap Block = {}
      BY BoundsAssumption DEF NoLinks, Block, Wild, NoBlock, Inside
    <3> QED
      BY <1>2, <1>6, <1>7, <1>9, <2>1, <3>1, <3>2 DEF ListOK
  <2>2. CASE slot \notin dheader.free
    <3>1. dheader' = dheader
      BY <2>2 DEF WriteNode
    <3> QED
      BY <1>5, <2>2, <3>1, ListFrame DEF FileInv, TypeOK, HeaderType
  <2> QED
    BY <2>1, <2>2
<1>12. ListsApart'
  <2>1. header'.free \cap dheader'.free = {}
    BY <1>2, <1>3, <1>4, <1>9 DEF TxnOK, ListsApart
  <2>2. slot' \notin dheader'.free
    BY <1>2, BoundsAssumption DEF TypeOK, HeaderType, Block, NoBlock
  <2> QED
    BY <2>1, <2>2 DEF ListsApart
<1>13. (\A b \in fresh : blocks[b].kind = "node" /\ b < header.count)'
  BY <1>2, <1>3, <1>4, <1>5, <1>6 DEF TxnOK, TypeOK
<1>14. (Staged \subseteq header.tree \cup fresh)'
  BY <1>2, <1>3 DEF Staged, TxnOK
<1>15. TxnOK'
  BY <1>2, <1>3, <1>4, <1>8, <1>9, <1>12, <1>13, <1>14 DEF TxnOK
<1> QED
  BY <1>2, <1>10, <1>11, <1>15 DEF FileInv

(* freeBlock(), of a block that is staged already or not. *)
LEMMA FreeStep ==
  ASSUME TypeOK, TypeOK', StreamInv, FileInv, NEW b \in Block, FreeBlock(b)
  PROVE  FileInv'
<1>1. /\ mode = "txn" /\ slot = NoBlock
      /\ b \in header.tree \cup fresh
      /\ pending' = Append(pending, b)
      /\ UNCHANGED <<mode, header, dheader, blocks, fresh, slot, good>>
  BY DEF FreeBlock, Writing
<1>2. /\ Len(pending') = Len(pending) + 1
      /\ pending'[Len(pending) + 1] = b
      /\ \A i \in 1..Len(pending) : pending'[i] = pending[i]
  BY <1>1 DEF TypeOK
<1>3. Len(pending) \in Nat
  BY DEF TypeOK
<1>4. (Staged \subseteq header.tree \cup fresh)'
  BY <1>1, <1>2, <1>3 DEF FileInv, TxnOK, Staged
<1>5. TxnOK'
  BY <1>1, <1>4 DEF FileInv, TxnOK, ListsApart
<1> QED
  BY <1>1, <1>5 DEF FileInv

(* The root flip. *)
LEMMA CommitStep ==
  ASSUME TypeOK, TypeOK', StreamInv, FileInv, CommitRoot
  PROVE  FileInv'
<1>1. /\ mode = "txn" /\ mode' = "gc" /\ gcIndex' = 0 /\ fresh' = {}
      /\ dheader' = header'
      /\ UNCHANGED <<blocks, pending, good>>
  BY DEF CommitRoot, Writing, RootFlipped
<1>2. /\ header'.tree = (header.tree \cup fresh) \ Staged
      /\ header'.head = header.head /\ header'.free = header.free
      /\ header'.count = header.count
  BY DEF CommitRoot, TypeOK, HeaderType
<1>3. TxnOK /\ header.tree = dheader.tree
  BY <1>1 DEF FileInv, StreamInv
<1>4. TreeOK(dheader', blocks')
  BY <1>1, <1>2, <1>3 DEF FileInv, TxnOK, TreeOK, TypeOK, HeaderType, Block
<1>5. ListOK(header', blocks')
  BY <1>1, <1>2, <1>3 DEF TxnOK, ListOK
<1>6. \A i \in 1..Len(pending) : pending[i] \in Staged
  BY DEF Staged
<1>7. \A b \in header.tree \cup fresh : b < header.count /\ b \notin header.free
  BY <1>3 DEF FileInv, TxnOK, TreeOK, ListOK, TypeOK, HeaderType, Block
<1>8. GcOK'
  BY <1>1, <1>2, <1>3, <1>5, <1>6, <1>7 DEF GcOK, StagedApart, TxnOK, TypeOK, HeaderType
<1> QED
  BY <1>1, <1>4, <1>5, <1>8 DEF FileInv

(* One round of the free list commit, of a block not linked before. *)
LEMMA GcStep ==
  ASSUME TypeOK, TypeOK', StreamInv, FileInv, GcBlock, ~Damaged'
  PROVE  FileInv'
<1> DEFINE b == pending[gcIndex + 1]
<1>1. /\ good /\ gcIndex + 1 \in 1..Len(pending) /\ gcIndex' = gcIndex + 1
      /\ blocks' = [blocks EXCEPT ![b] = [kind |-> "free", next |-> header.head]]
      /\ header' = [header EXCEPT !.head = b, !.free = @ \cup {b}]
      /\ UNCHANGED <<mode, dheader, pending, fresh, slot, good>>
  BY DEF GcBlock, Collecting, TypeOK, CurrentHead
<1>2. b \in Block
  BY <1>1, SeqElement DEF TypeOK
<1>3. mode = "gc" /\ GcOK
  BY <1>1 DEF GcBlock, Collecting, FileInv, AbortOK
<1>4. /\ b \notin header.free /\ b \notin header.tree /\ b < header.count
      /\ b \notin dheader.free /\ b \notin dheader.tree
  <2>1. b \notin header.free
    BY DEF GcBlock, Damaged
  <2> QED
    BY <1>1, <1>3, <2>1 DEF GcOK, StreamInv
<1>5. /\ header'.tree = header.tree /\ header'.count = header.count
      /\ header'.head = b /\ header'.free = header.free \cup {b}
  BY <1>1 DEF TypeOK, HeaderType
<1>6. /\ \A a \in Block \ {b} : blocks'[a] = blocks[a]
      /\ blocks'[b].next = header.head
  BY <1>1, <1>2 DEF TypeOK
<1>7. TreeOK(dheader', blocks') /\ ListOK(dheader', blocks')
  <2>1. \A a \in dheader.tree \cup dheader.free : blocks'[a] = blocks[a]
    BY <1>4, <1>6 DEF TypeOK, HeaderType
  <2>2. dheader \in HeaderType /\ TreeOK(dheader, blocks) /\ ListOK(dheader, blocks)
    BY DEF FileInv, TypeOK
  <2>3. TreeOK(dheader, blocks') /\ ListOK(dheader, blocks')
    BY <2>1, <2>2, ListFrame, TreeFrame
  <2> QED
    BY <1>1, <2>3
<1>8. ListOK(header', blocks')
  <2>1. /\ header \in HeaderType /\ header' \in HeaderType
        /\ blocks \in BlocksType /\ blocks' \in BlocksType
    BY DEF TypeOK, BlocksType
  <2> QED
    BY <1>2, <1>3, <1>4, <1>5, <1>6, <2>1, ListPush DEF GcOK
<1>9. StagedApart'
  <2> SUFFICES ASSUME NEW i \in (gcIndex + 2)..Len(pending),
                      pending[i] \in header.free \cup {b}
               PROVE  \E j \in 1..(gcIndex + 1) : pending[j] = pending[i]
    BY <1>1, <1>5 DEF TypeOK, StagedApart
  <2>1. i \in (gcIndex + 1)..Len(pending) /\ gcIndex + 1 \in 1..(gcIndex + 1)
    BY DEF TypeOK
  <2>2. CASE pending[i] = b
    BY <2>1, <2>2
  <2>3. CASE pending[i] \in header.free
    <3>1. PICK j \in 1..gcIndex : pending[j] = pending[i]
      BY <1>3, <2>1, <2>3 DEF GcOK, StagedApart
    <3> QED
      BY <3>1 DEF TypeOK
  <2> QED
    BY <2>2, <2>3
<1>10. GcOK'
  BY <1>1, <1>3, <1>5, <1>8, <1>9 DEF GcOK
<1> QED
  BY <1>1, <1>3, <1>7, <1>10 DEF FileInv

(* A damaged file stays damaged. *)
LEMMA DamageStays == Damaged /\ [Next]_vars => Damaged'
BY DEF Next, Open, PopFree, Extend, ExtendFails, WriteNode, WriteNodeFails, FreeBlock,
       ReadFails, CommitRoot, CommitRootFails, GcBlock, GcBlockFails, GcFinish,
       GcFinishFails, StartClose, FinishClose, FinishCloseFails, Crash, Worse, Damaged, vars

(* The invariant is inductive. *)
LEMMA IndStep == TypeOK /\ TypeOK' /\ IndInv /\ [Next]_vars => IndInv'
<1> SUFFICES ASSUME TypeOK, TypeOK', IndInv, [Next]_vars PROVE IndInv'
  OBVIOUS
<1>0. StreamInv'
  BY StreamStep DEF IndInv
<1> SUFFICES ASSUME ~Damaged' PROVE FileInv'
  BY <1>0 DEF IndInv
<1>a. ~Damaged
  BY DamageStays
<1>b. StreamInv /\ FileInv
  BY <1>a DEF IndInv
<1>1. CASE Open
  BY <1>b, <1>1 DEF Open, FileInv, IdleOK
<1>2. CASE PopFree
  BY <1>b, <1>2, PopStep
<1>3. CASE Extend
  BY <1>b, <1>3, ExtendStep
<1>4. CASE ExtendFails
  BY <1>b, <1>4 DEF ExtendFails, FileInv, StreamAfterFailedWrite
<1>5. CASE WriteNode
  BY <1>b, <1>5, WriteStep
<1>6. CASE WriteNodeFails
  BY <1>b, <1>6 DEF WriteNodeFails, FileInv, StreamAfterFailedWrite
<1>7. CASE \E b \in Block : FreeBlock(b)
  BY <1>b, <1>7, FreeStep
<1>8. CASE ReadFails
  <2>1. pending = <<>> /\ mode = "txn"
    BY <1>8 DEF ReadFails, Writing, Damaged
  <2> QED
    BY <1>b, <1>8, <2>1 DEF ReadFails, FileInv, AbortOK, TxnOK
<1>9. CASE CommitRoot
  BY <1>b, <1>9, CommitStep
<1>10. CASE CommitRootFails
  BY <1>b, <1>10 DEF CommitRootFails, FileInv, StreamAfterFailedWrite
<1>11. CASE GcBlock
  BY <1>b, <1>11, GcStep
<1>12. CASE GcBlockFails
  BY <1>b, <1>12 DEF GcBlockFails, Collecting, FileInv, StreamAfterFailedWrite
<1>13. CASE GcFinish
  <2>1. /\ mode = "gc" /\ good /\ mode' = "idle" /\ pending' = <<>>
        /\ dheader' = header /\ UNCHANGED <<header, blocks, fresh>>
    BY <1>13 DEF GcFinish, HeadSaved
  <2>2. GcOK /\ header.tree = dheader.tree
    BY <1>b, <2>1 DEF FileInv, StreamInv
  <2>3. TreeOK(dheader', blocks')
    BY <1>b, <2>1, <2>2 DEF FileInv, GcOK, TreeOK
  <2>4. ListOK(dheader', blocks') /\ IdleOK'
    BY <2>1, <2>2 DEF GcOK, IdleOK
  <2> QED
    BY <2>1, <2>3, <2>4 DEF FileInv
<1>14. CASE GcFinishFails
  BY <1>b, <1>14 DEF GcFinishFails, FileInv, StreamAfterFailedWrite
<1>15. CASE StartClose
  <2>1. /\ mode \in {"idle", "abort"} /\ mode' = "closing"
        /\ UNCHANGED <<header, dheader, blocks, pending, good>>
    BY <1>15 DEF StartClose
  <2>2. good => AbortOK
    BY <1>b, <2>1 DEF FileInv, IdleOK, AbortOK, TypeOK, HeaderType
  <2>3. good' => AbortOK'
    BY <2>1, <2>2 DEF AbortOK
  <2> QED
    BY <1>b, <2>1, <2>3 DEF FileInv
<1>16. CASE FinishClose
  <2>1. /\ mode = "closing" /\ good /\ mode' = "closed" /\ pending' = <<>>
        /\ dheader' = header /\ header' = header /\ fresh' = {} /\ blocks' = blocks
    BY <1>16 DEF FinishClose, Forget
  <2>2. AbortOK /\ header.tree = dheader.tree
    BY <1>b, <2>1 DEF FileInv, StreamInv
  <2>3. TreeOK(dheader', blocks')
    BY <1>b, <2>1, <2>2 DEF FileInv, AbortOK, TreeOK, TypeOK, HeaderType, Block
  <2>4. ListOK(dheader', blocks') /\ IdleOK'
    BY <2>1, <2>2 DEF AbortOK, IdleOK
  <2> QED
    BY <2>1, <2>3, <2>4 DEF FileInv
<1>17. CASE FinishCloseFails
  BY <1>b, <1>17 DEF FinishCloseFails, Forget, FileInv, IdleOK
<1>18. CASE Crash
  BY <1>b, <1>18 DEF Crash, Forget, FileInv, IdleOK
<1>19. CASE UNCHANGED vars
  BY <1>b, <1>19 DEF vars, FileInv, IdleOK, TxnOK, GcOK, StagedApart, AbortOK, Staged,
                    ListsApart
<1> QED
  BY <1>1, <1>2, <1>3, <1>4, <1>5, <1>6, <1>7, <1>8, <1>9, <1>10, <1>11,
     <1>12, <1>13, <1>14, <1>15, <1>16, <1>17, <1>18, <1>19 DEF Next

(* The invariant holds in every state: of the stream always, and of the    *)
(* file until it is damaged.                                               *)
THEOREM Invariant == Spec => [](TypeOK /\ IndInv)
<1>1. Init => TypeOK /\ IndInv
  <2>1. Init => TypeOK
    BY BoundsAssumption
    DEF Init, TypeOK, EmptyHeader, HeaderType, BlockType, Block, Offset, NoBlock
  <2>2. Init => IndInv
    BY DEF Init, IndInv, StreamInv, FileInv, IdleOK, TreeOK, ListOK, NoLinks,
           EmptyHeader
  <2> QED
    BY <2>1, <2>2
<1>2. (TypeOK /\ IndInv) /\ [Next]_vars => (TypeOK /\ IndInv)'
  BY TypeStep, IndStep
<1> QED
  BY <1>1, <1>2, PTL DEF Spec

(* Whatever crashes and whichever reads and writes fail, the tree on disk  *)
(* can be read back, unless an operation threw after staging blocks, a     *)
(* block staged twice was linked twice, or an empty node was read as a link. *)
THEOREM CommittedTreeSafe == Spec => []CommittedTreeIntact
<1>1. IndInv => CommittedTreeIntact
  BY DEF IndInv, FileInv, CommittedTreeIntact, TreeReadable
<1> QED
  BY <1>1, Invariant, PTL

(* allocateBlock() never hands out a block somebody uses, as long as no    *)
(* operation has thrown with blocks staged, no block staged twice has been *)
(* linked twice and no empty node has been read as a link.                 *)
THEOREM AllocationSafe == Spec => []AllocationIsFresh
<1>1. TypeOK /\ IndInv => AllocationIsFresh
  <2> SUFFICES ASSUME TypeOK, IndInv, ~Damaged, slot # NoBlock
               PROVE  slot \in Block \ (dheader.tree \cup header.tree \cup fresh
                                          \cup Staged \cup header.free)
    BY DEF AllocationIsFresh, SlotUnused
  <2>1. mode = "txn" /\ good /\ TxnOK /\ header.tree = dheader.tree
    BY DEF IndInv, StreamInv, FileInv
  <2> QED
    BY <2>1 DEF TxnOK
<1> QED
  BY <1>1, Invariant, PTL

(* No step writes to a block of the tree on disk, until the file is        *)
(* damaged in one of the ways of Damaged.                                  *)
THEOREM CopyOnWrite == Spec => LiveNeverOverwritten
<1>1. TypeOK /\ IndInv /\ [Next]_vars
        => [~Damaged => \A b \in dheader.tree : blocks'[b] = blocks[b]]_vars
  <2> SUFFICES ASSUME TypeOK, IndInv, Next, ~Damaged,
                      NEW b \in dheader.tree
               PROVE  blocks'[b] = blocks[b]
    OBVIOUS
  <2>0. StreamInv /\ FileInv /\ b \in Block
    BY DEF IndInv, TypeOK, HeaderType
  <2>1. CASE Extend
    <3>1. b < header.count
      BY <2>0, <2>1 DEF Extend, Allocating, FileInv, IdleOK, TxnOK, TreeOK, TypeOK,
                        HeaderType, Block
    <3> QED
      BY <2>0, <2>1, <3>1 DEF Extend, TypeOK, HeaderType, Block
  <2>2. CASE WriteNode
    <3>1. TxnOK /\ slot # NoBlock /\ header.tree = dheader.tree
      BY <2>0, <2>2, BoundsAssumption DEF WriteNode, FileInv, StreamInv, Block, NoBlock
    <3>2. b # slot
      BY <3>1 DEF TxnOK
    <3> QED
      BY <2>0, <2>2, <3>2 DEF WriteNode, TypeOK
  <2>3. CASE GcBlock
    <3>1. good /\ gcIndex + 1 \in 1..Len(pending) /\ header.tree = dheader.tree /\ GcOK
      BY <2>0, <2>3 DEF GcBlock, Collecting, FileInv, StreamInv, AbortOK, TypeOK
    <3>2. b # pending[gcIndex + 1]
      BY <3>1 DEF GcOK
    <3> QED
      BY <2>0, <2>3, <3>2 DEF GcBlock, TypeOK
  <2>4. CASE ~(Extend \/ WriteNode \/ GcBlock)
    BY <2>4 DEF Next, Open, PopFree, ExtendFails, WriteNodeFails, FreeBlock, ReadFails,
                CommitRoot, CommitRootFails, GcBlockFails, GcFinish, GcFinishFails,
                StartClose, FinishClose, FinishCloseFails, Crash
  <2> QED
    BY <2>1, <2>2, <2>3, <2>4
<1> QED
  BY <1>1, Invariant, PTL DEF LiveNeverOverwritten, Spec

(* The tree a restart finds changes at the root flip and nowhere else,     *)
(* whatever the client stages and whatever fails.                          *)
THEOREM FlipIsAtomic == Spec => TreeChangesAtRootFlip
<1>1. Init => TypeOK /\ StreamInv
  BY BoundsAssumption
  DEF Init, TypeOK, EmptyHeader, HeaderType, BlockType, Block, Offset, NoBlock, StreamInv
<1>2. TypeOK /\ StreamInv /\ [Next]_vars => (TypeOK /\ StreamInv)'
  BY TypeStep, StreamStep
<1>3. TypeOK /\ StreamInv /\ [Next]_vars
        => [dheader'.tree # dheader.tree => mode = "txn" /\ mode' = "gc"]_vars
  <2> SUFFICES ASSUME TypeOK, StreamInv, Next, dheader'.tree # dheader.tree
               PROVE  mode = "txn" /\ mode' = "gc"
    OBVIOUS
  <2>1. ~WriteNode
    BY DEF WriteNode, TypeOK, HeaderType
  <2>2. ~GcFinish /\ ~FinishClose
    BY DEF GcFinish, FinishClose, HeadSaved, StreamInv
  <2>3. CASE CommitRoot
    BY <2>3 DEF CommitRoot, Writing
  <2> QED
    BY <2>1, <2>2, <2>3
    DEF Next, Open, PopFree, Extend, ExtendFails, WriteNodeFails, FreeBlock, ReadFails,
        CommitRootFails, GcBlock, GcBlockFails, GcFinishFails, StartClose,
        FinishCloseFails, Crash
<1> QED
  BY <1>1, <1>2, <1>3, PTL DEF TreeChangesAtRootFlip, Spec
-----------------------------------------------------------------------------
(* A step other than WriteNode leaves what the blocks of the committed     *)
(* tree and those written by the transaction hold.                         *)
LEMMA NodesKept ==
  ASSUME TypeOK, IndInv, Next, ~Damaged, ~WriteNode,
         NEW b \in dheader.tree \cup fresh
  PROVE  blocks'[b] = blocks[b]
<1>0. StreamInv /\ FileInv /\ b \in Block
  BY DEF IndInv, TypeOK, HeaderType
<1>1. CASE Extend
  <2>1. b < header.count
    BY <1>0, <1>1 DEF Extend, Allocating, FileInv, IdleOK, TxnOK, TreeOK, TypeOK,
                      HeaderType, Block, StreamInv
  <2> QED
    BY <1>0, <1>1, <2>1 DEF Extend, TypeOK, HeaderType, Block
<1>2. CASE GcBlock
  <2>1. /\ good /\ gcIndex + 1 \in 1..Len(pending)
        /\ header.tree = dheader.tree /\ GcOK
    BY <1>0, <1>2 DEF GcBlock, Collecting, FileInv, StreamInv, AbortOK, TypeOK
  <2>2. b # pending[gcIndex + 1]
    BY <2>1 DEF GcOK
  <2> QED
    BY <1>0, <1>2, <2>2 DEF GcBlock, TypeOK
<1>3. CASE ~(Extend \/ GcBlock)
  BY <1>3 DEF Next, Open, PopFree, ExtendFails, WriteNodeFails, FreeBlock, ReadFails,
              CommitRoot, CommitRootFails, GcBlockFails, GcFinish, GcFinishFails,
              StartClose, FinishClose, FinishCloseFails, Crash
<1> QED
  BY <1>1, <1>2, <1>3

(* A write of a node is a write of the store.                              *)
LEMMA WriteRefines ==
  ASSUME TypeOK, IndInv, WriteNode, ~Damaged
  PROVE  Store!Next
<1>1. /\ mode = "txn" /\ slot \in Block /\ fault' = fault
      /\ fresh' = fresh \cup {slot} /\ dheader'.tree = dheader.tree
  BY DEF WriteNode, TypeOK, HeaderType
<1>2. PICK w \in NodeWords :
        blocks' = [blocks EXCEPT ![slot] = [kind |-> "node", next |-> w]]
  BY DEF WriteNode
<1>3. slot \notin dheader.tree \cup fresh
  BY <1>1, BoundsAssumption DEF IndInv, FileInv, StreamInv, TxnOK, Block, NoBlock
<1>4. [kind |-> "node", next |-> w] \in BlockType
  BY <1>2, WordsAssumption, BoundsAssumption
  DEF BlockType, Offset, NoBlock, Wild, Inside
<1>5. blocks \in [Block -> BlockType] /\ fresh \subseteq Block /\ dheader.tree \subseteq Block
  BY DEF TypeOK, HeaderType
<1>6. Contents(dheader.tree)' = Contents(dheader.tree)
  BY <1>1, <1>2, <1>3, <1>5 DEF Contents
<1>7. Contents(fresh)' =
        [q \in fresh \cup {slot} |->
           IF q = slot THEN [kind |-> "node", next |-> w] ELSE Contents(fresh)[q]]
  BY <1>1, <1>2, <1>3, <1>5 DEF Contents
<1>8. Store!Write(slot, [kind |-> "node", next |-> w])
  BY <1>1, <1>3, <1>6, <1>7 DEF Store!Write, Contents, Damaged
<1> QED
  BY <1>1, <1>4, <1>8 DEF Store!Next

(* The root flip commits the store.                                        *)
LEMMA FlipRefines ==
  ASSUME TypeOK, IndInv, CommitRoot, ~Damaged
  PROVE  Store!Next
<1>1. /\ fresh' = {} /\ blocks' = blocks /\ fault' = fault
      /\ dheader'.tree = (dheader.tree \cup fresh) \ Staged
  <2>1. header'.tree = (header.tree \cup fresh) \ Staged
    BY DEF CommitRoot, TypeOK, HeaderType
  <2>2. header.tree = dheader.tree
    BY DEF CommitRoot, Writing, IndInv, StreamInv
  <2> QED
    BY <2>1, <2>2 DEF CommitRoot, RootFlipped
<1>2. Staged \subseteq Block
  BY SeqElement DEF TypeOK, Staged
<1>3. Contents(dheader.tree)' =
        [p \in (dheader.tree \cup fresh) \ Staged |->
           IF p \in fresh THEN Contents(fresh)[p] ELSE Contents(dheader.tree)[p]]
  BY <1>1 DEF Contents
<1>4. Contents(fresh)' = Store!Nothing
  BY <1>1 DEF Contents, Store!Nothing
<1>5. Store!Commit(Staged)
  BY <1>1, <1>3, <1>4 DEF Store!Commit, Contents, Damaged
<1> QED
  BY <1>2, <1>5 DEF Store!Next

(* Every other step leaves the committed tree and either leaves what the   *)
(* transaction has written or forgets it.                                  *)
LEMMA OtherRefines ==
  ASSUME TypeOK, IndInv, Next, ~Damaged, ~Damaged',
         ~WriteNode, ~CommitRoot
  PROVE  Store!Next \/ UNCHANGED Store!vars
<1>1. dheader'.tree = dheader.tree
  BY DEF IndInv, StreamInv, HeadSaved,
         Next, Open, PopFree, Extend, ExtendFails, WriteNodeFails, FreeBlock, ReadFails,
         CommitRootFails, GcBlock, GcBlockFails, GcFinish, GcFinishFails,
         StartClose, FinishClose, FinishCloseFails, Crash
<1>2. fresh' = fresh \/ fresh' = {}
  BY DEF Next, Open, PopFree, Extend, ExtendFails, WriteNodeFails, FreeBlock, ReadFails,
         CommitRootFails, GcBlock, GcBlockFails, GcFinish, GcFinishFails,
         StartClose, FinishClose, FinishCloseFails, Crash, Forget
<1>3. Contents(dheader.tree)' = Contents(dheader.tree)
  BY <1>1, NodesKept DEF Contents
<1>4. CASE fresh' = {}
  <2>1. Contents(fresh)' = Store!Nothing
    BY <1>4 DEF Contents, Store!Nothing
  <2>2. Store!Abort
    BY <1>3, <2>1 DEF Store!Abort, Damaged
  <2> QED
    BY <2>2 DEF Store!Next
<1>5. CASE fresh' = fresh
  <2>1. Contents(fresh)' = Contents(fresh)
    BY <1>5, NodesKept DEF Contents
  <2> QED
    BY <1>3, <2>1 DEF Store!vars, Damaged
<1> QED
  BY <1>2, <1>4, <1>5

(* A block file is an atomic store of nodes, whatever crashes and whatever *)
(* reads and writes fail: a commit takes effect in one step and a          *)
(* committed node stays what it is, until the file is damaged: an          *)
(* operation throws after it has staged blocks, links a block twice, or    *)
(* takes an empty node for a link.                                         *)
THEOREM StoreIsAtomic == Spec => ImplementsStore
<1>1. Init => Store!Init
  BY DEF Init, EmptyHeader, Contents, Damaged, Store!Init, Store!Nothing
<1>2. TypeOK /\ IndInv /\ [Next]_vars => [Store!Next]_(Store!vars)
  <2> SUFFICES ASSUME TypeOK, IndInv, [Next]_vars
               PROVE  Store!Next \/ UNCHANGED Store!vars
    OBVIOUS
  <2>1. CASE UNCHANGED vars
    BY <2>1 DEF vars, Store!vars, Contents, Damaged
  <2>2. CASE Damaged
    BY <2>2 DEF Store!Next
  <2>3. CASE Damaged'
    BY <2>3 DEF Store!Next, Store!Break
  <2>4. CASE WriteNode /\ ~Damaged
    BY <2>4, WriteRefines
  <2>5. CASE CommitRoot /\ ~Damaged
    BY <2>5, FlipRefines
  <2> QED
    BY <2>1, <2>2, <2>3, <2>4, <2>5, OtherRefines
<1> QED
  BY <1>1, <1>2, Invariant, PTL DEF Spec, ImplementsStore, Store!Spec

-----------------------------------------------------------------------------
(***************************************************************************)
(* The free list of the block file as it stands on disk: the links spell   *)
(* exactly the blocks the header calls free, and as long as nothing fails  *)
(* no block falls off the list.                                            *)
(***************************************************************************)

\* The links from the head spell the list, block by block, to a link that leads
\* to no block.
Spells(s, n, h, bl) ==
  /\ s \in [1..n -> Block]
  /\ h.free = {s[i] : i \in 1..n}
  /\ \A i, j \in 1..n : s[i] = s[j] => i = j
  /\ IF n = 0 THEN h.head \notin Block ELSE h.head = s[1]
  /\ \A i \in 1..n : IF i = n THEN bl[s[i]].next \notin Block ELSE bl[s[i]].next = s[i + 1]

Spelled(h, bl) == \E n \in Nat : \E s : Spells(s, n, h, bl)

(* A list without a head has no block. *)
LEMMA NoHeadNoList ==
  ASSUME NEW h \in HeaderType, NEW bl, Spelled(h, bl), h.head = NoBlock
  PROVE  h.free = {}
<1> PICK n \in Nat : \E s : Spells(s, n, h, bl)
  BY DEF Spelled
<1> PICK s : Spells(s, n, h, bl)
  OBVIOUS
<1>1. NoBlock \notin Block
  BY DEF Block, NoBlock
<1>2. CASE n = 0
  BY <1>2 DEF Spells
<1>3. CASE n # 0
  <2>1. 1 \in 1..n
    BY <1>3
  <2> QED
    BY <1>1, <1>3, <2>1 DEF Spells
<1> QED
  BY <1>2, <1>3

(* Nobody who writes elsewhere changes the list. *)
LEMMA SpelledFrame ==
  ASSUME NEW h \in HeaderType, NEW g \in HeaderType, NEW B, NEW C, Spelled(h, B),
         g.free = h.free, g.head = h.head, \A b \in h.free : C[b] = B[b]
  PROVE  Spelled(g, C)
<1> PICK n \in Nat : \E s : Spells(s, n, h, B)
  BY DEF Spelled
<1> PICK s : Spells(s, n, h, B)
  OBVIOUS
<1>1. \A i \in 1..n : C[s[i]] = B[s[i]]
  BY DEF Spells
<1>2. Spells(s, n, g, C)
  BY <1>1 DEF Spells
<1> QED
  BY <1>2 DEF Spelled

(* The list without its head is spelled by the rest of the sequence. *)
LEMMA SpelledPop ==
  ASSUME NEW h \in HeaderType, NEW B, Spelled(h, B), h.head \in Block,
         NEW g \in HeaderType, g.head = B[h.head].next, g.free = h.free \ {h.head}
  PROVE  Spelled(g, B)
<1> PICK n \in Nat : \E s : Spells(s, n, h, B)
  BY DEF Spelled
<1> PICK s : Spells(s, n, h, B)
  OBVIOUS
<1>0. /\ s \in [1..n -> Block]
      /\ \A a : a \in h.free <=> \E i \in 1..n : a = s[i]
  BY DEF Spells
<1>1. n # 0 /\ n - 1 \in Nat /\ h.head = s[1]
  BY DEF Spells
<1> DEFINE t == [i \in 1..(n - 1) |-> s[i + 1]]
<1>2. \A i \in 1..(n - 1) : i + 1 \in 1..n /\ t[i] = s[i + 1] /\ t[i] \in Block
  BY <1>1 DEF Spells
<1>3. g.free = {t[i] : i \in 1..(n - 1)}
  <2>1. \A i \in 1..n : s[i] # s[1] => i - 1 \in 1..(n - 1) /\ t[i - 1] = s[i]
    <3> SUFFICES ASSUME NEW i \in 1..n, i # 1
                 PROVE  i - 1 \in 1..(n - 1) /\ t[i - 1] = s[i]
      OBVIOUS
    <3>1. i - 1 \in 1..(n - 1) /\ (i - 1) + 1 = i
      BY <1>1
    <3> QED
      BY <3>1
  <2>2. \A i \in 1..(n - 1) : t[i] # s[1] /\ t[i] \in h.free
    <3> SUFFICES ASSUME NEW i \in 1..(n - 1)
                 PROVE  s[i + 1] # s[1] /\ s[i + 1] \in h.free
      BY <1>2
    <3>1. i + 1 \in 1..n /\ 1 \in 1..n /\ i + 1 # 1
      BY <1>1
    <3> QED
      BY <3>1 DEF Spells
  <2>3. ASSUME NEW b \in g.free
        PROVE  \E i \in 1..(n - 1) : t[i] = b
    <3> PICK i \in 1..n : b = s[i] /\ s[i] # s[1]
      BY <1>0, <1>1, <2>3
    <3> QED
      BY <2>1
  <2>4. \A i \in 1..(n - 1) : t[i] \in g.free
    BY <1>1, <2>2
  <2> HIDE DEF t
  <2> QED
    BY <2>3, <2>4
<1>4. \A i, j \in 1..(n - 1) : t[i] = t[j] => i = j
  BY <1>1, <1>2 DEF Spells
<1>5. IF n - 1 = 0 THEN g.head \notin Block ELSE g.head = t[1]
  BY <1>1 DEF Spells
<1>6. \A i \in 1..(n - 1) :
        IF i = n - 1 THEN B[t[i]].next \notin Block ELSE B[t[i]].next = t[i + 1]
  BY <1>1, <1>2 DEF Spells
<1>7. t \in [1..(n - 1) -> Block]
  BY <1>2
<1> HIDE DEF t
<1>8. Spells(t, n - 1, g, B)
  BY <1>3, <1>4, <1>5, <1>6, <1>7 DEF Spells
<1> QED
  BY <1>1, <1>8 DEF Spelled

(* The list with a block linked in front is spelled from that block on. *)
LEMMA SpelledPush ==
  ASSUME NEW h \in HeaderType, NEW B, Spelled(h, B), NEW b \in Block, b \notin h.free,
         NEW C, \A a \in h.free : C[a] = B[a], C[b].next = h.head,
         NEW g \in HeaderType, g.head = b, g.free = h.free \cup {b}
  PROVE  Spelled(g, C)
<1> PICK n \in Nat : \E s : Spells(s, n, h, B)
  BY DEF Spelled
<1> PICK s : Spells(s, n, h, B)
  OBVIOUS
<1>0. /\ s \in [1..n -> Block]
      /\ \A a : a \in h.free <=> \E i \in 1..n : a = s[i]
  BY DEF Spells
<1> DEFINE t == [i \in 1..(n + 1) |-> IF i = 1 THEN b ELSE s[i - 1]]
<1>1. t[1] = b /\ \A i \in 1..n : i + 1 \in 1..(n + 1) /\ t[i + 1] = s[i] /\ s[i] \in h.free
  <2>1. \A i \in 1..n : i + 1 \in 1..(n + 1) /\ i + 1 # 1 /\ (i + 1) - 1 = i
    OBVIOUS
  <2>2. 1 \in 1..(n + 1)
    OBVIOUS
  <2> QED
    BY <1>0, <2>1, <2>2
<1>2. \A i \in 1..(n + 1) : i = 1 \/ (i - 1 \in 1..n /\ t[i] = s[i - 1])
  OBVIOUS
<1>3. g.free = {t[i] : i \in 1..(n + 1)}
  <2>1. 1 \in 1..(n + 1)
    OBVIOUS
  <2>2. \A i \in 1..(n + 1) : t[i] \in g.free
    BY <1>1, <1>2
  <2>3. \A a \in g.free : \E i \in 1..(n + 1) : a = t[i]
    BY <1>0, <1>1, <2>1
  <2> HIDE DEF t
  <2> QED
    BY <2>2, <2>3
<1>4. \A i, j \in 1..(n + 1) : t[i] = t[j] => i = j
  <2> SUFFICES ASSUME NEW i \in 1..(n + 1), NEW j \in 1..(n + 1), t[i] = t[j] PROVE i = j
    OBVIOUS
  <2>1. CASE i = 1 \/ j = 1
    BY <1>1, <1>2, <2>1
  <2>2. CASE i # 1 /\ j # 1
    BY <1>2, <2>2 DEF Spells
  <2> QED
    BY <2>1, <2>2
<1>5. t \in [1..(n + 1) -> Block]
  BY <1>1, <1>2 DEF Spells
<1>6. \A i \in 1..n : C[s[i]] = B[s[i]]
  BY <1>1
<1>7. \A i \in 1..(n + 1) :
        IF i = n + 1 THEN C[t[i]].next \notin Block ELSE C[t[i]].next = t[i + 1]
  <2> SUFFICES ASSUME NEW i \in 1..(n + 1)
               PROVE  IF i = n + 1 THEN C[t[i]].next \notin Block ELSE C[t[i]].next = t[i + 1]
    OBVIOUS
  <2>1. CASE i = 1
    BY <1>1, <2>1 DEF Spells
  <2>2. CASE i # 1
    <3>1. i - 1 \in 1..n /\ t[i] = s[i - 1] /\ C[t[i]] = B[s[i - 1]]
      BY <1>2, <1>6, <2>2
    <3>2. i # n + 1 => t[i + 1] = s[i]
      BY <2>2
    <3> QED
      BY <3>1, <3>2 DEF Spells
  <2> QED
    BY <2>1, <2>2
<1>8. n + 1 # 0 /\ n + 1 \in Nat /\ g.head = t[1]
  BY <1>1
<1> HIDE DEF t
<1>9. Spells(t, n + 1, g, C)
  <2>1. IF n + 1 = 0 THEN g.head \notin Block ELSE g.head = t[1]
    BY <1>8
  <2> QED
    BY Zenon, <1>3, <1>4, <1>5, <1>7, <2>1 DEF Spells
<1> QED
  BY <1>8, <1>9 DEF Spelled

-----------------------------------------------------------------------------
(* Both lists are spelled by the links on disk, the one in memory as long  *)
(* as the stream is good.                                                  *)
SpellInv ==
  ~Damaged => Spelled(dheader, blocks) /\ (good => Spelled(header, blocks))

(* A list that ends in the block just written is spelled by that block.    *)
LEMMA SpelledCut ==
  ASSUME NEW g \in HeaderType, NEW B, NEW b \in Block, g.head = b, g.free = {b},
         B[b].next \notin Block
  PROVE  Spelled(g, B)
<1> DEFINE s == [i \in 1..1 |-> b]
<1>1. 1 \in 1..1 /\ \A i \in 1..1 : i = 1 /\ s[i] = b
  OBVIOUS
<1>2. s \in [1..1 -> Block]
  OBVIOUS
<1> HIDE DEF s
<1>3. g.free = {s[i] : i \in 1..1}
  BY <1>1
<1>4. Spells(s, 1, g, B)
  BY <1>1, <1>2, <1>3 DEF Spells
<1> QED
  BY <1>4 DEF Spelled

(* allocateBlock() and writeNode() leave both lists spelled.               *)
LEMMA SpellTxn ==
  ASSUME TypeOK, TypeOK', StreamInv, FileInv, ~Damaged',
         Spelled(dheader, blocks), Spelled(header, blocks),
         PopFree \/ Extend \/ WriteNode
  PROVE  Spelled(dheader', blocks') /\ Spelled(header', blocks')
<1>1. /\ header.free \subseteq Block /\ dheader.free \subseteq Block
      /\ NoBlock \notin Block /\ Wild \notin Block /\ Inside \notin Block
      /\ header.count \in Nat /\ header.count # 0
      /\ \A b \in Block : b \in Nat
  BY BoundsAssumption DEF TypeOK, HeaderType, Block, NoBlock, Wild, Inside
<1>2. CASE PopFree
  <2>1. ListOK(header, blocks)
    BY <1>2 DEF PopFree, Allocating, FileInv, TxnOK, IdleOK
  <2>2. header.head \in header.free /\ header.head # Inside
    BY <1>2, <2>1, BoundsAssumption
    DEF PopFree, Damaged, ListOK, NoLinks, TypeOK, HeaderType, Block, NoBlock, Wild, Inside
  <2>3. /\ header'.head = blocks[header.head].next
        /\ header'.free = header.free \ {header.head}
        /\ blocks' = blocks /\ dheader' = dheader
    BY <1>2, <2>2 DEF PopFree, TypeOK, HeaderType, NextFree
  <2> QED
    BY <1>1, <2>2, <2>3, SpelledPop DEF TypeOK
<1>3. CASE Extend
  <2>1. /\ header'.head = NoBlock /\ header'.free = {} /\ dheader' = dheader
        /\ blocks' = [blocks EXCEPT ![header.count] = [kind |-> "zero", next |-> NoBlock]]
    BY <1>3 DEF Extend, TypeOK, HeaderType
  <2>2. Spells([i \in 1..0 |-> i], 0, header', blocks')
    BY <1>1, <2>1 DEF Spells
  <2>3. \A b \in dheader.free : b < header.count
    <3>1. dheader.count <= header.count
      BY <1>3 DEF Extend, Allocating, FileInv, TxnOK, IdleOK, TypeOK, HeaderType
    <3> QED
      BY <1>1, <3>1 DEF FileInv, ListOK, TypeOK, HeaderType
  <2>4. \A b \in dheader.free : blocks'[b] = blocks[b]
    BY <1>1, <2>1, <2>3 DEF TypeOK
  <2>5. Spelled(dheader', blocks')
    <3>1. dheader \in HeaderType
      BY DEF TypeOK
    <3>2. Spelled(dheader, blocks')
      BY <2>4, <3>1, SpelledFrame
    <3> QED
      BY <2>1, <3>2
  <2> QED
    BY <2>2, <2>5 DEF Spelled
<1>4. CASE WriteNode
  <2>1. PICK w \in NodeWords : blocks' = [blocks EXCEPT ![slot] = [kind |-> "node", next |-> w]]
    BY <1>4 DEF WriteNode
  <2>2. slot \in Block /\ slot \notin header.free /\ header' = header /\ ListsApart
    BY <1>1, <1>4 DEF WriteNode, FileInv, TxnOK
  <2>3. \A b \in Block : b # slot => blocks'[b] = blocks[b]
    BY <2>1 DEF TypeOK
  <2>4. blocks'[slot].next \notin Block
    BY <1>1, <2>1, <2>2, WordsAssumption DEF TypeOK
  <2>5. Spelled(header', blocks')
    BY <1>1, <2>2, <2>3, SpelledFrame DEF TypeOK
  <2>6. CASE slot \in dheader.free
    <3>1. dheader'.head = slot /\ dheader'.free = {slot}
      BY <1>4, <2>2, <2>6 DEF WriteNode, ListsApart, TypeOK, HeaderType
    <3> QED
      BY <2>2, <2>4, <2>5, <3>1, SpelledCut DEF TypeOK
  <2>7. CASE slot \notin dheader.free
    <3>1. dheader' = dheader
      BY <1>4, <2>7 DEF WriteNode
    <3> QED
      BY <1>1, <2>3, <2>5, <2>7, <3>1, SpelledFrame DEF TypeOK
  <2> QED
    BY <2>6, <2>7
<1> QED
  BY <1>2, <1>3, <1>4

(* A round of the collection links a block to the list in memory and       *)
(* writes to no block of the list on disk.                                 *)
LEMMA SpellGc ==
  ASSUME TypeOK, TypeOK', StreamInv, FileInv, GcBlock, ~Damaged',
         Spelled(dheader, blocks), Spelled(header, blocks)
  PROVE  Spelled(dheader', blocks') /\ Spelled(header', blocks')
<1> DEFINE b == pending[gcIndex + 1]
<1>1. /\ gcIndex + 1 \in 1..Len(pending) /\ dheader' = dheader
      /\ blocks' = [blocks EXCEPT ![b] = [kind |-> "free", next |-> header.head]]
      /\ header' = [header EXCEPT !.head = b, !.free = @ \cup {b}]
  BY DEF GcBlock, Collecting, TypeOK, CurrentHead
<1>2. GcOK
  BY <1>1 DEF GcBlock, Collecting, FileInv, AbortOK
<1>3. b \in Block /\ b \notin header.free /\ b \notin dheader.free
  <2>1. b \notin header.free
    BY DEF GcBlock, Damaged
  <2> QED
    BY <1>1, <1>2, <2>1, SeqElement DEF GcOK, TypeOK
<1>4. header'.head = b /\ header'.free = header.free \cup {b}
  BY <1>1 DEF TypeOK, HeaderType
<1>5. blocks'[b].next = header.head /\ \A a \in Block \ {b} : blocks'[a] = blocks[a]
  BY <1>1, <1>3 DEF TypeOK
<1>6. header.free \subseteq Block \ {b} /\ dheader.free \subseteq Block \ {b}
  BY <1>3 DEF TypeOK, HeaderType
<1> HIDE DEF b
<1>7. Spelled(header', blocks')
  BY <1>3, <1>4, <1>5, <1>6, SpelledPush DEF TypeOK
<1>8. Spelled(dheader', blocks')
  BY <1>1, <1>5, <1>6, SpelledFrame DEF TypeOK
<1> QED
  BY <1>7, <1>8

(* No step breaks a list on disk, whatever fails or crashes. *)
LEMMA SpellStep ==
  ASSUME TypeOK, TypeOK', IndInv, SpellInv, [Next]_vars
  PROVE  SpellInv'
<1> SUFFICES ASSUME ~Damaged'
             PROVE  Spelled(dheader', blocks') /\ (good' => Spelled(header', blocks'))
  BY DEF SpellInv
<1>a. ~Damaged
  BY DamageStays
<1>b. /\ StreamInv /\ FileInv
      /\ Spelled(dheader, blocks) /\ (good => Spelled(header, blocks))
  BY <1>a DEF IndInv, SpellInv
<1>1. CASE PopFree \/ Extend \/ WriteNode
  <2>1. good
    BY <1>b, <1>1 DEF StreamInv, PopFree, Extend, WriteNode, Allocating
  <2> QED
    BY <1>b, <1>1, <2>1, SpellTxn
<1>2. CASE GcBlock
  BY <1>b, <1>2, SpellGc DEF GcBlock
<1>3. CASE CommitRoot
  <2>1. /\ good /\ blocks' = blocks /\ dheader' = header'
        /\ header'.head = header.head /\ header'.free = header.free
    BY <1>b, <1>3 DEF CommitRoot, Writing, RootFlipped, StreamInv, TypeOK, HeaderType
  <2> QED
    BY <1>b, <2>1, SpelledFrame DEF TypeOK
<1>4. CASE Open \/ FinishCloseFails \/ Crash
  BY <1>b, <1>4 DEF Open, FinishCloseFails, Crash, Forget
<1>5. CASE GcFinish \/ FinishClose
  BY <1>b, <1>5 DEF GcFinish, FinishClose, Forget, HeadSaved
<1>6. CASE ExtendFails \/ WriteNodeFails \/ CommitRootFails \/ GcBlockFails \/ GcFinishFails
  BY <1>b, <1>6
  DEF ExtendFails, WriteNodeFails, CommitRootFails, GcBlockFails, GcFinishFails,
      StreamAfterFailedWrite
<1>7. CASE (\E b \in Block : FreeBlock(b)) \/ StartClose \/ UNCHANGED vars
  BY <1>b, <1>7 DEF FreeBlock, StartClose, vars
<1>8. CASE ReadFails
  <2>1. mode = "txn" /\ UNCHANGED <<header, dheader, blocks>>
    BY <1>8 DEF ReadFails, Writing
  <2> QED
    BY <1>b, <2>1 DEF StreamInv
<1> QED
  BY <1>1, <1>2, <1>3, <1>4, <1>5, <1>6, <1>7, <1>8 DEF Next

(* The lists of every reachable state are spelled by the links on disk. *)
LEMMA ListsSpelled == Spec => [](TypeOK /\ IndInv /\ SpellInv)
<1>1. Init => SpellInv
  <2> SUFFICES ASSUME Init PROVE SpellInv
    OBVIOUS
  <2>1. header = [tree |-> {}, head |-> NoBlock, free |-> {}, count |-> 1] /\ dheader = header
    BY DEF Init, EmptyHeader
  <2>2. Spells([i \in 1..0 |-> i], 0, header, blocks)
    BY <2>1 DEF Spells, Block, NoBlock
  <2> QED
    BY <2>1, <2>2 DEF Spelled, SpellInv
<1>2. (TypeOK /\ IndInv) /\ (TypeOK /\ IndInv)' /\ SpellInv /\ [Next]_vars => SpellInv'
  BY SpellStep
<1> QED
  BY <1>1, <1>2, Invariant, PTL DEF Spec

-----------------------------------------------------------------------------
(* A list has no more blocks than the file. *)
LEMMA SpelledLength ==
  ASSUME NEW h, NEW B, NEW n \in Nat, NEW s, Spells(s, n, h, B)
  PROVE  n <= MaxBlocks
<1>1. IsFiniteSet(1..n) /\ Cardinality(1..n) = n
  <2>1. 1 \in Int /\ n \in Int /\ (1 > n => n = 0)
    OBVIOUS
  <2> QED
    BY <2>1, FS_Interval
<1>2. IsFiniteSet(Block) /\ Cardinality(Block) = MaxBlocks
  <2>1. 1 \in Int /\ MaxBlocks \in Int /\ ~(1 > MaxBlocks) /\ MaxBlocks - 1 + 1 = MaxBlocks
    BY BoundsAssumption
  <2> QED
    BY <2>1, FS_Interval DEF Block
<1>3. s \in Injection(1..n, Block)
  BY DEF Spells, Injection, IsInjective
<1> QED
  BY <1>1, <1>2, <1>3, FS_Injection

\* The first m + 1 blocks of a list, and the blocks a set of blocks links to.
Prefix(s, n, m) == {s[i] : i \in {j \in 1..n : j <= m + 1}}
Linked(A) == {blocks[b].next : b \in A} \cap Block

(* From the blocks met in m - 1 rounds the links lead to those of m. *)
LEMMA PrefixGrows ==
  ASSUME TypeOK, NEW h \in HeaderType, NEW n \in Nat, NEW s, Spells(s, n, h, blocks)
  PROVE  /\ Prefix(s, n, 0) = {h.head} \cap Block
         /\ \A m \in Nat \ {0} :
              Prefix(s, n, m) = Prefix(s, n, m - 1) \cup Linked(Prefix(s, n, m - 1))
<1>0. s \in [1..n -> Block]
  BY DEF Spells
<1>1. Prefix(s, n, 0) = {h.head} \cap Block
  <2>1. CASE n = 0
    BY <2>1 DEF Prefix, Spells
  <2>2. CASE n # 0
    <3>1. 1 \in 1..n /\ \A j \in 1..n : j <= 0 + 1 <=> j = 1
      BY <2>2
    <3> QED
      BY <1>0, <2>2, <3>1 DEF Prefix, Spells
  <2> QED
    BY <2>1, <2>2
<1>2. ASSUME NEW m \in Nat \ {0}
      PROVE  Prefix(s, n, m) = Prefix(s, n, m - 1) \cup Linked(Prefix(s, n, m - 1))
  <2>0. (m - 1) + 1 = m
    OBVIOUS
  <2>1. ASSUME NEW i \in 1..n, i <= m + 1
        PROVE  s[i] \in Prefix(s, n, m - 1) \cup Linked(Prefix(s, n, m - 1))
    <3>1. CASE i <= m
      BY <2>0, <3>1 DEF Prefix
    <3>2. CASE i = m + 1
      <4>1. m \in 1..n /\ m # n /\ s[m] \in Prefix(s, n, m - 1)
        BY <2>0, <3>2 DEF Prefix
      <4>2. blocks[s[m]].next = s[i]
        BY <3>2, <4>1 DEF Spells
      <4> QED
        BY <1>0, <4>1, <4>2 DEF Linked
    <3> QED
      BY <2>1, <3>1, <3>2
  <2>2. Prefix(s, n, m - 1) \subseteq Prefix(s, n, m)
    <3>1. \A j \in 1..n : j <= (m - 1) + 1 => j <= m + 1
      OBVIOUS
    <3> QED
      BY <3>1 DEF Prefix
  <2>3. ASSUME NEW i \in 1..n, i <= m, blocks[s[i]].next \in Block
        PROVE  blocks[s[i]].next \in Prefix(s, n, m)
    <3>1. i # n /\ blocks[s[i]].next = s[i + 1]
      BY <2>3 DEF Spells
    <3>2. i + 1 \in 1..n /\ i + 1 <= m + 1
      BY <2>3, <3>1
    <3> QED
      BY <3>1, <3>2 DEF Prefix
  <2>4. Linked(Prefix(s, n, m - 1)) \subseteq Prefix(s, n, m)
    BY <2>0, <2>3 DEF Linked, Prefix
  <2>5. Prefix(s, n, m) \subseteq Prefix(s, n, m - 1) \cup Linked(Prefix(s, n, m - 1))
    BY <2>1 DEF Prefix
  <2> QED
    BY <2>2, <2>4, <2>5
<1> QED
  BY <1>1, <1>2

(* Following the links from the head of a list meets exactly its blocks.   *)
LEMMA ChainIsList ==
  ASSUME TypeOK, NEW h \in HeaderType, Spelled(h, blocks)
  PROVE  Chain(h.head) = h.free
<1> PICK n \in Nat : \E s : Spells(s, n, h, blocks)
  BY DEF Spelled
<1> PICK s : Spells(s, n, h, blocks)
  OBVIOUS
<1> DEFINE Rounds(g) ==
      [m \in 0..MaxBlocks |-> IF m = 0 THEN {h.head} \cap Block
                              ELSE g[m - 1] \cup ({blocks[b].next : b \in g[m - 1]} \cap Block)]
<1> DEFINE f == [m \in 0..MaxBlocks |-> Prefix(s, n, m)]
<1> DEFINE reach == CHOOSE g : g = Rounds(g)
<1>1. Chain(h.head) = reach[MaxBlocks]
  BY DEF Chain
<1>2. f = Rounds(f)
  <2>1. ASSUME NEW m \in 0..MaxBlocks
        PROVE  Prefix(s, n, m) =
                 IF m = 0 THEN {h.head} \cap Block
                 ELSE f[m - 1] \cup ({blocks[b].next : b \in f[m - 1]} \cap Block)
    <3>1. CASE m = 0
      BY <3>1, PrefixGrows
    <3>2. CASE m # 0
      <4>1. m - 1 \in 0..MaxBlocks /\ m \in Nat \ {0}
        BY <3>2, BoundsAssumption
      <4> QED
        BY <3>2, <4>1, PrefixGrows DEF Linked
    <3> QED
      BY <3>1, <3>2
  <2> QED
    BY <2>1
<1>3. reach = Rounds(reach)
  BY <1>2
<1> HIDE DEF f, reach
<1>4. \A m \in 0..MaxBlocks :
        reach[m] = IF m = 0 THEN {h.head} \cap Block ELSE reach[m - 1] \cup Linked(reach[m - 1])
  BY <1>3 DEF Linked
<1>5. \A m \in Nat : m \in {k \in Nat : k <= MaxBlocks => reach[k] = Prefix(s, n, k)}
  <2> DEFINE T == {k \in Nat : k <= MaxBlocks => reach[k] = Prefix(s, n, k)}
  <2>1. 0 \in T
    <3>1. 0 \in 0..MaxBlocks
      BY BoundsAssumption
    <3>2. reach[0] = {h.head} \cap Block
      BY <1>4, <3>1
    <3> QED
      BY <3>2, PrefixGrows
  <2>2. ASSUME NEW k \in Nat, k \in T PROVE k + 1 \in T
    <3>1. k + 1 <= MaxBlocks => k + 1 \in 0..MaxBlocks /\ k <= MaxBlocks
      BY BoundsAssumption
    <3>2. (k + 1) - 1 = k /\ k + 1 \in Nat \ {0}
      OBVIOUS
    <3>3. Prefix(s, n, k + 1) = Prefix(s, n, k) \cup Linked(Prefix(s, n, k))
      BY <3>2, PrefixGrows
    <3>4. ASSUME k + 1 <= MaxBlocks PROVE reach[k + 1] = Prefix(s, n, k + 1)
      <4>1. reach[k + 1] = reach[k] \cup Linked(reach[k])
        BY <1>4, <3>1, <3>2, <3>4
      <4>2. reach[k] = Prefix(s, n, k)
        BY <2>2, <3>1, <3>4
      <4> QED
        BY <3>3, <4>1, <4>2
    <3> QED
      BY <3>4
  <2> HIDE DEF T
  <2>3. \A m \in Nat : m \in T
    BY <2>1, <2>2, NumberInduction
  <2> QED
    BY <2>3 DEF T
<1>6. Prefix(s, n, MaxBlocks) = h.free
  <2>1. \A j \in 1..n : j <= MaxBlocks + 1
    BY SpelledLength, BoundsAssumption
  <2> QED
    BY <2>1 DEF Prefix, Spells
<1> QED
  BY <1>1, <1>5, <1>6, BoundsAssumption

(* On disk always, and in memory as long as the stream is good, the links  *)
(* lead from the head of the free list through exactly its blocks: no      *)
(* crash and no failed read or write, between the two phases of a commit   *)
(* or inside the second, leaves a list that leads into the tree.  A        *)
(* damaged file is left out, and so is what a block linked twice does.     *)
THEOREM FreeListsSound == Spec => []FreeListSound
<1>1. TypeOK /\ IndInv /\ SpellInv => FreeListSound
  <2> SUFFICES ASSUME TypeOK, IndInv, SpellInv, ~Damaged
               PROVE  /\ Chain(dheader.head) = dheader.free
                      /\ dheader.free \cap dheader.tree = {}
                      /\ mode \in {"idle", "txn", "gc"} /\ good =>
                           /\ Chain(header.head) = header.free
                           /\ header.free \cap (header.tree \cup fresh) = {}
                           /\ StagedApart
    BY DEF FreeListSound
  <2>1. header \in HeaderType /\ dheader \in HeaderType
    BY DEF TypeOK
  <2>2. Chain(dheader.head) = dheader.free /\ (good => Chain(header.head) = header.free)
    BY <2>1, ChainIsList DEF SpellInv
  <2>3. StreamInv /\ FileInv
    BY DEF IndInv
  <2>4. dheader.free \cap dheader.tree = {}
    BY <2>3 DEF FileInv, ListOK
  <2>5. ASSUME mode \in {"idle", "txn", "gc"}, good
        PROVE  header.free \cap (header.tree \cup fresh) = {} /\ StagedApart
    <3>1. CASE mode = "idle"
      BY <2>3, <2>4, <3>1 DEF FileInv, IdleOK, StagedApart, TypeOK
    <3>2. CASE mode = "txn"
      <4>1. ListOK(header, blocks) /\ fresh \cap header.free = {}
            /\ Staged \subseteq header.tree \cup fresh
        BY <2>3, <3>2 DEF FileInv, TxnOK
      <4>2. \A i \in (gcIndex + 1)..Len(pending) : pending[i] \in Staged
        BY DEF Staged, TypeOK
      <4> QED
        BY <4>1, <4>2 DEF ListOK, StagedApart
    <3>3. CASE mode = "gc"
      BY <2>3, <2>5, <3>3 DEF FileInv, GcOK, ListOK
    <3> QED
      BY <2>5, <3>1, <3>2, <3>3
  <2> QED
    BY <2>2, <2>4, <2>5
<1> QED
  BY <1>1, ListsSpelled, PTL

-----------------------------------------------------------------------------
\* The blocks of the file, by what they are used for.
Accounted ==
  LET all == 1..(header.count - 1)
      settled == header.tree \cup header.free
  IN  /\ mode \in {"closed", "idle", "closing"} =>
           header = dheader /\ pending = <<>> /\ all = settled
      /\ mode = "txn" => all = settled \cup fresh \cup ({slot} \ {NoBlock})
      /\ mode = "gc" =>
           all = settled \cup {pending[i] : i \in (gcIndex + 1)..Len(pending)}

(* What keeps a file without faults from losing a block. *)
LossInv ==
  fault = "none" => good /\ mode # "abort" /\ Accounted

(* An action of a transaction keeps every block accounted for. *)
LEMMA LossTxn ==
  ASSUME TypeOK, TypeOK', StreamInv, FileInv, SpellInv, LossInv,
         fault' = "none", fault = "none",
         PopFree \/ Extend \/ WriteNode \/ (\E b \in Block : FreeBlock(b)) \/ CommitRoot
  PROVE  LossInv'
<1>0. /\ good /\ Accounted
      /\ mode \in {"idle", "txn"} /\ good' = good
  BY DEF LossInv, PopFree, Extend, WriteNode, FreeBlock, CommitRoot, Allocating, Writing
<1>1. /\ header.free \subseteq Block /\ header.tree \subseteq Block /\ NoBlock \notin Block
      /\ header.count \in Nat
  BY DEF TypeOK, HeaderType, Block, NoBlock
<1>2. slot = NoBlock =>
        1..(header.count - 1) = header.tree \cup header.free \cup fresh
  <2>1. CASE mode = "idle"
    BY <1>0, <2>1 DEF Accounted, FileInv, IdleOK
  <2>2. CASE mode = "txn"
    BY <1>0, <2>2 DEF Accounted
  <2> QED
    BY <1>0, <2>1, <2>2
<1>3. CASE PopFree
  <2>1. ListOK(header, blocks)
    BY <1>3 DEF PopFree, Allocating, FileInv, TxnOK, IdleOK
  <2>2. header.head \in header.free /\ header.head # Inside
    BY <1>3, <2>1, BoundsAssumption
    DEF PopFree, Damaged, ListOK, NoLinks, TypeOK, HeaderType, Block, NoBlock, Wild, Inside
  <2>3. /\ header'.tree = header.tree /\ header'.count = header.count
        /\ header'.head = blocks[header.head].next
        /\ header'.free = header.free \ {header.head}
    BY <1>3, <2>2 DEF PopFree, TypeOK, HeaderType, NextFree
  <2>5. 1..(header'.count - 1) =
          header'.tree \cup header'.free \cup fresh' \cup ({slot'} \ {NoBlock})
    BY <1>1, <1>2, <1>3, <2>2, <2>3 DEF PopFree, Allocating
  <2> QED
    BY <1>0, <1>3, <2>5 DEF LossInv, Accounted, PopFree
<1>4. CASE Extend
  <2>1. header.head = NoBlock
    BY <1>4 DEF Extend, Worse
  <2>2. header.free = {}
    BY <1>0, <2>1, NoHeadNoList DEF TypeOK, SpellInv, Damaged
  <2>3. /\ header'.tree = header.tree /\ header'.count = header.count + 1
        /\ header'.head = header.head /\ header'.free = header.free
        /\ slot' = header.count /\ mode' = "txn"
    BY <1>4, <2>1, <2>2 DEF Extend, TypeOK, HeaderType
  <2>5. header.count # NoBlock /\ header.count > 0
    BY DEF TypeOK, HeaderType, NoBlock
  <2>6. 1..header.count = 1..(header.count - 1) \cup {header.count}
    BY <1>1, <2>5
  <2>7. 1..(header'.count - 1) =
          header'.tree \cup header'.free \cup fresh' \cup ({slot'} \ {NoBlock})
    <3>1. header'.count - 1 = header.count
      BY <1>1, <2>3
    <3> QED
      BY <1>2, <1>4, <2>3, <2>5, <2>6, <3>1 DEF Extend, Allocating
  <2> QED
    BY <1>0, <2>3, <2>7 DEF LossInv, Accounted
<1>5. CASE WriteNode
  <2>2. slot \in Block /\ slot \notin header.free /\ slot # NoBlock
    BY <1>1, <1>5 DEF WriteNode, FileInv, TxnOK
  <2>5. 1..(header'.count - 1) =
          header'.tree \cup header'.free \cup fresh' \cup ({slot'} \ {NoBlock})
    BY <1>0, <1>5, <2>2 DEF WriteNode, Accounted
  <2> QED
    BY <1>0, <1>5, <2>5 DEF LossInv, Accounted, WriteNode
<1>6. CASE \E b \in Block : FreeBlock(b)
  BY <1>0, <1>6 DEF FreeBlock, Writing, LossInv, Accounted
<1>7. CASE CommitRoot
  <2>1. /\ mode = "txn" /\ slot = NoBlock /\ mode' = "gc" /\ gcIndex' = 0
        /\ blocks' = blocks /\ pending' = pending
        /\ header'.tree = (header.tree \cup fresh) \ Staged
        /\ header'.head = header.head /\ header'.free = header.free
        /\ header'.count = header.count
    BY <1>7 DEF CommitRoot, Writing, TypeOK, HeaderType
  <2>3. Staged \subseteq header.tree \cup fresh
    BY <2>1 DEF FileInv, TxnOK
  <2>4. {pending'[i] : i \in (gcIndex' + 1)..Len(pending')} = Staged
    BY <2>1 DEF Staged
  <2>5. 1..(header'.count - 1) = header'.tree \cup header'.free \cup Staged
    BY <1>2, <2>1, <2>3
  <2> QED
    BY <1>0, <2>1, <2>4, <2>5 DEF LossInv, Accounted
<1> QED
  BY <1>3, <1>4, <1>5, <1>6, <1>7

(* A round of the collection moves a block to the list. *)
LEMMA LossGc ==
  ASSUME TypeOK, TypeOK', StreamInv, FileInv, LossInv,
         fault' = "none", fault = "none", GcBlock
  PROVE  LossInv'
<1>0. good /\ Accounted
  BY DEF LossInv
<1>1. mode = "gc" /\ gcIndex < Len(pending)
  <2>1. mode = "closing" => pending = <<>>
    BY <1>0 DEF Accounted
  <2> QED
    BY <2>1 DEF GcBlock, Collecting, TypeOK
<1>2. GcOK /\ gcIndex + 1 \in 1..Len(pending) /\ gcIndex \in Nat /\ Len(pending) \in Nat
  BY <1>0, <1>1 DEF FileInv, TypeOK
<1> DEFINE b == pending[gcIndex + 1]
<1>3. b \in Block /\ b \notin header.free
  <2>1. b \notin header.free
    BY DEF GcBlock, Damaged
  <2> QED
    BY <1>2, <2>1, SeqElement DEF TypeOK
<1>4. /\ header'.tree = header.tree /\ header'.count = header.count
      /\ header'.head = b /\ header'.free = header.free \cup {b}
  BY <1>3 DEF GcBlock, TypeOK, HeaderType
<1>7. {pending[i] : i \in (gcIndex + 1)..Len(pending)} =
        {b} \cup {pending[i] : i \in (gcIndex + 2)..Len(pending)}
  <2>1. (gcIndex + 1)..Len(pending) = {gcIndex + 1} \cup (gcIndex + 2)..Len(pending)
    BY <1>1, <1>2
  <2> QED
    BY <2>1
<1>8. gcIndex' + 1 = gcIndex + 2 /\ pending' = pending /\ mode' = mode /\ good' = good
  BY <1>2 DEF GcBlock
<1>9. 1..(header.count - 1) =
        header.tree \cup header.free \cup {b} \cup {pending[i] : i \in (gcIndex + 2)..Len(pending)}
  BY <1>0, <1>1, <1>7 DEF Accounted
<1>10. Accounted'
  <2> HIDE DEF b
  <2> QED
    BY <1>1, <1>4, <1>8, <1>9 DEF Accounted
<1> QED
  BY <1>0, <1>1, <1>8, <1>10 DEF LossInv

(* No step loses a block unless something fails or crashes. *)
LEMMA LossStep ==
  ASSUME TypeOK, TypeOK', IndInv, SpellInv, LossInv, [Next]_vars
  PROVE  LossInv'
<1> SUFFICES ASSUME fault' = "none" PROVE LossInv'
  BY DEF LossInv
<1>a. fault = "none"
  BY DEF Next, Open, PopFree, Extend, ExtendFails, WriteNode, WriteNodeFails, FreeBlock,
         ReadFails, CommitRoot, CommitRootFails, GcBlock, GcBlockFails, GcFinish,
         GcFinishFails, StartClose, FinishClose, FinishCloseFails, Crash, Worse, vars
<1>b. StreamInv /\ FileInv /\ good /\ mode # "abort" /\ Accounted
  BY <1>a DEF IndInv, LossInv, Damaged
<1>1. CASE PopFree \/ Extend \/ WriteNode \/ (\E b \in Block : FreeBlock(b)) \/ CommitRoot
  BY <1>a, <1>b, <1>1, LossTxn
<1>2. CASE GcBlock
  BY <1>a, <1>b, <1>2, LossGc
<1>3. CASE Open
  BY <1>b, <1>3 DEF Open, LossInv, Accounted
<1>4. CASE GcFinish
  <2>1. {pending[i] : i \in (gcIndex + 1)..Len(pending)} = {}
    BY <1>4 DEF GcFinish, TypeOK
  <2> QED
    BY <1>b, <1>4, <2>1 DEF GcFinish, HeadSaved, LossInv, Accounted
<1>5. CASE StartClose
  BY <1>b, <1>5 DEF StartClose, LossInv, Accounted
<1>6. CASE FinishClose
  BY <1>b, <1>6 DEF FinishClose, Forget, LossInv, Accounted
<1>7. CASE Crash
  <2>1. mode = "idle"
    BY <1>a, <1>7 DEF Crash, Worse
  <2> QED
    BY <1>b, <1>7, <2>1 DEF Crash, Forget, LossInv, Accounted
<1>8. CASE UNCHANGED vars
  BY <1>b, <1>8 DEF vars, LossInv, Accounted
<1>9. ~(ExtendFails \/ WriteNodeFails \/ ReadFails \/ CommitRootFails \/ GcBlockFails
          \/ GcFinishFails \/ FinishCloseFails)
  BY <1>a DEF ExtendFails, WriteNodeFails, ReadFails, CommitRootFails, GcBlockFails,
              GcFinishFails, FinishCloseFails, Worse
<1> QED
  BY <1>1, <1>2, <1>3, <1>4, <1>5, <1>6, <1>7, <1>8, <1>9 DEF Next

(* Between operations each block of the file is in the tree or on the free *)
(* list, as long as nothing fails, crashes or damages the file.            *)
THEOREM NothingLost == Spec => []NoBlockLost
<1>1. Init => LossInv
  <2> SUFFICES ASSUME Init PROVE LossInv
    OBVIOUS
  <2>1. /\ header = [tree |-> {}, head |-> NoBlock, free |-> {}, count |-> 1]
        /\ mode = "closed" /\ good
    BY DEF Init, EmptyHeader
  <2>4. Accounted
    BY <2>1 DEF Init, EmptyHeader, Accounted
  <2> QED
    BY <2>1, <2>4 DEF LossInv
<1>2. (TypeOK /\ IndInv /\ SpellInv) /\ TypeOK' /\ LossInv /\ [Next]_vars => LossInv'
  BY LossStep
<1>3. LossInv => NoBlockLost
  BY DEF LossInv, Accounted, NoBlockLost
<1> QED
  BY <1>1, <1>2, <1>3, ListsSpelled, PTL DEF Spec
=============================================================================
