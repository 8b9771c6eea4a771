------------------------------- MODULE DbFile -------------------------------
(***************************************************************************)
(* The block file under one B-tree: bTree/implements/DB_file.cpp.  Block 0 *)
(* is the metadata header, blocks 1..MaxBlocks hold either a tree node or  *)
(* a link of the on-disk free list.  The client (the B-tree) is abstract:  *)
(* in a transaction it may allocate and write blocks and stage blocks it   *)
(* no longer needs, in any order and a block more than once, and then      *)
(* commit or fail.  Its contract, checked on the B-tree itself in module   *)
(* BTree, is that the blocks of the tree it commits are the old and the    *)
(* newly written ones it did not stage.                                    *)
(*                                                                         *)
(* A header stands for the two pointers block 0 stores together with what  *)
(* they reach: the root's tree is the set of its blocks, and the head of   *)
(* the free list is kept with the set of blocks on the list (FreeListSound *)
(* checks that this is the list the links on disk really spell).           *)
(***************************************************************************)
EXTENDS Integers, Sequences

CONSTANTS
  MaxBlocks,   \* the file never grows past this many blocks (a bound)
  NodeWords,   \* what the first 8 bytes of a node's block say when they are
               \* read as the link of a free block
  Faults,      \* which of "read" and "write" the operating system may fail
  MaxStaged    \* a transaction stages no more blocks than this (a bound)

Block == 1..MaxBlocks

NoBlock == 0

\* The first 8 bytes of a node are is_leaf, three bytes of padding and n.  Read
\* as an offset, a node with n > 0 is past the end of the file, where no block
\* can be read; one with n = 0 is 0 when is_leaf and the padding are, and an
\* offset inside the header block or another one when one of them is not.
Wild == MaxBlocks + 1
Inside == MaxBlocks + 2

ASSUME BoundsAssumption == MaxBlocks \in Nat \ {0} /\ MaxStaged \in Nat
ASSUME WordsAssumption == NodeWords \subseteq {NoBlock, Wild, Inside}
ASSUME FaultsAssumption == Faults \subseteq {"read", "write"}

VARIABLES
  mode,      \* closed, idle, txn, gc (Phase 2), abort (an operation threw or
             \* failed), closing (the free list commit of close())
  header,    \* the in-memory header
  dheader,   \* the header on disk
  blocks,    \* the blocks on disk
  pending,   \* pending_free_list
  fresh,     \* blocks the running transaction has written
  slot,      \* the block allocateBlock() returned, until it is written
  gcIndex,   \* blocks of pending that commitFreeList() has processed
  good,      \* the stream's error state
  fault      \* history: none, some (a crash or an I/O error), or the damage
             \* the file has taken: unwound, relinked or misread (see Damaged)

vars == <<mode, header, dheader, blocks, pending, fresh, slot, gcIndex, good, fault>>

Offset == 0..(MaxBlocks + 2)

HeaderType == [tree  : SUBSET Block, head : Offset,
               free  : SUBSET Block, count : 1..(MaxBlocks + 1)]

BlockType == [kind : {"zero", "node", "free"}, next : Offset]

Staged == {pending[i] : i \in 1..Len(pending)}

\* The history after a crash or an I/O error.
Worse == IF fault = "none" THEN "some" ELSE fault

\* The code damages a file in three ways: an operation throws after it has staged
\* blocks, which close() then links (unwound); a block that was staged twice is
\* linked twice (relinked); the first bytes of an empty node, left on the free
\* list by a crash, are taken for an offset (misread).  Nothing is claimed of a
\* damaged file, and what its links spell is not followed further.
Damaged == fault \in {"unwound", "relinked", "misread"}

\* Mutant: block_count leaves out the header's own block.
EmptyHeaderUncounted == [tree |-> {}, head |-> NoBlock, free |-> {}, count |-> 0]

\* The constructor of MetadataHeader: no tree, no free block, one block in all.
EmptyHeader == [tree |-> {}, head |-> NoBlock, free |-> {}, count |-> 1]

\* Mutant: writeBlock() clears the stream after an error, as readBlock() does.
StreamCleared == TRUE

\* After a failed write the stream stays bad and ignores every later write.
StreamAfterFailedWrite == FALSE

-----------------------------------------------------------------------------
(* A file that create() has just made and close() has synced. *)
Init ==
  /\ mode = "closed"
  /\ header = EmptyHeader
  /\ dheader = EmptyHeader
  /\ blocks = [b \in Block |-> [kind |-> "zero", next |-> NoBlock]]
  /\ pending = <<>>
  /\ fresh = {}
  /\ slot = NoBlock
  /\ gcIndex = 0
  /\ good = TRUE
  /\ fault = "none"

(* open(): read the header, forget the pending list of a failed run. *)
Open ==
  /\ mode = "closed"
  /\ mode' = "idle"
  /\ header' = dheader
  /\ pending' = <<>>
  /\ gcIndex' = 0
  /\ good' = TRUE
  /\ UNCHANGED <<dheader, blocks, fresh, slot, fault>>

(* The first thing a public operation of the tree does to the file is to   *)
(* allocate a block: that is where a transaction starts.                   *)
Allocating == mode \in {"idle", "txn"} /\ slot = NoBlock

\* Mutant: the head stays where it is.
SameHead == header.head

\* The link allocateBlock() finds in the block it takes; offset 1 is in the
\* middle of the header's magic number, which reads as an offset past the end.
NextFree == IF header.head = Inside THEN Wild ELSE blocks[header.head].next

(* allocateBlock() takes the head of the in-memory free list; the new head *)
(* is whatever the first bytes of that block say.  (What becomes of a file *)
(* of which allocateBlock() has returned an offset inside a block, as it   *)
(* does when those bytes were an empty node's, is not followed.)           *)
PopFree ==
  /\ Allocating
  /\ header.head \in Block \cup {Inside}
  /\ mode' = "txn"
  /\ slot' = header.head
  /\ header' = [header EXCEPT !.head = NextFree,
                              !.free = @ \ {header.head}]
  /\ fault' = IF header.head = Inside THEN "misread" ELSE fault
  /\ UNCHANGED <<dheader, blocks, pending, fresh, gcIndex, good>>

\* The list is empty, its head cannot be read, or reading it fails now.
MustExtend == header.head \in {NoBlock, Wild} \/ "read" \in Faults

(* allocateBlock() forgets the list and grows the file by a zeroed block. *)
Extend ==
  /\ Allocating
  /\ MustExtend
  /\ header.count <= MaxBlocks
  /\ mode' = "txn"
  /\ slot' = header.count
  /\ blocks' = [blocks EXCEPT ![header.count] = [kind |-> "zero", next |-> NoBlock]]
  /\ header' = [header EXCEPT !.head = NoBlock, !.free = {}, !.count = @ + 1]
  /\ fault' = IF header.head = NoBlock THEN fault ELSE Worse
  /\ UNCHANGED <<dheader, pending, fresh, gcIndex, good>>

(* The write that grows the file fails: allocateBlock() returns 0 and      *)
(* writeNode() throws.  The stream stays bad.                              *)
ExtendFails ==
  /\ Allocating
  /\ MustExtend
  /\ "write" \in Faults
  /\ header.count <= MaxBlocks
  /\ mode' = "abort"
  /\ good' = StreamAfterFailedWrite
  /\ header' = [header EXCEPT !.head = NoBlock, !.free = {}]
  /\ fault' = Worse
  /\ UNCHANGED <<dheader, blocks, pending, fresh, slot, gcIndex>>

(* writeNode() fills the block it was given.  When the block is still on   *)
(* the free list of the header on disk, that list now ends in the node.    *)
WriteNode ==
  /\ mode = "txn"
  /\ slot \in Block
  /\ \E w \in NodeWords : blocks' = [blocks EXCEPT ![slot] = [kind |-> "node", next |-> w]]
  /\ dheader' = IF slot \in dheader.free THEN [dheader EXCEPT !.free = {slot}] ELSE dheader
  /\ fresh' = fresh \cup {slot}
  /\ slot' = NoBlock
  /\ UNCHANGED <<mode, header, pending, gcIndex, good, fault>>

(* The write of a node fails: writeNode() throws. *)
WriteNodeFails ==
  /\ mode = "txn"
  /\ slot \in Block
  /\ "write" \in Faults
  /\ mode' = "abort"
  /\ good' = StreamAfterFailedWrite
  /\ slot' = NoBlock
  /\ fault' = Worse
  /\ UNCHANGED <<header, dheader, blocks, pending, fresh, gcIndex>>

\* Between two writes of a transaction.
Writing == mode = "txn" /\ slot = NoBlock

(* freeBlock(): staging a block of the old tree, or one written by this    *)
(* transaction, pushes it on the in-memory pending list, whether it is     *)
(* there already or not.                                                   *)
FreeBlock(b) ==
  /\ Writing
  /\ b \in header.tree \cup fresh
  /\ Len(pending) < MaxStaged
  /\ pending' = Append(pending, b)
  /\ UNCHANGED <<mode, header, dheader, blocks, fresh, slot, gcIndex, good, fault>>

(* readNode() cannot read a block: readBlock() clears the stream and the   *)
(* exception leaves the operation with whatever it has staged.             *)
ReadFails ==
  /\ Writing
  /\ "read" \in Faults
  /\ mode' = "abort"
  /\ good' = TRUE
  /\ fault' = IF pending = <<>> THEN Worse ELSE "unwound"
  /\ UNCHANGED <<header, dheader, blocks, pending, fresh, slot, gcIndex>>

\* Mutant: the header goes to disk only after the free list is rebuilt.
RootNotFlipped == dheader

\* The header Phase 1 writes: the new root with the allocations.
RootFlipped == header'

(* Phase 1 of commitRootAndGarbageCollect(): the root flip.  The header    *)
(* goes to disk with the allocations of the transaction in it.             *)
CommitRoot ==
  /\ Writing
  /\ header' = [header EXCEPT !.tree = (@ \cup fresh) \ Staged]
  /\ dheader' = RootFlipped
  /\ fresh' = {}
  /\ gcIndex' = 0
  /\ mode' = "gc"
  /\ UNCHANGED <<blocks, pending, slot, good, fault>>

(* The header write of Phase 1 fails, in writeHeader() or in the flush,    *)
(* whose result nobody reads: the in-memory header is ahead of the disk,   *)
(* the operation returns as if nothing had happened, the stream stays bad  *)
(* and nothing more reaches the file.                                      *)
CommitRootFails ==
  /\ Writing
  /\ "write" \in Faults
  /\ header' = [header EXCEPT !.tree = (@ \cup fresh) \ Staged]
  /\ fresh' = {}
  /\ good' = StreamAfterFailedWrite
  /\ mode' = "abort"
  /\ fault' = Worse
  /\ UNCHANGED <<dheader, blocks, pending, slot, gcIndex>>

Collecting == mode \in {"gc", "closing"} /\ gcIndex < Len(pending)

\* Mutant: link to the head the header on disk had.
CommittedHead == dheader.head

\* current_head: what allocateBlock() left of the list, then each block linked.
CurrentHead == header.head

(* One round of the loop of commitFreeList(): link the staged block in     *)
(* front of the list, even when an earlier round has linked it.            *)
GcBlock ==
  /\ Collecting
  /\ good
  /\ LET b == pending[gcIndex + 1] IN
     /\ blocks' = [blocks EXCEPT ![b] = [kind |-> "free", next |-> CurrentHead]]
     /\ header' = [header EXCEPT !.head = b, !.free = @ \cup {b}]
     /\ fault' = IF b \in header.free /\ ~Damaged THEN "relinked" ELSE fault
  /\ gcIndex' = gcIndex + 1
  /\ UNCHANGED <<mode, dheader, pending, fresh, slot, good>>

\* Mutant: a link that cannot be written is tried again.
TriedAgain == gcIndex

PastFailed == gcIndex + 1

(* The write of the link fails, now or because the stream is already bad:  *)
(* the loop logs it and goes on.                                           *)
GcBlockFails ==
  /\ Collecting
  /\ good => "write" \in Faults
  /\ good' = StreamAfterFailedWrite
  /\ gcIndex' = PastFailed
  /\ fault' = Worse
  /\ UNCHANGED <<mode, header, dheader, blocks, pending, fresh, slot>>

\* Mutant: the new head never reaches the disk.
HeadNotSaved == dheader

\* The header Phase 2 writes: the new head of the free list.
HeadSaved == header

\* What is left in memory of a file that is closed.
Forget ==
  /\ header' = dheader'
  /\ pending' = <<>>
  /\ fresh' = {}
  /\ slot' = NoBlock
  /\ gcIndex' = 0
  /\ good' = TRUE

(* The end of commitFreeList() in a commit: the header with the new head   *)
(* goes to disk and the pending list is cleared.                           *)
GcFinish ==
  /\ mode = "gc"
  /\ gcIndex = Len(pending)
  /\ good
  /\ dheader' = HeadSaved
  /\ pending' = <<>>
  /\ gcIndex' = 0
  /\ mode' = "idle"
  /\ UNCHANGED <<header, blocks, fresh, slot, good, fault>>

(* The header write of Phase 2 fails, or could not be tried. *)
GcFinishFails ==
  /\ mode = "gc"
  /\ gcIndex = Len(pending)
  /\ pending # <<>>
  /\ good => "write" \in Faults
  /\ good' = StreamAfterFailedWrite
  /\ mode' = "abort"
  /\ fault' = Worse
  /\ UNCHANGED <<header, dheader, blocks, pending, fresh, slot, gcIndex>>

(* close() of an idle file, or of one an operation has failed on: if       *)
(* blocks are pending it commits the free list first.                      *)
StartClose ==
  /\ mode \in {"idle", "abort"}
  /\ mode' = "closing"
  /\ gcIndex' = 0
  /\ UNCHANGED <<header, dheader, blocks, pending, fresh, slot, good, fault>>

(* close() ends with the header write. *)
FinishClose ==
  /\ mode = "closing"
  /\ gcIndex = Len(pending)
  /\ good
  /\ dheader' = header
  /\ mode' = "closed"
  /\ Forget
  /\ UNCHANGED <<blocks, fault>>

(* That write fails, or the bad stream ignores it; nobody is told. *)
FinishCloseFails ==
  /\ mode = "closing"
  /\ gcIndex = Len(pending)
  /\ good => "write" \in Faults
  /\ mode' = "closed"
  /\ fault' = Worse
  /\ UNCHANGED <<dheader, blocks>>
  /\ Forget

(* The process dies: only what the file holds survives. *)
Crash ==
  /\ mode # "closed"
  /\ mode' = "closed"
  /\ fault' = IF mode = "idle" THEN fault ELSE Worse
  /\ UNCHANGED <<dheader, blocks>>
  /\ Forget

Next ==
  \/ Open \/ PopFree \/ Extend \/ ExtendFails
  \/ WriteNode \/ WriteNodeFails
  \/ \E b \in Block : FreeBlock(b)
  \/ ReadFails
  \/ CommitRoot \/ CommitRootFails
  \/ GcBlock \/ GcBlockFails \/ GcFinish \/ GcFinishFails
  \/ StartClose \/ FinishClose \/ FinishCloseFails \/ Crash

Spec == Init /\ [][Next]_vars

-----------------------------------------------------------------------------
(* The types of the variables. *)
TypeOK ==
  /\ mode \in {"closed", "idle", "txn", "gc", "abort", "closing"}
  /\ header \in HeaderType
  /\ dheader \in HeaderType
  /\ blocks \in [Block -> BlockType]
  /\ pending \in Seq(Block)
  /\ fresh \subseteq Block
  /\ slot \in Offset
  /\ gcIndex \in 0..Len(pending)
  /\ good \in BOOLEAN
  /\ fault \in {"none", "some", "unwound", "relinked", "misread"}

\* The links that lead to no block: the end of the list, or the first bytes of
\* a node on which a crash has cut the list off.
NoLinks == {NoBlock, Wild, Inside}

(* A header whose free list can be allocated from when the file holds bl:  *)
(* the blocks of the list are outside the tree and inside the file, the    *)
(* links lead from the head through the list only, and no block is linked  *)
(* to twice.                                                               *)
ListOK(h, bl) ==
  /\ h.free \cap h.tree = {}
  /\ \A b \in h.free : b < h.count
  /\ h.head \in h.free \cup NoLinks
  /\ \A b \in h.free : bl[b].next \in (h.free \ {h.head}) \cup NoLinks
  /\ \A a, b \in h.free : bl[a].next = bl[b].next /\ bl[a].next \in Block => a = b

\* A header whose tree can be read when the file holds bl.
TreeOK(h, bl) == \A b \in h.tree : bl[b].kind = "node" /\ b < h.count

\* The first block the transaction takes is the head of the list on disk;
\* afterwards the list in memory and what is left of the one on disk are apart.
ListsApart ==
  \/ /\ slot \in dheader.free
     /\ slot = dheader.head
     /\ header.free = dheader.free \ {slot}
  \/ /\ slot \notin dheader.free
     /\ header.free \cap dheader.free = {}

IdleOK == header = dheader /\ pending = <<>> /\ fresh = {}

TxnOK ==
  /\ dheader.count <= header.count
  /\ ListOK(header, blocks)
  /\ fresh \cap (header.tree \cup header.free) = {}
  /\ \A b \in fresh : blocks[b].kind = "node" /\ b < header.count
  /\ Staged \subseteq header.tree \cup fresh
  /\ slot # NoBlock =>
       slot \in Block \ (header.tree \cup fresh \cup header.free) /\ slot < header.count
  /\ ListsApart

\* The blocks the collection has still to link are not on the list in memory,
\* but for those that it has linked already because they are staged twice.
StagedApart ==
  \A i \in (gcIndex + 1)..Len(pending) :
    pending[i] \in header.free => \E j \in 1..gcIndex : pending[j] = pending[i]

GcOK ==
  /\ fresh = {}
  /\ dheader.count = header.count
  /\ ListOK(header, blocks)
  /\ dheader.free \subseteq header.free
  /\ \A i \in 1..Len(pending) : pending[i] < header.count /\ pending[i] \notin header.tree
  /\ StagedApart

AbortOK == pending = <<>> /\ ListOK(header, blocks) /\ dheader.count <= header.count

\* The stream: as long as it is good, memory and disk agree on the tree.
StreamInv ==
  /\ good => header.tree = dheader.tree
  /\ mode \in {"closed", "idle", "txn"} => good
  /\ mode # "txn" => slot = NoBlock

\* The file: the header on disk is sound in every state, and the one in memory
\* is kept sound towards it as long as the stream is good.
FileInv ==
  /\ TreeOK(dheader, blocks)
  /\ ListOK(dheader, blocks)
  /\ mode \in {"closed", "idle"} => IdleOK
  /\ mode = "txn" => TxnOK
  /\ mode = "gc" /\ good => GcOK
  /\ mode \in {"abort", "closing"} /\ good => AbortOK

(* The inductive invariant the safety properties rest on.  What it says of *)
(* the file stops where the file is damaged.                               *)
IndInv ==
  /\ StreamInv
  /\ ~Damaged => FileInv

(* The tree the header on disk points to can be read back after a crash at *)
(* any point, between the two phases of a commit and inside the free list  *)
(* commit included: every one of its blocks holds a node.                  *)
TreeReadable == TreeOK(dheader, blocks)

(* Only an operation that throws after staging blocks, a block linked      *)
(* twice or an empty node read as a link can break that.                   *)
CommittedTreeIntact == ~Damaged => TreeReadable

(* allocateBlock() hands out a whole block that is in use by nobody: not by *)
(* the tree on disk, not by the tree in memory, not written earlier in the *)
(* transaction, not staged, and no longer on the list.                     *)
SlotUnused ==
  slot # NoBlock =>
    slot \in Block \ (dheader.tree \cup header.tree \cup fresh \cup Staged \cup header.free)

AllocationIsFresh == ~Damaged => SlotUnused

\* The blocks met when the links on disk are followed from offset h.
Chain(h) ==
  LET reach[n \in 0..MaxBlocks] ==
        IF n = 0 THEN {h} \cap Block
        ELSE reach[n - 1] \cup ({blocks[b].next : b \in reach[n - 1]} \cap Block)
  IN reach[MaxBlocks]

(* The free lists of the file: following the links from the head, on disk  *)
(* always and in memory while the stream is good, meets exactly the blocks *)
(* the model says are free, never a block of the tree and, until the       *)
(* collection has linked it, never a staged one.                           *)
FreeListSound ==
  ~Damaged =>
    /\ Chain(dheader.head) = dheader.free
    /\ dheader.free \cap dheader.tree = {}
    /\ mode \in {"idle", "txn", "gc"} /\ good =>
         /\ Chain(header.head) = header.free
         /\ header.free \cap (header.tree \cup fresh) = {}
         /\ StagedApart

(* Without a crash, a fault or a damage no block is ever lost: between     *)
(* transactions each block of the file is in the tree or on the free list. *)
NoBlockLost ==
  mode \in {"idle", "closed"} /\ fault = "none" =>
    1..(dheader.count - 1) = dheader.tree \cup dheader.free

(* A step never changes a block of the tree the header on disk points to:  *)
(* the promise of copy-on-write, until the file is damaged.                *)
LiveNeverOverwritten ==
  [][~Damaged => \A b \in dheader.tree : blocks'[b] = blocks[b]]_vars

(* The tree a restart finds changes at the root flip and nowhere else: not *)
(* by close() after a commit that failed in memory only, not by the free   *)
(* list commit, whatever has failed before.                                *)
TreeChangesAtRootFlip ==
  [][dheader'.tree # dheader.tree => mode = "txn" /\ mode' = "gc"]_vars

(* The program goes on with what it has begun: an operation runs on to its *)
(* commit or to its failure, and the file of one that failed is closed.    *)
(* Opening, starting an operation and closing an idle file are the user's, *)
(* and crashes are nobody's: there is no fairness on them.                 *)
ProgramStep ==
  \/ mode = "txn" /\ (PopFree \/ Extend \/ ExtendFails)
  \/ WriteNode \/ WriteNodeFails
  \/ \E b \in Block : FreeBlock(b)
  \/ CommitRoot \/ CommitRootFails
  \/ GcBlock \/ GcBlockFails \/ GcFinish \/ GcFinishFails
  \/ mode = "abort" /\ StartClose
  \/ FinishClose \/ FinishCloseFails

FairSpec == Spec /\ WF_vars(ProgramStep)

(* Every operation comes to an end whatever fails, and so does the close   *)
(* that follows a failure: commitFreeList() gets past the blocks that it   *)
(* cannot write.                                                           *)
OperationsEnd == mode \in {"txn", "gc", "abort", "closing"} ~> mode \in {"idle", "closed"}

(* The block file implements an atomic store of nodes: the nodes of the    *)
(* tree on disk are the committed ones, those of the running operation the *)
(* written ones, and a damaged file is a broken store.                     *)
Contents(B) == [b \in B |-> blocks[b]]
Store == INSTANCE AtomicStore WITH
           Place <- Block, Node <- BlockType,
           store <- Contents(dheader.tree), writes <- Contents(fresh),
           broken <- Damaged
ImplementsStore == Store!Spec
=============================================================================
