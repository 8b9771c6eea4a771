----------------------------- MODULE BTreeFile ------------------------------
(***************************************************************************)
(* The B-tree over the allocator and the two-phase commit of DB_file.cpp,  *)
(* with crashes.  An operation computes from the file it finds which       *)
(* blocks it will write (the tree's copy-on-write in BTreeOps over         *)
(* allocateBlock()), then the writes reach the disk one at a time: the new *)
(* nodes, the header with the new root, the links of the staged blocks,    *)
(* the header with the new free list.  A crash keeps what has reached the  *)
(* disk, and the restart reads it back.                                    *)
(***************************************************************************)
EXTENDS BTreeOps, FiniteSets

CONSTANTS
  Entries,     \* the <<key, value>> pairs that clients insert, each key once
  MinEntries,  \* clients remove entries as long as more than this many are left
  MaxEntries,  \* the tree holds at most this many entries (a bound)
  MaxBlocks,   \* the file has at most this many blocks (a bound)
  MaxCrashes   \* the program crashes at most this often (a bound)

ASSUME CountsAssumption ==
  Entries \subseteq Entry /\ {MinEntries, MaxEntries, MaxBlocks, MaxCrashes} \subseteq Nat

VARIABLES
  disk,     \* the header on disk: root, head of the free list, block count
  blocks,   \* what each block on disk holds: a node or a link
  mem,      \* the in-memory header after the operation that is running
  todo,     \* the writes of that operation that have not reached the disk
  clash,    \* allocateBlock() has returned a block that is in use
  crashes   \* how often the program has crashed

vars == <<disk, blocks, mem, todo, clash, crashes>>

Keys == {e[1] : e \in Entries}

-----------------------------------------------------------------------------
\* The store an operation works on: what the blocks hold, the blocks in use,
\* and the in-memory header's part in the allocation.
Store == [nodes |-> blocks, pending |-> <<>>, log |-> <<>>,
          live |-> BlocksIn(blocks)[Len(blocks)][disk.root],
          head |-> mem.head, count |-> mem.count, clash |-> FALSE]

BlockWrite(b, c) == [block |-> b, holds |-> c]
HeaderWrite(root, head, count) == [root |-> root, head |-> head, count |-> count]

\* Phase 1: the header with the new root and what the allocations left.
Flip(r) == HeaderWrite(r.at, r.f.head, r.f.count)

\* Mutant: the head that Phase 1 has written is written again.
CollectedNothing(r) == HeaderWrite(r.at, r.f.head, r.f.count)

\* Phase 2: the header with the last block staged as the head of the free list.
Collected(r) == HeaderWrite(r.at, Seqs!Last(r.f.pending), r.f.count)

NodeWrites(r) == [i \in DOMAIN r.f.log |-> BlockWrite(r.f.log[i], r.f.nodes[r.f.log[i]])]

\* commitFreeList(): each staged block is linked to the one before it, the
\* first to the head that the allocations left.
LinkWrites(r) ==
  [i \in DOMAIN r.f.pending |->
     BlockWrite(r.f.pending[i], Link(IF i = 1 THEN r.f.head ELSE r.f.pending[i - 1]))]

FreeListCommit(r) ==
  IF r.f.pending = <<>> THEN <<>> ELSE Append(LinkWrites(r), Collected(r))

\* Mutant: the free list is rebuilt before the root is flipped.
CollectFirst(r) == NodeWrites(r) \o FreeListCommit(r) \o <<Flip(r)>>

\* commitRootAndGarbageCollect() after the writes of the nodes.
WritesOf(r) == NodeWrites(r) \o <<Flip(r)>> \o FreeListCommit(r)

\* An operation that comes to result r; one that moves nothing writes nothing.
Start(r) ==
  /\ todo = <<>>
  /\ r.at # disk.root
  /\ r.f.count <= MaxBlocks + 1
  /\ todo' = WritesOf(r)
  /\ mem' = IF r.f.pending = <<>> THEN Flip(r) ELSE Collected(r)
  /\ clash' = r.f.clash
  /\ UNCHANGED <<disk, blocks, crashes>>

-----------------------------------------------------------------------------
\* The entries of the tree a restart would find.
Contents == EntriesIn(blocks)[Len(blocks)][disk.root]

Insert(e) ==
  /\ Cardinality(Contents) < MaxEntries
  /\ \A f \in Contents : f[1] # e[1]
  /\ Start(TreeInsert(Store, disk.root, e))

Update(e) == Start(TreeUpdate(Store, disk.root, e))

Remove(k) ==
  /\ Cardinality(Contents) > MinEntries
  /\ Start(TreeRemove(Store, disk.root, k))

\* The next write of the running operation reaches the disk.
Write ==
  /\ todo # <<>>
  /\ LET w == Head(todo) IN
     IF "block" \in DOMAIN w
     THEN blocks' = Put(blocks, w.block, w.holds) /\ UNCHANGED disk
     ELSE disk' = w /\ UNCHANGED blocks
  /\ todo' = Tail(todo)
  /\ UNCHANGED <<mem, clash, crashes>>

\* The program dies in an operation; the next open() reads the header.
Crash ==
  /\ todo # <<>>
  /\ crashes < MaxCrashes
  /\ todo' = <<>>
  /\ mem' = disk
  /\ crashes' = crashes + 1
  /\ UNCHANGED <<disk, blocks, clash>>

Init ==
  /\ disk = HeaderWrite(NoBlock, NoBlock, 1)
  /\ blocks = <<>>
  /\ mem = disk
  /\ todo = <<>>
  /\ clash = FALSE
  /\ crashes = 0

Next ==
  \/ \E e \in Entries : Insert(e) \/ Update(e)
  \/ \E k \in Keys : Remove(k)
  \/ Write \/ Crash

Spec == Init /\ [][Next]_vars

-----------------------------------------------------------------------------
(* An operation is atomic and durable: what a restart would find in the    *)
(* file is changed by one write of the operation, the root flip, into what *)
(* the operation promises, whatever crashed before.                        *)
Index == INSTANCE KVIndex WITH index <- Contents
ImplementsIndex == Index!Spec

(* allocateBlock() hands out a valid, empty block: none that the tree on   *)
(* disk uses and none that the running operation has written.              *)
BlocksAreUnused == ~clash

(* A crash costs a tree of one node at most one block of the file: without *)
(* crashes the node's two blocks take turns for ever, and a list lost in a *)
(* crash is made up for by one new block.                                  *)
SpaceBound == todo = <<>> => disk.count - 1 <= 2 + crashes
=============================================================================
