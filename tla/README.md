# SDQE in TLA+

Specifications of SDQE, a small SQL-like database engine: one REPL, tables kept
in three files each (`.schema`, `.idx`, `.data`), the index a copy-on-write
B-tree in 4 KiB blocks that is meant to survive a crash at any point.
The source is under `src/src`; paths below are relative to it.

## 1. The system

| Part | Source | State it keeps | Operations | Modelled |
|---|---|---|---|---|
| Block file (`DbFile`) | `bTree/implements/DB_file.cpp` | header in memory and on disk (root, free-list head, block count), blocks, `pending_free_list`, the stream's error state | create, open, close, readBlock, writeBlock, allocateBlock, freeBlock, commitRootAndGarbageCollect (root flip, then free list commit) | `DbFile`, `AtomicStore` |
| B-tree (`BTree`, `Node`) | `bTree/implements/DB_btree.cpp`, `DB_node.cpp` | its own copy of the header; nodes in blocks | insert, update, remove, search, rangeSearch | `BTreeOps`, `BTree` |
| B-tree on the block file | both | both | the same, with every write on its own and crashes | `BTreeFile` |
| Key codec, node size | `DB_node.cpp`, `calculateT` | none | integers as 4 sortable bytes, strings cut at 254, the degree t | `KeyCodec` |
| Table | `queryExecution/implements/DB_table.cpp` | data file, index, schema | create, insert, find, range, delete, update | `Table`, `Session` |
| Engine | `queryExecution/implements/DB_engine.cpp` | none between statements | create database and table, insert with automatic row numbers, select (key, range or scan), delete, update | `Session`, write by write in `Table` |
| Schema, record | `schemaAndData/implements` | the schema file with the next row number | load, save, serialize, deserialize | in `Table`: save, the tombstone byte; in `Session`: rows of typed columns |
| Parser | `queryExecution/implements/DB_parser.cpp` | none | query to command | `Parser` |
| Command line | `main.cpp` | none | reads lines, prints | no |

**Interaction.** The program has one thread. A statement constructs a `Table`,
opens the three files, does *one* operation and closes them in the destructor.
The table calls the B-tree; the B-tree reads and writes whole nodes through
`DbFile`. Within an operation nothing is overwritten in place: `writeNode()`
allocates a block and writes it, `freeBlock()` stages the old one in memory, and
`commitRootAndGarbageCollect()` first writes the header with the new root and
then links the staged blocks into the free list and writes the header again.

**What is hard.** There is no concurrency; the hard part is what is in the file
when the process dies, or a read or write fails, between any two of these
writes, and what a later run makes of it: the free list on disk lives in the
same blocks the next transaction overwrites. The B-tree's part of the bargain is
to stage exactly the blocks that its new tree no longer uses, through every mix
of splits, borrowing, merges and root collapses. `PROJECT.json` lists these
hazards at their lines.

**What makes each part correct.**

* Block file: the tree on disk can be read whatever crashed; no live block is
  ever written; `allocateBlock()` returns a block nobody uses; the free list on
  disk and in memory is a list of free blocks; without failures no block is
  lost; the root changes in one step only.
* B-tree: the shape of a B-tree of degree t; one key added or taken away per
  operation; searches agree with the contents; staged = no longer used.
* Both together: an index whose operations are atomic and durable.
* Table and engine: the index leads to live rows with its keys, after a crash
  too; a row stays in its slot until it is deleted; a statement changes what the
  index finds in one step; row numbers are not used twice; a table opens.
* Queries: a query is executed as it is written, or rejected; what a search
  answers is what the rows say, through any sequence of statements; a deletion
  or an update reaches the one row it names.
* Keys: byte strings in the order of what they stand for, which come back from
  the disk as they were; a full node fits into a block.

## 2. Modules

```
KVIndex     the abstract index: a map changed by one operation at a time
BTreeOps    the copy-on-write algorithms, allocateBlock() included
   ^   ^
   |   '---- BTree       the algorithms with every block new; implements
   |                     KVIndex                                 <- MCBTree
   '-------- BTreeFile   the algorithms over the free list on disk, the
                         two-phase commit and crashes; implements
                         KVIndex                                 <- MCBTreeFile
Table       the statements on a table's three files, write by write,
   ^        over an index that is what KVIndex says; implements
   |        KVIndex                                             <- MCTable
AtomicStore the abstract store of nodes: transactions that happen or not
DbFile      the block file under any client, crashes, I/O errors;
            implements AtomicStore                              <- MCDbFile
Parser      from queries to commands
KeyCodec    keys as byte strings, the size of a node
   ^
Session     queries parsed and executed one after the other on a
            database of tables, over Parser and KeyCodec        <- MCSession
```

The theorems, checked by TLAPS, are in modules of their own:

```
SetInduction     induction over numbers, in a form the provers can use
Recursion        that a recursive function on the numbers solves its equation
DbFileProofs     about DbFile and its free list, and AtomicStore
TableProofs      about Table, and that it implements KVIndex
SessionProofs    about Session, and KeyCodec and Parser as Session uses them
BTreeNodeProofs  about trees in files, what a write, a split, a loan or a merge
   ^             makes of one, and one call of each recursive operation
BTreeWalkProofs  about walks of trees and range searches: listings in order
   ^
BTreeProofs      about the operations and BTree, and that it implements KVIndex
```

### DbFile

One action per step at which the process may die or the system may fail:
`Open`, `PopFree`/`Extend` (the two ends of `allocateBlock()`), `WriteNode`,
`FreeBlock`, `CommitRoot` (Phase 1), `GcBlock` (one round of the loop of
`commitFreeList()`), `GcFinish`, `StartClose`, `FinishClose`, `Crash`, and for
each the action in which its I/O fails. `mode` is where the program is between
two of them. Details that matter and are kept:

* After a failed *write* the C++ stream stays bad and silently ignores every
  later write; a failed *read* clears the stream (`good`).
* `ReadFails` leaves an operation by an exception with whatever it has staged,
  and the statement then closes the file, which runs `commitFreeList()`.
* The links of the free list are read from the first 8 bytes of a block. For a
  block that a crash has left as a node these are `is_leaf`, three bytes of
  padding, and `n`. With `n > 0` that is an offset past the end of any file
  (`Wild`), and `allocateBlock()` falls back to growing the file. With `n = 0`
  it is 0 for an inner node with zero padding, and 1, an offset `Inside` the
  header block, for a leaf. `NodeWords` says which of them nodes may have: the
  runs have all three, the theorems any.

The client is abstract: in a transaction it allocates and writes blocks and
stages blocks of the old tree or its own, in any order and the same block as
often as it likes (`freeBlock()` does not look), and commits or fails.
Its tree after a commit is what it had or wrote and did not stage; that this is
so of the real B-tree is checked in `BTree` (`StagesExactlyTheStale`). A header
carries, beside the root and the free-list head, the sets of blocks the two
reach; `FreeListSound` checks the second against the links, and the first is
what `CommitRoot` puts there.

Three things that the code does damage a file, and `fault` remembers them
(`Damaged`):

* `unwound`: an operation throws with blocks staged, which `close()` then links
  (DbFileUnwind).
* `relinked`: a block that was staged twice is linked twice, which makes a ring of
  the list. The B-tree stages blocks twice as soon as it has two levels
  (BTreeFileReuse).
* `misread`: a crash has left an empty leaf at the head of the free list, and
  `allocateBlock()` takes the offset 1 that its first bytes read as for a block.

The properties of `DbFile` are about a file until then, and say so
(`~Damaged => ...`); none of them, and no theorem, asks anything of the client.

`AtomicStore` is what the tree above is promised: a committed set of nodes, and a
transaction that writes nodes beside it and then replaces the set in one step or
leaves no trace. `DbFile` implements it with the nodes of the tree on *disk* as
the committed ones: a crash is a stutter or an abort, at every instant. A
file that is damaged is its action `Break`, after which nothing is promised.

### BTreeOps, BTree, BTreeFile, KVIndex

`BTreeOps` has one operator per function of `DB_btree.cpp`, from a store
(what the blocks hold, the staged blocks, the order of the writes) to a store.
The three places where the code repeats "child moved: stage it, rewrite the
parent, stage the parent" are one operator, `Relink`. The order of allocations
and of staging is the code's, since the free list depends on it. `AllocateBlock`
takes the head of the free list of the store, if there is one, and reads the next
head from that block; `InUse` tells when the block it takes belongs to the tree
on disk or to the running operation, which sets `clash` in the store.

Each recursive function of the code is two definitions. What one call does
(`SearchNode`, `UpdateNode`, `InsertNode`, `RemoveNode`, ...) has the results of the
calls it makes as its parameter `below`; the recursion itself (`SearchRec`,
`InsertNonFull`, ...) is a recursive function on the levels that are left, since every
call goes down to a child. An operation starts it with as many levels as the file
has blocks, which no tree exceeds. In the same way `EntriesIn` and `BlocksIn` are
what there is in a file so many levels down from each of its blocks. Results are
passed on as parameters rather than named by LET: an operator has the result of
the writes before it in its parameters `w`, `r` or `p`.

`BTree` runs the operations on a file without a free list, where every block
is new, as `allocateBlock()`'s callers take it to be. Its variables are what the
`blocks` of the file hold and the committed `root`; the blocks of old trees stay
where they are, so that the file grows for ever. The runs therefore tell states
apart by `Tree` of `MCBTree` alone (VIEW), the tree behind the root without block
numbers. That is sound here: an operation allocates behind the end of the file
whatever is in it, never looks at a block the root does not lead to, and compares
block numbers only to see whether a child has moved; and the properties speak of the
tree, or of which blocks are used, not of their numbers. So two files with one tree
behave alike, and TLC meets each tree once.

`BTreeFile` runs the same operators on the free list that their own commits have
left in the file. An operation computes its writes, `Write` lets them reach
the disk one at a time (nodes, header, links, header), and `Crash` may come
between any two. If `allocateBlock()` returns a block in use, `clash` is set and
a new block is used in its place: the damage itself is not followed.

`KVIndex` is what an index promises, a map; `BTree` is proved and `BTreeFile` is
checked to implement it with the entries found from the root as the map. For `BTreeFile`
the entries are those a *restart* would find, so this is atomicity and
durability at every instant of an operation.

### Table

A statement of the engine opens the table's files, does its work and closes them,
so between statements there is only what is in the files: which there are
(`files`; the index file and its header are two writes), `schema` (the next row
number), `rows` (a row per slot) and `index`. A running statement is `op`: what it
does next (`stage`), the pair of the index it is about, and the row it writes.
One action per write: `ClearSchema`, `NewSchema`, `NewIndexFile`, `NewHeader` and
`NewData` for CREATE_TABLE, `TruncateSchema` and `SaveSchema` (`Schema::save()`
opens the file with truncation), `AppendRow`, `IndexRow`, `Unindex`, and `WriteRow`
for the last write of a deletion or an update; `Crash` between any two. `BTree`'s
own operations are one step, as `BTreeFile` shows them to be for its trees.
`InsertUnkeyed` is a row whose index column is missing or has the wrong type: it
is written before anyone looks.

Each write may fail. What goes wrong without any later statement knowing is kept
in `lapses`: `exec_insert_row()` does not look at the result of `save()`
("save"), `BTree::remove()` returns when its commit has failed ("commit"),
CREATE_TABLE of a table in use resets its row numbers before it is refused
("created"), and a statement that is cut short where only half of what it writes
is there leaves the table in pieces ("cut"). Properties that a lapse breaks
name it; the passing run follows a table until then (`FollowedUntilLapsed`). A
table in pieces cannot be opened, and often not be created again; deadlock
checking is off in the runs of `Table` for the bound `MaxNumber` only.

`Width` stands for 2^32, the keys of the index, `Byte` for 2^8, the first byte of
a row, taken for a tombstone when it is zero. The index column is the first
column, an integer, as it is with the default index.

### KeyCodec, Parser, Session

`KeyCodec` has the conversions as they are: integers shifted by 2^31 and split
into four bytes of base `Base`, strings cut to one byte less than `MaxString`, the
fixed buffer a string has in a node and what `strnlen` makes of it, the order of
byte strings, the degree that `calculateT()` chooses and the bytes that
`Node::serialize()` writes.

`Parser` reads a query as a sequence of words and blocks; a block is its parts
between commas, each a sequence of words and values. It keeps what the code
decides on: the shape of each statement, what it does not look at (whatever
follows the last block it needs, the text behind a number, an optional clause
that does not begin with a W), empty parts, columns given twice. `ClauseWords` are
the words of the queries that begin with a W, which is as far as the parser looks
before it expects a clause. `Written` is the
grammar of the README, for comparison: how a command is written. `IsStatement` of
`Session` says what can be written in it: names that are not empty, finitely many
columns and values, and the three kinds of clauses.

`Session` is the engine on top: `databases`, `tables` (columns, index column, next
row number, rows, index entries of byte strings), the last `query` and its
`answer`. One action per handler or way out of it, applied to what `parse` makes of
the query. Statements are whole steps here, without failures; rows have typed
columns, zeros for what is missing or of the wrong type, and strings that are cut to
their column and end at their first zero byte (`Stored`). A key is looked for as it
is given and is in the index as it comes back from its node (`InNode`). A
deletion leaves a row of zeros, and zero is a key like others: `keyed`, a history,
has the rows that were given a key and are not deleted. A point search, a deletion
and an update ignore the column and the operator of their clause, and a range
search its columns and operators, as the code does. Ranges of strings are answered as
the code answers them, although `README.md:126` has them for integers only, and no
property is about them. A query is any sequence of words and
blocks (`QueriesAssumption`). What a range search returns is the sequence of the
entries in the range whose keys ascend (`InRange`): that the tree's search finds them
is `SearchesAgree` in `BTree`. Clients are taken to refrain from
three things: giving a row a key that is in the index, creating a table again with
other columns, and giving two columns one name.

## 3. Runs

Each property of a passing run is also broken by a mutant: an operator beside
the definition it stands in for, marked `Mutant`, with a plausible mistake.

| Run | Instance | Shows |
|---|---|---|
| DbFileFaults | 3 blocks, up to 2 staged, the same one twice included, any read or write fails, crashes, fairness | `CommittedTreeIntact`, `AllocationIsFresh`, `FreeListSound`, `NoBlockLost`, `LiveNeverOverwritten`, `TreeChangesAtRootFlip`, `ImplementsStore`, `OperationsEnd`, and `IndInv`, the invariant of the proofs |
| BTreeShape | t = 2, 10 keys | `BTreeShape`, `StagesExactlyTheStale`, `SearchesAgree`, `OneKeyAtATime` |
| BTreeWide | t = 3, 10 keys, two of them with 2 values | shape, staging, `ImplementsIndex` |
| BTreeDuplicates | t = 2, 2 keys, up to 7 entries | shape, staging, ranges and `OneKeyAtATime` with repeated keys |
| TableStatements | 4 slots, 1 named key and 2 numbers, 2 payloads, any write fails, crashes | `IndexSound`, `TombstonesStay`, `NumbersUsedOnce`, `OpensUnlessCut`, `ImplementsIndex`, and `IndInv` |
| Session | 3 tables, 3 rows in all, some fifty queries | `IndexMatchesRows`, `PointExact`, `RangeExact`, `KeysComeBack`, `MutationsExact`, `ParsesAsWritten`, `RejectsMalformed` |
| BTreeFileFlat | t = 2, 2 keys, never empty, 3 crashes | `ImplementsIndex`, `BlocksAreUnused`, `SpaceBound` on a tree of one node |

**Bounds and why they are enough.** DbFile: with three blocks a transaction can
write two nodes beside a root, a list of two blocks can be popped in part, and
a crash leave it cut; two staged blocks (`MaxStaged`) are two of the tree, one of it
and a new one, or one twice. Crashes and faults are not counted: they may come at
any time, for ever. The theorems are for every number of either. Ten keys at t = 2 give every tree of heights 1 to 3, with
splits, borrowing and merges of inner nodes and the collapse of the root; at
t = 3 borrowing and merging of nodes that hold more than one key. Entries carry
their key as value, so that a value that strays is seen. `BTreeFile` is bounded
by `MaxBlocks`: an operation that would need more does not start; the bound is
well above what `SpaceBound` lets the passing runs reach. The passing runs of
`BTreeFile` are trees of one node: on two levels the code already goes wrong
(BTreeFileReuse), and what follows is not a state worth checking.

`Table`: with four slots a key can be inserted, deleted and inserted again while
another row and a row left by a crash are there; crashes and failures are not
counted.

`Session`: bytes of two bits and string keys of at most two of them, so that keys
of 32 bits are keys of 8: 261 is 5 in the index, -4 has a first byte of zero, and
of the strings 1, 1 2 and 1 2 3 one is a prefix of the next and the last is cut;
2 0 ends at its zero. Rows are given the key 0, found, kept apart from the zeros of
deleted rows, and deleted. There are ranges with `>` and `<` and with `>=` and `<=`, and
a clause that begins with a W and is none (`WITH_INDXE`).
Three rows are enough for two whose keys meet, one of them deleted or without a
key, beside a row of another table. `MCSession` also assumes, and so evaluates, the
three formulas that `SessionProofs` proves, for these bytes and all block sizes to
1100.

`DbFileFaults` has the constraint `FollowedUntilClosed`: its properties say nothing
of a file that is damaged, so that it is followed to the end of the operation that
damaged it or until it is closed, and no further.

**Liveness and fairness.** The program is sequential and nothing in it waits, so
what can fail to happen is that an operation ends. `FairSpec` of `DbFile` has weak
fairness of `ProgramStep`: the program goes on with the operation it has begun, up to
its commit or its failure and the close that follows one. Starting an operation,
opening and closing an idle file are the user's, and a crash is nobody's: they have
no fairness. Then `OperationsEnd`: every operation comes to an end, also when every
link of the free list fails to be written; the client writes and stages what it
has room for, which is the bound on its loop. Deadlock checking is on in every run but
those of `Table` and `Session`, which stop at their bounds.

## 4. Proofs

`DbFileProofs` proves for every `MaxBlocks` and `MaxStaged`, every set of failing
operations and every behaviour of the client:

| Theorem | States |
|---|---|
| `TypeCorrect` | `Spec => []TypeOK` |
| `Invariant` | `Spec => [](TypeOK /\ IndInv)` |
| `CommittedTreeSafe` | `Spec => []CommittedTreeIntact` |
| `AllocationSafe` | `Spec => []AllocationIsFresh` |
| `CopyOnWrite` | `Spec => LiveNeverOverwritten` |
| `FlipIsAtomic` | `Spec => TreeChangesAtRootFlip` |
| `StoreIsAtomic` | `Spec => ImplementsStore` |
| `FreeListsSound` | `Spec => []FreeListSound` |
| `NothingLost` | `Spec => []NoBlockLost` |

Assumptions: the `ASSUME`s of `DbFile` and no others; the client stages what it likes,
as often as it likes, and nodes read as any link. The three ways in which the code
damages a file (`unwound`, `relinked`, `misread`; section 2) are in the properties,
not in the hypotheses: the theorems say that nothing else damages one. They
do not say that a file stays undamaged: with a tree of two levels it does not
(section 5). `TypeCorrect` and `FlipIsAtomic` are about damaged files as well.

The argument. None of the safety properties is inductive: that a popped block is
free depends on the list in memory, that list after a crash is the one on disk,
and that one is being overwritten meanwhile. `IndInv` ties them together:

* `StreamInv`: as long as the stream is good, memory and disk agree on the tree;
  the stream is good wherever a transaction can start. This part is inductive by
  itself and gives `FlipIsAtomic`.
* `FileInv`: the header on disk always has a readable tree (`TreeOK`) and a list
  one can allocate from (`ListOK`: links lead from the head through the list
  only, no block is linked to twice, none is in the tree). In a transaction the
  list in memory is what is left of the one on disk minus at most the block just
  popped, or apart from it (`ListsApart`): the first write into a popped head
  cuts the list on disk behind that block, which is why what remains in memory
  can no longer be reached from the disk. During the free list commit the list
  in memory grows by staged blocks only (`GcOK`), and after an error nothing is
  pending (`AbortOK`) unless the operation threw. What the collection has still to
  link is not on the list, but for blocks that it has linked already
  (`StagedApart`): linking one of those is the damage `relinked`.

`StoreIsAtomic` follows from the same invariant: a write goes to a place where no
committed or new node is (`AllocationSafe`), the root flip turns what the tree had
and the transaction wrote, less what was staged, into the committed set, and
every other step leaves the blocks of both alone.

`FreeListsSound` says what `IndInv` does not: that following the links from a head
visits the blocks of the list and no others. `Chain` follows them step by step,
and a ring of free blocks that no head leads to would satisfy `ListOK`. So
`SpellInv` says that a sequence of blocks spells the list of each header, from
its head to its end (`Spells`); by induction on how far the sequence has been
followed, what `Chain` collects is its blocks. A block popped takes the first
one off the sequence, one linked comes in front of it, and a node written into
the popped head leaves the list on disk with that block alone.

`NothingLost` rests on the same: a list that is spelled and has no head is empty, so
that `allocateBlock()` forgets nothing when it grows the file. `LossInv` adds that, as
long as nothing has failed, each block of the file is accounted for at each stage
of a transaction (`Accounted`): in the tree, on the list, written, handed out, or
staged and not yet linked.

`ListPop`, `ListPush`, `ListFrame` and `TreeFrame` are the lemmas about lists and
trees; each action has a lemma of its own or a case in `IndStep`.

`TableProofs` proves, for every size of the data file, every set of keys and
payloads and every set of failures:

| Theorem | States |
|---|---|
| `TypeCorrect` | `Spec => []TypeOK` |
| `Invariant` | `Spec => [](TypeOK /\ IndInv)` |
| `IndexAlwaysSound` | `Spec => []IndexSound` |
| `RowsStay` | `Spec => TombstonesStay` |
| `NumbersNeverReused` | `Spec => []NumbersUsedOnce` |
| `TablesOpen` | `Spec => []OpensUnlessCut` |

`IndInv` adds to the soundness of the index what a statement carries from one
write to the next: the row it appended is in no pair yet, the pair it found is
still there, the row it is about to zero is in no pair any more. `NumberInv` says
that the number in the schema file is above all in use, and what becomes of it
while the schema is being saved; `KeyKept` that the last write of a statement
keeps the key of its slot. `FilesSound` says which files there are at each stage.
There are no assumptions beyond the `ASSUME`s of `Table`: the lapses are in the
properties.

It also proves `TableIsIndex`: `Spec /\ []Sound => ImplementsIndex`. The
index's pair of each statement changes at one of its writes, whatever the others
do and wherever it is cut short. Every step is an insert, an update or a removal
of `KVIndex`, or leaves `Contents` alone; that an append, a zeroed row and a schema
saved do is where the inductive invariant is needed. `Sound` is that nothing has
gone wrong but a statement cut short, the behaviours that `FollowedUntilLapsed`
lets TLC follow, and the clients are those of TLC's run: they name no key that is
in use (`Unique`) and none that will be given out automatically, whose numbers
stay below the width of a key. Without these two the code does give two rows one
key (section 5), and `KVIndex` refuses that.

`SessionProofs` starts with `KeyCodec`, of which it proves three facts for every byte
size, block size and key size:

| Theorem | States |
|---|---|
| `IntegerOrder` | the keys of integers are in the order of the integers (`KeysInOrder`) |
| `IntegersComeBack` | an integer key is the same after its conversions (`IntsComeBack`) |
| `NodesFit` | a full node of the chosen degree fits into a block (`NodeFits`) |

They are arithmetic about quotients and remainders; the lemmas state what a
digit is worth and how the first digit that differs decides. Lemmas about strings
say what is read of the bytes of one, in a column (`ColumnBytes`) and in a node
(`ReadBytes`): what comes before the first zero. They say that
one without zeros comes back (`StringBack`), and that the order of byte strings is a total order
(`BeforeIrreflexive`, `BeforeTransitive`, `BeforeTotal`), which sorting needs.

Of the parser it proves `ReadAsMeant`: `Spec => []ParsesAsWritten`, for every set of
statements. It rests on `StatementsComeBack`: whatever names, columns, values and
clause a statement of the README is written with, `parse(Written(c)) = c`. Columns
and values are written in some order and come back as a set and as a function;
of two forms of a clause the right one is taken; and what comes behind a
statement without its optional clause is not mistaken for one.

Of a session it proves, for every set of queries, of any words and blocks, for every
`MaxRows`, byte size and string size:

| Theorem | States |
|---|---|
| `SessionTypes` | `Spec => []TypeOK` |
| `MutationsReachOne` | `Spec => MutationsExact` |
| `IndexFollowsRows` | `Spec => []IndexMatchesRows` |
| `PointsFound` | `Spec => []PointExact` |
| `RangesFound` | `Spec => []RangeExact` |
| `KeysReadBack` | `Spec => []KeysComeBack` |

They have no assumptions but the `ASSUME`s of `Session`; its clients give no row a key
that is in the index. What the properties themselves leave out:

* `PointsFound` is about keys that the index tells apart (`Apart`): integers of 32 bits,
  and strings that have room in a node and no zero byte. All those of the table and
  the one asked for must be; zero and the empty string are.
* `RangesFound` is about integers of 32 bits and the operators `>`, `>=`, `<`, `<=`. The
  answer has every row that was asked for (`RowsAsked`) and no others than those and
  the ends (`RowsClosed`). That the ends are left out when `>` and `<` ask for it
  is `RangeAsAsked`, which the code breaks (section 5).
* `KeysReadBack` is about every key: a string has no zero byte once it is in a row.

`SessionInv` is the invariant. Every table has a key that is one of its columns, rows
that have all their columns, of their types, cut to their size and without zero
bytes (`IsRow`), and for each entry a row that was given its key, no two entries for one
key, no row that was given a key without an entry, and zeros in the others (`Good`).
The history `keyed` is needed for this: a row of zeros may be one that was deleted or
one that was given the key zero, and only the second has an entry. Reading
what the statements do is half the work: `InsertEffect`, `DeleteEffect` and
`UpdateEffect` say what becomes of the one table they change. The key of a row is taken
before the row is written and read back, so `StoredRow` says that what is read from
its column has the key that the given value has in its node; `StoredAgain` says that an
update, which writes the whole row again, leaves the columns it does not set as they
are. `RangesFound` needs that entries can be sorted at all (`CanBeSorted`, by induction on
their number), that a sorted listing is one of all entries, and that the order of the
keys is that of the values (`KeyOrder`, from `IntegerOrder`); `IntegerRange` then compares
the rows between the ends with those that were asked for.

`BTreeNodeProofs`, `BTreeWalkProofs` and `BTreeProofs` prove of the B-tree, for every
degree, every set of entries, trees of every height in files of every length:

| Theorem | States, given `Unique` |
|---|---|
| `TreeKeepsShape` | `Spec => []BTreeShape` |
| `StagesTheStale` | `Spec => []StagesExactlyTheStale` |
| `SearchesFollowWalk` | `Spec => []SearchesAgree` |
| `OneKeyChanges` | `Spec => []OneKeyAtATime` |
| `SearchFindsContents` | `Spec => []SearchesFind`: a point search finds what is stored under its key |
| `TreeImplementsIndex` | `Spec => ImplementsIndex` |

`Unique`: no client inserts a key that is in the tree. The code does not look, and
what it does with equal keys is checked by BTreeDuplicates only.

The inductive invariant, `Growing`, is that the file holds nodes and that there is a
tree at the root (`Planted`). Everything is in what an operation makes of it:

* A file only gets longer (`Extends`), and a tree does not see what is written behind
  the blocks it uses (`TreeFrame`). So the trees below a node that is rewritten
  are what they were.
* `Turns` says what an operation does to the blocks of a tree: the ones written are
  added and exactly the ones staged are gone. It is transitive (`TurnsTrans`), and
  may be said of the part of a tree that is worked on (`TurnsWiden`), because no
  block is below two children of one node (`BlocksApart`): the keys below two
  children are apart, and no tree but a root is without entries.
* What is done to an inner node is done to a window of it, one or two children and
  the entry between them; `Grafted` is a node with a window replaced by another.
  `MakesSound` says that the new node is the root of a tree if what is in the new
  window is what was in the old one, or what the keys around it admit (`Admits`).
* A split, a loan from either side and a merge are then cutting and joining nodes
  (`CutSound`, `PasteSound`): `SplitCut`, `PrependCut`, `ExtendCut`, `JoinCut` for
  the nodes, `SplitShifts`, `PrevShifts`, `NextShifts`, `MergeShifts` for the parent
  with them. Each leaves the entries as they are, and the child to go down into
  with room for one entry more, or with one to lose.
* `KidRelinked` is `Relink`: the parent of a child that has moved is a tree again, and
  all that has been staged and written has turned the blocks below it.
* `InsertOneLevel`, `UpdateOneLevel` and `RemoveOneLevel` say of one call that it does
  what it should (`InsertPost`, ...) if the calls it makes do; `InsertLevels` and its
  likes follow by induction over the levels. Removing the entry of an inner node needs
  that `getPred()` and `getSucc()` come to its neighbours (`PredFinds`, `SuccFinds`), and
  that for a moment an entry may be in two places (`EntryExchanged`).
* `TreeInserted`, `TreeUpdated` and `TreeRemoved` add what is done at the root: the new
  root of a split, the first entry, the root that collapses.
* A walk of a tree and a range search answer with sequences. `Lists` says of one that
  it has a set of entries in the order of their keys, each once; there is but one such
  sequence (`ListsAgree`). A node is its entries, each with what is below the child
  before it, and what is below the last child, one behind the other (`PiecesOfNode`),
  and sequences that list such parts list the whole when they are put together
  (`ListsFlatten`). `WalkLevels` and `RangeLevels` follow by induction over the levels:
  the walk lists the tree's entries, a range search those within its bounds, the
  children it does not visit having none. What is within two bounds is a stretch of
  what is listed (`StretchOfListing`), and a key is once in a listing or not at all
  (`CountInListing`).

Induction. The provers cannot instantiate a theorem whose parameter is an
operator, so that the induction theorems of the library cannot be cited. What is
proved of all numbers is put as a set of numbers instead (`NumberInduction`, which
`SetInduction` derives from the well-foundedness of Nat): how far a list can be
followed, how many entries there are, how many levels a tree has. A recursive function
is by its definition a chosen solution of its equation, and nothing is known of it
before there is one. `RecUnfolds` of `Recursion` builds it from the finite functions that
solve the equation up to a number; `SearchUnfolds`, `WalkUnfolds`, `EntriesUnfold` and
the other lemmas of this name are that for the functions of the B-tree.

Only model-checked:

* The B-tree with keys that are inserted twice.
* `BTreeFile`: `ImplementsIndex`, `BlocksAreUnused` and `SpaceBound`, of trees of one
  node. For larger ones the code breaks `BlocksAreUnused` (section 5, BTreeFileReuse),
  and what follows from the damage is not followed.
* `RejectsMalformed`, which is about a list of queries.
* Liveness: `OperationsEnd`.

## 5. Where the code and its documentation part

Five runs check what a comment or the notes say and find it violated. In short:

* **BTreeFileReuse.** A moved child is staged by the recursive call and again by
  its caller, so the free list gets a repeated block. From then on
  `allocateBlock()` may return a block of the tree (27 steps from an empty file
  at t = 2, without any failure).
* **DbFileUnwind.** `close()` after an operation that threw commits the blocks
  it had staged to the free list although the root was never flipped.
* **TableScan.** The scan takes a row whose first byte is zero for a deleted one,
  and every 256th automatic row number starts with such a byte.
* **TableRecreated.** CREATE_TABLE of a table in use is refused only after its
  schema has been written again, with the next row number 1: rows then share
  their numbers.
* **SessionRanges.** The operators of a range are parsed and not looked at again:
  `{id > 5 AND id < 20}`, the form that `README.md:129` gives, is answered with the rows
  5 and 20 among the others.

Further ones that were met and have no run of their own:

* A crash while the last key is removed leaves an empty leaf at the head of the
  free list; its first bytes read as offset 1, which `allocateBlock()` returns
  after the next crash (`misread` in `DbFile`).
* A crash before the root flip does not leave the free list as it was, as the
  notes say it does: the rest of it is lost. Only space is lost.
* A row inserted with its own `row_num` does not move the automatic numbers on,
  which later repeat it.
* The column of a clause is not looked at, and the operator of one with a single
  value neither: `DELETE_ROW ... {id > 5}` deletes the row with key 5, although the
  README says that only equality is supported there.
* Ranges of strings are answered, although `README.md:126` supports them for integers
  only.
* A string ends at its first zero byte once it has been written: a key is then
  found under what is left of it only. The documents do not say what such a string is.
* Whatever follows the last block that is needed is ignored, so a SELECT with a
  misspelt clause that does not begin with a W shows the whole table.
* An INSERT without a value for the index column, or with one of the wrong type, says
  that it failed and leaves a row that scans show.

## 6. Not modelled

* Overlap after a clash: what becomes of a tree one of whose blocks was reused.
* Power loss: a write that reached the operating system is on disk. (The notes
  speak of `fsync()`; the code only flushes the stream.)
* Non-zero padding in the first 8 bytes of a node in `BTreeFile`; in `DbFile` a
  node may read as any of the three.
* What becomes of a damaged file: `DbFile` stops there, and says by which of three
  ways one comes to be.
* How often `BTree` stages a block: `StagesExactlyTheStale` compares sets. What
  comes of a block staged twice is in `BTreeFile` (BTreeFileReuse).
* Duplicate keys in the passing runs of `Table` and `Session` (clients refrain), and
  the values of duplicates in `BTree`: a removal may move the wrong one of two
  equal keys.
* Torn writes of a single row.
* Rows read under a schema other than the one they were written with, after a
  CREATE_TABLE with other columns was refused: a matter of bytes.
* Block contents as bytes, but for the first 8: nodes are records of entries.
* The text format of the schema file; quotes, braces and commas inside string
  literals; database and table names with "..", which are refused.
* The command line, timings and printing: `main.cpp` hands lines to the engine
  and keeps no state that a query can reach.

## 7. What is left

* Trees with equal keys: `Ascending` and `Between` are ready for them, but the places
  of `FindKey` and `InsertPosition` are no longer the only ones, and
  `remove()` may take a copy of the key for the one it has moved.
* `BTreeFile` for one node: that its two blocks take turns.
* Of the parser, that what it rejects it rejects for all names and values.
