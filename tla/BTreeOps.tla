------------------------------ MODULE BTreeOps ------------------------------
(***************************************************************************)
(* The copy-on-write algorithms of bTree/implements/DB_btree.cpp and the   *)
(* node split of DB_node.cpp, as functions from a store to a store.        *)
(*                                                                         *)
(* A store is what an operation works on, a record of                      *)
(*   nodes    what each block of the file holds, a node or a link,         *)
(*   pending  the blocks staged by freeBlock(), in order,                  *)
(*   log      the blocks writeNode() has written, in order,                *)
(*   live     the blocks of the tree the operation found,                  *)
(*   head     the in-memory head of the free list,                         *)
(*   count    the in-memory block count,                                   *)
(*   clash    whether allocateBlock() has returned a block in use.         *)
(* An operation on the subtree at block "at" returns a result              *)
(* [f |-> store, at |-> block] with the block the subtree has moved to.  A *)
(* node has its key-value entries in order; positions are counted from 1   *)
(* where the code counts from 0.                                           *)
(*                                                                         *)
(* A recursive function of the code goes down one path of the tree.  It is *)
(* written in two parts: what one call does (SearchNode, InsertNode, ...), *)
(* given the results of the calls it makes, and the recursion itself, over *)
(* the levels it may still go down.  No call is deeper than the file has   *)
(* blocks.                                                                 *)
(***************************************************************************)
EXTENDS Integers, Sequences

Seqs == INSTANCE SequencesExt

CONSTANT T   \* the minimum degree t of the tree

ASSUME DegreeAssumption == T \in Nat /\ T >= 2

NoBlock == 0

Leaf(ents) == [leaf |-> TRUE, ents |-> ents, kids |-> <<>>]
Inner(ents, kids) == [leaf |-> FALSE, ents |-> ents, kids |-> kids]

N(nd) == Len(nd.ents)
Key(e) == e[1]

Entry == Int \X Int
Node == [leaf : BOOLEAN, ents : Seq(Entry), kids : Seq(Nat)]

-----------------------------------------------------------------------------
(* Blocks *)

\* A block of the free list, or a zeroed one: its first bytes are a link.
Link(b) == [link |-> b]
IsLink(c) == "link" \in DOMAIN c

Stores ==
  [nodes : Seq(Node \cup [link : Int]), pending : Seq(Nat), log : Seq(Nat),
   live : SUBSET Nat, head : Int, count : Nat, clash : BOOLEAN]

\* What the first 8 bytes of a block (is_leaf, padding and n of a node) amount
\* to as an offset: one past the file's end, unless the node is empty.  With
\* zero padding an empty inner node reads as 0, and an empty leaf as 1, which is
\* inside the header block.
Wild == -2
Inside == -1
NextOf(c) ==
  CASE IsLink(c) -> c.link
    [] ~IsLink(c) /\ c.ents # <<>> -> Wild
    [] ~IsLink(c) /\ c.ents = <<>> -> IF c.leaf THEN Inside ELSE NoBlock

\* Mutant: the list's head is handed out and kept.
KeepHead(f) == [f EXCEPT !.head = f.head]

\* allocateBlock() takes the head and reads the next one from its first bytes.
PopHead(f) == [f EXCEPT !.head = NextOf(f.nodes[f.head])]

\* allocateBlock() when the list is empty or its head cannot be read.
Grow(f) == [f EXCEPT !.head = NoBlock, !.count = @ + 1]

\* The head of the list is not a block that may be overwritten: the tree on
\* disk uses it, this operation has written it, or it lies inside the header.
InUse(f) ==
  f.head = Inside \/ f.head \in f.live \/ \E i \in DOMAIN f.log : f.log[i] = f.head

\* A block in use is reported, and a new one is used in its place: what the
\* program does after it has overwritten one is not followed.
AllocateBlock(f) ==
  IF InUse(f) THEN [f |-> [Grow(f) EXCEPT !.clash = TRUE], at |-> f.count]
  ELSE IF f.head \notin 1..(f.count - 1) THEN [f |-> Grow(f), at |-> f.count]
  ELSE [f |-> PopHead(f), at |-> f.head]

ReadNode(f, at) == f.nodes[at]

\* What the blocks hold once block b holds c: a write may be the first behind
\* the end of the file.
Put(blocks, b, c) ==
  IF b <= Len(blocks) THEN [blocks EXCEPT ![b] = c] ELSE Append(blocks, c)

\* A node in the block that an allocation returned.
Stored(a, nd) ==
  [f |-> [a.f EXCEPT !.nodes = Put(@, a.at, nd), !.log = Append(@, a.at)], at |-> a.at]

WriteNode(f, nd) == Stored(AllocateBlock(f), nd)

\* Two nodes written one after the other, at the blocks <<first, second>>.
Both(at, r) == [r EXCEPT !.at = <<at, r.at>>]
WriteAfter(r, nd) == Both(r.at, WriteNode(r.f, nd))
WriteTwo(f, nd, md) == WriteAfter(WriteNode(f, nd), md)

\* freeBlock() for each of the blocks, after what came to result r.
Freeing(r, blocks) == [f |-> [r.f EXCEPT !.pending = @ \o blocks], at |-> r.at]

-----------------------------------------------------------------------------
(* Nodes *)

\* The first position whose key is above k.  (Mutant of FindKey.)
FindAbove(nd, k) ==
  CHOOSE i \in 1..(N(nd) + 1) :
    /\ \A j \in 1..(i - 1) : Key(nd.ents[j]) <= k
    /\ i <= N(nd) => Key(nd.ents[i]) > k

\* findKey(): the first position whose key is not below k.
FindKey(nd, k) ==
  CHOOSE i \in 1..(N(nd) + 1) :
    /\ \A j \in 1..(i - 1) : Key(nd.ents[j]) < k
    /\ i <= N(nd) => Key(nd.ents[i]) >= k

\* The loops of insertNonFull(): the position after the last key not above k.
InsertPosition(nd, k) ==
  CHOOSE i \in 1..(N(nd) + 1) :
    /\ \A j \in i..N(nd) : Key(nd.ents[j]) > k
    /\ i > 1 => Key(nd.ents[i - 1]) <= k

HasKeyAt(nd, i, k) == i <= N(nd) /\ Key(nd.ents[i]) = k

WithKid(nd, i, b) == [nd EXCEPT !.kids = Seqs!ReplaceAt(@, i, b)]
WithEntry(nd, i, e) == [nd EXCEPT !.ents = Seqs!ReplaceAt(@, i, e)]

\* A node is written back with its child i moved; the node's old block and the
\* child's old block are staged.
Rewrite(r, nd, at, i) ==
  Freeing(WriteNode(r.f, WithKid(nd, i, r.at)), <<nd.kids[i], at>>)

\* The same, unless the child is where it was.
Relink(r, nd, at, i) ==
  IF r.at = nd.kids[i] THEN [f |-> r.f, at |-> at] ELSE Rewrite(r, nd, at, i)

\* Mutant: the old block is not staged.
ReplaceUnstaged(f, nd, at) == WriteNode(f, nd)

\* A node replaced by a changed copy of itself.
Replace(f, nd, at) == Freeing(WriteNode(f, nd), <<at>>)

-----------------------------------------------------------------------------
(* Search *)

Searches == [f : Stores, at : Nat, k : Int]

SearchNode(c, below) ==
  IF c.at = NoBlock THEN {}
  ELSE LET nd == ReadNode(c.f, c.at)
           i  == FindKey(nd, c.k)
       IN  IF HasKeyAt(nd, i, c.k) THEN {nd.ents[i][2]}
           ELSE IF nd.leaf THEN {}
           ELSE below[[c EXCEPT !.at = nd.kids[i]]]

SearchRec[h \in Nat] ==
  IF h = 0 THEN <<>> ELSE [c \in Searches |-> SearchNode(c, SearchRec[h - 1])]

Ranges == [f : Stores, at : Nat, lo : Int, hi : Int]

\* Mutant: the first position whose key is not below the upper bound.
EndBelow(nd, hi) == FindKey(nd, hi)

\* Where the loop of rangeSearchRecursive() ends: at the first key above the
\* upper bound.
RangeEnd(nd, hi) == FindAbove(nd, hi)

\* What the loop collects at position i: what is below child i and entry i,
\* from the lower bound on.
RangeAt(c, nd, i, below) ==
  IF Key(nd.ents[i]) < c.lo THEN <<>>
  ELSE (IF nd.leaf THEN <<>> ELSE below[[c EXCEPT !.at = nd.kids[i]]]) \o <<nd.ents[i]>>

RangeNode(c, below) ==
  IF c.at = NoBlock THEN <<>>
  ELSE LET nd  == ReadNode(c.f, c.at)
           end == RangeEnd(nd, c.hi)
       IN  Seqs!FlattenSeq([i \in 1..(end - 1) |-> RangeAt(c, nd, i, below)])
             \o (IF nd.leaf THEN <<>> ELSE below[[c EXCEPT !.at = nd.kids[end]]])

RangeRec[h \in Nat] ==
  IF h = 0 THEN <<>> ELSE [c \in Ranges |-> RangeNode(c, RangeRec[h - 1])]

-----------------------------------------------------------------------------
(* Update *)

Writes == [f : Stores, at : Nat, e : Entry]

UpdateNode(c, below) ==
  IF c.at = NoBlock THEN [f |-> c.f, at |-> NoBlock]
  ELSE LET nd == ReadNode(c.f, c.at)
           i  == FindKey(nd, Key(c.e))
       IN  IF HasKeyAt(nd, i, Key(c.e)) THEN Replace(c.f, WithEntry(nd, i, c.e), c.at)
           ELSE IF nd.leaf THEN [f |-> c.f, at |-> c.at]
           ELSE Relink(below[[c EXCEPT !.at = nd.kids[i]]], nd, c.at, i)

UpdateRec[h \in Nat] ==
  IF h = 0 THEN <<>> ELSE [c \in Writes |-> UpdateNode(c, UpdateRec[h - 1])]

-----------------------------------------------------------------------------
(* Insert *)

\* A node whose child i has been written as the two at w, around entry e.
WriteSplit(w, nd, i, e) ==
  WriteNode(w.f, Inner(Seqs!InsertAt(nd.ents, i, e),
                       Seqs!InsertAt(Seqs!ReplaceAt(nd.kids, i, w.at[2]), i + 1, w.at[1])))

LowerHalf(y) ==
  [y EXCEPT !.ents = SubSeq(@, 1, T - 1), !.kids = IF y.leaf THEN @ ELSE SubSeq(@, 1, T)]
UpperHalf(y) ==
  [y EXCEPT !.ents = SubSeq(@, T + 1, 2 * T - 1),
            !.kids = IF y.leaf THEN @ ELSE SubSeq(@, T + 1, 2 * T)]

\* splitChild(): the full child i of a node becomes two, its middle entry moves
\* up.  A node that is not in the file yet, the new root, has no old block.
SplitChild(f, nd, at, i) ==
  LET y == ReadNode(f, nd.kids[i])
  IN  Freeing(WriteSplit(WriteTwo(f, UpperHalf(y), LowerHalf(y)), nd, i, y.ents[T]),
              IF at = NoBlock THEN <<nd.kids[i]>> ELSE <<nd.kids[i], at>>)

\* After a split of child i of the node now at p.at, insert into the half for e.
InsertAfterSplit(p, i, e, below) ==
  LET nd == ReadNode(p.f, p.at)
      j  == IF Key(nd.ents[i]) < Key(e) THEN i + 1 ELSE i
  IN  Relink(below[[f |-> p.f, at |-> nd.kids[j], e |-> e]], nd, p.at, j)

InsertNode(c, below) ==
  LET nd == ReadNode(c.f, c.at)
      i  == InsertPosition(nd, Key(c.e))
  IN  IF nd.leaf THEN Replace(c.f, Leaf(Seqs!InsertAt(nd.ents, i, c.e)), c.at)
      ELSE IF N(ReadNode(c.f, nd.kids[i])) = 2 * T - 1
      THEN InsertAfterSplit(SplitChild(c.f, nd, c.at, i), i, c.e, below)
      ELSE Relink(below[[c EXCEPT !.at = nd.kids[i]]], nd, c.at, i)

InsertNonFull[h \in Nat] ==
  IF h = 0 THEN <<>> ELSE [c \in Writes |-> InsertNode(c, InsertNonFull[h - 1])]

InsertRec(f, at, e) ==
  IF N(ReadNode(f, at)) = 2 * T - 1
  THEN InsertAfterSplit(SplitChild(f, Inner(<<>>, <<at>>), NoBlock, 1), 1, e,
                        InsertNonFull[f.count])
  ELSE InsertNonFull[f.count][[f |-> f, at |-> at, e |-> e]]

-----------------------------------------------------------------------------
(* Remove *)

\* The rightmost and the leftmost leaf below a block.
PredLeaf(c, below) ==
  LET nd == ReadNode(c.f, c.at)
  IN  IF nd.leaf THEN nd ELSE below[[c EXCEPT !.at = Seqs!Last(nd.kids)]]
SuccLeaf(c, below) ==
  LET nd == ReadNode(c.f, c.at)
  IN  IF nd.leaf THEN nd ELSE below[[c EXCEPT !.at = Head(nd.kids)]]

GetPred[h \in Nat] ==
  IF h = 0 THEN <<>> ELSE [c \in Searches |-> PredLeaf(c, GetPred[h - 1])]
GetSucc[h \in Nat] ==
  IF h = 0 THEN <<>> ELSE [c \in Searches |-> SuccLeaf(c, GetSucc[h - 1])]

\* A node of which two children have changed is written back after them.
WriteParent(w, nd, i, j) == WriteNode(w.f, WithKid(WithKid(nd, i, w.at[1]), j, w.at[2]))

RewriteTwo(f, nd, at, i, child, j, sibling) ==
  Freeing(WriteParent(WriteTwo(f, child, sibling), nd, i, j), <<nd.kids[i], nd.kids[j], at>>)

\* A node with an entry, and a child unless it is a leaf, more in front, and with
\* one less at its end; and the other way round.
Prepended(nd, e, b) ==
  [nd EXCEPT !.ents = <<e>> \o @, !.kids = IF nd.leaf THEN @ ELSE <<b>> \o @]
Curtailed(nd) ==
  [nd EXCEPT !.ents = Seqs!Front(@), !.kids = IF nd.leaf THEN @ ELSE Seqs!Front(@)]
Extended(nd, e, b) ==
  [nd EXCEPT !.ents = Append(@, e), !.kids = IF nd.leaf THEN @ ELSE Append(@, b)]
Beheaded(nd) ==
  [nd EXCEPT !.ents = Tail(@), !.kids = IF nd.leaf THEN @ ELSE Tail(@)]

BorrowFromPrev(f, nd, at, i) ==
  LET child   == ReadNode(f, nd.kids[i])
      sibling == ReadNode(f, nd.kids[i - 1])
  IN  RewriteTwo(f, WithEntry(nd, i - 1, Seqs!Last(sibling.ents)), at,
                 i, Prepended(child, nd.ents[i - 1], Seqs!Last(sibling.kids)),
                 i - 1, Curtailed(sibling))

BorrowFromNext(f, nd, at, i) ==
  LET child   == ReadNode(f, nd.kids[i])
      sibling == ReadNode(f, nd.kids[i + 1])
  IN  RewriteTwo(f, WithEntry(nd, i, Head(sibling.ents)), at,
                 i, Extended(child, nd.ents[i], Head(sibling.kids)),
                 i + 1, Beheaded(sibling))

\* Mutant: the entry between the two is forgotten.
JoinedWithout(a, e, b) == [a EXCEPT !.ents = @ \o b.ents, !.kids = @ \o b.kids]

\* Two minimal nodes and the entry between them as one node.
Joined(a, e, b) ==
  [a EXCEPT !.ents = SubSeq(@, 1, T - 1) \o <<e>> \o b.ents, !.kids = @ \o b.kids]

\* A node whose children i and i + 1 have been written as the one at w.
WriteMerged(w, nd, i) ==
  WriteNode(w.f, Inner(Seqs!RemoveAt(nd.ents, i),
                       Seqs!RemoveAt(Seqs!ReplaceAt(nd.kids, i, w.at), i + 1)))

\* merge(): child i, the entry between and child i + 1 become one node.
Merge(f, nd, at, i) ==
  LET joined == Joined(ReadNode(f, nd.kids[i]), nd.ents[i], ReadNode(f, nd.kids[i + 1]))
  IN  Freeing(WriteMerged(WriteNode(f, joined), nd, i), <<nd.kids[i], nd.kids[i + 1], at>>)

\* Mutant: a minimal node may lend.
CanLendAny(f, at) == N(ReadNode(f, at)) >= T - 1

\* A node that can lose an entry.
CanLend(f, at) == N(ReadNode(f, at)) >= T

\* fill(): child i, too small to descend into, gets an entry or a merge.
Fill(f, nd, at, i) ==
  IF i > 1 /\ CanLend(f, nd.kids[i - 1]) THEN BorrowFromPrev(f, nd, at, i)
  ELSE IF i <= N(nd) /\ CanLend(f, nd.kids[i + 1]) THEN BorrowFromNext(f, nd, at, i)
  ELSE Merge(f, nd, at, IF i <= N(nd) THEN i ELSE i - 1)

\* The descent after fill() or merge() has rewritten the node to p.at: what was
\* its last child may have gone into the one before.
RemoveBelow(p, i, k, below) ==
  LET nd == ReadNode(p.f, p.at)
      j  == IF i > N(nd) + 1 THEN i - 1 ELSE i
  IN  Relink(below[[f |-> p.f, at |-> nd.kids[j], k |-> k]], nd, p.at, j)

\* The entry i of an inner node gives way to entry e, which is removed below
\* child j.
RemoveReplacement(c, nd, i, e, j, below) ==
  Rewrite(below[[f |-> c.f, at |-> nd.kids[j], k |-> Key(e)]], WithEntry(nd, i, e), c.at, j)

\* The entry i of an inner node is replaced by its predecessor or successor, or
\* goes down into the merge of its children.
RemoveFromNonLeaf(c, nd, i, below) ==
  IF CanLend(c.f, nd.kids[i])
  THEN LET leaf == GetPred[c.f.count][[c EXCEPT !.at = nd.kids[i]]]
       IN  RemoveReplacement(c, nd, i, Seqs!Last(leaf.ents), i, below)
  ELSE IF CanLend(c.f, nd.kids[i + 1])
  THEN LET leaf == GetSucc[c.f.count][[c EXCEPT !.at = nd.kids[i + 1]]]
       IN  RemoveReplacement(c, nd, i, Head(leaf.ents), i + 1, below)
  ELSE RemoveBelow(Merge(c.f, nd, c.at, i), i, c.k, below)

RemoveNode(c, below) ==
  IF c.at = NoBlock THEN [f |-> c.f, at |-> NoBlock]
  ELSE LET nd == ReadNode(c.f, c.at)
           i  == FindKey(nd, c.k)
       IN  IF HasKeyAt(nd, i, c.k)
           THEN IF nd.leaf THEN Replace(c.f, Leaf(Seqs!RemoveAt(nd.ents, i)), c.at)
                ELSE RemoveFromNonLeaf(c, nd, i, below)
           ELSE IF nd.leaf THEN [f |-> c.f, at |-> c.at]
           ELSE IF ~CanLend(c.f, nd.kids[i])
           THEN RemoveBelow(Fill(c.f, nd, c.at, i), i, c.k, below)
           ELSE Relink(below[[c EXCEPT !.at = nd.kids[i]]], nd, c.at, i)

RemoveRec[h \in Nat] ==
  IF h = 0 THEN <<>> ELSE [c \in Searches |-> RemoveNode(c, RemoveRec[h - 1])]

-----------------------------------------------------------------------------
(* The public operations, from the committed root to the root to commit. *)

TreeInsert(f, root, e) ==
  IF root = NoBlock THEN WriteNode(f, Leaf(<<e>>)) ELSE InsertRec(f, root, e)

TreeUpdate(f, root, e) == UpdateRec[f.count][[f |-> f, at |-> root, e |-> e]]

\* remove() on what the recursion came to: an empty root gives way to its child.
Collapse(r, root) ==
  LET nd == ReadNode(r.f, r.at)
  IN  IF r.at = root \/ N(nd) > 0 THEN r
      ELSE Freeing([f |-> r.f, at |-> IF nd.leaf THEN NoBlock ELSE Head(nd.kids)], <<r.at>>)

TreeRemove(f, root, k) == Collapse(RemoveRec[f.count][[f |-> f, at |-> root, k |-> k]], root)

TreeSearch(f, root, k) == SearchRec[f.count][[f |-> f, at |-> root, k |-> k]]

TreeRange(f, root, lo, hi) ==
  RangeRec[f.count][[f |-> f, at |-> root, lo |-> lo, hi |-> hi]]

-----------------------------------------------------------------------------
(* What there is in a file that holds "nodes", h levels down from a block. *)

\* The children of the node in block b.
Kids(nodes, b) ==
  IF b = NoBlock \/ IsLink(nodes[b]) THEN {}
  ELSE Seqs!ToSet(nodes[b].kids) \cap 1..Len(nodes)

\* The entries.
EntriesIn(nodes) ==
  LET entries[h \in Nat] ==
        IF h = 0 THEN [b \in 0..Len(nodes) |-> {}]
        ELSE [b \in 0..Len(nodes) |->
                (IF b = NoBlock \/ IsLink(nodes[b]) THEN {} ELSE Seqs!ToSet(nodes[b].ents))
                \cup UNION {entries[h - 1][c] : c \in Kids(nodes, b)}]
  IN  entries

\* The blocks.
BlocksIn(nodes) ==
  LET blocks[h \in Nat] ==
        IF h = 0 THEN [b \in 0..Len(nodes) |-> {}]
        ELSE [b \in 0..Len(nodes) |->
                ({b} \ {NoBlock}) \cup UNION {blocks[h - 1][c] : c \in Kids(nodes, b)}]
  IN  blocks
=============================================================================
