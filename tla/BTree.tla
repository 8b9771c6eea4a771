------------------------------- MODULE BTree --------------------------------
(***************************************************************************)
(* A B-tree under any sequence of public operations, with an empty free    *)
(* list: every block that allocateBlock() returns is new, as its callers   *)
(* take it to be.  (BTreeFile runs the same operations on the free list    *)
(* their own commits build.)                                               *)
(*                                                                         *)
(* An operation starts from the file and the root that the one before has  *)
(* committed.  The file grows for ever; what the blocks behind the root    *)
(* say does not depend on their numbers, so that TLC tells files apart by  *)
(* the trees in them.                                                      *)
(***************************************************************************)
EXTENDS BTreeOps, FiniteSets

CONSTANTS
  Entries,     \* the <<key, value>> pairs that clients insert
  Unique,      \* whether clients refrain from inserting a key twice: neither
               \* the tree nor the table checks
  MaxEntries   \* the tree holds at most this many entries (a bound)

ASSUME ClientAssumption ==
  Entries \subseteq Entry /\ Unique \in BOOLEAN /\ MaxEntries \in Nat

VARIABLES
  blocks,   \* what the blocks of the file hold
  root      \* the committed root

vars == <<blocks, root>>

Keys == {e[1] : e \in Entries}

\* The committed file an operation starts from.
Store == [nodes |-> blocks, pending |-> <<>>, log |-> <<>>, live |-> {},
          head |-> NoBlock, count |-> Len(blocks) + 1, clash |-> FALSE]

-----------------------------------------------------------------------------
(* The tree in a file that holds "nodes", h levels down from a block. *)

\* The entries in key order.
WalkIn(nodes) ==
  LET walk[h \in Nat] ==
        IF h = 0 THEN [b \in 0..Len(nodes) |-> <<>>]
        ELSE [b \in 0..Len(nodes) |->
                IF b = NoBlock THEN <<>>
                ELSE LET nd == nodes[b] IN
                     IF nd.leaf THEN nd.ents
                     ELSE Seqs!FlattenSeq([i \in 1..N(nd) |->
                            Append(walk[h - 1][nd.kids[i]], nd.ents[i])])
                          \o walk[h - 1][Seqs!Last(nd.kids)]]
  IN  walk

Walk(nodes, at) == WalkIn(nodes)[Len(nodes)][at]

Contents == EntriesIn(blocks)[Len(blocks)][root]

-----------------------------------------------------------------------------
CanInsert(e) ==
  /\ Len(Walk(blocks, root)) < MaxEntries
  /\ Unique => \A f \in Contents : f[1] # e[1]

\* What each operation would commit.
Inserted(e) == TreeInsert(Store, root, e)
Updated(e)  == TreeUpdate(Store, root, e)
Removed(k)  == TreeRemove(Store, root, k)

Commit(r) == blocks' = r.f.nodes /\ root' = r.at

Insert(e) == CanInsert(e) /\ Commit(Inserted(e))

Update(e) == Commit(Updated(e))

Remove(k) == Commit(Removed(k))

Init == blocks = <<>> /\ root = NoBlock

Next ==
  \/ \E e \in Entries : Insert(e) \/ Update(e)
  \/ \E k \in Keys : Remove(k)

Spec == Init /\ [][Next]_vars

-----------------------------------------------------------------------------
\* One entry may come before another in the tree.
Precedes(d, e) == Key(d) < Key(e) \/ (~Unique /\ Key(d) = Key(e))

\* An inner node has a child more than entries, and a leaf none.
Filled(nd) == Len(nd.kids) = IF nd.leaf THEN 0 ELSE N(nd) + 1

Ascending(ents) == \A i, j \in DOMAIN ents : i < j => Precedes(ents[i], ents[j])

\* A set of entries belongs below child i of a node.
Between(nd, i, entries) ==
  \A e \in entries :
    /\ \A j \in 1..(i - 1) : Precedes(nd.ents[j], e)
    /\ \A j \in i..N(nd) : Precedes(e, nd.ents[j])

\* Below a block is a B-tree of exactly h levels.
TreeIn(nodes) ==
  LET tree[h \in Nat] ==
        IF h = 0 THEN [b \in 0..Len(nodes) |-> FALSE]
        ELSE [b \in 0..Len(nodes) |->
                LET nd == nodes[b] IN
                /\ b # NoBlock
                /\ nd \in Node
                /\ nd.leaf = (h = 1)
                /\ Filled(nd)
                /\ N(nd) <= 2 * T - 1
                /\ Ascending(nd.ents)
                /\ \A i \in DOMAIN nd.kids :
                     /\ nd.kids[i] \in 1..Len(nodes)
                     /\ tree[h - 1][nd.kids[i]]
                     /\ N(nodes[nd.kids[i]]) >= T - 1
                     /\ Between(nd, i, EntriesIn(nodes)[h - 1][nd.kids[i]])]
  IN  tree

(* After any sequence of operations the tree is a B-tree of degree t: all  *)
(* leaves at one depth, every node but the root at least half full, no     *)
(* node over-full, and the keys in order across the whole tree.            *)
BTreeShape ==
  \/ root = NoBlock
  \/ /\ root \in DOMAIN blocks
     /\ N(blocks[root]) >= 1
     /\ \E h \in 1..Len(blocks) : TreeIn(blocks)[h][root]

\* What the operations that may come next would commit.
Outcomes ==
  {Inserted(e) : e \in {e \in Entries : CanInsert(e)}}
  \cup {Updated(e) : e \in Entries} \cup {Removed(k) : k \in Keys}

Reach(f, at) == BlocksIn(f.nodes)[Len(f.nodes)][at]

(* The contract of DbFile's client: the blocks an operation stages are     *)
(* exactly the ones, old or just written, that the tree it commits does    *)
(* not use.  A block missed would be leaked for good, a block too many     *)
(* would be recycled while it is live.                                     *)
StagesExactlyTheStale ==
  \A r \in Outcomes :
    Reach(r.f, r.at) =
      (Reach(Store, root) \cup Seqs!ToSet(r.f.log)) \ Seqs!ToSet(r.f.pending)

\* The part of a walk with keys from lo to hi.
IsStretch(part, walk, lo, hi) ==
  \E i, j \in 0..Len(walk) :
    /\ part = SubSeq(walk, i + 1, j)
    /\ \A n \in 1..Len(walk) : n \in (i + 1)..j <=> lo <= Key(walk[n]) /\ Key(walk[n]) <= hi

(* Point search and range search find what an in-order walk of the tree    *)
(* finds, for every key and every pair of bounds.                          *)
SearchesAgree ==
  LET w == Walk(blocks, root)
  IN  /\ Unique => \A k \in Keys :
           TreeSearch(Store, root, k) = {e[2] : e \in {e \in Seqs!ToSet(w) : e[1] = k}}
      /\ \A lo, hi \in Keys : IsStretch(TreeRange(Store, root, lo, hi), w, lo, hi)

\* How often each key is in a tree.
KeyCount(nodes, at) ==
  LET w == Walk(nodes, at)
  IN  [k \in Keys |-> Cardinality({i \in 1..Len(w) : Key(w[i]) = k})]

(* An insert adds one entry with its key, a removal takes away one entry   *)
(* with its key if there is one, an update leaves the keys as they are and *)
(* stores its value; all the other keys stay, whatever was split, borrowed *)
(* or merged, for duplicate keys too.                                      *)
OneKeyAtATime ==
  LET old == KeyCount(blocks, root)
      new(r) == KeyCount(r.f.nodes, r.at)
  IN  /\ \A e \in Entries :
           /\ CanInsert(e) => new(Inserted(e)) = [old EXCEPT ![e[1]] = @ + 1]
           /\ new(Updated(e)) = old
           /\ old[e[1]] = 1 =>
                e \in LET r == Updated(e) IN Seqs!ToSet(Walk(r.f.nodes, r.at))
      /\ \A k \in Keys :
           new(Removed(k)) = IF old[k] = 0 THEN old ELSE [old EXCEPT ![k] = @ - 1]

(* The tree implements the abstract index. *)
Index == INSTANCE KVIndex WITH index <- Contents
ImplementsIndex == Index!Spec
=============================================================================
