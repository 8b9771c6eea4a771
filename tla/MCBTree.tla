------------------------------ MODULE MCBTree -------------------------------
(***************************************************************************)
(* Instances of BTree for TLC.                                             *)
(***************************************************************************)
EXTENDS BTree

\* Keys with a value of their own, so that a value that strays is seen: enough
\* of them for height 3 at t = 2, and for height 2 with every rebalancing at t = 3.
ManyRows == {<<k, k>> : k \in 1..10}

\* The same with a second value for two of the keys.
RowsAndUpdates == ManyRows \cup {<<3, 0>>, <<7, 0>>}

\* Two keys that may be inserted again and again.
TwoKeysTwoValues == {<<k, v>> : k \in 1..2, v \in 1..2}

\* The tree behind the root without the numbers of its blocks, by which TLC tells
\* states apart: neither the operations nor the properties look at the numbers.
RECURSIVE Lift(_)
Lift(at) ==
  IF at = NoBlock THEN <<>>
  ELSE [ents |-> blocks[at].ents,
        kids |-> [i \in DOMAIN blocks[at].kids |-> Lift(blocks[at].kids[i])]]

Tree == Lift(root)
=============================================================================
