---------------------------- MODULE MCBTreeFile -----------------------------
(***************************************************************************)
(* Instances of BTreeFile for TLC.                                         *)
(***************************************************************************)
EXTENDS BTreeFile

\* Three keys of two values each: the tree is one node at t = 2.
ThreeKeys == {<<k, v>> : k \in 1..3, v \in 1..2}

\* Two keys of two values each.
TwoKeys == {<<k, v>> : k \in 1..2, v \in 1..2}

\* Enough keys for two levels and a split of a leaf at t = 2.
SixKeys == {<<k, k>> : k \in 1..6}
=============================================================================
