------------------------------ MODULE MCDbFile ------------------------------
(***************************************************************************)
(* Instances of DbFile for TLC.                                            *)
(***************************************************************************)
EXTENDS DbFile

\* Nodes with at least one key, empty inner nodes with zero padding, and empty
\* nodes whose first bytes are not zero.
WordsOfNodes == {NoBlock, Wild, Inside}

\* A damaged file is followed to the end of the operation that damaged it, or
\* until it is closed; one that has handed out an offset inside a block, no further.
FollowedUntilClosed ==
  /\ fault # "misread"
  /\ Damaged => mode \notin {"idle", "closed"}
=============================================================================
