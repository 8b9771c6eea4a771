---------------------------- MODULE AtomicStore -----------------------------
(***************************************************************************)
(* What a block file promises to the tree above it: a committed set of     *)
(* nodes, and a transaction that writes new nodes beside it and then       *)
(* replaces the set in one step, or leaves no trace.  A committed node is  *)
(* never changed, only dropped.                                            *)
(***************************************************************************)
CONSTANTS
  Place,   \* where nodes are kept
  Node     \* what a node may be

VARIABLES
  store,   \* the committed nodes, by place
  writes,  \* the nodes written by the running transaction, by place
  broken   \* whether the store has been damaged (see Break)

vars == <<store, writes, broken>>

Nothing == [p \in {} |-> 0]

Init ==
  /\ store = Nothing
  /\ writes = Nothing
  /\ broken = FALSE

\* A new node goes where no committed or new node is.
Write(p, n) ==
  /\ p \notin DOMAIN store \cup DOMAIN writes
  /\ writes' = [q \in DOMAIN writes \cup {p} |-> IF q = p THEN n ELSE writes[q]]
  /\ UNCHANGED <<store, broken>>

\* Old and new nodes become the committed ones, but for those dropped.
Commit(drop) ==
  /\ store' = [p \in (DOMAIN store \cup DOMAIN writes) \ drop |->
                 IF p \in DOMAIN writes THEN writes[p] ELSE store[p]]
  /\ writes' = Nothing
  /\ UNCHANGED broken

\* A crash or a failure: as if the transaction had never been.
Abort ==
  /\ writes' = Nothing
  /\ UNCHANGED <<store, broken>>

\* The way out of the contract: an operation throws after it has staged blocks,
\* stages one block twice, or takes an empty node for a link of the free list.
\* From then on nothing is promised.
Break == broken' = TRUE

Next ==
  \/ \E p \in Place, n \in Node : Write(p, n)
  \/ \E drop \in SUBSET Place : Commit(drop)
  \/ Abort
  \/ Break
  \/ broken

Spec == Init /\ [][Next]_vars
=============================================================================
