------------------------------ MODULE KVIndex -------------------------------
(***************************************************************************)
(* What an index promises to the table above it: a map from keys to the    *)
(* values (row offsets) last stored under them.  Each operation takes      *)
(* effect at once or, if the program dies in it, perhaps not at all.       *)
(***************************************************************************)
CONSTANT Entries   \* the <<key, value>> pairs that may be stored

VARIABLE index     \* the pairs stored

Keys == {e[1] : e \in Entries}

Init == index = {}

At(k) == {e \in index : e[1] = k}

Insert(e) ==
  /\ At(e[1]) = {}
  /\ index' = index \cup {e}

Update(e) ==
  /\ At(e[1]) # {}
  /\ index' = (index \ At(e[1])) \cup {e}

Remove(k) == index' = index \ At(k)

Next ==
  \/ \E e \in Entries : Insert(e) \/ Update(e)
  \/ \E k \in Keys : Remove(k)

Spec == Init /\ [][Next]_index
=============================================================================
