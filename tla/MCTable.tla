------------------------------ MODULE MCTable -------------------------------
(***************************************************************************)
(* Instances of Table for TLC.                                             *)
(***************************************************************************)
EXTENDS Table

CONSTANTS d1, d2, nil

TwoPayloads == {d1, d2}
OnePayload == {d1}

\* A key that no automatic number reaches.
ApartKey == {8}

NoKeys == {}

AllFaults == {"create", "save", "append", "index", "remove", "commit", "write"}

NoFaults == {}

\* A table is followed until the commit of a removal has failed unnoticed, and
\* to the end of a statement after which numbers may be given out again.
FollowedUntilLapsed ==
  /\ "commit" \notin lapses
  /\ op = Idle => lapses \subseteq {"cut"}
=============================================================================
