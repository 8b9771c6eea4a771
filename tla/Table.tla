------------------------------- MODULE Table --------------------------------
(***************************************************************************)
(* A table under the statements of the engine: DB_table.cpp and the        *)
(* handlers of DB_engine.cpp on its three files, the schema with the next  *)
(* row number, the data file with a row per slot, and the index from keys  *)
(* to slots.  A statement is a sequence of writes to these files.  The     *)
(* program may die between any two of them, and a write may fail, which    *)
(* ends the statement there.  The index is taken to be what KVIndex says.  *)
(***************************************************************************)
EXTENDS Integers, Sequences

CONSTANTS
  Payloads,   \* what the columns beside the index column may hold
  NoData,     \* what they hold in a row of zeros
  Explicit,   \* the keys that clients name in their inserts
  Numbered,   \* whether the index column is row_num, numbered automatically
  Unique,     \* whether clients refrain from naming a key that a row has
  Width,      \* 2^32 in the program: keys of the index are keys modulo this
  Byte,       \* 2^8 in the program: the first byte of a row is its key modulo this
  Faults,     \* what may fail: "create", "save", "append", "index", "remove", "commit",
              \* "write"
  MaxRows,    \* rows that fit in the data file; 2^31 bytes in the program
  MaxNumber   \* the last number given out automatically (a bound)

ASSUME RowsAssumption == NoData \notin Payloads /\ Explicit \subseteq Nat
ASSUME ClientAssumption == Numbered \in BOOLEAN /\ Unique \in BOOLEAN
ASSUME WidthAssumption == Width \in Nat \ {0} /\ Byte \in Nat \ {0}
ASSUME LimitsAssumption == MaxRows \in Nat /\ MaxNumber \in Nat

VARIABLES
  files,    \* what there is of the table: "index", its "header", "data"
  schema,   \* the next row number in the schema file
  rows,     \* the data file
  index,    \* the pairs <<key, slot>> of the index file
  op,       \* the statement that is running: what it does next, the pair it is
            \* about, and the row it writes
  lapses    \* what has gone wrong that no later statement knows of: a "save" or a
            \* "commit" that failed, a table in use that was "created" again, a
            \* statement "cut" short that left the table in pieces

vars == <<files, schema, rows, index, op, lapses>>

\* A schema file that is not there, or that save() has truncated and not yet
\* written.
Lost == 0

Row == [key : Nat, data : Payloads \cup {NoData}]
Blank == [key |-> 0, data |-> NoData]

AllFiles == {"index", "header", "data"}

RowStages ==
  {"save", "saving", "append", "stray", "index", "unindex", "zero", "rewrite"}
CreateStages == {"recreate", "recreating", "newindex", "newheader", "newdata"}
Stages == {"idle"} \cup RowStages \cup CreateStages
Statement(stage, entry, row) == [stage |-> stage, entry |-> entry, row |-> row]
Idle == Statement("idle", <<0, 0>>, Blank)

TypeOK ==
  /\ files \subseteq AllFiles
  /\ schema \in Nat
  /\ rows \in Seq(Row)
  /\ index \subseteq Nat \X Nat
  /\ op \in [stage : Stages, entry : Nat \X Nat, row : Row]
  /\ lapses \subseteq {"save", "commit", "created", "cut"}

-----------------------------------------------------------------------------
\* The cast of a 64-bit key to the index's 32 bits.
Key32(k) == k % Width

Found(k) == {e \in index : e[1] = Key32(k)}

\* The full scan takes a row whose first byte is zero for a deleted one.
Skipped(row) == row.key % Byte = 0
Scan == {i \in DOMAIN rows : ~Skipped(rows[i])}

\* A statement on rows opens the table first, which needs all of it.
Ready == op = Idle /\ schema # Lost /\ files = AllFiles

\* What is left in pieces if the running statement stops here.
CutShort ==
  IF files # {} /\ op.stage \in {"saving", "recreating", "newheader", "newdata"}
    THEN lapses \cup {"cut"}
    ELSE lapses

-----------------------------------------------------------------------------
(* CREATE_TABLE, with the columns it had if the table exists.              *)

Create ==
  /\ op = Idle
  /\ op' = Statement("recreate", <<0, 0>>, Blank)
  /\ UNCHANGED <<files, schema, rows, index, lapses>>

\* The schema is written first, before anything tells that the table exists.
ClearSchema ==
  /\ op.stage = "recreate"
  /\ schema' = Lost
  /\ op' = [op EXCEPT !.stage = "recreating"]
  /\ UNCHANGED <<files, rows, index, lapses>>

NewSchema ==
  /\ op.stage = "recreating"
  /\ schema' = 1
  /\ lapses' = IF "index" \in files THEN lapses \cup {"created"} ELSE lapses
  /\ op' = [op EXCEPT !.stage = "newindex"]
  /\ UNCHANGED <<files, rows, index>>

\* DbFile::create() refuses a file that exists.
NewIndexFile ==
  /\ op.stage = "newindex"
  /\ "index" \notin files
  /\ files' = files \cup {"index"}
  /\ op' = [op EXCEPT !.stage = "newheader"]
  /\ UNCHANGED <<schema, rows, index, lapses>>

IndexFileRefused ==
  /\ op.stage = "newindex"
  /\ "index" \in files
  /\ op' = Idle
  /\ UNCHANGED <<files, schema, rows, index, lapses>>

NewHeader ==
  /\ op.stage = "newheader"
  /\ files' = files \cup {"header"}
  /\ index' = {}
  /\ op' = [op EXCEPT !.stage = "newdata"]
  /\ UNCHANGED <<schema, rows, lapses>>

\* Mutant: the index file stays when its header cannot be written.
FileLeft == files

FileRemoved == files \ {"index"}

NewHeaderFails ==
  /\ "create" \in Faults
  /\ op.stage = "newheader"
  /\ files' = FileRemoved
  /\ op' = Idle
  /\ UNCHANGED <<schema, rows, index, lapses>>

NewData ==
  /\ op.stage = "newdata"
  /\ files' = files \cup {"data"}
  /\ rows' = <<>>
  /\ op' = Idle
  /\ UNCHANGED <<schema, index, lapses>>

\* The schema or the data file cannot be opened or written.
CreateFails ==
  /\ "create" \in Faults
  /\ op.stage \in {"recreate", "recreating", "newindex", "newdata"}
  /\ op' = Idle
  /\ lapses' = CutShort
  /\ UNCHANGED <<files, schema, rows, index>>

-----------------------------------------------------------------------------
(* INSERT_ROW *)

Insert(k, d) ==
  /\ Ready
  /\ Unique => Found(k) = {}
  /\ op' = Statement("append", <<0, 0>>, [key |-> k, data |-> d])
  /\ UNCHANGED <<files, schema, rows, index, lapses>>

\* A row without a row_num is given the next one.
InsertNumbered(d) ==
  /\ Ready
  /\ Numbered
  /\ schema <= MaxNumber
  /\ op' = Statement("save", <<0, 0>>, [key |-> schema, data |-> d])
  /\ UNCHANGED <<files, schema, rows, index, lapses>>

\* The index column is missing, or has a value of the other type, which leaves
\* zeros in its place.
InsertUnkeyed(d) ==
  /\ Ready
  /\ op' = Statement("stray", <<0, 0>>, [key |-> 0, data |-> d])
  /\ UNCHANGED <<files, schema, rows, index, lapses>>

\* save() opens the schema file, which truncates it, and then writes it.
TruncateSchema ==
  /\ op.stage = "save"
  /\ schema' = Lost
  /\ op' = [op EXCEPT !.stage = "saving"]
  /\ UNCHANGED <<files, rows, index, lapses>>

\* Mutant: the number is saved as it was.
SameNumber(k) == k

NextNumber(k) == k + 1

SaveSchema ==
  /\ op.stage = "saving"
  /\ schema' = NextNumber(op.row.key)
  /\ op' = [op EXCEPT !.stage = "append"]
  /\ UNCHANGED <<files, rows, index, lapses>>

\* Nobody looks at the result of save().
SaveFails ==
  /\ "save" \in Faults
  /\ op.stage \in {"save", "saving"}
  /\ op' = [op EXCEPT !.stage = "append"]
  /\ lapses' = CutShort \cup {"save"}
  /\ UNCHANGED <<files, schema, rows, index>>

\* Mutant: the position could not be told.
Untold == -1

\* Where the next row goes.
EndOfFile == Len(rows) + 1

AppendRow ==
  /\ op.stage = "append"
  /\ Len(rows) < MaxRows
  /\ rows' = Append(rows, op.row)
  /\ op' = Statement("index", <<Key32(op.row.key), EndOfFile>>, op.row)
  /\ UNCHANGED <<files, schema, index, lapses>>

\* The row is written before its key is looked at, which throws.
AppendUnkeyed ==
  /\ op.stage = "stray"
  /\ Len(rows) < MaxRows
  /\ rows' = Append(rows, op.row)
  /\ op' = Idle
  /\ UNCHANGED <<files, schema, index, lapses>>

AppendFails ==
  /\ op.stage \in {"append", "stray"}
  /\ Len(rows) >= MaxRows \/ "append" \in Faults
  /\ op' = Idle
  /\ UNCHANGED <<files, schema, rows, index, lapses>>

IndexRow ==
  /\ op.stage = "index"
  /\ index' = index \cup {op.entry}
  /\ op' = Idle
  /\ UNCHANGED <<files, schema, rows, lapses>>

\* BTree::insert() throws, or its commit fails and it returns.
IndexFails ==
  /\ "index" \in Faults
  /\ op.stage = "index"
  /\ op' = Idle
  /\ UNCHANGED <<files, schema, rows, index, lapses>>

-----------------------------------------------------------------------------
(* DELETE_ROW and UPDATE_ROW *)

Delete(k) ==
  /\ Ready
  /\ \E e \in Found(k) : op' = Statement("unindex", e, Blank)
  /\ UNCHANGED <<files, schema, rows, index, lapses>>

\* Mutant: the row is zeroed first and stays in the index.
Keep(e) == index

Without(e) == index \ {e}

Unindex ==
  /\ op.stage = "unindex"
  /\ index' = Without(op.entry)
  /\ op' = [op EXCEPT !.stage = "zero"]
  /\ UNCHANGED <<files, schema, rows, lapses>>

\* BTree::remove() throws.
UnindexFails ==
  /\ "remove" \in Faults
  /\ op.stage = "unindex"
  /\ op' = Idle
  /\ UNCHANGED <<files, schema, rows, index, lapses>>

\* The commit of BTree::remove() fails, which it does not tell.
UnindexIgnored ==
  /\ "commit" \in Faults
  /\ op.stage = "unindex"
  /\ op' = [op EXCEPT !.stage = "zero"]
  /\ lapses' = lapses \cup {"commit"}
  /\ UNCHANGED <<files, schema, rows, index>>

\* The row is read through the index and changed in all but its key.
Update(k, d) ==
  /\ Ready
  /\ \E e \in Found(k) :
       /\ e[2] \in DOMAIN rows
       /\ op' = Statement("rewrite", e, [rows[e[2]] EXCEPT !.data = d])
  /\ UNCHANGED <<files, schema, rows, index, lapses>>

\* The last write of both: zeros, or the changed row.
WriteRow ==
  /\ op.stage \in {"zero", "rewrite"}
  /\ rows' = [rows EXCEPT ![op.entry[2]] = op.row]
  /\ op' = Idle
  /\ UNCHANGED <<files, schema, index, lapses>>

WriteRowFails ==
  /\ "write" \in Faults
  /\ op.stage \in {"zero", "rewrite"}
  /\ op' = Idle
  /\ UNCHANGED <<files, schema, rows, index, lapses>>

\* The program dies in a statement.
Crash ==
  /\ op # Idle
  /\ op' = Idle
  /\ lapses' = CutShort
  /\ UNCHANGED <<files, schema, rows, index>>

-----------------------------------------------------------------------------
\* There is no such table.
Init ==
  /\ files = {}
  /\ schema = Lost
  /\ rows = <<>>
  /\ index = {}
  /\ op = Idle
  /\ lapses = {}

Next ==
  \/ Create \/ ClearSchema \/ NewSchema \/ NewIndexFile \/ IndexFileRefused
  \/ NewHeader \/ NewHeaderFails \/ NewData \/ CreateFails
  \/ \E k \in Explicit, d \in Payloads : Insert(k, d)
  \/ \E d \in Payloads : InsertNumbered(d) \/ InsertUnkeyed(d)
  \/ TruncateSchema \/ SaveSchema \/ SaveFails
  \/ AppendRow \/ AppendUnkeyed \/ AppendFails \/ IndexRow \/ IndexFails
  \/ \E k \in Explicit \cup 1..MaxNumber :
       Delete(k) \/ \E d \in Payloads : Update(k, d)
  \/ Unindex \/ UnindexFails \/ UnindexIgnored
  \/ WriteRow \/ WriteRowFails
  \/ Crash

Spec == Init /\ [][Next]_vars

-----------------------------------------------------------------------------
\* Every pair of the index leads to a row with that key which has not been
\* deleted, and to a row of its own.
PointersSound ==
  /\ \A e \in index :
       e[2] \in DOMAIN rows /\ rows[e[2]] # Blank /\ Key32(rows[e[2]].key) = e[1]
  /\ \A e, f \in index : e[2] = f[2] => e = f

(* The index leads to live rows with its keys, one for each pair, whatever *)
(* crashes or fails on the way, because rows are written before they are   *)
(* indexed and taken from the index before they are zeroed: unless the     *)
(* commit of a removal has failed unnoticed.                               *)
IndexSound == "commit" \notin lapses => PointersSound

(* A row keeps its slot and its key until it is zeroed, and a slot of      *)
(* zeros is never written again: no statement reaches it.                  *)
TombstonesStay ==
  [][\A i \in DOMAIN rows :
       /\ i \in DOMAIN rows'
       /\ "commit" \notin lapses =>
            rows'[i] = Blank \/ (rows[i] # Blank /\ rows'[i].key = rows[i].key)]_vars

(* An automatic row number is not given out again, not even after a crash  *)
(* between the save of the next number and the insert of the row, unless   *)
(* a save has failed unnoticed or the table has been created again.        *)
NumbersUsedOnce ==
  lapses \cap {"save", "created"} = {} =>
    \A i, j \in DOMAIN rows :
      rows[i].key = rows[j].key /\ rows[i].key \notin Explicit \cup {0} => i = j

(* A table that is there opens: CREATE_TABLE, however often it is repeated  *)
(* and wherever it fails, leaves no table or a whole one, and inserts keep *)
(* its schema file, unless one of them has been cut short where only half  *)
(* of what it writes is there.                                             *)
OpensUnlessCut ==
  op = Idle /\ "cut" \notin lapses /\ files # {} => Ready

(* Statements are atomic in what can be found through the index: the map   *)
(* from keys to rows changes by one insert, update or removal, at one step *)
(* of the statement, however many files it writes.                         *)
Contents == {<<e[1], rows[e[2]].data>> : e \in index}
Index == INSTANCE KVIndex WITH
           index <- Contents, Entries <- (0..(Width - 1)) \X Payloads
ImplementsIndex == Index!Spec

-----------------------------------------------------------------------------
\* What each step of a statement leaves for the next one to rely on.
StatementSound ==
  /\ op.stage \in {"save", "saving", "append", "stray"} => op.row # Blank
  /\ op.stage = "index" =>
       /\ op.entry[2] \in DOMAIN rows
       /\ rows[op.entry[2]] # Blank
       /\ Key32(rows[op.entry[2]].key) = op.entry[1]
       /\ \A e \in index : e[2] # op.entry[2]
  /\ op.stage \in {"unindex", "rewrite"} => op.entry \in index
  /\ op.stage = "zero" =>
       op.row = Blank /\ op.entry[2] \in DOMAIN rows /\ \A e \in index : e[2] # op.entry[2]
  /\ op.stage = "unindex" => op.row = Blank
  /\ op.stage = "rewrite" => op.row # Blank /\ op.row.key = rows[op.entry[2]].key

\* What there is of the table at each stage.
FilesSound ==
  /\ files \in {{}, {"index"}, {"index", "header"}, AllFiles}
  /\ "data" \notin files => rows = <<>> /\ index = {}
  /\ op.stage \in RowStages => files = AllFiles
  /\ op.stage = "newheader" => files = {"index"}
  /\ op.stage = "newdata" => files = {"index", "header"}
  /\ "cut" \notin lapses =>
       /\ op.stage \notin {"newheader", "newdata"} => files \in {{}, AllFiles}
       /\ op.stage \notin {"saving", "recreating"} /\ files # {} => schema # Lost
       /\ op.stage = "newindex" => schema # Lost

(* The inductive invariant of the proofs in TableProofs.                   *)
IndInv ==
  /\ FilesSound
  /\ "commit" \notin lapses => PointersSound /\ StatementSound

-----------------------------------------------------------------------------
(* README.md calls row_num a primary key, and a query a transaction: no     *)
(* statement, CREATE_TABLE of a table in use included, makes the index     *)
(* hold two rows with one row_num.                                         *)
PrimaryKey == op = Idle => \A e, f \in index : e[1] = f[1] => e = f

(* What the scan leaves out has been deleted, as the comment beside its    *)
(* test of the first byte says.                                            *)
OnlyDeletedSkipped == op = Idle => \A e \in index : e[2] \in Scan
=============================================================================
