---------------------------- MODULE TableProofs ----------------------------
(***************************************************************************)
(* Theorems about Table, for every size of the data file, every set of     *)
(* keys and payloads and every set of failures.                            *)
(***************************************************************************)
EXTENDS Table, SequenceTheorems, TLAPS

(* The cast of a key is a number.                                          *)
LEMMA CastType == ASSUME NEW k \in Nat PROVE Key32(k) \in Nat
BY WidthAssumption DEF Key32

(* The zeroed row is a row.                                                *)
LEMMA BlankType == Blank \in Row
BY DEF Blank, Row

(* A row written into a slot leaves the other rows where they are.         *)
LEMMA SlotWrite ==
  ASSUME NEW s \in Seq(Row), NEW i \in Nat, NEW r \in Row
  PROVE  LET t == [s EXCEPT ![i] = r]
         IN  /\ t \in Seq(Row)
             /\ DOMAIN t = DOMAIN s
             /\ \A j \in DOMAIN s : t[j] = IF j = i THEN r ELSE s[j]
<1>1. s \in [1..Len(s) -> Row] /\ Len(s) \in Nat /\ DOMAIN s = 1..Len(s)
  BY LenProperties
<1>2. CASE i \in 1..Len(s)
  BY <1>1, <1>2, ExceptSeq
<1>3. CASE i \notin 1..Len(s)
  <2>1. [s EXCEPT ![i] = r] = s
    BY <1>1, <1>3
  <2> QED
    BY <2>1, <1>1, <1>3
<1> QED
  BY <1>2, <1>3

\* The steps of CREATE_TABLE.
Creating ==
  \/ Create \/ ClearSchema \/ NewSchema \/ NewIndexFile \/ IndexFileRefused
  \/ NewHeader \/ NewHeaderFails \/ NewData \/ CreateFails

(* The variables keep their types.                                         *)
LEMMA TypeStep == TypeOK /\ [Next]_vars => TypeOK'
<1> SUFFICES ASSUME TypeOK, [Next]_vars PROVE TypeOK'
  OBVIOUS
<1> USE BlankType DEF TypeOK, Statement, Idle, Stages, RowStages, CreateStages
<1>0. CASE Creating
  <2>1. CASE Create \/ ClearSchema \/ NewSchema \/ IndexFileRefused
    BY <2>1 DEF Create, ClearSchema, NewSchema, IndexFileRefused, Lost
  <2>2. CASE NewIndexFile \/ NewHeader \/ NewHeaderFails
    BY <2>2 DEF NewIndexFile, NewHeader, NewHeaderFails, FileRemoved, AllFiles
  <2>3. CASE NewData
    <3>1. <<>> \in Seq(Row)
      OBVIOUS
    <3> QED
      BY <2>3, <3>1 DEF NewData, AllFiles
  <2>4. CASE CreateFails
    BY <2>4 DEF CreateFails, CutShort
  <2> QED
    BY <1>0, <2>1, <2>2, <2>3, <2>4 DEF Creating
<1>1. CASE \E k \in Explicit, d \in Payloads : Insert(k, d)
  BY <1>1, RowsAssumption DEF Insert, Row
<1>2. CASE \E d \in Payloads : InsertNumbered(d)
  BY <1>2 DEF InsertNumbered, Row
<1>3. CASE TruncateSchema
  BY <1>3 DEF TruncateSchema, Lost
<1>4. CASE SaveSchema
  <2>1. op.row.key \in Nat
    BY DEF Row
  <2> QED
    BY <1>4, <2>1 DEF SaveSchema, NextNumber
<1>5. CASE SaveFails
  BY <1>5 DEF SaveFails, CutShort
<1>6. CASE AppendRow
  <2>1. Key32(op.row.key) \in Nat
    BY CastType DEF Row
  <2>2. Append(rows, op.row) \in Seq(Row)
    OBVIOUS
  <2> QED
    BY <1>6, <2>1, <2>2 DEF AppendRow, EndOfFile
<1>7. CASE AppendFails
  BY <1>7 DEF AppendFails
<1>8. CASE IndexRow
  BY <1>8 DEF IndexRow
<1>9. CASE IndexFails
  BY <1>9 DEF IndexFails
<1>10. CASE \E k \in Explicit \cup 1..MaxNumber : Delete(k)
  BY <1>10 DEF Delete, Found
<1>11. CASE \E k \in Explicit \cup 1..MaxNumber : \E d \in Payloads : Update(k, d)
  <2>1. PICK k \in Explicit \cup 1..MaxNumber, d \in Payloads : Update(k, d)
    BY <1>11
  <2>2. PICK e \in Found(k) :
          e[2] \in DOMAIN rows /\ op' = Statement("rewrite", e, [rows[e[2]] EXCEPT !.data = d])
    BY <2>1 DEF Update
  <2>3. rows[e[2]] \in Row
    BY <2>2
  <2>4. [rows[e[2]] EXCEPT !.data = d] \in Row
    BY <2>3 DEF Row
  <2> QED
    BY <2>1, <2>2, <2>4 DEF Update, Found
<1>12. CASE Unindex
  BY <1>12 DEF Unindex, Without
<1>13. CASE UnindexFails
  BY <1>13 DEF UnindexFails
<1>14. CASE UnindexIgnored
  BY <1>14 DEF UnindexIgnored
<1>15. CASE WriteRow
  <2>1. [rows EXCEPT ![op.entry[2]] = op.row] \in Seq(Row)
    BY SlotWrite
  <2> QED
    BY <1>15, <2>1 DEF WriteRow
<1>16. CASE WriteRowFails
  BY <1>16 DEF WriteRowFails
<1>17. CASE Crash
  BY <1>17 DEF Crash, CutShort
<1>18. CASE UNCHANGED vars
  BY <1>18 DEF vars
<1>19. CASE \E d \in Payloads : InsertUnkeyed(d)
  BY <1>19 DEF InsertUnkeyed, Row
<1>20. CASE AppendUnkeyed
  <2>1. Append(rows, op.row) \in Seq(Row)
    OBVIOUS
  <2> QED
    BY <1>20, <2>1 DEF AppendUnkeyed
<1> QED
  BY <1>0, <1>1, <1>2, <1>3, <1>4, <1>5, <1>6, <1>7, <1>8, <1>9, <1>10, <1>11, <1>12, <1>13,
     <1>14, <1>15, <1>16, <1>17, <1>18, <1>19, <1>20 DEF Next, Creating

(* The variables of a table keep their types.                              *)
THEOREM TypeCorrect == Spec => []TypeOK
<1>1. Init => TypeOK
  BY BlankType DEF Init, TypeOK, Idle, Statement, Stages, Lost
<1> QED
  BY <1>1, TypeStep, PTL DEF Spec

-----------------------------------------------------------------------------
\* The steps of a statement on rows that leave the files and the schema alone
\* and end it or go on in it.
Working ==
  \/ AppendRow \/ AppendUnkeyed \/ AppendFails \/ IndexRow \/ IndexFails
  \/ Unindex \/ UnindexFails \/ UnindexIgnored \/ WriteRow \/ WriteRowFails

(* A step of CREATE_TABLE keeps what there is of the table with its stage. *)
LEMMA FilesCreate == TypeOK /\ FilesSound /\ Creating => FilesSound'
<1> SUFFICES ASSUME TypeOK, FilesSound, Creating PROVE FilesSound'
  OBVIOUS
<1> USE DEF TypeOK, FilesSound, Statement, Idle, Lost, AllFiles, RowStages
<1>1. CASE Create
  BY <1>1 DEF Create
<1>2. CASE ClearSchema
  BY <1>2 DEF ClearSchema
<1>3. CASE NewSchema
  BY <1>3 DEF NewSchema
<1>4. CASE NewIndexFile
  BY <1>4 DEF NewIndexFile
<1>5. CASE IndexFileRefused
  BY <1>5 DEF IndexFileRefused
<1>6. CASE NewHeader
  BY <1>6 DEF NewHeader
<1>7. CASE NewHeaderFails
  BY <1>7 DEF NewHeaderFails, FileRemoved
<1>8. CASE NewData
  BY <1>8 DEF NewData
<1>9. CASE CreateFails
  BY <1>9 DEF CreateFails, CutShort
<1> QED
  BY <1>1, <1>2, <1>3, <1>4, <1>5, <1>6, <1>7, <1>8, <1>9 DEF Creating

(* So does every other step.                                               *)
LEMMA FilesStep == TypeOK /\ FilesSound /\ [Next]_vars => FilesSound'
<1> SUFFICES ASSUME TypeOK, FilesSound, [Next]_vars PROVE FilesSound'
  OBVIOUS
<1>1. CASE Creating
  BY <1>1, FilesCreate
<1>2. CASE \/ \E k \in Explicit, d \in Payloads : Insert(k, d)
           \/ \E d \in Payloads : InsertNumbered(d) \/ InsertUnkeyed(d)
           \/ \E k \in Explicit \cup 1..MaxNumber :
                Delete(k) \/ \E d \in Payloads : Update(k, d)
  <2>1. /\ files' = files /\ schema' = schema /\ rows' = rows /\ index' = index
        /\ lapses' = lapses /\ files = AllFiles /\ schema # Lost
        /\ op'.stage \in {"append", "save", "stray", "unindex", "rewrite"}
    BY <1>2 DEF Insert, InsertNumbered, InsertUnkeyed, Delete, Update, Ready, Statement
  <2> QED
    BY <2>1 DEF FilesSound, AllFiles, RowStages
<1>3. CASE TruncateSchema \/ SaveSchema \/ SaveFails
  <2> USE <1>3 DEF FilesSound, AllFiles, RowStages, TypeOK, Lost
  <2>1. CASE TruncateSchema
    BY <2>1 DEF TruncateSchema
  <2>2. CASE SaveSchema
    <3>1. op.row.key \in Nat
      BY DEF Row
    <3> QED
      BY <2>2, <3>1 DEF SaveSchema, NextNumber
  <2>3. CASE SaveFails
    BY <2>3 DEF SaveFails, CutShort
  <2> QED
    BY <2>1, <2>2, <2>3
<1>4. CASE Working
  <2>1. /\ files' = files /\ schema' = schema /\ op.stage \in RowStages \ {"save", "saving"}
        /\ op'.stage \in {"idle", "index", "zero"} /\ lapses' \in {lapses, lapses \cup {"commit"}}
    BY <1>4 DEF Working, AppendRow, AppendUnkeyed, AppendFails, IndexRow, IndexFails, Unindex,
       UnindexFails, UnindexIgnored, WriteRow, WriteRowFails, Idle, Statement, RowStages, TypeOK
  <2> QED
    BY <2>1 DEF FilesSound, AllFiles, RowStages
<1>5. CASE Crash
  BY <1>5 DEF Crash, CutShort, Idle, Statement, FilesSound, AllFiles, RowStages, TypeOK, Stages,
     CreateStages
<1>6. CASE UNCHANGED vars
  BY <1>6 DEF vars, FilesSound
<1> QED
  BY <1>1, <1>2, <1>3, <1>4, <1>5, <1>6 DEF Next, Creating, Working

(* What has gone wrong is not forgotten.                                   *)
LEMMA LapsesStay == [Next]_vars => lapses \subseteq lapses'
BY DEF Next, Create, ClearSchema, NewSchema, NewIndexFile, IndexFileRefused,
       NewHeader, NewHeaderFails, NewData, CreateFails, CutShort, Insert, InsertNumbered,
       InsertUnkeyed, TruncateSchema, SaveSchema, SaveFails, AppendRow, AppendUnkeyed,
       AppendFails, IndexRow, IndexFails, Delete, Update, Unindex, UnindexFails,
       UnindexIgnored, WriteRow, WriteRowFails, Crash, vars

(* A step of a statement keeps the invariant.                              *)
LEMMA IndStep == TypeOK /\ IndInv /\ [Next]_vars => IndInv'
<1> SUFFICES ASSUME TypeOK, IndInv, [Next]_vars, "commit" \notin lapses'
             PROVE  PointersSound' /\ StatementSound'
  BY FilesStep DEF IndInv
<1>0. PointersSound /\ StatementSound /\ FilesSound /\ "commit" \notin lapses
  <2>1. lapses \subseteq lapses'
    BY LapsesStay
  <2> QED
    BY <2>1 DEF IndInv
<1>t. /\ rows \in Seq(Row) /\ index \subseteq Nat \X Nat
      /\ op \in [stage : Stages, entry : Nat \X Nat, row : Row]
  BY DEF TypeOK
<1>1. CASE \E k \in Explicit, d \in Payloads : Insert(k, d)
  BY <1>0, <1>1, RowsAssumption
  DEF Insert, Statement, PointersSound, StatementSound, Blank
<1>2. CASE \E d \in Payloads : InsertNumbered(d)
  BY <1>0, <1>2, RowsAssumption
  DEF InsertNumbered, Statement, PointersSound, StatementSound, Blank
<1>3. CASE TruncateSchema
  BY <1>0, <1>3, <1>t DEF TruncateSchema, PointersSound, StatementSound
<1>4. CASE SaveSchema
  BY <1>0, <1>4, <1>t DEF SaveSchema, PointersSound, StatementSound
<1>5. CASE SaveFails
  BY <1>0, <1>5, <1>t DEF SaveFails, PointersSound, StatementSound
<1>6. CASE AppendRow
  <2>1. /\ Len(rows) \in Nat /\ DOMAIN rows = 1..Len(rows)
        /\ DOMAIN rows' = 1..(Len(rows) + 1)
        /\ \A i \in DOMAIN rows : rows'[i] = rows[i]
        /\ rows'[Len(rows) + 1] = op.row
    BY <1>6, <1>t, LenProperties, AppendProperties DEF AppendRow
  <2>2. PointersSound'
    BY <1>0, <1>6, <2>1 DEF AppendRow, PointersSound
  <2>3. /\ op'.stage = "index" /\ op'.entry = <<Key32(op.row.key), Len(rows) + 1>>
        /\ op.row # Blank
    BY <1>0, <1>6 DEF AppendRow, EndOfFile, Statement, StatementSound
  <2>4. \A e \in index' : e[2] # Len(rows) + 1
    BY <1>0, <1>6, <2>1 DEF AppendRow, PointersSound
  <2> QED
    BY <2>1, <2>2, <2>3, <2>4 DEF StatementSound
<1>7. CASE AppendFails
  BY <1>0, <1>7 DEF AppendFails, Idle, Statement, PointersSound, StatementSound
<1>8. CASE IndexRow
  BY <1>0, <1>8, <1>t DEF IndexRow, Idle, Statement, PointersSound, StatementSound
<1>9. CASE IndexFails
  BY <1>0, <1>9 DEF IndexFails, Idle, Statement, PointersSound, StatementSound
<1>10. CASE \E k \in Explicit \cup 1..MaxNumber : Delete(k)
  BY <1>0, <1>10 DEF Delete, Found, Statement, PointersSound, StatementSound
<1>11. CASE \E k \in Explicit \cup 1..MaxNumber : \E d \in Payloads : Update(k, d)
  <2>1. PICK k \in Explicit \cup 1..MaxNumber, d \in Payloads : Update(k, d)
    BY <1>11
  <2>2. PICK e \in index :
          e[2] \in DOMAIN rows /\ op' = Statement("rewrite", e, [rows[e[2]] EXCEPT !.data = d])
    BY <2>1 DEF Update, Found
  <2>3. rows[e[2]] \in Row
    BY <2>2, <1>t, LenProperties, ElementOfSeq
  <2>4. /\ [rows[e[2]] EXCEPT !.data = d] # Blank
        /\ [rows[e[2]] EXCEPT !.data = d].key = rows[e[2]].key
    BY <2>3, RowsAssumption DEF Row, Blank
  <2> QED
    BY <1>0, <2>1, <2>2, <2>4 DEF Update, Statement, PointersSound, StatementSound
<1>12. CASE Unindex
  BY <1>0, <1>12, <1>t DEF Unindex, Without, PointersSound, StatementSound
<1>13. CASE UnindexFails
  BY <1>0, <1>13 DEF UnindexFails, Idle, Statement, PointersSound, StatementSound
<1>14. CASE UnindexIgnored
  BY <1>14 DEF UnindexIgnored
<1>15. CASE WriteRow
  <2>1. /\ DOMAIN rows' = DOMAIN rows
        /\ \A j \in DOMAIN rows : rows'[j] = IF j = op.entry[2] THEN op.row ELSE rows[j]
    BY <1>15, <1>t, SlotWrite DEF WriteRow
  <2>2. CASE op.stage = "zero"
    BY <1>0, <1>15, <2>1, <2>2 DEF WriteRow, Idle, Statement, PointersSound, StatementSound
  <2>3. CASE op.stage = "rewrite"
    BY <1>0, <1>15, <2>1, <2>3 DEF WriteRow, Idle, Statement, PointersSound, StatementSound
  <2> QED
    BY <1>15, <2>2, <2>3 DEF WriteRow
<1>16. CASE WriteRowFails
  BY <1>0, <1>16 DEF WriteRowFails, Idle, Statement, PointersSound, StatementSound
<1>17. CASE Crash
  BY <1>0, <1>17 DEF Crash, Idle, Statement, PointersSound, StatementSound
<1>18. CASE UNCHANGED vars
  BY <1>0, <1>18 DEF vars, PointersSound, StatementSound
<1>19. CASE \E d \in Payloads : InsertUnkeyed(d)
  BY <1>0, <1>19, RowsAssumption
  DEF InsertUnkeyed, Statement, PointersSound, StatementSound, Blank
<1>20. CASE AppendUnkeyed
  <2>1. /\ Len(rows) \in Nat /\ DOMAIN rows = 1..Len(rows)
        /\ DOMAIN rows' = 1..(Len(rows) + 1)
        /\ \A i \in DOMAIN rows : rows'[i] = rows[i]
    BY <1>20, <1>t, LenProperties, AppendProperties DEF AppendUnkeyed
  <2> QED
    BY <1>0, <1>20, <2>1 DEF AppendUnkeyed, Idle, Statement, PointersSound, StatementSound
<1>21. CASE Creating
  <2>1. StatementSound'
    BY <1>21, <1>t DEF Creating, Create, ClearSchema, NewSchema, NewIndexFile,
       IndexFileRefused, NewHeader, NewHeaderFails, NewData, CreateFails, Idle, Statement,
       StatementSound
  <2>2. PointersSound'
    <3>1. index' = {} \/ (index' = index /\ (rows' = rows \/ index = {}))
      BY <1>0, <1>21 DEF Creating, Create, ClearSchema, NewSchema, NewIndexFile,
         IndexFileRefused, NewHeader, NewHeaderFails, NewData, CreateFails, FilesSound
    <3> QED
      BY <1>0, <3>1 DEF PointersSound
  <2> QED
    BY <2>1, <2>2
<1> QED
  BY <1>1, <1>2, <1>3, <1>4, <1>5, <1>6, <1>7, <1>8, <1>9, <1>10, <1>11, <1>12, <1>13,
     <1>14, <1>15, <1>16, <1>17, <1>18, <1>19, <1>20, <1>21
  DEF Next, Creating

(* The invariant of a table holds in every behaviour, whatever fails.      *)
THEOREM Invariant == Spec => [](TypeOK /\ IndInv)
<1>1. Init => IndInv
  BY DEF Init, IndInv, FilesSound, PointersSound, StatementSound, Idle, Statement, Lost,
         RowStages
<1>2. IndInv /\ TypeOK /\ [Next]_vars => IndInv'
  BY IndStep
<1> QED
  BY <1>1, <1>2, TypeCorrect, PTL DEF Spec

(* The pairs of the index always lead to live rows with their keys, for    *)
(* every client, every crash and every failure but an unnoticed one.       *)
THEOREM IndexAlwaysSound == Spec => []IndexSound
<1>1. IndInv => IndexSound
  BY DEF IndInv, IndexSound
<1> QED
  BY <1>1, Invariant, PTL

(* A table that is there can be opened, whatever crashes and fails, unless *)
(* a statement that was writing its files has been cut short.              *)
THEOREM TablesOpen == Spec => []OpensUnlessCut
<1>1. IndInv => OpensUnlessCut
  BY DEF IndInv, FilesSound, OpensUnlessCut, Ready, Idle, Statement
<1> QED
  BY <1>1, Invariant, PTL

-----------------------------------------------------------------------------
(* What a step does to the slots of the data file.                         *)
LEMMA SlotStep ==
  ASSUME TypeOK, IndInv, [Next]_vars, NEW i \in DOMAIN rows
  PROVE  /\ i \in DOMAIN rows'
         /\ "commit" \notin lapses =>
              rows'[i] = Blank \/ (rows[i] # Blank /\ rows'[i].key = rows[i].key)
<1>1. CASE AppendRow \/ AppendUnkeyed
  <2>1. rows \in Seq(Row) /\ op.row \in Row /\ rows' = Append(rows, op.row)
    BY <1>1 DEF AppendRow, AppendUnkeyed, TypeOK
  <2>2. i \in 1..Len(rows) /\ i \in DOMAIN rows' /\ rows'[i] = rows[i]
    BY <2>1, LenProperties, AppendProperties
  <2> QED
    BY <2>2
<1>2. CASE WriteRow
  <2>1. /\ DOMAIN rows' = DOMAIN rows
        /\ \A j \in DOMAIN rows : rows'[j] = IF j = op.entry[2] THEN op.row ELSE rows[j]
    BY <1>2, SlotWrite DEF WriteRow, TypeOK
  <2>2. SUFFICES ASSUME "commit" \notin lapses, i = op.entry[2]
                 PROVE  op.row = Blank \/ (rows[i] # Blank /\ op.row.key = rows[i].key)
    BY <2>1
  <2>3. PointersSound /\ StatementSound
    BY <2>2 DEF IndInv
  <2> QED
    BY <1>2, <2>2, <2>3 DEF WriteRow, PointersSound, StatementSound
<1>3. CASE NewData
  BY <1>3 DEF NewData, IndInv, FilesSound
<1>4. CASE ~AppendRow /\ ~AppendUnkeyed /\ ~WriteRow /\ ~NewData
  <2>1. rows' = rows
    BY <1>4 DEF Next, Create, ClearSchema, NewSchema, NewIndexFile, IndexFileRefused,
         NewHeader, NewHeaderFails, CreateFails, Insert, InsertNumbered, InsertUnkeyed,
         TruncateSchema, SaveSchema, SaveFails,
         AppendFails, IndexRow, IndexFails, Delete, Update, Unindex, UnindexFails,
         UnindexIgnored, WriteRowFails, Crash, vars
  <2> QED
    BY <2>1
<1> QED
  BY <1>1, <1>2, <1>3, <1>4

(* No statement moves a row, changes its key or writes to a deleted one.   *)
THEOREM RowsStay == Spec => TombstonesStay
<1>1. TypeOK /\ IndInv /\ [Next]_vars =>
        [\A i \in DOMAIN rows :
           /\ i \in DOMAIN rows'
           /\ "commit" \notin lapses =>
                rows'[i] = Blank \/ (rows[i] # Blank /\ rows'[i].key = rows[i].key)]_vars
  BY SlotStep
<1> QED
  BY <1>1, Invariant, PTL DEF Spec, TombstonesStay

-----------------------------------------------------------------------------
\* A row that may have got its key automatically.
Automatic(row) == row.key \notin Explicit \cup {0}

\* The numbers in the data file are below a number about to be used.
Above(k) == \A i \in DOMAIN rows : Automatic(rows[i]) => rows[i].key < k

\* The saved number is above all numbers in use, a number taken but not yet
\* saved is too, and one saved but not yet written is in no row.
NumberInv ==
  lapses \cap {"save", "created"} = {} =>
    /\ NumbersUsedOnce
    /\ schema # Lost => Above(schema)
    /\ op.stage \in {"save", "saving"} => Above(op.row.key)
    /\ op.stage = "append" /\ Automatic(op.row) =>
         /\ \A i \in DOMAIN rows : rows[i].key # op.row.key
         /\ schema # Lost => op.row.key < schema

\* The slot that a statement writes last holds its key already; a row written
\* before its key is looked at has none.
KeyKept ==
  /\ op.stage \in {"zero", "stray"} => op.row.key = 0
  /\ op.stage = "unindex" => op.row.key = 0
  /\ op.stage = "rewrite" /\ op.entry[2] \in DOMAIN rows =>
       op.row.key = rows[op.entry[2]].key

(* CREATE_TABLE stays in its stages until it ends.                         *)
LEMMA CreateStep == TypeOK /\ Creating => op'.stage \in CreateStages \/ op' = Idle
BY DEF TypeOK, Creating, Create, ClearSchema, NewSchema, NewIndexFile, IndexFileRefused,
       NewHeader, NewHeaderFails, NewData, CreateFails, Statement, CreateStages

(* A step of a statement keeps the slot's key with the statement.          *)
LEMMA KeyStep == TypeOK /\ KeyKept /\ [Next]_vars => KeyKept'
<1> SUFFICES ASSUME TypeOK, KeyKept, [Next]_vars PROVE KeyKept'
  OBVIOUS
<1>t. /\ rows \in Seq(Row) /\ index \subseteq Nat \X Nat
      /\ op \in [stage : Stages, entry : Nat \X Nat, row : Row]
  BY DEF TypeOK
<1>1. CASE \E k \in Explicit, d \in Payloads : Insert(k, d)
  BY <1>1 DEF Insert, Statement, KeyKept
<1>2. CASE \E d \in Payloads : InsertNumbered(d)
  BY <1>2 DEF InsertNumbered, Statement, KeyKept
<1>3. CASE TruncateSchema \/ SaveSchema \/ SaveFails
  BY <1>3, <1>t DEF TruncateSchema, SaveSchema, SaveFails, KeyKept
<1>4. CASE AppendRow
  BY <1>4 DEF AppendRow, Statement, KeyKept
<1>5. CASE \E k \in Explicit \cup 1..MaxNumber : Delete(k)
  BY <1>5 DEF Delete, Statement, Blank, KeyKept
<1>6. CASE \E k \in Explicit \cup 1..MaxNumber : \E d \in Payloads : Update(k, d)
  <2>1. PICK k \in Explicit \cup 1..MaxNumber, d \in Payloads : Update(k, d)
    BY <1>6
  <2>2. PICK e \in index :
          e[2] \in DOMAIN rows /\ op' = Statement("rewrite", e, [rows[e[2]] EXCEPT !.data = d])
    BY <2>1 DEF Update, Found
  <2>3. rows[e[2]] \in Row
    BY <2>2, <1>t, LenProperties, ElementOfSeq
  <2>4. [rows[e[2]] EXCEPT !.data = d].key = rows[e[2]].key
    BY <2>3 DEF Row
  <2> QED
    BY <2>1, <2>2, <2>4 DEF Update, Statement, KeyKept
<1>7. CASE Unindex \/ UnindexIgnored
  BY <1>7, <1>t DEF Unindex, UnindexIgnored, KeyKept
<1>8. CASE op' = Idle
  BY <1>8 DEF Idle, Statement, KeyKept
<1>9. CASE \E d \in Payloads : InsertUnkeyed(d)
  BY <1>9 DEF InsertUnkeyed, Statement, KeyKept
<1>10. CASE op'.stage \in CreateStages
  BY <1>10 DEF CreateStages, KeyKept
<1>11. CASE UNCHANGED vars
  BY <1>11 DEF vars, KeyKept
<1> QED
  BY <1>1, <1>2, <1>3, <1>4, <1>5, <1>6, <1>7, <1>8, <1>9,
     <1>10, <1>11, CreateStep
  DEF Next, Creating, AppendUnkeyed, AppendFails, IndexRow, IndexFails, UnindexFails,
      WriteRow, WriteRowFails, Crash

(* Rows only change in what is not their key, or to zeros.                 *)
LEMMA WrittenKeys ==
  ASSUME TypeOK, KeyKept, WriteRow
  PROVE  /\ DOMAIN rows' = DOMAIN rows
         /\ \A i \in DOMAIN rows : rows'[i].key \in {0, rows[i].key}
<1>1. /\ DOMAIN rows' = DOMAIN rows
      /\ \A j \in DOMAIN rows : rows'[j] = IF j = op.entry[2] THEN op.row ELSE rows[j]
  BY SlotWrite DEF WriteRow, TypeOK
<1> QED
  BY <1>1 DEF WriteRow, KeyKept

(* A step of a statement keeps the numbers apart.                          *)
LEMMA NumberStep == TypeOK /\ FilesSound /\ KeyKept /\ NumberInv /\ [Next]_vars => NumberInv'
<1> SUFFICES ASSUME TypeOK, FilesSound, KeyKept, NumberInv, [Next]_vars,
                    lapses' \cap {"save", "created"} = {}
             PROVE  /\ NumbersUsedOnce'
                    /\ (schema # Lost => Above(schema))'
                    /\ (op.stage \in {"save", "saving"} => Above(op.row.key))'
                    /\ (op.stage = "append" /\ Automatic(op.row) =>
                          /\ \A i \in DOMAIN rows : rows[i].key # op.row.key
                          /\ schema # Lost => op.row.key < schema)'
  BY DEF NumberInv
<1>0. /\ NumbersUsedOnce /\ lapses \cap {"save", "created"} = {}
      /\ schema # Lost => Above(schema)
      /\ op.stage \in {"save", "saving"} => Above(op.row.key)
      /\ op.stage = "append" /\ Automatic(op.row) =>
            /\ \A i \in DOMAIN rows : rows[i].key # op.row.key
            /\ schema # Lost => op.row.key < schema
  <2>1. lapses \subseteq lapses'
    BY LapsesStay
  <2> QED
    BY <2>1 DEF NumberInv
<1>t. /\ rows \in Seq(Row) /\ schema \in Nat
      /\ op \in [stage : Stages, entry : Nat \X Nat, row : Row]
      /\ op.row.key \in Nat
      /\ Len(rows) \in Nat /\ DOMAIN rows = 1..Len(rows)
      /\ \A i \in DOMAIN rows : rows[i].key \in Nat
  <2>1. /\ rows \in Seq(Row) /\ schema \in Nat
        /\ op \in [stage : Stages, entry : Nat \X Nat, row : Row]
    BY DEF TypeOK
  <2>2. Len(rows) \in Nat /\ DOMAIN rows = 1..Len(rows)
    BY <2>1, LenProperties
  <2>3. \A i \in DOMAIN rows : rows[i] \in Row
    BY <2>1, <2>2, ElementOfSeq
  <2> QED
    BY <2>1, <2>2, <2>3 DEF Row
<1>1. CASE \E k \in Explicit, d \in Payloads : Insert(k, d)
  BY <1>0, <1>1 DEF Insert, Statement, NumbersUsedOnce, Above, Automatic
<1>2. CASE \E d \in Payloads : InsertNumbered(d)
  BY <1>0, <1>2 DEF InsertNumbered, Ready, Statement, NumbersUsedOnce, Above, Automatic
<1>3. CASE TruncateSchema
  BY <1>0, <1>3, <1>t DEF TruncateSchema, NumbersUsedOnce, Above, Automatic
<1>4. CASE SaveSchema
  <2>1. /\ schema' = op.row.key + 1 /\ rows' = rows
        /\ op'.stage = "append" /\ op'.row = op.row
        /\ Above(op.row.key)
    BY <1>0, <1>4, <1>t DEF SaveSchema, NextNumber
  <2> QED
    BY <1>0, <1>t, <2>1, SMTT(30) DEF NumbersUsedOnce, Above, Automatic
<1>5. CASE SaveFails
  BY <1>5 DEF SaveFails
<1>6. CASE AppendRow
  <2>1. /\ DOMAIN rows' = 1..(Len(rows) + 1)
        /\ \A i \in DOMAIN rows : rows'[i] = rows[i]
        /\ rows'[Len(rows) + 1] = op.row
        /\ schema' = schema /\ op.stage = "append" /\ op'.stage = "index"
    BY <1>6, <1>t, LenProperties, AppendProperties DEF AppendRow, Statement
  <2>2. ASSUME NEW i \in DOMAIN rows', NEW j \in DOMAIN rows',
               rows'[i].key = rows'[j].key, rows'[i].key \notin Explicit \cup {0}
        PROVE  i = j
    <3>1. CASE i \in DOMAIN rows /\ j \in DOMAIN rows
      BY <1>0, <2>1, <2>2, <3>1 DEF NumbersUsedOnce
    <3>2. CASE i = Len(rows) + 1 /\ j \in DOMAIN rows
      BY <1>0, <2>1, <2>2, <3>2 DEF Automatic
    <3>3. CASE i \in DOMAIN rows /\ j = Len(rows) + 1
      BY <1>0, <2>1, <2>2, <3>3 DEF Automatic
    <3> QED
      BY <1>t, <2>1, <2>2, <3>1, <3>2, <3>3
  <2>3. (schema # Lost => Above(schema))'
    BY <1>0, <1>t, <2>1 DEF Above, Automatic
  <2> QED
    BY <2>1, <2>2, <2>3 DEF NumbersUsedOnce
<1>7. CASE WriteRow
  <2>1. /\ DOMAIN rows' = DOMAIN rows /\ schema' = schema /\ op'.stage = "idle"
        /\ \A i \in DOMAIN rows : rows'[i].key \in {0, rows[i].key}
    BY <1>7, WrittenKeys DEF WriteRow, Idle, Statement
  <2> QED
    BY <1>0, <1>t, <2>1 DEF NumbersUsedOnce, Above, Automatic
<1>8. CASE /\ rows' = rows /\ schema' = schema
           /\ op'.stage \in Stages \ {"save", "saving", "append"}
  BY <1>0, <1>8 DEF NumbersUsedOnce, Above, Automatic
<1>9. CASE AppendUnkeyed
  <2>1. /\ DOMAIN rows' = 1..(Len(rows) + 1)
        /\ \A i \in DOMAIN rows : rows'[i] = rows[i]
        /\ rows'[Len(rows) + 1] = op.row /\ op.row.key = 0
        /\ schema' = schema /\ op'.stage = "idle"
    BY <1>9, <1>t, LenProperties, AppendProperties DEF AppendUnkeyed, KeyKept, Idle, Statement
  <2>2. NumbersUsedOnce'
    <3>1. \A i, j \in DOMAIN rows :
            rows[i].key = rows[j].key /\ rows[i].key \notin Explicit \cup {0} => i = j
      BY <1>0 DEF NumbersUsedOnce
    <3>2. \A i \in DOMAIN rows' : i \in DOMAIN rows \/ rows'[i].key = 0
      BY <1>t, <2>1
    <3> QED
      BY <2>1, <3>1, <3>2 DEF NumbersUsedOnce
  <2>3. (schema # Lost => Above(schema))'
    BY <1>0, <1>t, <2>1, SMTT(30) DEF Above, Automatic
  <2> QED
    BY <2>1, <2>2, <2>3
<1>10. CASE Creating
  <2>1. op'.stage \notin {"save", "saving", "append"}
    BY <1>10, CreateStep DEF CreateStages, Idle, Statement
  <2>2. \/ rows' = rows /\ schema' \in {schema, Lost}
        \/ rows' = <<>>
    <3>1. CASE NewSchema
      <4>1. "index" \notin files
        BY <3>1 DEF NewSchema
      <4>2. rows = <<>>
        BY <4>1 DEF FilesSound, AllFiles
      <4> QED
        BY <3>1, <4>2 DEF NewSchema
    <3>2. CASE ~NewSchema
      BY <1>10, <3>2 DEF Creating, Create, ClearSchema, NewIndexFile, IndexFileRefused,
         NewHeader, NewHeaderFails, NewData, CreateFails
    <3> QED
      BY <3>1, <3>2
  <2> QED
    BY <1>0, <2>1, <2>2 DEF NumbersUsedOnce, Above, Automatic
<1>11. CASE \E d \in Payloads : InsertUnkeyed(d)
  BY <1>0, <1>11 DEF InsertUnkeyed, Statement, NumbersUsedOnce, Above, Automatic
<1>12. CASE UNCHANGED vars
  BY <1>0, <1>12 DEF vars, NumbersUsedOnce, Above, Automatic
<1>13. ASSUME ~(\E k \in Explicit, d \in Payloads : Insert(k, d)),
              ~(\E d \in Payloads : InsertNumbered(d)),
              ~TruncateSchema, ~SaveSchema, ~SaveFails, ~AppendRow, ~WriteRow,
              ~AppendUnkeyed, ~Creating, ~(\E d \in Payloads : InsertUnkeyed(d)),
              ~UNCHANGED vars
       PROVE  /\ rows' = rows /\ schema' = schema
              /\ op'.stage \in Stages \ {"save", "saving", "append"}
  BY <1>13, <1>t DEF Next, AppendFails, IndexRow, IndexFails, Delete, Update, Unindex,
     UnindexFails, UnindexIgnored, WriteRowFails, Crash, Creating, Idle, Statement, Stages,
     RowStages
<1> QED
  BY <1>1, <1>2, <1>3, <1>4, <1>5, <1>6, <1>7, <1>8, <1>9, <1>10,
     <1>11, <1>12, <1>13

(* No two rows ever get the same automatic number, whatever crashes, until *)
(* a save of the schema fails or the table in use is created again.        *)
THEOREM NumbersNeverReused == Spec => []NumbersUsedOnce
<1>1. Init => KeyKept /\ NumberInv
  BY DEF Init, KeyKept, NumberInv, NumbersUsedOnce, Above, Idle, Statement
<1>2. NumberInv => NumbersUsedOnce
  BY DEF NumberInv, NumbersUsedOnce
<1>3. TypeOK /\ IndInv /\ KeyKept /\ NumberInv /\ [Next]_vars => KeyKept' /\ NumberInv'
  BY KeyStep, NumberStep DEF IndInv
<1> QED
  BY <1>1, <1>2, <1>3, Invariant, PTL DEF Spec

-----------------------------------------------------------------------------
(***************************************************************************)
(* A table implements KVIndex: what can be found through its index changes *)
(* by one insert, update or removal at one step of each statement.         *)
(***************************************************************************)

\* Nothing has gone wrong but a statement that was cut short.
Sound == lapses \subseteq {"cut"}

\* A row holds a payload unless it is zeroed, as does one about to be written.
DataInv ==
  /\ \A i \in DOMAIN rows : rows[i] = Blank \/ rows[i].data \in Payloads
  /\ op.stage \in {"save", "saving", "append", "stray", "rewrite"} => op.row.data \in Payloads
  /\ op.stage \in {"unindex", "zero"} => op.row = Blank

\* The index has one pair for a key, and none yet for the key of an insert.
OnePair ==
  Sound =>
    /\ \A e, f \in index : e[1] = f[1] => e = f
    /\ op.stage \in {"save", "saving", "append"} =>
         \A e \in index : e[1] # Key32(op.row.key)
    /\ op.stage = "index" => \A e \in index : e[1] # op.entry[1]

(* A row put at the end leaves the others where they are.                  *)
LEMMA RowAppended ==
  ASSUME TypeOK, AppendRow \/ AppendUnkeyed
  PROVE  /\ DOMAIN rows' = 1..(Len(rows) + 1)
         /\ DOMAIN rows = 1..Len(rows) /\ Len(rows) \in Nat
         /\ \A i \in DOMAIN rows : rows'[i] = rows[i]
         /\ rows'[Len(rows) + 1] = op.row
<1>1. rows \in Seq(Row) /\ op.row \in Row
  BY DEF TypeOK
<1>2. rows' = Append(rows, op.row)
  BY DEF AppendRow, AppendUnkeyed
<1> QED
  BY <1>1, <1>2, LenProperties, AppendProperties

(* A step keeps the payloads.                                              *)
LEMMA DataStep == TypeOK /\ DataInv /\ [Next]_vars => DataInv'
<1> SUFFICES ASSUME TypeOK, DataInv, [Next]_vars PROVE DataInv'
  OBVIOUS
<1>t. /\ rows \in Seq(Row) /\ index \subseteq Nat \X Nat
      /\ op \in [stage : Stages, entry : Nat \X Nat, row : Row]
  BY DEF TypeOK
<1>1. CASE \/ \E k \in Explicit, d \in Payloads : Insert(k, d)
           \/ \E d \in Payloads : InsertNumbered(d) \/ InsertUnkeyed(d)
           \/ \E k \in Explicit \cup 1..MaxNumber : Delete(k)
  BY <1>1 DEF Insert, InsertNumbered, InsertUnkeyed, Delete, Statement, DataInv
<1>2. CASE TruncateSchema \/ SaveSchema \/ SaveFails \/ Unindex \/ UnindexIgnored
  BY <1>2, <1>t DEF TruncateSchema, SaveSchema, SaveFails, Unindex, UnindexIgnored, DataInv
<1>3. CASE AppendRow \/ AppendUnkeyed
  <2>1. /\ Len(rows) \in Nat /\ DOMAIN rows = 1..Len(rows)
        /\ DOMAIN rows' = 1..(Len(rows) + 1)
        /\ \A i \in DOMAIN rows : rows'[i] = rows[i]
        /\ rows'[Len(rows) + 1] = op.row
    BY <1>3, RowAppended
  <2>2. op.row.data \in Payloads /\ op'.stage \in {"index", "idle"}
    BY <1>3 DEF AppendRow, AppendUnkeyed, Statement, Idle, DataInv
  <2> QED
    BY <2>1, <2>2 DEF DataInv
<1>4. CASE \E k \in Explicit \cup 1..MaxNumber : \E d \in Payloads : Update(k, d)
  <2>1. PICK k \in Explicit \cup 1..MaxNumber, d \in Payloads : Update(k, d)
    BY <1>4
  <2>2. PICK e \in index :
          e[2] \in DOMAIN rows /\ op' = Statement("rewrite", e, [rows[e[2]] EXCEPT !.data = d])
    BY <2>1 DEF Update, Found
  <2>3. rows[e[2]] \in Row
    BY <2>2, <1>t, LenProperties, ElementOfSeq
  <2>4. [rows[e[2]] EXCEPT !.data = d].data = d
    BY <2>3 DEF Row
  <2> QED
    BY <2>1, <2>2, <2>4 DEF Update, Statement, DataInv
<1>5. CASE WriteRow
  <2>1. /\ DOMAIN rows' = DOMAIN rows /\ op'.stage = "idle"
        /\ \A j \in DOMAIN rows : rows'[j] = IF j = op.entry[2] THEN op.row ELSE rows[j]
    BY <1>5, <1>t, SlotWrite DEF WriteRow, Idle, Statement
  <2> QED
    BY <1>5, <2>1 DEF WriteRow, DataInv
<1>6. CASE Creating
  <2>1. op'.stage \in CreateStages \/ op' = Idle
    BY <1>6, CreateStep
  <2>2. rows' = rows \/ rows' = <<>>
    BY <1>6 DEF Creating, Create, ClearSchema, NewSchema, NewIndexFile, IndexFileRefused,
       NewHeader, NewHeaderFails, NewData, CreateFails
  <2> QED
    BY <2>1, <2>2 DEF CreateStages, Idle, Statement, DataInv
<1>7. CASE AppendFails \/ IndexRow \/ IndexFails \/ UnindexFails \/ WriteRowFails \/ Crash
  BY <1>7 DEF AppendFails, IndexRow, IndexFails, UnindexFails, WriteRowFails, Crash, Idle,
     Statement, DataInv
<1>8. CASE UNCHANGED vars
  BY <1>8 DEF vars, DataInv
<1> QED
  BY <1>1, <1>2, <1>3, <1>4, <1>5, <1>6, <1>7, <1>8 DEF Next, Creating

(* The next number is the key of no pair of the index: the numbers given   *)
(* out are below it and the keys clients name are none of them.            *)
LEMMA NextNumberFree ==
  ASSUME MaxNumber < Width, \A k \in Explicit : Key32(k) \notin 1..MaxNumber,
         TypeOK, IndInv, NumberInv, Sound, schema # Lost, schema <= MaxNumber,
         NEW e \in index
  PROVE  e[1] # Key32(schema)
<1>1. PointersSound /\ Above(schema)
  BY DEF Sound, IndInv, NumberInv
<1>2. /\ e[2] \in DOMAIN rows /\ rows[e[2]] \in Row
      /\ Key32(rows[e[2]].key) = e[1] /\ rows[e[2]].key \in Nat
  <2>1. e[2] \in DOMAIN rows /\ Key32(rows[e[2]].key) = e[1]
    BY <1>1 DEF PointersSound
  <2>2. rows[e[2]] \in Row
    BY <2>1, LenProperties, ElementOfSeq DEF TypeOK
  <2> QED
    BY <2>1, <2>2 DEF Row
<1>3. schema \in 1..MaxNumber /\ Key32(schema) = schema
  BY WidthAssumption, LimitsAssumption DEF TypeOK, Lost, Key32
<1>4. CASE rows[e[2]].key \in Explicit
  BY <1>2, <1>3, <1>4
<1>5. CASE rows[e[2]].key = 0
  BY <1>2, <1>3, <1>5, WidthAssumption DEF Key32
<1>6. CASE Automatic(rows[e[2]])
  <2>1. rows[e[2]].key < schema /\ rows[e[2]].key < Width
    BY <1>1, <1>2, <1>3, <1>6, WidthAssumption, LimitsAssumption DEF Above
  <2>2. Key32(rows[e[2]].key) = rows[e[2]].key
    BY <1>2, <2>1, WidthAssumption DEF Key32
  <2> QED
    BY <1>2, <1>3, <2>1, <2>2
<1> QED
  BY <1>4, <1>5, <1>6 DEF Automatic

(* A step keeps one pair for a key, as long as clients name no key that is *)
(* in use or that is given out automatically.                              *)
LEMMA PairStep ==
  ASSUME Unique, MaxNumber < Width, \A k \in Explicit : Key32(k) \notin 1..MaxNumber
  PROVE  TypeOK /\ IndInv /\ NumberInv /\ OnePair /\ [Next]_vars => OnePair'
<1> SUFFICES ASSUME TypeOK, IndInv, NumberInv, OnePair, [Next]_vars, Sound'
             PROVE  /\ (\A e, f \in index : e[1] = f[1] => e = f)'
                    /\ (op.stage \in {"save", "saving", "append"} =>
                          \A e \in index : e[1] # Key32(op.row.key))'
                    /\ (op.stage = "index" => \A e \in index : e[1] # op.entry[1])'
  BY DEF OnePair
<1>0. /\ Sound
      /\ \A e, f \in index : e[1] = f[1] => e = f
      /\ op.stage \in {"save", "saving", "append"} =>
           \A e \in index : e[1] # Key32(op.row.key)
      /\ op.stage = "index" => \A e \in index : e[1] # op.entry[1]
  <2>1. Sound
    BY LapsesStay DEF Sound
  <2> QED
    BY <2>1 DEF OnePair
<1>t. op \in [stage : Stages, entry : Nat \X Nat, row : Row]
  BY DEF TypeOK
<1>1. CASE \E k \in Explicit, d \in Payloads : Insert(k, d)
  <2>1. PICK k \in Explicit, d \in Payloads : Insert(k, d)
    BY <1>1
  <2>2. /\ index' = index /\ op'.stage = "append" /\ op'.row.key = k
        /\ Found(k) = {}
    BY <2>1 DEF Insert, Statement
  <2> QED
    BY <1>0, <2>2 DEF Found
<1>2. CASE \E d \in Payloads : InsertNumbered(d)
  <2>1. /\ index' = index /\ op'.stage = "save" /\ op'.row.key = schema
        /\ schema # Lost /\ schema <= MaxNumber
    BY <1>2 DEF InsertNumbered, Ready, Statement
  <2>2. \A e \in index : e[1] # Key32(schema)
    BY <1>0, <2>1, NextNumberFree
  <2> QED
    BY <1>0, <2>1, <2>2
<1>3. CASE TruncateSchema \/ SaveSchema \/ SaveFails
  <2>1. /\ index' = index /\ op'.row = op.row /\ op.stage \in {"save", "saving"}
        /\ op'.stage \in {"saving", "append"}
    BY <1>3, <1>t DEF TruncateSchema, SaveSchema, SaveFails
  <2> QED
    BY <1>0, <2>1
<1>4. CASE AppendRow
  <2>1. /\ index' = index /\ op.stage = "append" /\ op'.stage = "index"
        /\ op'.entry[1] = Key32(op.row.key)
    BY <1>4 DEF AppendRow, Statement
  <2> QED
    BY <1>0, <2>1
<1>5. CASE IndexRow
  BY <1>0, <1>5, <1>t DEF IndexRow, Idle, Statement
<1>6. CASE /\ index' \subseteq index
           /\ op'.stage \notin {"save", "saving", "append", "index"}
  BY <1>0, <1>6
<1>7. CASE UNCHANGED vars
  BY <1>0, <1>7 DEF vars
<1>8. CASE Creating
  <2>1. op'.stage \in CreateStages \/ op' = Idle
    BY <1>8, CreateStep
  <2>2. index' = index \/ index' = {}
    BY <1>8 DEF Creating, Create, ClearSchema, NewSchema, NewIndexFile, IndexFileRefused,
       NewHeader, NewHeaderFails, NewData, CreateFails
  <2> QED
    BY <1>6, <2>1, <2>2 DEF CreateStages, Idle, Statement
<1>9. ASSUME \/ \E d \in Payloads : InsertUnkeyed(d)
             \/ \E k \in Explicit \cup 1..MaxNumber :
                  Delete(k) \/ \E d \in Payloads : Update(k, d)
             \/ AppendUnkeyed \/ AppendFails \/ IndexFails
             \/ Unindex \/ UnindexFails \/ UnindexIgnored \/ WriteRow \/ WriteRowFails
             \/ Crash
      PROVE  /\ index' \subseteq index
             /\ op'.stage \notin {"save", "saving", "append", "index"}
  BY <1>9, <1>t DEF InsertUnkeyed, Delete, Update, AppendUnkeyed, AppendFails, IndexFails,
     Unindex, Without, UnindexFails, UnindexIgnored, WriteRow, WriteRowFails, Crash, Idle,
     Statement
<1> QED
  BY <1>1, <1>2, <1>3, <1>4, <1>5, <1>6, <1>7, <1>8, <1>9 DEF Next, Creating

-----------------------------------------------------------------------------
\* The pair a row is found by.
PairOf(e) == <<e[1], rows[e[2]].data>>

(* What can be found is a set of entries of KVIndex.                       *)
LEMMA PairsAreEntries ==
  ASSUME TypeOK, PointersSound, DataInv, NEW e \in index
  PROVE  PairOf(e) \in (0..(Width - 1)) \X Payloads
<1>1. /\ e[2] \in DOMAIN rows /\ rows[e[2]] # Blank
      /\ Key32(rows[e[2]].key) = e[1]
  BY DEF PointersSound
<1>2. rows[e[2]] \in Row
  BY <1>1, LenProperties, ElementOfSeq DEF TypeOK
<1>3. e[1] \in 0..(Width - 1)
  BY <1>1, <1>2, WidthAssumption DEF Row, Key32
<1> QED
  BY <1>1, <1>3 DEF DataInv, PairOf

(* The end of an insert adds a pair under a key that has none.             *)
LEMMA InsertRefines ==
  ASSUME TypeOK, IndInv, DataInv, OnePair, Sound, IndexRow
  PROVE  Index!Next
<1>1. PointersSound /\ StatementSound
  BY DEF Sound, IndInv
<1> DEFINE x == PairOf(op.entry)
<1>2. /\ op.stage = "index" /\ index' = index \cup {op.entry} /\ rows' = rows
      /\ op.entry \in Nat \X Nat
  BY DEF IndexRow, TypeOK
<1>3. x \in (0..(Width - 1)) \X Payloads
  <2>1. /\ op.entry[2] \in DOMAIN rows /\ rows[op.entry[2]] # Blank
        /\ Key32(rows[op.entry[2]].key) = op.entry[1]
    BY <1>1, <1>2 DEF StatementSound
  <2>2. rows[op.entry[2]] \in Row
    BY <2>1, LenProperties, ElementOfSeq DEF TypeOK
  <2>3. op.entry[1] \in 0..(Width - 1)
    BY <2>1, <2>2, WidthAssumption DEF Row, Key32
  <2> QED
    BY <2>1, <2>3 DEF DataInv, PairOf
<1>4. \A y \in Contents : y[1] # x[1]
  BY <1>2 DEF OnePair, Contents, PairOf
<1>5. Contents' = Contents \cup {x}
  BY <1>2 DEF Contents, PairOf
<1> HIDE DEF x
<1>6. Index!Insert(x)
  BY <1>4, <1>5 DEF Index!Insert, Index!At
<1> QED
  BY <1>3, <1>6 DEF Index!Next

(* A removal takes away the pair of its key.                               *)
LEMMA RemoveRefines ==
  ASSUME TypeOK, IndInv, DataInv, OnePair, Sound, Unindex
  PROVE  Index!Next
<1>1. PointersSound /\ StatementSound
  BY DEF Sound, IndInv
<1>2. op.entry \in index /\ index' = index \ {op.entry} /\ rows' = rows
  BY <1>1 DEF Unindex, Without, StatementSound
<1> DEFINE k == op.entry[1]
<1>3. k \in Index!Keys
  <2>1. PairOf(op.entry) \in (0..(Width - 1)) \X Payloads
    BY <1>1, <1>2, PairsAreEntries
  <2> QED
    BY <2>1 DEF Index!Keys, PairOf
<1>4. \A e \in index : e = op.entry <=> e[1] = k
  BY <1>2 DEF OnePair
<1>5. Contents' = Contents \ {y \in Contents : y[1] = k}
  BY <1>2, <1>4 DEF Contents
<1> HIDE DEF k
<1>6. Index!Remove(k)
  BY <1>5 DEF Index!Remove, Index!At
<1> QED
  BY <1>3, <1>6 DEF Index!Next

(* The last write of an update replaces the pair of its key.               *)
LEMMA UpdateRefines ==
  ASSUME TypeOK, IndInv, DataInv, OnePair, Sound, WriteRow, op.stage = "rewrite"
  PROVE  Index!Next
<1>1. PointersSound /\ StatementSound
  BY DEF Sound, IndInv
<1> DEFINE x == <<op.entry[1], op.row.data>>
<1>2. /\ op.entry \in index /\ index' = index
      /\ op.entry[2] \in DOMAIN rows
  BY <1>1 DEF WriteRow, StatementSound, PointersSound
<1>3. \A i \in DOMAIN rows : rows'[i] = IF i = op.entry[2] THEN op.row ELSE rows[i]
  BY SlotWrite DEF WriteRow, TypeOK
<1>4. x \in (0..(Width - 1)) \X Payloads
  <2>1. PairOf(op.entry) \in (0..(Width - 1)) \X Payloads
    BY <1>1, <1>2, PairsAreEntries
  <2> QED
    BY <2>1 DEF PairOf, DataInv
<1>5. \A e \in index :
        /\ e = op.entry <=> e[1] = op.entry[1]
        /\ e = op.entry <=> e[2] = op.entry[2]
        /\ e[2] \in DOMAIN rows
  BY <1>1, <1>2 DEF OnePair, PointersSound
<1>6. \A e \in index :
        <<e[1], rows'[e[2]].data>> = IF e = op.entry THEN x ELSE <<e[1], rows[e[2]].data>>
  BY <1>3, <1>5
<1>7. Contents' = {<<e[1], rows'[e[2]].data>> : e \in index}
  BY <1>2 DEF Contents
<1>8. PairOf(op.entry) \in Contents
  BY <1>2 DEF Contents, PairOf
<1>9. \A y \in Contents : \E e \in index : y = <<e[1], rows[e[2]].data>>
  BY DEF Contents
<1>10. \A y : y \in Contents' <=> y = x \/ (y \in Contents /\ y[1] # op.entry[1])
  <2>1. ASSUME NEW y \in Contents' PROVE y = x \/ (y \in Contents /\ y[1] # op.entry[1])
    <3>1. PICK e \in index : y = <<e[1], rows'[e[2]].data>>
      BY <1>7
    <3> QED
      BY <1>5, <1>6, <3>1 DEF Contents
  <2>2. x \in Contents'
    BY <1>2, <1>6, <1>7
  <2>3. ASSUME NEW y \in Contents, y[1] # op.entry[1] PROVE y \in Contents'
    <3>1. PICK e \in index : y = <<e[1], rows[e[2]].data>>
      BY <1>9
    <3> QED
      BY <1>6, <1>7, <2>3, <3>1
  <2> QED
    BY <2>1, <2>2, <2>3
<1>11. x[1] = op.entry[1] /\ PairOf(op.entry)[1] = x[1]
  BY DEF PairOf
<1> HIDE DEF x
<1>12. Index!Update(x)
  <2>1. Index!At(x[1]) # {}
    BY <1>8, <1>11 DEF Index!At
  <2>2. Contents' = (Contents \ Index!At(x[1])) \cup {x}
    BY <1>10, <1>11 DEF Index!At
  <2> QED
    BY <2>1, <2>2 DEF Index!Update
<1> QED
  BY <1>4, <1>12 DEF Index!Next

(* No other step changes what can be found.                                *)
LEMMA OtherKeeps ==
  ASSUME TypeOK, IndInv, Sound, [Next]_vars, Sound',
         ~IndexRow, ~Unindex, ~(WriteRow /\ op.stage = "rewrite")
  PROVE  Contents' = Contents
<1>1. PointersSound /\ StatementSound /\ FilesSound
  BY DEF Sound, IndInv
<1>2. CASE AppendRow \/ AppendUnkeyed
  <2>1. \A i \in DOMAIN rows : rows'[i] = rows[i]
    BY <1>2, RowAppended
  <2>2. index' = index /\ \A e \in index : e[2] \in DOMAIN rows
    BY <1>1, <1>2 DEF AppendRow, AppendUnkeyed, PointersSound
  <2> QED
    BY <2>1, <2>2 DEF Contents
<1>3. CASE WriteRow
  <2>1. op.stage = "zero" /\ index' = index
    BY <1>3 DEF WriteRow
  <2>2. \A e \in index : e[2] # op.entry[2] /\ e[2] \in DOMAIN rows
    BY <1>1, <2>1 DEF StatementSound, PointersSound
  <2>3. \A i \in DOMAIN rows : rows'[i] = IF i = op.entry[2] THEN op.row ELSE rows[i]
    BY <1>3, SlotWrite DEF WriteRow, TypeOK
  <2> QED
    BY <2>1, <2>2, <2>3 DEF Contents
<1>4. CASE NewHeader \/ NewData
  <2>1. index = {} /\ index' = {}
    BY <1>1, <1>4 DEF NewHeader, NewData, FilesSound
  <2> QED
    BY <2>1 DEF Contents
<1>5. CASE ~AppendRow /\ ~AppendUnkeyed /\ ~WriteRow /\ ~NewHeader /\ ~NewData
  <2>1. rows' = rows /\ index' = index
    BY <1>5 DEF Next, Create, ClearSchema, NewSchema, NewIndexFile, IndexFileRefused,
         NewHeaderFails, CreateFails, Insert, InsertNumbered, InsertUnkeyed,
         TruncateSchema, SaveSchema, SaveFails, AppendFails, IndexFails, Delete, Update,
         UnindexFails, UnindexIgnored, WriteRowFails, Crash, vars
  <2> QED
    BY <2>1 DEF Contents
<1> QED
  BY <1>2, <1>3, <1>4, <1>5

(* Statements are atomic in what can be found through the index, whatever  *)
(* crashes and fails with notice, for clients who name no key that is in   *)
(* use or given out automatically, as long as no save and no commit has    *)
(* failed unnoticed and the table is not created again while in use.       *)
THEOREM TableIsIndex ==
  ASSUME Unique, MaxNumber < Width, \A k \in Explicit : Key32(k) \notin 1..MaxNumber
  PROVE  Spec /\ []Sound => ImplementsIndex
<1>1. Init => DataInv /\ OnePair /\ KeyKept /\ NumberInv /\ Index!Init
  BY DEF Init, DataInv, OnePair, KeyKept, NumberInv, NumbersUsedOnce, Above, Idle, Statement,
         Index!Init, Contents
<1>2. TypeOK /\ IndInv /\ KeyKept /\ NumberInv /\ [Next]_vars => KeyKept' /\ NumberInv'
  BY KeyStep, NumberStep DEF IndInv
<1>3. TypeOK /\ DataInv /\ [Next]_vars => DataInv'
  BY DataStep
<1>4. TypeOK /\ IndInv /\ NumberInv /\ OnePair /\ [Next]_vars => OnePair'
  BY PairStep
<1>5. /\ TypeOK /\ IndInv /\ DataInv /\ OnePair
      /\ Sound /\ Sound' /\ [Next]_vars
      => [Index!Next]_Contents
  BY InsertRefines, RemoveRefines, UpdateRefines, OtherKeeps
<1> QED
  BY <1>1, <1>2, <1>3, <1>4, <1>5, Invariant, PTL DEF Spec, ImplementsIndex, Index!Spec
=============================================================================
