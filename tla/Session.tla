------------------------------ MODULE Session -------------------------------
(***************************************************************************)
(* A session with the engine: queries that are parsed and executed one     *)
(* after the other on databases of tables, and what they answer.  Keys and *)
(* values are taken as they are written and read, and statements as wholes *)
(* that nothing interrupts; Table looks into them.                         *)
(***************************************************************************)
EXTENDS Parser, KeyCodec

CONSTANTS
  Queries,     \* the queries that are asked
  Statements,  \* statements as the README has them, some of which may be asked
  MaxRows      \* the rows that all data files have room for together (a bound)

\* What a query is made of.
Value == [int : Int] \cup [str : Seq(Byte)]
Token == [word : STRING] \cup Value
Item == [word : STRING] \cup [block : Seq(Seq(Token))]

\* Names, the values given to columns, and clauses.
Identifiers == STRING \ {NoName}
AreValues(values) ==
  /\ DOMAIN values \subseteq Identifiers /\ IsFiniteSet(DOMAIN values)
  /\ values \in [DOMAIN values -> Value]
Points == [kind : {"point"}, column : Identifiers, op : Identifiers, value : Value]
Ranges == [kind : {"range"}, column : Identifiers, op_low : Identifiers, val_low : Value,
           op_high : Identifiers, val_high : Value]

\* What the README has a form for.
IsStatement(c) ==
  \/ /\ c.do = "CREATE_DB"
     /\ c \in [do : {c.do}, db : Identifiers]
  \/ /\ c.do = "CREATE_TABLE"
     /\ c \in [do : {c.do}, table : Identifiers, db : Identifiers,
               index : Identifiers \cup {NoName},
               columns : Seq([type : {"INT", "STR"}, name : Identifiers])]
  \/ /\ c.do = "INSERT_ROW" /\ AreValues(c.values)
     /\ c \in [do : {c.do}, table : Identifiers, db : Identifiers, values : {c.values}]
  \/ /\ c.do = "SELECT" /\ IsFiniteSet(c.columns)
     /\ c \in [do : {c.do}, table : Identifiers, db : Identifiers, columns : SUBSET Identifiers,
               where : Points \cup Ranges \cup {Everything}]
  \/ /\ c.do = "DELETE_ROW"
     /\ c \in [do : {c.do}, table : Identifiers, db : Identifiers, where : Points]
  \/ /\ c.do = "UPDATE_ROW" /\ AreValues(c.set)
     /\ c \in [do : {c.do}, table : Identifiers, db : Identifiers, set : {c.set}, where : Points]

ASSUME StatementsAssumption == \A c \in Statements : IsStatement(c)
ASSUME RowsAssumption == MaxRows \in Nat
ASSUME QueriesAssumption == Queries \subseteq Seq(Item)

VARIABLES
  databases,  \* the directories
  tables,     \* the tables by database and name
  query,      \* the last query
  answer      \* what it said, and the rows it showed

vars == <<databases, tables, query, answer>>

Zero(type) == IF type = "INT" THEN Number(0) ELSE Literal(<<>>)
TypeOf(value) == IF "int" \in DOMAIN value THEN "INT" ELSE "STR"

Names(columns) == {c.name : c \in Range(columns)}
Type(columns, name) ==
  LET first == CHOOSE i \in DOMAIN columns :
        columns[i].name = name /\ \A j \in 1..(i - 1) : columns[j].name # name
  IN  columns[first].type

\* The type of the index column.
KeyType(t) == Type(t.columns, t.index)

\* The bytes of a string in its column: the first 255, filled up with zeros.
Column(s) == [i \in 1..MaxString |-> IF i \in DOMAIN s THEN s[i] ELSE 0]

\* A row as it is read after it was written: a value of the wrong type is left
\* out, a column without a value is zero, a string ends at its first zero.
Stored(columns, values) ==
  LET fits(n) == n \in DOMAIN values /\ TypeOf(values[n]) = Type(columns, n)
      read(v) == IF TypeOf(v) = "STR" THEN Literal(deserialized(Column(v.str))) ELSE v
  IN  [n \in Names(columns) |-> IF fits(n) THEN read(values[n]) ELSE Zero(Type(columns, n))]

Blank(columns) == [n \in Names(columns) |-> Zero(Type(columns, n))]

\* The key that a value is looked for with, and the one that it has in the index
\* when a later query has read the node again.
KeyOf(value) ==
  IF TypeOf(value) = "INT" THEN intKeyToString(Cast32(value.int)) ELSE keyToString(value.str)
InNode(value) ==
  IF TypeOf(value) = "INT" THEN KeyOf(value) ELSE deserialized(serialized(KeyOf(value)))

\* The entries for a value. A tree that has keys of the other type has none.
Found(t, value) ==
  IF TypeOf(value) = KeyType(t) THEN {e \in t.entries : e[1] = KeyOf(value)} ELSE {}

FirstByte(row, columns) ==
  LET value == row[columns[1].name]
  IN  IF TypeOf(value) = "INT" THEN value.int % Base
      ELSE IF value.str = <<>> THEN 0
      ELSE value.str[1]

\* Mutant: the upper end of a range is left out.
WithinHalfOpen(key, low, high) == ~Before(key, low) /\ Before(key, high)

Within(key, low, high) == ~Before(key, low) /\ ~Before(high, key)

\* The slots that a range search and a full scan take, in their order.
InRange(t, low, high) ==
  LET found == {e \in t.entries : Within(e[1], KeyOf(low), KeyOf(high))}
      sorted == CHOOSE s \in SetToSeqs(found) :
                  \A i, j \in DOMAIN s : i < j => Before(s[i][1], s[j][1])
  IN  IF TypeOf(low) = KeyType(t) THEN [i \in DOMAIN sorted |-> sorted[i][2]] ELSE <<>>
Scanned(t) ==
  SelectSeq([i \in DOMAIN t.rows |-> i], LAMBDA i : FirstByte(t.rows[i], t.columns) # 0)

\* What is printed of the rows in these slots.
Shown(t, slots, columns) ==
  LET names == IF columns = {"*"} THEN Names(t.columns) ELSE columns \cap Names(t.columns)
  IN  [i \in DOMAIN slots |-> [n \in names |-> t.rows[slots[i]][n]]]

\* Mutant: a row that is updated keeps nothing but what it is given.
UpdatedAlone(row, set) == [n \in DOMAIN row \cap DOMAIN set |-> set[n]]

Updated(row, set) == [n \in DOMAIN row |-> IF n \in DOMAIN set THEN set[n] ELSE row[n]]

-----------------------------------------------------------------------------
Here(cmd) == <<cmd.db, cmd.table>>
Opens(cmd) == Here(cmd) \in DOMAIN tables
Says(what) == answer' = [says |-> what, rows |-> <<>>]
Shows(rows) == answer' = [says |-> "rows", rows |-> rows]
RowsOfAll == FoldFunction(LAMBDA t, n : Len(t.rows) + n, 0, tables)

Reject(q, cmd) ==
  /\ cmd = Rejected
  /\ Says("error")
  /\ query' = q
  /\ UNCHANGED <<databases, tables>>

NotFound(q, cmd) ==
  /\ cmd.do \in {"INSERT_ROW", "SELECT", "DELETE_ROW", "UPDATE_ROW"}
  /\ ~Opens(cmd)
  /\ Says("error")
  /\ query' = q
  /\ UNCHANGED <<databases, tables>>

exec_create_db(q, cmd) ==
  /\ cmd.do = "CREATE_DB"
  /\ databases' = databases \cup {cmd.db}
  /\ Says(IF cmd.db \in databases THEN "failed" ELSE "done")
  /\ query' = q
  /\ UNCHANGED tables

IndexOf(cmd) == IF cmd.index = NoName THEN "row_num" ELSE cmd.index
ColumnsOf(cmd) ==
  IF cmd.index = NoName THEN <<[type |-> "INT", name |-> "row_num"]>> \o cmd.columns
                    ELSE cmd.columns

\* Mutant: a column to index is not looked for.
CreatesAnyIndex(cmd) == cmd.db \in databases

Creates(cmd) == cmd.db \in databases /\ IndexOf(cmd) \in Names(ColumnsOf(cmd))

\* keyed is a history: the slots of the rows that were given a key, without those
\* that have been deleted.
Empty(columns, index) ==
  [columns |-> columns, index |-> index, next |-> 1, rows |-> <<>>, entries |-> {},
   keyed |-> {}]

\* There is no such database, or no such column to index: the files that open()
\* needs are not made.
CreateFails(q, cmd) ==
  /\ cmd.do = "CREATE_TABLE"
  /\ ~Opens(cmd) /\ ~Creates(cmd)
  /\ Says(IF cmd.db \notin databases THEN "failed" ELSE "error")
  /\ query' = q
  /\ UNCHANGED <<databases, tables>>

exec_create_table(q, cmd) ==
  /\ cmd.do = "CREATE_TABLE"
  /\ ~Opens(cmd) /\ Creates(cmd)
  /\ tables' = [n \in DOMAIN tables \cup {Here(cmd)} |->
                   IF n = Here(cmd) THEN Empty(ColumnsOf(cmd), IndexOf(cmd)) ELSE tables[n]]
  /\ Says("done")
  /\ query' = q
  /\ UNCHANGED databases

\* A table that exists is refused after its schema has been written again; only
\* clients that give it the columns it has are followed.
Recreate(q, cmd) ==
  /\ cmd.do = "CREATE_TABLE"
  /\ Opens(cmd)
  /\ tables[Here(cmd)].columns = ColumnsOf(cmd) /\ tables[Here(cmd)].index = IndexOf(cmd)
  /\ tables' = [tables EXCEPT ![Here(cmd)].next = 1]
  /\ Says("failed")
  /\ query' = q
  /\ UNCHANGED databases

Numbered(values, t) ==
  [n \in DOMAIN values \cup {t.index} |-> IF n = t.index THEN Number(t.next) ELSE values[n]]

\* A row without a row_num is given the next one. The row is appended before its
\* key is looked at. Clients do not give a row a key that a row has.
exec_insert_row(q, cmd) ==
  /\ cmd.do = "INSERT_ROW"
  /\ Opens(cmd)
  /\ RowsOfAll < MaxRows
  /\ LET t == tables[Here(cmd)]
         numbered == t.index = "row_num" /\ t.index \notin DOMAIN cmd.values
         values == IF numbered THEN Numbered(cmd.values, t) ELSE cmd.values
         keyed == t.index \in DOMAIN values /\ TypeOf(values[t.index]) = KeyType(t)
         entry == <<InNode(values[t.index]), Len(t.rows) + 1>>
     IN  /\ keyed => \A e \in t.entries : e[1] # entry[1]
         /\ tables' = [tables EXCEPT
              ![Here(cmd)].next = IF numbered THEN @ + 1 ELSE @,
              ![Here(cmd)].rows = Append(@, Stored(t.columns, values)),
              ![Here(cmd)].entries = IF keyed THEN @ \cup {entry} ELSE @,
              ![Here(cmd)].keyed = IF keyed THEN @ \cup {entry[2]} ELSE @]
         /\ Says(IF keyed THEN "done" ELSE "error")
  /\ query' = q
  /\ UNCHANGED databases

\* Neither the column nor the operators of a clause are looked at.
exec_select(q, cmd) ==
  /\ cmd.do = "SELECT"
  /\ Opens(cmd)
  /\ LET t == tables[Here(cmd)]
         c == cmd.where
     IN  \/ /\ c.kind = "scan"
            /\ Shows(Shown(t, Scanned(t), cmd.columns))
         \/ /\ c.kind = "point"
            /\ Found(t, c.value) = {}
            /\ Shows(<<>>)
         \/ /\ c.kind = "point"
            /\ \E e \in Found(t, c.value) : Shows(Shown(t, <<e[2]>>, cmd.columns))
         \/ /\ c.kind = "range"
            /\ TypeOf(c.val_low) = TypeOf(c.val_high)
            /\ Shows(Shown(t, InRange(t, c.val_low, c.val_high), cmd.columns))
         \/ /\ c.kind = "range"
            /\ TypeOf(c.val_low) # TypeOf(c.val_high)
            /\ Says("error")
  /\ query' = q
  /\ UNCHANGED <<databases, tables>>

EntryRemoved(entries, e) == entries \ {e}

exec_delete_row(q, cmd) ==
  /\ cmd.do = "DELETE_ROW"
  /\ Opens(cmd)
  /\ \E e \in Found(tables[Here(cmd)], cmd.where.value) :
       /\ tables' = [tables EXCEPT
            ![Here(cmd)].entries = EntryRemoved(@, e),
            ![Here(cmd)].keyed = @ \ {e[2]},
            ![Here(cmd)].rows[e[2]] = Blank(tables[Here(cmd)].columns)]
       /\ Says("done")
  /\ query' = q
  /\ UNCHANGED databases

\* Mutant: a value for the index column is taken like any other.
AnyColumn(t, set) == TRUE

NotItsIndex(t, set) == t.index \notin DOMAIN set

exec_update_row(q, cmd) ==
  /\ cmd.do = "UPDATE_ROW"
  /\ Opens(cmd)
  /\ NotItsIndex(tables[Here(cmd)], cmd.set)
  /\ \E e \in Found(tables[Here(cmd)], cmd.where.value) :
       /\ tables' = [tables EXCEPT ![Here(cmd)].rows[e[2]] =
                       Stored(tables[Here(cmd)].columns, Updated(@, cmd.set))]
       /\ Says("done")
  /\ query' = q
  /\ UNCHANGED databases

MutationFails(q, cmd) ==
  /\ cmd.do \in {"DELETE_ROW", "UPDATE_ROW"}
  /\ Opens(cmd)
  /\ \/ Found(tables[Here(cmd)], cmd.where.value) = {}
     \/ cmd.do = "UPDATE_ROW" /\ ~NotItsIndex(tables[Here(cmd)], cmd.set)
  /\ Says("failed")
  /\ query' = q
  /\ UNCHANGED <<databases, tables>>

Init ==
  /\ databases = {} /\ tables = <<>>
  /\ query = <<>> /\ answer = [says |-> "nothing", rows |-> <<>>]

Command == [q \in Queries \cup {<<>>} |-> parse(q)]

Next ==
  \E q \in Queries :
    \/ Reject(q, Command[q])
    \/ NotFound(q, Command[q])
    \/ exec_create_db(q, Command[q])
    \/ CreateFails(q, Command[q])
    \/ exec_create_table(q, Command[q])
    \/ Recreate(q, Command[q])
    \/ exec_insert_row(q, Command[q])
    \/ exec_select(q, Command[q])
    \/ exec_delete_row(q, Command[q])
    \/ exec_update_row(q, Command[q])
    \/ MutationFails(q, Command[q])

Spec == Init /\ [][Next]_vars

-----------------------------------------------------------------------------
TypeOK ==
  /\ \A n \in DOMAIN tables :
       LET t == tables[n]
       IN  /\ n[1] \in databases
           /\ t.index \in Names(t.columns)
           /\ t.next \in Nat \ {0}
           /\ \A i \in DOMAIN t.rows : DOMAIN t.rows[i] = Names(t.columns)
           /\ \A e \in t.entries : e[1] \in Seq(Byte) /\ e[2] \in DOMAIN t.rows
           /\ t.keyed \subseteq DOMAIN t.rows
  /\ answer.says \in {"nothing", "done", "failed", "error", "rows"}
  /\ answer.rows # <<>> => answer.says = "rows"

(* The index and the data file stay together through any sequence of       *)
(* statements: the rows that were given a key and are not deleted, and     *)
(* they alone, have one entry, which is for the key they hold; a row that  *)
(* holds a key other than zero is one of them.                             *)
IndexMatchesRows ==
  \A n \in DOMAIN tables :
    LET t == tables[n]
        key(i) == t.rows[i][t.index]
    IN  /\ t.entries = {<<KeyOf(key(i)), i>> : i \in t.keyed}
        /\ \A i \in DOMAIN t.rows \ t.keyed : key(i) = Zero(KeyType(t))

\* Values that the index tells apart: 32 bits of an integer, and strings that
\* are neither cut nor ended early.
Apart(value) ==
  IF TypeOf(value) = "INT" THEN value.int \in Ints
  ELSE Len(value.str) < MaxString /\ \A i \in DOMAIN value.str : value.str[i] # 0
KeysApart(t) == \A i \in t.keyed : Apart(t.rows[i][t.index])

\* The last query was answered with whole rows of a table whose keys are told
\* apart, chosen by a clause of this kind.
Answered(kind) ==
  LET cmd == Command[query]
  IN  /\ cmd.do = "SELECT" /\ cmd.where.kind = kind /\ cmd.columns = {"*"}
      /\ answer.says = "rows"
      /\ KeysApart(tables[Here(cmd)])

(* A row that is asked for by its key is the answer, whatever has been     *)
(* done to the table before, and a key that no row has is answered with    *)
(* nothing.  Zero and the empty string are keys like others.               *)
PointExact ==
  Answered("point") =>
    LET cmd == Command[query]
        t == tables[Here(cmd)]
        has == {t.rows[i] : i \in {j \in t.keyed : t.rows[j][t.index] = cmd.where.value}}
    IN  Apart(cmd.where.value) => Range(answer.rows) = has

\* The rows whose keys are in a range of integers as its operators have it, and
\* those that are in it or are its ends.
Meets(k, op, end) ==
  CASE op = ">" -> k > end [] op = ">=" -> k >= end [] op = "<" -> k < end [] op = "<=" -> k <= end
RowsAsked(t, c) ==
  {t.rows[i] : i \in {j \in t.keyed :
     LET k == t.rows[j][t.index].int
     IN  Meets(k, c.op_low, c.val_low.int) /\ Meets(k, c.op_high, c.val_high.int)}}
RowsClosed(t, c) == RowsAsked(t, [c EXCEPT !.op_low = ">=", !.op_high = "<="])

\* The last query was answered with the rows of a range of integers, written in
\* the order that the README has it: from a lower end to a higher one.
AnsweredRange ==
  LET cmd == Command[query]
      c == cmd.where
  IN  /\ Answered("range") /\ KeyType(tables[Here(cmd)]) = "INT"
      /\ TypeOf(c.val_low) = "INT" /\ Apart(c.val_low) /\ Apart(c.val_high)
      /\ c.op_low \in {">", ">="} /\ c.op_high \in {"<", "<="}

(* A range of integers is answered in the order of the keys, negative ones *)
(* first, with every row that was asked for, and none but those and the    *)
(* rows at the ends, which the code takes whatever the operators are.      *)
RangeExact ==
  AnsweredRange =>
    LET cmd == Command[query]
        t == tables[Here(cmd)]
        key(i) == answer.rows[i][t.index].int
    IN  /\ RowsAsked(t, cmd.where) \subseteq Range(answer.rows)
        /\ Range(answer.rows) \subseteq RowsClosed(t, cmd.where)
        /\ \A i, j \in DOMAIN answer.rows : i < j => key(i) <= key(j)

(* A range is answered with the rows that were asked for, and no others:   *)
(* {id > 5 AND id < 20}, as README.md has it, not with 5 and 20.           *)
RangeAsAsked ==
  AnsweredRange =>
    LET cmd == Command[query]
    IN  Range(answer.rows) = RowsAsked(tables[Here(cmd)], cmd.where)

(* A key that is read again from the node it was written to is the one     *)
(* that its row is looked for with: an integer is told from the row by 32  *)
(* bits at most, and a string that was read from a row has its room in a   *)
(* node.                                                                   *)
KeysComeBack ==
  \A n \in DOMAIN tables :
    LET t == tables[n]
        key(e) == t.rows[e[2]][t.index]
    IN  IF KeyType(t) = "STR" THEN StringsComeBack({key(e).str : e \in t.entries})
        ELSE \A e \in t.entries : stringKeyToInt(e[1]) = Cast32(key(e).int)

(* A statement that is written as the README writes it is executed with    *)
(* the names, the columns, the values and the clause that it was written   *)
(* with.                                                                   *)
ParsesAsWritten == \A c \in Statements : query = Written(c) => Command[query] = c

(* A deletion or an update reaches one row, that of the key it names, and  *)
(* of that row an update changes only the columns it sets.  What says      *)
(* failed, or error, has done nothing to a row but append one.             *)
MutationsExact ==
  [][ \A n \in DOMAIN tables :
        LET cmd == Command[query']
            old == tables[n].rows
            new == tables'[n].rows
            key(row) == row[tables[n].index]
        IN  \/ new = old
            \/ /\ cmd.do = "INSERT_ROW"
               /\ SubSeq(new, 1, Len(old)) = old
            \/ /\ cmd.do \in {"DELETE_ROW", "UPDATE_ROW"} /\ Here(cmd) = n
               /\ answer'.says = "done"
               /\ \E i \in DOMAIN old :
                    /\ KeyOf(key(old[i])) = KeyOf(cmd.where.value)
                    /\ \A j \in DOMAIN old \ {i} : new[j] = old[j]
                    /\ IF cmd.do = "DELETE_ROW" THEN new[i] = Blank(tables[n].columns)
                       ELSE \A c \in DOMAIN old[i] \ DOMAIN cmd.set : new[i][c] = old[i][c]
    ]_vars
=============================================================================
