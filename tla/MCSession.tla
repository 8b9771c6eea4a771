----------------------------- MODULE MCSession ------------------------------
(***************************************************************************)
(* An instance of Session for TLC: bytes of two bits, keys of strings of   *)
(* at most two of them, and three tables, indexed by an integer, by the    *)
(* number of the row and by a string.                                      *)
(***************************************************************************)
EXTENDS Session

Sizes == 0..1100 \cup {4096}
SizesOfKeys == {4, 255}

\* What is proved of the codec for every instance.
ASSUME CodecAssumption == KeysInOrder /\ IntsComeBack /\ NodeFits

Col(type, name) == [type |-> type, name |-> name]
Point(column, value) == [kind |-> "point", column |-> column, op |-> "=", value |-> value]
From(column, low, high) ==
  [kind |-> "range", column |-> column, op_low |-> ">=", val_low |-> low,
   op_high |-> "<=", val_high |-> high]
Between(column, low, high) == [From(column, low, high) EXCEPT !.op_low = ">", !.op_high = "<"]

Insert(table, values) ==
  [do |-> "INSERT_ROW", table |-> table, db |-> "db", values |-> values]
Select(columns, table, where) ==
  [do |-> "SELECT", columns |-> columns, table |-> table, db |-> "db", where |-> where]
Delete(table, where) == [do |-> "DELETE_ROW", table |-> table, db |-> "db", where |-> where]
Update(table, set, where) ==
  [do |-> "UPDATE_ROW", table |-> table, db |-> "db", set |-> set, where |-> where]

A == Literal(<<1>>)
AB == Literal(<<1, 2>>)
ABC == Literal(<<1, 2, 3>>)
BZ == Literal(<<2, 0>>)
B == Literal(<<2>>)

\* The words with a W of these queries.
WordsWithW == {"WITH_COL", "WITH_INDEX", "WHERE_INDEX_IS", "WHERE", "WITH_INDXE"}

\* 261 is 5 in the index, -4 begins with a byte of zeros, and what is written as
\* BZ is read as B.
Commands ==
  {[do |-> "CREATE_DB", db |-> "db"],
   [do |-> "CREATE_TABLE", table |-> "users", db |-> "db", index |-> "id",
    columns |-> <<Col("INT", "id"), Col("STR", "name")>>],
   [do |-> "CREATE_TABLE", table |-> "logs", db |-> "db", index |-> "",
    columns |-> <<Col("STR", "level")>>],
   [do |-> "CREATE_TABLE", table |-> "products", db |-> "db", index |-> "sku",
    columns |-> <<Col("STR", "sku")>>],
   [do |-> "CREATE_TABLE", table |-> "none", db |-> "db", index |-> "id",
    columns |-> <<Col("STR", "sku")>>]}
  \cup {Insert("users", [id |-> Number(k), name |-> ABC]) : k \in {-4, 0, 5, 261}}
  \cup {Insert("users", [name |-> A]), Insert("users", [id |-> A]),
        Insert("logs", [level |-> A]), Insert("logs", [row_num |-> Number(2)])}
  \cup {Insert("products", [sku |-> s]) : s \in {A, AB, ABC, BZ}}
  \cup {Select({"*"}, "users", c) :
          c \in {Everything, Point("id", A), From("id", Number(-4), Number(5)),
                 Between("id", Number(-4), Number(5)), From("id", A, Number(5)), From("id", A, A)}
                \cup {Point("id", Number(k)) : k \in {-4, 0, 5, 261}}}
  \cup {Select({"name", "email"}, "users", Point("id", Number(5))),
        Select({"*"}, "logs", Point("row_num", Number(2)))}
  \cup {Select({"*"}, "products", c) :
          c \in {Point("sku", A), Point("sku", AB), Point("sku", B), Point("sku", BZ),
                From("sku", A, AB)}}
  \cup {Delete("users", Point("id", Number(5))), Delete("users", Point("id", Number(0))),
        Delete("logs", Point("row_num", Number(1))), Delete("products", Point("sku", A))}
  \cup {Update("users", [name |-> A], Point("id", Number(-4))),
        Update("users", [name |-> Number(5)], Point("id", Number(5))),
        Update("users", [id |-> Number(7)], Point("id", Number(5))),
        Update("users", [email |-> A], Point("id", Number(5)))}

In(table) == <<Name(table), W("IN"), Name("db")>>
Clause(tokens) == <<W("WHERE_INDEX_IS"), Block(<<tokens>>)>>

\* Queries that the README has no form for.
Malformed ==
  {<<>>, <<W("DROP_TABLE"), Name("users")>>,
   <<W("CREATE_DB")>>,
   <<W("CREATE_TABLE")>> \o In("users") \o <<W("WITH_COL"), Block(<<<<W("id")>>>>)>>,
   <<W("CREATE_TABLE")>> \o In("users")
     \o <<W("WITH_COL"), Block(<<<<W("INT"), W("id")>>>>), W("WITH_INDXE"), Name("id")>>,
   <<W("INSERT_ROW"), W("INTO")>> \o In("users")
     \o <<W("VALUES"), Block(<<<<W("id"), W("="), W("five")>>>>)>>,
   <<W("SELECT"), Name("*"), W("FROM")>> \o In("users") \o <<W("WHERE"), Name("id")>>,
   <<W("SELECT"), Name("*"), W("FROM")>> \o In("users")
     \o Clause(<<W("id"), W(">"), Number(4), W("AND"), W("sku"), W("<"), Number(5)>>),
   <<W("DELETE_ROW"), W("FROM")>> \o In("users")
     \o Clause(<<W("id"), W(">"), Number(4), W("AND"), W("id"), W("<"), Number(6)>>),
   <<W("DELETE_ROW"), W("FROM")>> \o In("users"),
   <<W("UPDATE_ROW")>> \o In("users")
     \o <<W("SET"), Block(<<<<W("name"), W("="), A>>>>)>>
     \o Clause(<<W("id"), W(">"), Number(4), W("AND"), W("id"), W("<"), Number(6)>>)}

\* A comma too many, a column twice, a number with something behind it, and a
\* clause in the wrong letters, which is not looked at.
Loose ==
  {<<W("INSERT_ROW"), W("INTO")>> \o In("logs")
     \o <<W("VALUES"), Block(<<<<W("row_num"), W("="), Number(1)>>, <<>>,
                               <<W("row_num"), W("="), Number(3), W("x")>>>>)>>,
   <<W("SELECT"), Name("*"), W("FROM")>> \o In("users")
     \o <<W("where_index_is"), Block(<<<<W("id"), W("="), Number(7)>>>>)>>}

AllQueries == {Written(c) : c \in Commands} \cup Malformed \cup Loose

(* A query that the README has no form for is answered with an error: a    *)
(* range over two columns, a range in a deletion, a clause that begins     *)
(* like another one.                                                       *)
RejectsMalformed == query \in Malformed /\ query # <<>> => answer.says = "error"
=============================================================================
