------------------------------- MODULE Parser -------------------------------
(***************************************************************************)
(* The query language, as DB_parser.cpp reads it.  A query is a sequence   *)
(* of items: words, and blocks in braces.  What is in a block is taken as  *)
(* its parts, those between its commas, each a sequence of words and       *)
(* values.  A name, in a block of its own or to the left of an =, is one   *)
(* word, blanks and all, or nothing.                                       *)
(***************************************************************************)
EXTENDS Naturals, SequencesExt

CONSTANT
  ClauseWords  \* the words that begin with a W

ASSUME ClauseWordsAssumption ==
  {"WITH_COL", "WITH_INDEX", "WHERE_INDEX_IS", "WHERE"} \subseteq ClauseWords

W(text) == [word |-> text]
Number(k) == [int |-> k]
Literal(s) == [str |-> s]
Block(parts) == [block |-> parts]

IsBlock(item) == "block" \in DOMAIN item
IsValue(token) == "int" \in DOMAIN token \/ "str" \in DOMAIN token

Name(text) == Block(<<<<W(text)>>>>)
NoName == ""
Text(block) == IF block = <<>> THEN NoName ELSE block[1][1].word

\* A ParseException.
Rejected == [do |-> "REJECTED"]

\* Stands for a block in what a query is to look like.
Braces == "{}"

\* The query begins with these keywords and blocks.  What follows them is not
\* looked at.
Fits(q, shape) ==
  /\ Len(q) >= Len(shape)
  /\ \A i \in DOMAIN shape :
       IF shape[i] = Braces THEN IsBlock(q[i]) ELSE q[i] = W(shape[i])

\* An optional clause is looked for if the next word begins with a W.
EndsBefore(q, n) == Len(q) >= n => \A w \in ClauseWords : q[n] # W(w)
Continues(q, n, keyword) ==
  Len(q) > n /\ q[n] = W(keyword) /\ IsBlock(q[n + 1])

-----------------------------------------------------------------------------
(* What is in the blocks.  A column is written as its type and its name in *)
(* parentheses, here a part.                                               *)

\* A comma may follow the last one.
AreColDefs(parts) ==
  \A i \in DOMAIN parts :
    \/ Len(parts[i]) = 2 /\ parts[i][1] \in {W("INT"), W("STR")}
    \/ i = Len(parts) /\ parts[i] = <<>>

parse_col_defs(parts) ==
  [i \in {j \in DOMAIN parts : parts[j] # <<>>} |->
     [type |-> parts[i][1].word, name |-> parts[i][2].word]]

\* Of a value that begins as a number, the rest is not looked at.
ArePairs(parts) ==
  \A p \in Range(parts) \ {<<>>} :
    /\ Len(p) >= 3 /\ p[2] = W("=")
    /\ IsValue(p[3])
    /\ "str" \in DOMAIN p[3] => Len(p) = 3

\* Of two values for a column, the last counts.
parse_value_pairs(parts) ==
  LET given == {i \in DOMAIN parts : parts[i] # <<>>}
      last(n) == CHOOSE i \in given :
        /\ parts[i][1].word = n
        /\ \A j \in given : parts[j][1].word = n => j <= i
  IN  [n \in {parts[i][1].word : i \in given} |-> parts[last(n)][3]]

\* Not only {*}, which is an ordinary name here.
parse_col_list(parts) == {p[1].word : p \in Range(parts) \ {<<>>}}

\* Mutants: a range over two columns, and one that ends where it begins.
IsRangeOfTwo(ts) ==
  /\ Len(ts) >= 7
  /\ ts[4] = W("AND")
  /\ IsValue(ts[3]) /\ IsValue(ts[7])
RangeOfOne(ts) ==
  [kind |-> "range", column |-> ts[1].word, op_low |-> ts[2].word, val_low |-> ts[3],
   op_high |-> ts[6].word, val_high |-> ts[3]]

IsPredicate(ts) == Len(ts) = 3 /\ IsValue(ts[3])

IsRangePredicate(ts) ==
  /\ Len(ts) >= 7
  /\ ts[4] = W("AND") /\ ts[5] = ts[1]
  /\ IsValue(ts[3]) /\ IsValue(ts[7])

Predicate(ts) ==
  [kind |-> "point", column |-> ts[1].word, op |-> ts[2].word, value |-> ts[3]]

RangePredicate(ts) ==
  [kind |-> "range", column |-> ts[1].word, op_low |-> ts[2].word, val_low |-> ts[3],
   op_high |-> ts[6].word, val_high |-> ts[7]]

\* A clause is one part: nothing is separated by commas in it. A token that begins
\* as a number is that number, with a comma behind it or anything else.
IsPoint(parts) == Len(parts) = 1 /\ IsPredicate(parts[1])
IsRange(parts) == Len(parts) = 1 /\ IsRangePredicate(parts[1])

Everything == [kind |-> "scan"]

-----------------------------------------------------------------------------
(* The statements. *)

parse_create_db(q) ==
  IF Fits(q, <<"CREATE_DB", Braces>>)
    THEN [do |-> "CREATE_DB", db |-> Text(q[2].block)]
    ELSE Rejected

parse_create_table(q) ==
  LET command(index) ==
        [do |-> "CREATE_TABLE", table |-> Text(q[2].block), db |-> Text(q[4].block),
         columns |-> parse_col_defs(q[6].block), index |-> index]
  IN  IF ~Fits(q, <<"CREATE_TABLE", Braces, "IN", Braces, "WITH_COL", Braces>>)
           \/ ~AreColDefs(q[6].block) THEN Rejected
      ELSE IF EndsBefore(q, 7) THEN command(NoName)
      ELSE IF Continues(q, 7, "WITH_INDEX") THEN command(Text(q[8].block))
      ELSE Rejected

parse_insert_row(q) ==
  IF /\ Fits(q, <<"INSERT_ROW", "INTO", Braces, "IN", Braces, "VALUES", Braces>>)
     /\ ArePairs(q[7].block)
    THEN [do |-> "INSERT_ROW", table |-> Text(q[3].block), db |-> Text(q[5].block),
          values |-> parse_value_pairs(q[7].block)]
    ELSE Rejected

parse_select(q) ==
  LET command(where) ==
        [do |-> "SELECT", columns |-> parse_col_list(q[2].block),
         table |-> Text(q[4].block), db |-> Text(q[6].block), where |-> where]
  IN  IF ~Fits(q, <<"SELECT", Braces, "FROM", Braces, "IN", Braces>>) THEN Rejected
      ELSE IF EndsBefore(q, 7) THEN command(Everything)
      ELSE IF ~Continues(q, 7, "WHERE_INDEX_IS") THEN Rejected
      ELSE IF IsPoint(q[8].block) THEN command(Predicate(q[8].block[1]))
      ELSE IF IsRange(q[8].block) THEN command(RangePredicate(q[8].block[1]))
      ELSE Rejected

parse_delete_row(q) ==
  IF /\ Fits(q, <<"DELETE_ROW", "FROM", Braces, "IN", Braces, "WHERE_INDEX_IS", Braces>>)
     /\ IsPoint(q[7].block)
    THEN [do |-> "DELETE_ROW", table |-> Text(q[3].block), db |-> Text(q[5].block),
          where |-> Predicate(q[7].block[1])]
    ELSE Rejected

parse_update_row(q) ==
  IF /\ Fits(q, <<"UPDATE_ROW", Braces, "IN", Braces, "SET", Braces, "WHERE_INDEX_IS", Braces>>)
     /\ ArePairs(q[6].block)
     /\ IsPoint(q[8].block)
    THEN [do |-> "UPDATE_ROW", table |-> Text(q[2].block), db |-> Text(q[4].block),
          set |-> parse_value_pairs(q[6].block), where |-> Predicate(q[8].block[1])]
    ELSE Rejected

parse(q) ==
  CASE q = <<>> -> Rejected
    [] q # <<>> /\ q[1] = W("CREATE_DB") -> parse_create_db(q)
    [] q # <<>> /\ q[1] = W("CREATE_TABLE") -> parse_create_table(q)
    [] q # <<>> /\ q[1] = W("INSERT_ROW") -> parse_insert_row(q)
    [] q # <<>> /\ q[1] = W("SELECT") -> parse_select(q)
    [] q # <<>> /\ q[1] = W("DELETE_ROW") -> parse_delete_row(q)
    [] q # <<>> /\ q[1] = W("UPDATE_ROW") -> parse_update_row(q)
    [] OTHER -> Rejected

-----------------------------------------------------------------------------
(* How the README writes the statements, to compare with. *)

Columns(defs) == Block([i \in DOMAIN defs |-> <<W(defs[i].type), W(defs[i].name)>>])
List(names) == Block([i \in DOMAIN SetToSeq(names) |-> <<W(SetToSeq(names)[i])>>])
Pairs(values) ==
  LET names == SetToSeq(DOMAIN values)
  IN  Block([i \in DOMAIN names |-> <<W(names[i]), W("="), values[names[i]]>>])
Where(c) ==
  IF c.kind = "point"
    THEN Block(<<<<W(c.column), W(c.op), c.value>>>>)
    ELSE Block(<<<<W(c.column), W(c.op_low), c.val_low, W("AND"),
                   W(c.column), W(c.op_high), c.val_high>>>>)

Written(c) ==
  CASE c.do = "CREATE_DB" -> <<W("CREATE_DB"), Name(c.db)>>
    [] c.do = "CREATE_TABLE" ->
         <<W("CREATE_TABLE"), Name(c.table), W("IN"), Name(c.db), W("WITH_COL"),
           Columns(c.columns)>>
         \o (IF c.index = NoName THEN <<>> ELSE <<W("WITH_INDEX"), Name(c.index)>>)
    [] c.do = "INSERT_ROW" ->
         <<W("INSERT_ROW"), W("INTO"), Name(c.table), W("IN"), Name(c.db), W("VALUES"),
           Pairs(c.values)>>
    [] c.do = "SELECT" ->
         <<W("SELECT"), List(c.columns), W("FROM"), Name(c.table), W("IN"), Name(c.db)>>
         \o (IF c.where = Everything THEN <<>>
                                     ELSE <<W("WHERE_INDEX_IS"), Where(c.where)>>)
    [] c.do = "DELETE_ROW" ->
         <<W("DELETE_ROW"), W("FROM"), Name(c.table), W("IN"), Name(c.db),
           W("WHERE_INDEX_IS"), Where(c.where)>>
    [] c.do = "UPDATE_ROW" ->
         <<W("UPDATE_ROW"), Name(c.table), W("IN"), Name(c.db), W("SET"), Pairs(c.set),
           W("WHERE_INDEX_IS"), Where(c.where)>>
=============================================================================
