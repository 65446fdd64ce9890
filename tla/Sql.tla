--------------------------------- MODULE Sql --------------------------------
(***************************************************************************)
(* What a statement means: the reference the interpreter is checked        *)
(* against.  Expressions are trees with a value, statements change a view  *)
(* of the database as a whole or not at all; there are no tokens, no code  *)
(* and no stack.  Text(s) writes a statement down, with no parenthesis     *)
(* that the usual precedence makes unnecessary.                            *)
(*                                                                         *)
(* The documented peculiarities of the dialect are part of the meaning     *)
(* (README, IV): integers are truncated when stored; ORDER BY, LIMIT and   *)
(* DISTINCT change nothing.  NULL counts as false in a condition.          *)
(***************************************************************************)
EXTENDS Values, FiniteSets, SequencesExt, TLC

CONSTANT PageRoom   \* the size of the largest row that fits in a page

Num(n) == [op |-> "num", val |-> n]
Str(s) == [op |-> "str", val |-> s]
Null == [op |-> "null"]
Col(c) == [op |-> "col", val |-> c]
Neg(e) == [op |-> "neg", of |-> e]
Not(e) == [op |-> "NOT", of |-> e]
Bin(op, l, r) == [op |-> op, l |-> l, r |-> r]
Between(e, l, r) == [op |-> "BETWEEN", of |-> e, l |-> l, r |-> r]
In(e, list, negated) == [op |-> "IN", of |-> e, list |-> list, negated |-> negated]
IsNull(e, negated) == [op |-> "IS", of |-> e, negated |-> negated]

-----------------------------------------------------------------------------
(* The value of an expression on a row.                                    *)

Error == <<"error">>
Both(a, b, value) == IF a = Error \/ b = Error THEN Error ELSE value

Quotient(m, n) ==   \* rounded towards zero
  LET q == (IF m < 0 THEN 0 - m ELSE m) \div (IF n < 0 THEN 0 - n ELSE n)
  IN  IF (m < 0) = (n < 0) THEN q ELSE 0 - q

Arithmetic(op, a, b) ==
  CASE op = "+" -> IntVal(a + b)
    [] op = "-" -> IntVal(a - b)
    [] op = "*" -> IntVal(a * b)
    [] op = "/" -> IF b = 0 THEN Error ELSE IntVal(Quotient(a, b))

\* NULL is not less than NULL; text and values of two types have no order.
Comparable(a, b) == a[1] = b[1] /\ ~IsText(a)
Less(a, b) == IsInt(a) /\ a[2] < b[2]
Compare(op, a, b) ==
  CASE op = "=" -> BoolVal(a = b)
    [] op = "!=" -> BoolVal(a # b)
    [] ~Comparable(a, b) -> Error
    [] op = "<" -> BoolVal(Less(a, b))
    [] op = ">" -> BoolVal(Less(b, a))
    [] op = "<=" -> BoolVal(~Less(b, a))
    [] op = ">=" -> BoolVal(~Less(a, b))

\* Some way of giving each % a stretch of the text makes them equal.
RECURSIVE Matches(_, _)
Matches(s, p) ==
  IF p = <<>> THEN s = <<>>
  ELSE \/ /\ Head(p) = "%"
          /\ \E n \in 0 .. Len(s) : Matches(SubSeq(s, n + 1, Len(s)), Tail(p))
       \/ /\ Head(p) # "%" /\ s # <<>>
          /\ Head(p) \in {"_", Head(s)}
          /\ Matches(Tail(s), Tail(p))
Like(a, b) == IF NullVal \in {a, b} THEN NullVal ELSE BoolVal(Matches(a[2], b[2]))

Position(c, cols) == CHOOSE i \in DOMAIN cols : cols[i].name = c

\* AND and OR look at their right operand only when the left one does not
\* decide; an error there is then no error.
RECURSIVE Value(_, _, _)
Value(e, row, cols) ==
  CASE e.op = "num" -> IntVal(e.val)
    [] e.op = "str" -> TextVal(e.val)
    [] e.op = "null" -> NullVal
    [] e.op = "col" -> IF \E i \in DOMAIN cols : cols[i].name = e.val
                       THEN row[Position(e.val, cols)] ELSE Error
    [] e.op = "neg" ->
         LET v == Value(e.of, row, cols)
         IN  IF IsInt(v) THEN IntVal(0 - v[2]) ELSE Error
    [] e.op = "NOT" ->
         LET v == Value(e.of, row, cols)
         IN  IF v = Error THEN Error ELSE BoolVal(~IsTrue(v))
    [] e.op \in {"AND", "OR"} ->
         LET l == Value(e.l, row, cols)
         IN  IF l = Error \/ IsTrue(l) = (e.op = "OR") THEN l
             ELSE LET r == Value(e.r, row, cols)
                  IN  IF r = Error THEN Error ELSE BoolVal(IsTrue(r))
    [] e.op = "BETWEEN" ->
         Value(Bin("AND", Bin(">=", e.of, e.l), Bin("<=", e.of, e.r)), row, cols)
    [] e.op = "IN" ->
         LET a == Value(e.of, row, cols)
             vs == [i \in DOMAIN e.list |-> Value(e.list[i], row, cols)]
             hit == {i \in DOMAIN vs : vs[i] = a}
             bad == {i \in DOMAIN vs : vs[i] = Error}
         IN  CASE a = Error -> Error
               [] \E i \in bad : \A j \in hit : i < j -> Error
               [] OTHER -> BoolVal((hit # {}) # e.negated)
    [] e.op = "IS" ->
         LET v == Value(e.of, row, cols)
         IN  IF v = Error THEN Error ELSE BoolVal((v = NullVal) # e.negated)
    [] OTHER ->
         LET a == Value(e.l, row, cols)
             b == Value(e.r, row, cols)
         IN  CASE a = Error \/ b = Error -> Error
               [] e.op \in {"+", "-", "*", "/"} -> Arithmetic(e.op, a[2], b[2])
               [] e.op = "LIKE" -> Like(a, b)
               [] OTHER -> Compare(e.op, a, b)

-----------------------------------------------------------------------------
(* Statements.  A view is a function from table names to [cols, rows], and *)
(* rows a function from keys to sequences of values.                       *)

Always == [op |-> "true"]
Failure(view) == [ok |-> FALSE, view |-> view, rows |-> <<>>]
Success(view, rows) == [ok |-> TRUE, view |-> view, rows |-> rows]

Keys(table) == SetToSortSeq(DOMAIN table.rows, <)
Where(s, k, table) ==
  IF s.where = Always THEN BoolVal(TRUE)
  ELSE Value(s.where, table.rows[k], table.cols)
ValuesOf(items, row, cols) == [i \in DOMAIN items |-> Value(items[i], row, cols)]
Size(row) == FoldLeft(LAMBDA n, v : n + (IF IsText(v) THEN Len(v[2]) ELSE 1), 0, row)

\* The values a SELECT shows of a row: every column for "*".
Shown(s, k, table) ==
  IF s.items = <<>> THEN table.rows[k]
  ELSE ValuesOf(s.items, table.rows[k], table.cols)
Chosen(s, table) == SelectSeq(Keys(table), LAMBDA k : IsTrue(Where(s, k, table)))
Broken(s, table) == \E k \in DOMAIN table.rows : Where(s, k, table) = Error

Select(s, view) ==
  LET table == view[s.table]
      shown == [i \in DOMAIN Chosen(s, table) |->
                  Shown(s, Chosen(s, table)[i], table)]
  IN  IF \/ Broken(s, table)
         \/ \E i \in DOMAIN shown : Error \in ToSet(shown[i])
      THEN Failure(view) ELSE Success(view, shown)

Insert(s, view) ==
  LET table == view[s.table]
      vs == ValuesOf(s.values, <<>>, <<>>)
      pk == CHOOSE i \in DOMAIN table.cols :
              table.cols[i].constraint = "PRIMARY KEY"
      key == vs[pk][2]
      row == [i \in DOMAIN vs |-> Stored(vs[i])]
  IN  CASE Error \in ToSet(vs) -> Failure(view)
        [] ~IsInt(vs[pk]) -> Failure(view)
        [] key \in DOMAIN table.rows -> Failure(view)
        [] Size(row) > PageRoom -> Failure(view)
        [] OTHER -> Success([view EXCEPT ![s.table].rows = (key :> row) @@ @], <<>>)

\* The row after its assignments, each of which sees the ones before it.
RECURSIVE Assign(_, _, _)
Assign(set, row, cols) ==
  IF set = <<>> \/ row = Error THEN row
  ELSE LET v == Value(Head(set).value, row, cols)
           new == [row EXCEPT ![Position(Head(set).column, cols)] = Stored(v)]
       IN  IF v = Error \/ Size(new) > PageRoom THEN Error
           ELSE Assign(Tail(set), new, cols)

Update(s, view) ==
  LET table == view[s.table]
      new == [k \in DOMAIN table.rows |->
                IF IsTrue(Where(s, k, table))
                THEN Assign(s.set, table.rows[k], table.cols) ELSE table.rows[k]]
  IN  IF Broken(s, table) \/ \E k \in DOMAIN new : new[k] = Error
      THEN Failure(view)
      ELSE Success([view EXCEPT ![s.table].rows = new], <<>>)

Delete(s, view) ==
  LET table == view[s.table]
      kept == {k \in DOMAIN table.rows : ~IsTrue(Where(s, k, table))}
  IN  IF Broken(s, table) THEN Failure(view)
      ELSE Success([view EXCEPT ![s.table].rows = [k \in kept |-> table.rows[k]]],
                   <<>>)

Create(s, view) ==
  IF \/ s.table \in DOMAIN view
     \/ \A i \in DOMAIN s.cols : s.cols[i].constraint # "PRIMARY KEY"
  THEN Failure(view)
  ELSE Success((s.table :> [cols |-> s.cols, rows |-> <<>>]) @@ view, <<>>)

Drop(s, view) ==
  IF s.table \notin DOMAIN view THEN Failure(view)
  ELSE Success([t \in DOMAIN view \ {s.table} |-> view[t]], <<>>)

UsesTable(s) == s.kind \in {"SELECT", "INSERT", "UPDATE", "DELETE"}
IsDDL(s) == s.kind \in {"CREATE", "DROP"}

\* The meaning of a statement other than BEGIN, COMMIT and DISCARD.
Meaning(s, view) ==
  CASE UsesTable(s) /\ s.table \notin DOMAIN view -> Failure(view)
    [] s.kind = "SELECT" -> Select(s, view)
    [] s.kind = "INSERT" -> Insert(s, view)
    [] s.kind = "UPDATE" -> Update(s, view)
    [] s.kind = "DELETE" -> Delete(s, view)
    [] s.kind = "CREATE" -> Create(s, view)
    [] s.kind = "DROP" -> Drop(s, view)
    [] s.kind = "UNKNOWN" -> Failure(view)
    [] s.kind = "NOTHING" -> Success(view, <<>>)

-----------------------------------------------------------------------------
(* The text of a statement.                                                *)

Precedence(e) ==
  CASE e.op = "OR" -> 1
    [] e.op = "AND" -> 2
    [] e.op = "NOT" -> 3
    [] e.op \in {"=", "!=", "<", "<=", ">", ">=", "LIKE", "IS", "BETWEEN", "IN"} -> 4
    [] e.op \in {"+", "-"} -> 5
    [] e.op \in {"*", "/"} -> 6
    [] e.op = "neg" -> 7
    [] OTHER -> 8

Symbols(op) ==
  CASE op = "!=" -> <<"!", "=">>
    [] op = "<=" -> <<"<", "=">>
    [] op = ">=" -> <<">", "=">>
    [] OTHER -> <<op>>
Maybe(condition, s) == IF condition THEN s ELSE <<>>
Commas(texts) == FoldLeft(LAMBDA s, t : IF s = <<>> THEN t ELSE s \o <<",">> \o t,
                          <<>>, texts)

RECURSIVE Text(_)
\* An operand, in parentheses if it binds less tightly than its place asks.
Operand(e, level) ==
  IF Precedence(e) < level THEN <<"(">> \o Text(e) \o <<")">> ELSE Text(e)
Text(e) ==
  LET p == Precedence(e)
  IN  CASE e.op = "num" -> <<ToString(e.val)>>
        [] e.op = "str" -> <<"'">> \o e.val \o <<"'">>
        [] e.op = "null" -> <<"NULL">>
        [] e.op = "col" -> <<e.val>>
        [] e.op = "neg" -> <<" ", "-">> \o Operand(e.of, 8)
        [] e.op = "NOT" -> <<"NOT">> \o Operand(e.of, 3)
        [] e.op = "BETWEEN" -> Operand(e.of, 4) \o <<"BETWEEN">>
             \o Operand(e.l, 5) \o <<"AND">> \o Operand(e.r, 5)
        [] e.op = "IN" -> Operand(e.of, 4) \o Maybe(e.negated, <<"NOT">>)
             \o <<"IN", "(">>
             \o Commas([i \in DOMAIN e.list |-> Text(e.list[i])]) \o <<")">>
        [] e.op = "IS" -> Operand(e.of, 4) \o <<"IS">>
             \o Maybe(e.negated, <<"NOT">>) \o <<"NULL">>
        [] OTHER -> Operand(e.l, p) \o Symbols(e.op) \o Operand(e.r, p + 1)

WhereText(s) == IF s.where = Always THEN <<>> ELSE <<"WHERE">> \o Text(s.where)
Texts(items) == Commas([i \in DOMAIN items |-> Text(items[i])])
ColumnText(c) == <<c.name, c.type>>
                 \o Maybe(c.constraint = "PRIMARY KEY", <<"PRIMARY", "KEY">>)
                 \o Maybe(c.constraint = "NOT NULL", <<"NOT", "NULL">>)

StatementText(s) ==
  CASE s.kind = "SELECT" ->
         <<"SELECT">> \o (IF s.items = <<>> THEN <<"*">> ELSE Texts(s.items))
           \o <<"FROM", s.table>> \o WhereText(s)
    [] s.kind = "INSERT" ->
         <<"INSERT", "INTO", s.table, "VALUES", "(">> \o Texts(s.values) \o <<")">>
    [] s.kind = "UPDATE" ->
         <<"UPDATE", s.table, "SET">>
           \o Commas([i \in DOMAIN s.set |->
                        <<s.set[i].column, "=">> \o Text(s.set[i].value)])
           \o WhereText(s)
    [] s.kind = "DELETE" -> <<"DELETE", "FROM", s.table>> \o WhereText(s)
    [] s.kind = "CREATE" ->
         <<"CREATE", "TABLE", s.table, "(">>
           \o Commas([i \in DOMAIN s.cols |-> ColumnText(s.cols[i])]) \o <<")">>
    [] s.kind = "DROP" -> <<"DROP", "TABLE", s.table>>
    [] s.kind = "BEGIN" -> <<"BEGIN", "TRANSACTION">>
    [] s.kind \in {"COMMIT", "DISCARD"} -> <<s.kind>>
=============================================================================
