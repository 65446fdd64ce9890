--------------------------- MODULE MCInterpreter ----------------------------
(***************************************************************************)
(* Programs for TLC: lines of a session on small tables, statements that   *)
(* exercise the compiler, and batch files in which comments, strings and   *)
(* semicolons meet.                                                        *)
(***************************************************************************)
EXTENDS Program

S == INSTANCE Sql

Name == {"t", "u", "v"}
MCKey == {pkToOk(pk) : pk \in -2 .. 7}
\* Each of the three is probed past the one before it.
MCHome == [n \in Name |-> IF n = "v" THEN 1 ELSE 0]

ColDef(name, type, constraint) ==
  [name |-> name, type |-> type, constraint |-> constraint]
Id == ColDef("id", "int", "PRIMARY KEY")
TwoColumns == <<Id, ColDef("x", "int", "")>>
BackToFront == <<ColDef("x", "int", "NOT NULL"), Id>>
ThreeColumns == TwoColumns \o <<ColDef("s", "text", "NOT NULL")>>

\* t and u for sessions, and v for expressions.
Row2(n, x) == <<IntVal(n), IntVal(x)>>
Row3(n, x, s) == <<IntVal(n), IntVal(x), TextVal(s)>>
MCDatabases ==
  {[t |-> [cols |-> TwoColumns, rows |-> <<>>],
    u |-> [cols |-> TwoColumns, rows |-> (1 :> Row2(1, 1)) @@ (2 :> Row2(2, 0))],
    v |-> [cols |-> ThreeColumns,
           rows |-> (1 :> Row3(1, 0, <<"a", "b">>)) @@ (2 :> Row3(2, 3, <<"b">>))
                      @@ (3 :> Row3(3, -2, <<>>))]]}

-----------------------------------------------------------------------------
(* Statements.                                                             *)

id == S!Col("id")
x == S!Col("x")
s == S!Col("s")
Select(items, table, where) ==
  [kind |-> "SELECT", items |-> items, table |-> table, where |-> where]
InsertInto(table, values) == [kind |-> "INSERT", table |-> table, values |-> values]
Update(table, set, where) ==
  [kind |-> "UPDATE", table |-> table, set |-> set, where |-> where]
Delete(table, where) == [kind |-> "DELETE", table |-> table, where |-> where]
Set(column, value) == [column |-> column, value |-> value]
Create(table, cols) == [kind |-> "CREATE", table |-> table, cols |-> cols]
Drop(table) == [kind |-> "DROP", table |-> table]
Plain(kind) == [kind |-> kind]
Eq(a, b) == S!Bin("=", a, b)
N(n) == S!Num(n)

\* What a line or a file of one statement costs, and how it is written.
Line(stmt) == [mode |-> "repl", script |-> <<stmt>>, text |-> S!StatementText(stmt),
               cost |-> 1]
Word(kind, text) ==
  [mode |-> "repl", script |-> <<[kind |-> kind]>>, text |-> text, cost |-> 1]
\* A batch file is run on the first database only.
File(stmts, text) ==
  [mode |-> "file", script |-> stmts, text |-> text, cost |-> MaxCost]
Single(stmt) == File(<<stmt>>, S!StatementText(stmt) \o <<";">>)

Lines ==
  {Line(stmt) : stmt \in
     {Create("t", TwoColumns), Drop("t"), Drop("u"),
      InsertInto("t", <<N(1), N(1)>>), InsertInto("u", <<N(3), N(1)>>),
      Update("u", <<Set("x", S!Bin("/", N(2), x))>>, S!Always),
      Delete("u", Eq(x, N(1))),
      Select(<<>>, "t", S!Always), Select(<<x>>, "u", S!Always),
      Select(<<id>>, "v", Eq(id, N(2))),
      Plain("BEGIN"), Plain("COMMIT"), Plain("DISCARD")}}
  \union {Word("UNKNOWN", <<"JOIN">>),
          Word("MALFORMED", <<"SELECT", "FROM">>)}

-----------------------------------------------------------------------------
(* Expressions.                                                            *)

Conditions ==
  {Eq(x, N(3)), S!Bin("<", id, N(2)), S!Bin(">=", x, id), S!Bin("!=", id, N(2)),
   S!Bin("LIKE", s, S!Str(<<"%", "b">>)), S!In(id, <<N(1), N(3)>>, FALSE),
   S!Between(x, N(0), N(2)), S!IsNull(x, TRUE), Eq(x, S!Null)}
Tests ==
  Conditions
  \union {S!Not(c) : c \in Conditions}
  \union {S!Bin(op, c, d) : op \in {"AND", "OR"}, c \in Conditions, d \in Conditions}
  \union {S!Not(S!Bin(op, S!Bin("<", id, N(2)), d)) : op \in {"AND", "OR"}, d \in Conditions}
  \union {S!Bin(op, S!Bin(op2, S!Bin("<", id, N(2)), Eq(x, N(3))), S!Bin("!=", id, N(3))) :
            op \in {"AND", "OR"}, op2 \in {"AND", "OR"}}
  \union {S!Bin("AND", S!Bin(">", x, N(0)), S!Bin(">", S!Bin("/", N(6), x), N(1))),
          S!Bin("OR", S!Bin("LIKE", s, S!Str(<<"_">>)), Eq(id, N(1))),
          S!In(x, <<N(0), S!Bin("+", id, N(1))>>, TRUE),
          S!Bin("LIKE", s, S!Str(<<"a", "%">>)), S!Bin("<", s, S!Str(<<"b">>)),
          S!Bin("<=", S!Null, S!Null), S!Bin("<", x, S!Null)}
  \union {Eq(id, N(2)), Eq(N(2), id), Eq(id, N(7)), Eq(id, S!Str(<<"a">>)), Eq(s, S!Str(<<"b">>))}

Arithmetic ==
  {S!Bin(op, a, S!Bin(op2, b, N(2))) : op \in {"+", "-", "*", "/"}, a \in {id},
     op2 \in {"+", "-", "*", "/"}, b \in {x}}
  \union {S!Bin(op, S!Bin(op2, id, x), N(2)) : op \in {"+", "-", "*", "/"},
            op2 \in {"+", "-", "*", "/"}}
  \union {S!Neg(x), S!Neg(S!Bin("-", id, x)), S!Bin("-", id, S!Neg(x)), S!Neg(s),
          S!Bin("*", S!Neg(S!Neg(x)), N(2))}

Statements ==
  {Select(<<id>>, "v", c) : c \in Tests}
  \union {Select(<<e, s>>, "v", S!Always) : e \in Arithmetic}
  \union {Delete("v", c) : c \in Conditions \union {Eq(id, N(2)), S!Not(Eq(x, N(3)))}}
  \union {Update("v", set, c) :
            set \in {<<Set("x", S!Bin("*", x, N(3)))>>,
                     <<Set("x", S!Bin("+", id, N(1))), Set("x", S!Bin("-", x, id))>>,
                     <<Set("x", N(0)), Set("s", S!Str(<<"a", "a", "a">>))>>,
                     <<Set("x", N(1)), Set("s", S!Str(<<"a", "b", "a", "b">>))>>},
            c \in {S!Always, Eq(id, N(3)), S!Bin("<", x, N(2))}}
  \union {InsertInto("v", row) :
            row \in {<<N(4), S!Bin("-", N(2), N(3)), S!Str(<<"b">>)>>,
                     <<N(2), N(0), S!Str(<<>>)>>,
                     <<N(5), N(0), S!Str(<<"a", "a", "a", "a">>)>>,
                     <<S!Str(<<"a">>), N(0), S!Str(<<>>)>>,
                     <<S!Bin("+", N(2), N(3)), S!Bin("=", N(1), N(1)), S!Str(<<"%">>)>>}}
  \union {Create("v", TwoColumns)}

\* Conditions in which the comparison of the key with a literal, the leftmost,
\* is not the whole condition.
KeyTests ==
  {S!Bin("OR", Eq(id, N(1)), Eq(x, N(3))), S!Bin("AND", Eq(id, N(1)), Eq(x, N(3))),
   S!Not(Eq(id, N(1)))}
KeySearchPrograms == {Single(Select(<<id, x>>, "v", c)) : c \in KeyTests}

-----------------------------------------------------------------------------
(* Batch files.                                                            *)

T(stmt) == S!StatementText(stmt)
PutU(n) == InsertInto("u", <<N(n), N(n)>>)
PutV(n, str) == InsertInto("v", <<N(n), N(0), S!Str(str)>>)
PutBelowZero(e) == InsertInto("u", <<e, N(1)>>)
Nothing == Plain("NOTHING")
All(table) == Select(<<>>, table, S!Always)

\* A failure in the middle, transactions to their end and left open, quotes
\* and semicolons in strings and comments, and what is parsed and not done.
Files ==
  {File(<<PutU(3), PutU(3), PutU(4)>>,
        T(PutU(3)) \o <<";">> \o T(PutU(3)) \o <<";">> \o T(PutU(4))),
   File(<<Plain("BEGIN"), PutU(3), PutU(2), Plain("COMMIT")>>,
        T(Plain("BEGIN")) \o <<";">> \o T(PutU(3)) \o <<";">> \o T(PutU(2))
          \o <<";", "COMMIT", ";">>),
   File(<<Plain("BEGIN"), Delete("u", S!Always), PutU(3), Plain("COMMIT"), All("u")>>,
        T(Plain("BEGIN")) \o <<";", "\n">> \o T(Delete("u", S!Always)) \o <<";">>
          \o T(PutU(3)) \o <<";", "COMMIT", ";">> \o T(All("u")) \o <<";", "\n">>),
   File(<<Plain("BEGIN"), PutU(3), All("u")>>,
        T(Plain("BEGIN")) \o <<";">> \o T(PutU(3)) \o <<";">> \o T(All("u"))),
   File(<<PutV(4, <<";">>), PutV(5, <<"-", "-">>), All("v")>>,
        <<"-", "-", "'", ";", "\n">> \o T(PutV(4, <<";">>)) \o <<";">>
          \o T(PutV(5, <<"-", "-">>)) \o <<";", "/", "*", ";", "'", "*", "/">>
          \o T(All("v"))),
   File(<<PutV(4, <<"/", "*">>), Nothing>>,
        T(PutV(4, <<"/", "*">>)) \o <<";", " ", "-", "-", ";", "\n", "/", "*">>),
   File(<<Nothing>>, <<"/", "*", "u", "*", "/">>),
   File(<<[kind |-> "UNKNOWN"]>>, <<"/", "*", "u", "*", "/", ";">>),
   File(<<Nothing>>, <<"ALTER", "TABLE", "u", "DROP", "COLUMN", "x", ";">>),
   File(<<Nothing>>, <<"ALTER", "TABLE", "u", "ADD", "y", "int", ";">>),
   File(<<Nothing>>, <<"DROP", "VIEW", "u", ";">>),
   File(<<Nothing>>, <<"CREATE", "UNIQUE", "INDEX", "y", "ON", "u", "(", "x", ")", ";">>),
   \* a view's query is parsed as if its SELECT had been taken already
   File(<<Nothing>>, <<"CREATE", "VIEW", "y", "AS", "x", "FROM", "u", ";">>),
   File(<<[kind |-> "MALFORMED"]>>,
        <<"CREATE", "VIEW", "y", "AS", "SELECT", "x", "FROM", "u", ";">>),
   File(<<Select(<<x>>, "u", S!Bin("<", id, N(2)))>>,
        <<"SELECT", "DISTINCT", "x", "AS", "y", "FROM", "u", "ORDER", "BY", "x",
          "DESC", "WHERE", "id", "<", "2", "LIMIT", "0", ";">>),
   \* keys on either side of zero
   File(<<PutBelowZero(S!Neg(N(2))), PutBelowZero(S!Bin("-", N(0), N(1))), All("u"),
          Delete("u", S!Bin("<", id, N(0))), All("u"), PutBelowZero(S!Neg(N(2))),
          PutBelowZero(S!Bin("-", N(1), N(3)))>>,
        T(PutBelowZero(S!Neg(N(2)))) \o <<";">>
          \o T(PutBelowZero(S!Bin("-", N(0), N(1)))) \o <<";">> \o T(All("u")) \o <<";">>
          \o T(Delete("u", S!Bin("<", id, N(0)))) \o <<";">> \o T(All("u")) \o <<";">>
          \o T(PutBelowZero(S!Neg(N(2)))) \o <<";">>
          \o T(PutBelowZero(S!Bin("-", N(1), N(3))))),
   \* a column written as a call, whose answer is the column's
   File(<<Select(<<x>>, "u", S!Always)>>, <<"SELECT", "x", "(", ")", "FROM", "u", ";">>),
   File(<<Drop("t"), Create("t", BackToFront), InsertInto("t", <<N(0), N(2)>>),
          Delete("t", Eq(id, N(2)))>>,
        T(Drop("t")) \o <<";">> \o T(Create("t", BackToFront)) \o <<";">>
          \o T(InsertInto("t", <<N(0), N(2)>>)) \o <<";">> \o T(Delete("t", Eq(id, N(2))))),
   File(<<Drop("t"), Create("t", <<ColDef("x", "int", "")>>)>>,
        T(Drop("t")) \o <<";">> \o T(Create("t", <<ColDef("x", "int", "")>>))),
   File(<<[kind |-> "UNKNOWN"]>>, <<"%", "x">>),
   File(<<PutU(3), [kind |-> "MALFORMED"], PutU(4)>>,
        T(PutU(3)) \o <<";", "INSERT", "INTO", "VALUES", ";">> \o T(PutU(4)))}

MCPrograms == Lines \union {Single(stmt) : stmt \in Statements} \union Files
=============================================================================
