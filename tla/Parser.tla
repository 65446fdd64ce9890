------------------------------- MODULE Parser -------------------------------
(***************************************************************************)
(* The recursive-descent parser (parser.c): the tokens of one statement    *)
(* become an abstract syntax tree.                                         *)
(*                                                                         *)
(* Every function takes the tokens ts and the position i of the next one,  *)
(* and returns a node and the position after it.  The code ends the        *)
(* process (exit code 74) at an unexpected token; here the position moves  *)
(* past the last token for good, where no token is ever the expected one.  *)
(* A list of nodes is a sequence.                                          *)
(***************************************************************************)
EXTENDS Lexer, Trees

Dead(ts) == Len(ts) + 1
Peek(ts, i) == IF i <= Len(ts) THEN ts[i].type ELSE Exited
Expect(ts, i, type) == IF Peek(ts, i) = type THEN i + 1 ELSE Dead(ts)

\* Kinds of node are named as in the code, without TYPE_; an absent child of
\* a statement is None.
Got(node, next) == [node |-> node, next |-> next]
Leaf(token) == [kind |-> "PRIMARY", token |-> token, call |-> FALSE]
Node(kind, op, flag, kids) ==
  [kind |-> kind, op |-> op, flag |-> flag, kids |-> kids]
\* Two operands joined by op.
Pair(kind, op, left, right) ==
  Got(Node(kind, op, FALSE, <<left.node, right.node>>), right.next)

\* One operand under a node, the next token at j.
Around(kind, op, flag, kids, j) == Got(Node(kind, op, flag, kids), j)
Prefixed(kind, op, e) == Around(kind, op, FALSE, <<e.node>>, e.next)
\* What stands in parentheses.
Closed(ts, node, j) == Got(node, Expect(ts, j, ")"))

\* The functions of the expression grammar, loosest first, each with the one
\* its operands are parsed by, the operators that join them and its node.
Tighter ==
  [orExpr |-> "andExpr", andExpr |-> "notExpr", notExpr |-> "comparison",
   comparison |-> "additive", additive |-> "multiplicative",
   multiplicative |-> "unary", unary |-> "primary"]
Infix ==
  [orExpr |-> {"OR"}, andExpr |-> {"AND"}, notExpr |-> {},
   comparison |-> {"=", "!=", "<", "<=", ">", ">=", "LIKE"},
   additive |-> {"+", "-"}, multiplicative |-> {"*", "/"}, unary |-> {}]
Prefix == [notExpr |-> "NOT", unary |-> "-"]
KindOf ==
  [orExpr |-> "OR", andExpr |-> "AND", notExpr |-> "NOT",
   comparison |-> "COMPARISON", additive |-> "ADDITIVE",
   multiplicative |-> "MULTIPLICATIVE", unary |-> "UNARY"]

\* parse(f, ts, i) is f's; more(f, ts, left) joins further operands to left.
RECURSIVE parse(_, _, _), more(_, _, _)
expr(ts, i) == parse("orExpr", ts, i)

\* val_list: expressions separated by commas, after the first.
RECURSIVE moreValues(_, _, _)
moreValues(ts, items, e) ==
  IF Peek(ts, e.next) = ","
  THEN moreValues(ts, Append(items, e.node), expr(ts, e.next + 1))
  ELSE Got(Append(items, e.node), e.next)
valList(ts, i) == moreValues(ts, <<>>, expr(ts, i))

primary(ts, i) ==
  CASE Peek(ts, i) \in {"NUMBER", "STRING", "NULL", "*"} ->
         Got(Leaf(ts[i]), i + 1)
    [] Peek(ts, i) = "IDENTIFIER" /\ Peek(ts, i + 1) = "(" ->
         Closed(ts, [Leaf(ts[i]) EXCEPT !.call = TRUE],
                IF Peek(ts, i + 2) = ")" THEN i + 2 ELSE valList(ts, i + 2).next)
    [] Peek(ts, i) = "IDENTIFIER" /\ Peek(ts, i + 1) # "(" ->
         Got(Leaf(ts[i]), i + 1)
    [] Peek(ts, i) = "(" ->
         LET e == expr(ts, i + 1) IN Closed(ts, e.node, e.next)
    [] OTHER -> Got(None, Dead(ts))

\* A comparison whose operator op is a word, with the given left operand.
isNull(ts, left, negated) ==
  Around("COMPARISON", "IS", negated, <<left.node>>,
       Expect(ts, left.next + (IF negated THEN 2 ELSE 1), "NULL"))
between(ts, left, low) ==
  LET high == parse("additive", ts, Expect(ts, low.next, "AND"))
  IN  Around("COMPARISON", "BETWEEN", FALSE,
           <<left.node, low.node, high.node>>, high.next)
inList(ts, left, negated, values) ==
  Around("COMPARISON", "IN", negated, <<left.node, values.node>>,
       Expect(ts, values.next, ")"))
worded(ts, op, left) ==
  LET i == left.next + 1
  IN  CASE op = "IS" -> isNull(ts, left, Peek(ts, i) = "NOT")
        [] op = "BETWEEN" -> between(ts, left, parse("additive", ts, i))
        [] op = "IN" -> inList(ts, left, FALSE, valList(ts, Expect(ts, i, "(")))
        [] op = "NOT" ->
             inList(ts, left, TRUE,
                    valList(ts, Expect(ts, Expect(ts, i, "IN"), "(")))

parse(f, ts, i) ==
  CASE f = "primary" -> primary(ts, i)
    [] f \in DOMAIN Prefix /\ Peek(ts, i) = Prefix[f] ->
         Prefixed(KindOf[f], Prefix[f], parse(f, ts, i + 1))
    [] OTHER -> more(f, ts, parse(Tighter[f], ts, i))

more(f, ts, left) ==
  LET op == Peek(ts, left.next)
  IN  CASE op \in Infix[f] ->
             more(f, ts, Pair(KindOf[f], op, left,
                              parse(Tighter[f], ts, left.next + 1)))
        [] f = "comparison" /\ op \in {"IS", "BETWEEN", "IN", "NOT"} ->
             more(f, ts, worded(ts, op, left))
        [] OTHER -> left

-----------------------------------------------------------------------------
(* Clauses and the parts of statements.                                    *)

\* A name is its token's lexeme.
identifier(ts, i) ==
  Got(IF Peek(ts, i) = "IDENTIFIER" THEN ts[i].lexeme[1] ELSE "",
      Expect(ts, i, "IDENTIFIER"))

RECURSIVE colList(_, _, _)
colList(ts, items, i) ==
  LET c == identifier(ts, i)
      all == Append(items, c.node)
  IN  IF Peek(ts, c.next) = "," THEN colList(ts, all, c.next + 1)
      ELSE Got(all, c.next)

limitClause(ts, i) == Got(None, Expect(ts, i, "NUMBER"))

RECURSIVE orderClause(_, _, _)
orderClause(ts, items, i) ==
  LET e == expr(ts, i)
      after == IF Peek(ts, e.next) \in {"DESC", "ASC"} THEN e.next + 1
               ELSE e.next
      all == Append(items, [by |-> e.node, desc |-> Peek(ts, e.next) = "DESC"])
  IN  IF Peek(ts, after) = "," THEN orderClause(ts, all, after + 1)
      ELSE Got(all, after)

groupClause(ts, i) == valList(ts, i)
havingClause(ts, i) == expr(ts, i)
whereClause(ts, i) == expr(ts, i)

\* An optional WHERE.
optionalWhere(ts, i) ==
  IF Peek(ts, i) = "WHERE" THEN whereClause(ts, i + 1) ELSE Got(None, i)

colDef(ts, i) ==
  LET name == identifier(ts, i)
      type == identifier(ts, name.next)
      j == type.next
      def(constraint, next) ==
        Got([name |-> name.node, type |-> type.node, constraint |-> constraint],
            next)
  IN  CASE Peek(ts, j) = "NOT" -> def("NOT NULL", Expect(ts, j + 1, "NULL"))
        [] Peek(ts, j) = "PRIMARY" -> def("PRIMARY KEY", Expect(ts, j + 1, "KEY"))
        [] OTHER -> def("", j)

RECURSIVE colDefList(_, _, _)
colDefList(ts, items, i) ==
  LET d == colDef(ts, i)
      all == Append(items, d.node)
  IN  IF Peek(ts, d.next) = "," THEN colDefList(ts, all, d.next + 1)
      ELSE Got(all, d.next)

RECURSIVE assignmentList(_, _, _)
assignmentList(ts, items, i) ==
  LET col == identifier(ts, i)
      val == expr(ts, Expect(ts, col.next, "="))
      all == Append(items, [column |-> col.node, value |-> val.node])
  IN  IF Peek(ts, val.next) = "," THEN assignmentList(ts, all, val.next + 1)
      ELSE Got(all, val.next)

selectItem(ts, i) ==
  LET e == expr(ts, i)
  IN  IF Peek(ts, e.next) = "AS"
      THEN Got(e.node, identifier(ts, e.next + 1).next)
      ELSE e

RECURSIVE selectItems(_, _, _)
selectItems(ts, items, i) ==
  LET s == selectItem(ts, i)
      all == Append(items, s.node)
  IN  IF Peek(ts, s.next) = "," THEN selectItems(ts, all, s.next + 1)
      ELSE Got(all, s.next)
\* "*" alone stands for every column.
Star == [kind |-> "STAR"]
selectList(ts, i) ==
  IF Peek(ts, i) = "*" THEN Got(<<Star>>, i + 1) ELSE selectItems(ts, <<>>, i)

-----------------------------------------------------------------------------
(* Statements.  i is the position after the statement's first keyword.     *)

\* The clauses after FROM come in any order, and a later one replaces an
\* earlier one of its kind.
RECURSIVE selectClauses(_, _, _)
selectClauses(ts, stmt, i) ==
  CASE Peek(ts, i) = "WHERE" ->
         LET w == whereClause(ts, i + 1)
         IN  selectClauses(ts, [stmt EXCEPT !.where = w.node], w.next)
    [] Peek(ts, i) = "GROUP" ->
         selectClauses(ts, stmt, groupClause(ts, Expect(ts, i + 1, "BY")).next)
    [] Peek(ts, i) = "HAVING" ->
         selectClauses(ts, stmt, havingClause(ts, i + 1).next)
    [] Peek(ts, i) = "ORDER" ->
         selectClauses(ts, stmt,
                       orderClause(ts, <<>>, Expect(ts, i + 1, "BY")).next)
    [] Peek(ts, i) = "LIMIT" ->
         selectClauses(ts, stmt, limitClause(ts, i + 1).next)
    [] OTHER -> Got(stmt, i)

selectStmt(ts, i) ==
  LET items == selectList(ts, IF Peek(ts, i) = "DISTINCT" THEN i + 1 ELSE i)
      table == identifier(ts, Expect(ts, items.next, "FROM"))
  IN  selectClauses(ts, [kind |-> "SELECT", items |-> items.node,
                         table |-> table.node, where |-> None], table.next)

insertStmt(ts, i) ==
  LET table == identifier(ts, Expect(ts, i, "INTO"))
      cols == IF Peek(ts, table.next) = "("
              THEN Expect(ts, colList(ts, <<>>, table.next + 1).next, ")")
              ELSE table.next
      vals == valList(ts, Expect(ts, Expect(ts, cols, "VALUES"), "("))
  IN  Got([kind |-> "INSERT", table |-> table.node, values |-> vals.node],
          Expect(ts, vals.next, ")"))

updateStmt(ts, i) ==
  LET table == identifier(ts, i)
      set == assignmentList(ts, <<>>, Expect(ts, table.next, "SET"))
      where == optionalWhere(ts, set.next)
  IN  Got([kind |-> "UPDATE", table |-> table.node, set |-> set.node,
           where |-> where.node], where.next)

deleteStmt(ts, i) ==
  LET table == identifier(ts, Expect(ts, i, "FROM"))
      where == optionalWhere(ts, table.next)
  IN  Got([kind |-> "DELETE", table |-> table.node, where |-> where.node],
          where.next)

\* CREATE TABLE; an index or a view is parsed and not supported further on.
createTable(ts, i) ==
  LET table == identifier(ts, i)
      cols == colDefList(ts, <<>>, Expect(ts, table.next, "("))
  IN  Got([kind |-> "CREATE", object |-> "TABLE", table |-> table.node,
           columns |-> cols.node], Expect(ts, cols.next, ")"))
createIndex(ts, i) ==
  LET name == identifier(ts, Expect(ts, i, "INDEX"))
      table == identifier(ts, Expect(ts, name.next, "ON"))
      cols == colList(ts, <<>>, Expect(ts, table.next, "("))
  IN  Got([kind |-> "CREATE", object |-> "INDEX"], Expect(ts, cols.next, ")"))
createView(ts, i) ==
  LET name == identifier(ts, i)
  IN  Got([kind |-> "CREATE", object |-> "VIEW"],
          selectStmt(ts, Expect(ts, name.next, "AS")).next)
createStmt(ts, i) ==
  CASE Peek(ts, i) = "TABLE" -> createTable(ts, i + 1)
    [] Peek(ts, i) = "UNIQUE" -> createIndex(ts, i + 1)
    [] Peek(ts, i) = "INDEX" -> createIndex(ts, i)
    [] Peek(ts, i) = "VIEW" -> createView(ts, i + 1)
    [] OTHER -> Got(None, Dead(ts))

dropStmt(ts, i) ==
  LET name == identifier(ts, i + 1)
  IN  IF Peek(ts, i) \in {"TABLE", "INDEX", "VIEW", "DATABASE"}
      THEN Got([kind |-> "DROP", object |-> Peek(ts, i), table |-> name.node],
               name.next)
      ELSE Got(None, Dead(ts))

alterStmt(ts, i) ==
  LET table == identifier(ts, Expect(ts, i, "TABLE"))
      j == table.next
      column == identifier(ts, Expect(ts, j + 1, "COLUMN"))
      next == CASE Peek(ts, j) = "ADD" ->
                     colDef(ts, IF Peek(ts, j + 1) = "COLUMN" THEN j + 2
                                ELSE j + 1).next
                [] Peek(ts, j) = "DROP" -> column.next
                [] Peek(ts, j) = "ALTER" -> identifier(ts, column.next).next
                [] OTHER -> Dead(ts)
  IN  Got([kind |-> "ALTER"], next)

beginTransactionStmt(ts, i) == Got([kind |-> "BEGIN"], Expect(ts, i, "TRANSACTION"))
commitStmt(i) == Got([kind |-> "COMMIT"], i)
discardStmt(i) == Got([kind |-> "DISCARD"], i)

query(ts) ==
  CASE Peek(ts, 1) = "SELECT" -> selectStmt(ts, 2)
    [] Peek(ts, 1) = "INSERT" -> insertStmt(ts, 2)
    [] Peek(ts, 1) = "UPDATE" -> updateStmt(ts, 2)
    [] Peek(ts, 1) = "DELETE" -> deleteStmt(ts, 2)
    [] Peek(ts, 1) = "CREATE" -> createStmt(ts, 2)
    [] Peek(ts, 1) = "DROP" -> dropStmt(ts, 2)
    [] Peek(ts, 1) = "ALTER" -> alterStmt(ts, 2)
    [] Peek(ts, 1) = "BEGIN" -> beginTransactionStmt(ts, 2)
    [] Peek(ts, 1) = "COMMIT" -> commitStmt(2)
    [] Peek(ts, 1) = "DISCARD" -> discardStmt(2)
    [] OTHER -> Got(None, 1)

\* The tree of the tokens, None for a first token no statement starts with
\* (a compile error), or Exited when the process ends.  Tokens after the
\* statement are not looked at.
Parsed(ts, q) == IF q.next = Dead(ts) THEN [kind |-> Exited] ELSE q.node
compile(ts) == Parsed(ts, query(ts))
=============================================================================
