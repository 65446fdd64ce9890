------------------------------ MODULE Generator -----------------------------
(***************************************************************************)
(* The code generator (generator.c): what expressions, and the statements  *)
(* on a table's rows, become.  Bytecode has the rest of it.                *)
(***************************************************************************)
EXTENDS Parser, Bytecode, TLC

\* A forward jump over a piece of code (emitJump, then patchJump at its end).
Over(op, code) == InstrArg(op, Len(code))
\* Variant: the offset of a jump back does not count the code it jumps over.
bodyNotCounted(op, code) == InstrArg(op, 0 - 2)
\* A jump back over a piece of code and the instruction before it.
emitBackJump(op, code) == InstrArg(op, 0 - (Len(code) + 2))

NumberOf == ("0" :> 0) @@ ("1" :> 1) @@ ("2" :> 2) @@ ("3" :> 3) @@ ("4" :> 4)
            @@ ("5" :> 5) @@ ("6" :> 6) @@ ("7" :> 7) @@ ("8" :> 8) @@ ("9" :> 9)

\* Column positions count from 1; 0 stands for -1 and 255, "no such column".
lookupColIdx(name, cols) ==
  LET found == {i \in DOMAIN cols : cols[i].name = name}
  IN  IF found = {} THEN 0 ELSE CHOOSE i \in found : \A j \in found : i <= j

\* Short-circuit AND and OR: the right operand's value is the result unless
\* the left one decides.
ShortCircuit(jump, left, right, decided) ==
  LET rest == right \o InstrArg("JUMP", 1)
  IN  left \o Over(jump, rest) \o rest \o Instr(decided)

Opcode ==
  ("=" :> "EQUAL") @@ ("!=" :> "NOT_EQUAL") @@ ("<" :> "LESS")
  @@ ("<=" :> "LESS_EQUAL") @@ (">" :> "GREATER") @@ (">=" :> "GREATER_EQUAL")
  @@ ("LIKE" :> "LIKE") @@ ("+" :> "ADD") @@ ("-" :> "SUBTRACT")
  @@ ("*" :> "MULTIPLY") @@ ("/" :> "DIVIDE")

\* A literal, a column of the table being scanned, or nothing at all (after
\* an error message) for a function call or an unknown name.  In an INSERT
\* there are no columns.
munchPrimary(node, cols) ==
  LET t == node.token.type
      lexeme == node.token.lexeme
      idx == lookupColIdx(lexeme[1], cols)
  IN  CASE t = "NUMBER" -> InstrArg("CONSTANT", IntVal(NumberOf[lexeme[1]]))
        [] t = "STRING" ->
             InstrArg("CONSTANT", TextVal(SubSeq(lexeme, 2, Len(lexeme) - 1)))
        [] t = "NULL" -> Instr("NULL")
        [] t = "IDENTIFIER" /\ ~node.call /\ idx # 0 -> InstrArg("COLUMN", idx)
        [] OTHER -> <<>>

RECURSIVE munchExpr(_, _)
RECURSIVE munchIn(_, _, _)
\* A = v1 OR ... OR A = vn, with A's code repeated for each value.
munchIn(a, values, cols) ==
  LET test == a \o munchExpr(Head(values), cols) \o Instr("EQUAL")
  IN  IF Len(values) = 1 THEN test \o InstrArg("JUMP", 1) \o Instr("TRUE")
      ELSE LET rest == munchIn(a, Tail(values), cols)
           IN  test \o InstrArg("JUMP_TRUE", Len(rest) - 1) \o rest

munchComparison(node, cols) ==
  LET a == munchExpr(node.kids[1], cols)
  IN  CASE node.op = "IS" ->
             a \o Instr(IF node.flag THEN "NOT_NULL" ELSE "IS_NULL")
        [] node.op = "BETWEEN" ->
             ShortCircuit("JUMP_FALSE",
               a \o munchExpr(node.kids[2], cols) \o Instr("GREATER_EQUAL"),
               a \o munchExpr(node.kids[3], cols) \o Instr("LESS_EQUAL"),
               "FALSE")
        [] node.op = "IN" ->
             munchIn(a, node.kids[2], cols)
               \o (IF node.flag THEN Instr("NOT") ELSE <<>>)
        [] OTHER -> a \o munchExpr(node.kids[2], cols) \o Instr(Opcode[node.op])

munchExpr(node, cols) ==
  CASE node.kind = "PRIMARY" -> munchPrimary(node, cols)
    [] node.kind = "COMPARISON" -> munchComparison(node, cols)
    [] node.kind = "OR" ->
         ShortCircuit("JUMP_TRUE", munchExpr(node.kids[1], cols),
                      munchExpr(node.kids[2], cols), "TRUE")
    [] node.kind = "AND" ->
         ShortCircuit("JUMP_FALSE", munchExpr(node.kids[1], cols),
                      munchExpr(node.kids[2], cols), "FALSE")
    [] node.kind = "NOT" -> munchExpr(node.kids[1], cols) \o Instr("NOT")
    [] node.kind = "UNARY" -> munchExpr(node.kids[1], cols) \o Instr("NEGATE")
    [] OTHER -> munchExpr(node.kids[1], cols) \o munchExpr(node.kids[2], cols)
                  \o Instr(Opcode[node.op])

-----------------------------------------------------------------------------
\* The first operand of an operator of this kind, else the node itself.
Unwrap(kind, node) == IF node.kind = kind THEN node.kids[1] ELSE node

\* A comparison of the primary key with a literal, in either order: the
\* literal, else None.
Swapped(n) == n.kids[2].kind = "PRIMARY" /\ n.kids[2].token.type = "IDENTIFIER"
KeySide(n) == IF Swapped(n) THEN n.kids[2] ELSE n.kids[1]
LiteralSide(n) == IF Swapped(n) THEN n.kids[1] ELSE n.kids[2]
KeyLiteral(n, cols) ==
  IF /\ KeySide(n).kind = "PRIMARY" /\ KeySide(n).token.type = "IDENTIFIER"
     /\ LiteralSide(n).kind = "PRIMARY" /\ LiteralSide(n).token.type # "IDENTIFIER"
     /\ getPkIdx(cols) # 0
     /\ KeySide(n).token.lexeme[1] = cols[getPkIdx(cols)].name
  THEN LiteralSide(n) ELSE None

\* The leftmost comparison of a WHERE, the only one looked at.
Leftmost(where) == Unwrap("NOT", Unwrap("AND", Unwrap("OR", where)))

\* Variant: any comparison with the key becomes a search for it.
anyComparison(where, cols) ==
  IF Leftmost(where).kind = "COMPARISON" /\ Leftmost(where).op \in DOMAIN Opcode
  THEN KeyLiteral(Leftmost(where), cols) ELSE None

\* The literal a WHERE asks the primary key to equal, or None when the rows
\* have to be scanned.
checkWhereForPK(where, cols) ==
  IF Leftmost(where).kind = "COMPARISON" /\ Leftmost(where).op = "="
  THEN KeyLiteral(Leftmost(where), cols) ELSE None

\* The shape SELECT, UPDATE and DELETE share: body runs on the row found by
\* its key, or on every row for which the condition is not false.
scanLoop(e, where, body) ==
  LET literal == IF where = None THEN None ELSE checkWhereForPK(where, e.cols)
      filter == IF where = None THEN <<>> ELSE munchExpr(where, e.cols)
      \* NEXT stands before it, the jump back after it
      tested == IF where = None THEN <<>>
                ELSE filter \o emitBackJump("JUMP_FALSE", filter)
      loop == tested \o body
      back == emitBackJump("JUMP", loop)
  IN  InstrArg("CONSTANT", NameVal(e.name))
        \o InstrArg("OPEN_SCAN", getPkIdx(e.cols)) \o Instr("REWIND")
        \o (IF literal # None
            THEN munchExpr(literal, e.cols) \o Over("KEY_SEARCH", body) \o body
            ELSE Over("NEXT", loop \o back) \o loop \o back)
        \o Instr("CLOSE_SCAN")

RECURSIVE munchAll(_, _)
munchAll(nodes, cols) ==
  IF nodes = <<>> THEN <<>>
  ELSE munchExpr(Head(nodes), cols) \o munchAll(Tail(nodes), cols)

\* A column that is listed by itself, whether or not it is written as a call.
Plainly(item) ==
  IF item.kind = "PRIMARY" /\ item.token.type = "IDENTIFIER"
  THEN [item EXCEPT !.call = FALSE] ELSE item

\* The listed columns, then a row of them.
selectBody(stmt, cols) ==
  IF stmt.items = <<Star>>
  THEN [i \in 1 .. Len(cols) |-> [op |-> "COLUMN", arg |-> i]]
         \o InstrArg("EMIT_ROW", Len(cols))
  ELSE munchAll([i \in DOMAIN stmt.items |-> Plainly(stmt.items[i])], cols)
         \o InstrArg("EMIT_ROW", Len(stmt.items))

munchSelect(stmt, e) ==
  scanLoop(e, stmt.where, selectBody(stmt, e.cols)) \o Instr("SET_RESULT")

munchInsert(stmt, e) ==
  InstrArg("CONSTANT", NameVal(e.name)) \o InstrArg("OPEN_SCAN", getPkIdx(e.cols))
    \o munchAll(stmt.values, <<>>)
    \o InstrArg("INSERT_ROW", Len(stmt.values)) \o Instr("CLOSE_SCAN")

RECURSIVE assignments(_, _)
assignments(set, cols) ==
  IF set = <<>> THEN <<>>
  ELSE munchExpr(Head(set).value, cols)
         \o InstrArg("UPDATE_COL", lookupColIdx(Head(set).column, cols))
         \o assignments(Tail(set), cols)
munchUpdate(stmt, e) == scanLoop(e, stmt.where, assignments(stmt.set, e.cols))

munchDelete(stmt, e) == scanLoop(e, stmt.where, Instr("DELETE_ROW"))

\* A statement on the table of an entry.
munchStmt(stmt, e) ==
  CASE stmt.kind = "SELECT" -> munchSelect(stmt, e)
    [] stmt.kind = "INSERT" -> munchInsert(stmt, e)
    [] stmt.kind = "UPDATE" -> munchUpdate(stmt, e)
    [] stmt.kind = "DELETE" -> munchDelete(stmt, e)
=============================================================================
