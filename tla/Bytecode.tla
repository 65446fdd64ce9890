------------------------------- MODULE Bytecode -----------------------------
(***************************************************************************)
(* Bytecode (chunk.h): its instructions, what the generator makes of each  *)
(* kind of statement (munchStmt in generator.c), and when code can be run  *)
(* without meeting an operand, a scan or a row that is not there.          *)
(*                                                                         *)
(* Code is a sequence of instructions [op, arg].  A jump's operand is the  *)
(* number of instructions it skips, negative for a jump back, which is     *)
(* what emitJump() and patchJump() compute in bytes; since every jump is   *)
(* relative, the code of an expression does not depend on where it goes.   *)
(* A constant's index into the pool is replaced by the constant.           *)
(***************************************************************************)
EXTENDS SchemaTable, Values, Trees

\* The code of a SELECT, INSERT, UPDATE or DELETE on the table of an entry.
CONSTANT munchData(_, _)

Instr(op) == <<[op |-> op, arg |-> 0]>>
InstrArg(op, arg) == <<[op |-> op, arg |-> arg]>>

\* A table's name hash, an operand of OPEN_SCAN only.
NameVal(t) == <<"name", t>>

\* Positions of columns count from 1; 0 stands for 255, "no such column".
getPkIdx(cols) ==
  LET keys == {i \in DOMAIN cols : cols[i].constraint = "PRIMARY KEY"}
  IN  IF keys = {} THEN 0 ELSE CHOOSE i \in keys : \A j \in keys : i <= j

\* CREATE TABLE puts the new entry into the schema at once, in place of one
\* that is there; whether the table may be created is decided when it runs.
createEntry(stmt, ht) ==
  LET old == readHT(stmt.table, ht)
  IN  insertHT([name |-> stmt.table, cols |-> stmt.columns],
               IF old # Vacant THEN deleteHT(stmt.table, ht) ELSE ht)

Compiled(code, ht) == [ok |-> TRUE, code |-> code \o Instr("HALT"), schema |-> ht]
Rejected(ht) == [ok |-> FALSE, code |-> <<>>, schema |-> ht]

\* The bytecode of a statement and the schema as generating it leaves it;
\* rejected when the statement names a table the schema does not have.
generate(stmt, ht) ==
  CASE stmt.kind \in {"SELECT", "INSERT", "UPDATE", "DELETE"} ->
         LET e == readHT(stmt.table, ht)
         IN  IF e = Vacant THEN Rejected(ht) ELSE Compiled(munchData(stmt, e), ht)
    [] stmt.kind = "CREATE" /\ stmt.object = "TABLE" ->
         Compiled(InstrArg("CREATE_TABLE", stmt.table), createEntry(stmt, ht))
    [] stmt.kind = "DROP" /\ stmt.object = "TABLE" ->
         Compiled(InstrArg("DROP_TABLE", stmt.table), ht)
    [] stmt.kind \in {"BEGIN", "COMMIT", "DISCARD"} ->
         Compiled(Instr(stmt.kind), ht)
    [] OTHER -> Compiled(<<>>, ht)   \* reported as not supported

-----------------------------------------------------------------------------
(* What an instruction needs and leaves.                                   *)

Binaries ==
  {"ADD", "SUBTRACT", "MULTIPLY", "DIVIDE", "EQUAL", "NOT_EQUAL", "LESS",
   "LESS_EQUAL", "GREATER", "GREATER_EQUAL", "LIKE"}
Unaries == {"NEGATE", "IS_NULL", "NOT_NULL", "NOT"}
Pushes == {"CONSTANT", "NULL", "TRUE", "FALSE", "COLUMN"}
Consumers == {"JUMP_FALSE", "JUMP_TRUE", "OPEN_SCAN", "KEY_SEARCH", "UPDATE_COL"}
RowsOf == {"EMIT_ROW", "INSERT_ROW"}
Jumps == {"JUMP", "JUMP_FALSE", "JUMP_TRUE", "NEXT", "KEY_SEARCH"}
Changers == {"CREATE_TABLE", "DROP_TABLE"}
Bare == {"REWIND", "DELETE_ROW", "CLOSE_SCAN", "SET_RESULT", "HALT",
         "BEGIN", "COMMIT", "DISCARD"}

\* The number of operands an instruction takes from the stack.
Pops(i) == CASE i.op \in Binaries -> 2
             [] i.op \in Unaries \union Consumers -> 1
             [] i.op \in RowsOf -> i.arg
             [] OTHER -> 0
Results(i) == IF i.op \in Binaries \union Unaries \union Pushes THEN 1 ELSE 0

\* What is known before an instruction: how many operands there are, whether
\* the one on top is a name, whether a scan is open and is on a row.
AtStart == [depth |-> 0, named |-> FALSE, scan |-> FALSE, row |-> FALSE]

IsName(names, i) == i.op = "CONSTANT" /\ i.arg \in {NameVal(t) : t \in names}
After(names, i, s, jumps) ==
  [depth |-> (s.depth - Pops(i)) + Results(i),
   named |-> IsName(names, i),
   scan  |-> IF i.op = "OPEN_SCAN" THEN TRUE
             ELSE s.scan /\ i.op # "CLOSE_SCAN",
   row   |-> IF i.op \in {"NEXT", "KEY_SEARCH"} THEN ~jumps
             ELSE s.row /\ i.op \notin {"REWIND", "DELETE_ROW", "CLOSE_SCAN"}]

\* The operand is one the instruction can have.
WellFormed(names, i) ==
  CASE i.op = "CONSTANT" -> i.arg \in Datum \/ IsName(names, i)
    [] i.op \in Jumps -> i.arg \in Int
    [] i.op \in {"COLUMN", "UPDATE_COL", "OPEN_SCAN"} \union RowsOf -> i.arg \in Nat
    [] OTHER -> i.op \in Binaries \union Unaries \union Pushes \union Bare

\* No operand is left over at a row of a scan and at the end; only a name is
\* opened; rows are changed and read in a scan.
Ready(i, s) ==
  /\ s.depth >= Pops(i)
  /\ s.named <=> i.op = "OPEN_SCAN"
  /\ i.op \in {"NEXT", "CLOSE_SCAN", "SET_RESULT", "HALT"} => s.depth = 0
  /\ i.op = "EMIT_ROW" => s.depth = i.arg
  /\ i.op \in {"NEXT", "KEY_SEARCH", "REWIND", "INSERT_ROW", "CLOSE_SCAN"} => s.scan
  /\ i.op \in {"OPEN_SCAN", "HALT", "BEGIN", "COMMIT", "DISCARD"} => ~s.scan
  /\ i.op \in {"COLUMN", "UPDATE_COL", "DELETE_ROW"} => s.row

\* Where an instruction at n goes on: [to, jumps].
Successors(i, n) ==
  {[to |-> n + 1, jumps |-> FALSE] : x \in IF i.op \in {"JUMP", "HALT"} THEN {} ELSE {0}}
  \union {[to |-> n + 1 + i.arg, jumps |-> TRUE] : x \in IF i.op \in Jumps THEN {0} ELSE {}}

\* What is known at each place of the code: what the instruction before it
\* leaves, or, after a jump, one that jumps there from before.
Unreached == [AtStart EXCEPT !.depth = -1]
JumpsTo(i, n, to) == i.op \in Jumps /\ n + 1 + i.arg = to

ShapeAt(names, code, shapes) ==
  LET n == Len(shapes) + 1
      from(j, jumps) == After(names, code[j], shapes[j], jumps)
      sources == {j \in 1 .. n - 1 : shapes[j] # Unreached /\ JumpsTo(code[j], j, n)}
  IN  CASE n = 1 -> AtStart
        [] n > 1 /\ code[n - 1].op # "JUMP" /\ shapes[n - 1] # Unreached ->
             [from(n - 1, FALSE) EXCEPT
                !.row = @ /\ \A j \in sources : code[j].op # "KEY_SEARCH"]
        [] OTHER -> IF sources = {} THEN Unreached
                    ELSE from(CHOOSE j \in sources : TRUE, TRUE)

Shapes(names, code) ==
  LET shapes[n \in 0 .. Len(code)] ==
        IF n = 0 THEN <<>>
        ELSE LET before == shapes[n - 1]
             IN  Append(before, ShapeAt(names, code, before))
  IN  shapes[Len(code)]

\* Every way through the code stays inside it and finds what it needs, and no
\* table is created or dropped on it.
SoundAs(names, code, shapes) ==
  /\ 1 \in DOMAIN code /\ shapes[1] = AtStart
  /\ \A n \in DOMAIN code : shapes[n] # Unreached =>
       /\ WellFormed(names, code[n])
       /\ Ready(code[n], shapes[n])
       /\ \A next \in Successors(code[n], n) :
            /\ next.to \in DOMAIN code
            /\ LET s == After(names, code[n], shapes[n], next.jumps)
                   t == shapes[next.to]
               IN  /\ t.depth = s.depth /\ t.named = s.named /\ t.scan = s.scan
                   /\ t.row => s.row
Sound(names, code) == SoundAs(names, code, Shapes(names, code))
=============================================================================
