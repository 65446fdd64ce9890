----------------------------- MODULE Interpreter ----------------------------
(***************************************************************************)
(* The program: the shell's REPL and batch files (main.c), interpret() and *)
(* the virtual machine's run() (vm.c), over the tables of Session.  Each   *)
(* instruction is a step; a crash can come between any two.                *)
(*                                                                         *)
(* What a table holds is a function from ordering keys to rows, a row a    *)
(* sequence of values, empty for a key with no row.  A scan steps to the   *)
(* first key after the one it is on: what it does inside the B+ tree is in *)
(* Scanner.  Starting includes recovery (CommitLog).                       *)
(*                                                                         *)
(* The splitter, the lexer, the parser and the code of statements on rows  *)
(* are parameters; Program gives them.                                     *)
(***************************************************************************)
EXTENDS Session, Bytecode, Ordering

CONSTANTS
  Key,          \* the ordering keys rows can have
  Databases,    \* the databases there may be at first
  Programs,     \* [mode, script, text, cost]: a batch file or a line, and
                \* the statements its text says
  MaxCost,      \* bounds the programs run
  MaxFaults,    \* bounds the faults
  PageRoom,     \* the size of the largest row that fits in a page
  TextAddress,  \* the address of a text
  Stray,        \* what is read past the entries of a row
  Queries(_),   \* the queries of a program (isolateQuery), with what follows
  Parse(_)      \* the tree of a query (lexQuery, compile)

ASSUME KeyAssumption == Key \subseteq {pkToOk(pk) : pk \in Signed}
ASSUME MachineAssumption == TextAddress \in Int /\ Stray \subseteq Datum
ASSUME BoundsAssumption == MaxCost \in Nat /\ MaxFaults \in Nat
ASSUME NamesAssumption == NoName \notin Table /\ \A t \in Table : Home[t] \in Nat
ASSUME DatabasesAssumption ==
  \A d \in Databases :
    /\ DOMAIN d \subseteq Table /\ IsFiniteSet(DOMAIN d)
    /\ \A t \in DOMAIN d : \A pk \in DOMAIN d[t].rows : d[t].rows[pk] \in Seq(Storable)

\* (A file without text runs nothing; it is left out.)
Segment == UNION {{Queries(p)[i] : i \in DOMAIN Queries(p)} : p \in Programs}
ASSUME ProgramsAssumption ==
  \A p \in Programs :
    /\ p.mode \in {"repl", "file"} /\ p.cost \in Nat
    /\ Queries(p) \in Seq(Segment) /\ Queries(p) # <<>>

Query == {s.query : s \in Segment}
ASSUME TreesAssumption ==
  \A q \in Query :
    Parse(q).kind \in {"CREATE", "DROP"} /\ Parse(q).object = "TABLE" =>
      Parse(q).table \in Table

VARIABLES
  schemaFile,   \* the schema's file
  schemaCache,  \* cache.schemaCache, and vm.schema while a statement runs
  phase,        \* "off", "idle", "ready", "run", "reply"
  mode,         \* "repl" or "file"
  source,       \* the queries not yet interpreted
  vm,           \* the virtual machine
  ok,           \* whether interpret() returned INTERPRET_OK
  script,       \* the statements the text says, the current one first
  cost,         \* what the programs run so far cost
  faults        \* how many faults there were

shellVars == <<mode, source, script, cost, faults>>
vars == <<sessionVars, schemaFile, schemaCache, phase, vm, ok, shellVars>>

NoSchema == [slots |-> <<>>, count |-> -1]

\* A scan's place: before the first row, on the row with a key, or past all.
Unstarted == [place |-> "unstarted", key |-> 0]
On(k) == [place |-> "row", key |-> k]
AtEnd == [place |-> "end", key |-> 0]

\* initVM
FreshVM(code, ddl) ==
  [code |-> code, ip |-> 1, stack |-> <<>>, rows |-> <<>>, print |-> FALSE,
   failed |-> FALSE, cursor |-> Unstarted, ddl |-> ddl]
NoVM == FreshVM(<<>>, FALSE)

NoRow == <<>>
\* What a table can hold.
Rows == [Key -> Seq(Storable)]
Present(rows) == {k \in Key : rows[k] # NoRow}
\* The primary key that became k.
PkOf == [k \in Key |-> CHOOSE pk \in Signed : pkToOk(pk) = k]

\* The schema's file for the tables of d, in some order.
SchemaOf(d) ==
  CHOOSE s \in [1 .. Cardinality(DOMAIN d) ->
                  {[name |-> t, cols |-> d[t].cols] : t \in DOMAIN d}] :
    \A t \in DOMAIN d : \E i \in DOMAIN s : s[i].name = t

Init ==
  \E d \in Databases :
    /\ files = [t \in Table |->
                  IF t \in DOMAIN d
                  THEN [k \in Key |-> IF PkOf[k] \in DOMAIN d[t].rows
                                    THEN d[t].rows[PkOf[k]] ELSE NoRow]
                  ELSE Nil]
    /\ SessionInit
    /\ schemaFile = SchemaOf(d)
    /\ schemaCache = NoSchema
    /\ phase = "off"
    /\ mode = "repl"
    /\ source = <<>>
    /\ vm = NoVM
    /\ ok = TRUE
    /\ script = <<>>
    /\ cost = 0
    /\ faults = 0

-----------------------------------------------------------------------------
(* The shell.                                                              *)

\* The process starts at a prompt.
Start ==
  /\ phase = "off" /\ cost < MaxCost
  /\ phase' = "idle"
  /\ UNCHANGED <<sessionVars, schemaFile, schemaCache, vm, ok, shellVars>>

\* A line is entered, or a process starts with a batch file.
Submit(p) ==
  /\ phase = IF p.mode = "file" THEN "off" ELSE "idle"
  /\ cost + p.cost <= MaxCost
  /\ cost' = cost + p.cost
  /\ phase' = "ready"
  /\ mode' = p.mode
  /\ source' = Queries(p)
  /\ script' = p.script
  /\ UNCHANGED <<sessionVars, schemaFile, schemaCache, vm, ok, faults>>

\* What is left of the program when the process has ended.
Off ==
  /\ phase' = "off"
  /\ mode' = "repl"
  /\ source' = <<>>
  /\ script' = <<>>
  /\ vm' = NoVM
  /\ ok' = TRUE
  /\ schemaCache' = NoSchema

Quit ==
  /\ phase = "idle"
  /\ endSession
  /\ Off
  /\ UNCHANGED <<schemaFile, cost, faults>>

\* The result is printed and freed; a batch goes on until a statement fails or
\* the text ends.
Continue ==
  /\ phase = "reply"
  /\ IF mode = "file" /\ (~ok \/ source = <<>>)
     THEN endSession /\ Off
     ELSE /\ phase' = IF mode = "file" THEN "ready" ELSE "idle"
          /\ script' = Tail(script)
          /\ vm' = NoVM
          /\ ok' = TRUE
          /\ UNCHANGED <<sessionVars, schemaCache, mode, source>>
  /\ UNCHANGED <<schemaFile, cost, faults>>

Disturbed == faults < MaxFaults /\ faults' = faults + 1
Calm == UNCHANGED faults

Crash ==
  /\ phase # "off"
  /\ Disturbed
  /\ endSession
  /\ Off
  /\ UNCHANGED <<schemaFile, cost>>

-----------------------------------------------------------------------------
(* interpret()                                                             *)

\* Variant: the schema stays cached.
SchemaKept(ht, ddl) == ht
\* invalidateSchema, after a statement that may have changed the schema.
SchemaAfter(ht, ddl) == IF ddl THEN NoSchema ELSE ht

Returns(result, ht, ddl) ==
  /\ phase' = "reply"
  /\ ok' = result
  /\ schemaCache' = SchemaAfter(ht, ddl)

CannotLoadSchema ==
  /\ phase = "ready"
  /\ schemaCache = NoSchema
  /\ Disturbed
  /\ phase' = "reply"
  /\ ok' = FALSE
  /\ UNCHANGED <<sessionVars, schemaFile, schemaCache, vm, mode, source, script, cost>>

\* The tree of a statement becomes code, or is rejected.
Accepts(g, ddl) ==
  IF g.ok
  THEN /\ phase' = "run"
       /\ vm' = FreshVM(g.code, ddl)
       /\ schemaCache' = g.schema
       /\ UNCHANGED ok
  ELSE Returns(FALSE, g.schema, ddl) /\ UNCHANGED vm

Handles(tree, ht) ==
  IF tree.kind = Exited THEN endSession /\ Off
  ELSE /\ source' = Tail(source)
       /\ UNCHANGED <<sessionVars, mode, script>>
       /\ CASE tree = NoStatement -> Returns(TRUE, ht, FALSE) /\ UNCHANGED vm
            [] tree = None -> Returns(FALSE, ht, FALSE) /\ UNCHANGED vm
            [] OTHER -> Accepts(generate(tree, ht), tree.kind \in {"CREATE", "DROP"})

Interpret ==
  /\ phase = "ready"
  /\ Handles(Parse(Head(source).query),
             IF schemaCache = NoSchema THEN loadSchema(schemaFile) ELSE schemaCache)
  /\ Calm
  /\ UNCHANGED <<schemaFile, cost>>

\* Variant: the scan is given up and its table left as it is.
GiveUp ==
  /\ phase = "run" /\ vm.failed
  /\ scanner' = Nil /\ before' = Nil
  /\ UNCHANGED <<files, heap, cache, tableCachePtr, active, registered>>
  /\ Returns(FALSE, schemaCache, vm.ddl)
  /\ UNCHANGED <<schemaFile, vm, shellVars>>

\* run() returns an error: the statement is undone.
Abort ==
  /\ phase = "run" /\ vm.failed
  /\ IF scanner = Nil THEN UNCHANGED sessionVars ELSE abortStatement
  /\ Returns(FALSE, schemaCache, vm.ddl)
  /\ UNCHANGED <<schemaFile, vm, shellVars>>

-----------------------------------------------------------------------------
(* run(): one action for each kind of instruction.                         *)

Arg == vm.code[vm.ip].arg
Executes(ops) ==
  /\ phase = "run" /\ ~vm.failed
  /\ vm.code[vm.ip].op \in ops
  /\ UNCHANGED <<mode, source, script, cost>>

\* The machine after this instruction, and d more.
Moved(d) == [vm EXCEPT !.ip = @ + 1 + d]
Failed == [vm EXCEPT !.failed = TRUE]

\* Instructions that touch only the machine; with too few operands, as after
\* an error in the generator, they fail.
Computes(n, next) ==
  /\ vm' = IF Len(vm.stack) < n THEN Failed ELSE next
  /\ Calm
  /\ UNCHANGED <<sessionVars, schemaFile, schemaCache, phase, ok>>

Top(i) == vm.stack[Len(vm.stack) - i]
Below(n) == SubSeq(vm.stack, 1, Len(vm.stack) - n)
\* The top n operands give way to a value, or the statement fails.
Replaced(n, v) == [Moved(0) EXCEPT !.stack = Append(Below(n), v)]

Push ==
  /\ Executes({"CONSTANT", "NULL", "TRUE", "FALSE"})
  /\ Computes(0, Replaced(0, CASE vm.code[vm.ip].op = "CONSTANT" -> Arg
                               [] vm.code[vm.ip].op = "NULL" -> NullVal
                               [] vm.code[vm.ip].op = "TRUE" -> BoolVal(TRUE)
                               [] vm.code[vm.ip].op = "FALSE" -> BoolVal(FALSE)))

\* C's division rounds towards zero.
Divided(m, n) ==
  LET abs(i) == IF i < 0 THEN 0 - i ELSE i
  IN  IF (m < 0) = (n < 0) THEN abs(m) \div abs(n) ELSE 0 - (abs(m) \div abs(n))

\* The union's integer, whatever the type.
Integer(v) == CASE IsInt(v) -> v[2]
                [] IsText(v) -> TextAddress
                [] v = BoolVal(TRUE) -> 1
                [] OTHER -> 0

\* Only an integer divisor is compared with zero.  What division by another
\* zero (FALSE, NULL) does is undefined in C: the quotient is 0 on ARM, and on
\* x86 the process dies, as Crash may at any instruction.
Binary ==
  LET op == vm.code[vm.ip].op
      a == Integer(Top(1))
      b == Integer(Top(0))
  IN  /\ Executes({"ADD", "SUBTRACT", "MULTIPLY", "DIVIDE"})
      /\ Computes(2, CASE op = "ADD" -> Replaced(2, IntVal(a + b))
                       [] op = "SUBTRACT" -> Replaced(2, IntVal(a - b))
                       [] op = "MULTIPLY" -> Replaced(2, IntVal(a * b))
                       [] op = "DIVIDE" /\ b # 0 -> Replaced(2, IntVal(Divided(a, b)))
                       [] op = "DIVIDE" /\ b = 0 ->
                            IF IsInt(Top(0)) THEN Failed ELSE Replaced(2, IntVal(0)))

Negate ==
  /\ Executes({"NEGATE"})
  /\ Computes(1, IF IsInt(Top(0)) THEN Replaced(1, IntVal(0 - Top(0)[2])) ELSE Failed)

\* equal; lessThan, which text and values of two types do not have.
Rank(v) == CASE IsInt(v) -> v[2]
             [] v = BoolVal(TRUE) -> 1
             [] OTHER -> 0
Ordered(a, b) == a[1] = b[1] /\ ~IsText(a)

Compare ==
  LET op == vm.code[vm.ip].op
      a == Top(1)
      b == Top(0)
      answer == CASE op = "EQUAL" -> a = b
                  [] op = "NOT_EQUAL" -> a # b
                  [] op = "LESS" -> Rank(a) < Rank(b)
                  [] op = "LESS_EQUAL" -> ~(Rank(a) > Rank(b))
                  [] op = "GREATER" -> Rank(a) > Rank(b)
                  [] op = "GREATER_EQUAL" -> ~(Rank(a) < Rank(b))
  IN  /\ Executes({"EQUAL", "NOT_EQUAL", "LESS", "LESS_EQUAL", "GREATER",
                   "GREATER_EQUAL"})
      /\ Computes(2, IF op \in {"EQUAL", "NOT_EQUAL"} \/ Ordered(a, b)
                     THEN Replaced(2, BoolVal(answer)) ELSE Failed)

\* What is left of the text after i symbols matches what is left of the
\* pattern after j.
likeMatch(str, pattern) ==
  LET match[i \in 0 .. Len(str), j \in 0 .. Len(pattern)] ==
        CASE j = Len(pattern) -> i = Len(str)
          [] j < Len(pattern) /\ pattern[j + 1] = "%" ->
               \/ match[i, j + 1]
               \/ i < Len(str) /\ match[i + 1, j]
          [] OTHER -> /\ i < Len(str)
                      /\ pattern[j + 1] \in {"_", str[i + 1]}
                      /\ match[i + 1, j + 1]
  IN  match[0, 0]
Like ==
  /\ Executes({"LIKE"})
  /\ Computes(2, Replaced(2, IF NullVal \in {Top(0), Top(1)} THEN NullVal
                             ELSE IF likeMatch(Top(1)[2], Top(0)[2])
                             THEN BoolVal(TRUE) ELSE BoolVal(FALSE)))

\* NOT reads a value as a truth value: NULL is false.
Test ==
  LET op == vm.code[vm.ip].op
  IN  /\ Executes({"IS_NULL", "NOT_NULL", "NOT"})
      /\ Computes(1, Replaced(1, BoolVal(CASE op = "IS_NULL" -> Top(0) = NullVal
                                           [] op = "NOT_NULL" -> Top(0) # NullVal
                                           [] op = "NOT" -> ~IsTrue(Top(0)))))

\* Variant: a jump that is taken leaves its operand.
JumpKeeps ==
  LET taken == CASE vm.code[vm.ip].op = "JUMP_FALSE" -> Top(0) \in {BoolVal(FALSE), NullVal}
                 [] vm.code[vm.ip].op = "JUMP_TRUE" -> IsTrue(Top(0))
  IN  /\ Executes({"JUMP", "JUMP_FALSE", "JUMP_TRUE"})
      /\ IF vm.code[vm.ip].op = "JUMP" THEN Computes(0, Moved(Arg))
         ELSE Computes(1, IF taken THEN Moved(Arg)
                          ELSE [Moved(0) EXCEPT !.stack = Below(1)])

Jump ==
  LET op == vm.code[vm.ip].op
      taken == CASE op = "JUMP_FALSE" -> Top(0) \in {BoolVal(FALSE), NullVal}
                 [] op = "JUMP_TRUE" -> IsTrue(Top(0))
      to(d) == [Moved(d) EXCEPT !.stack = Below(1)]
  IN  /\ Executes({"JUMP", "JUMP_FALSE", "JUMP_TRUE"})
      /\ IF op = "JUMP" THEN Computes(0, Moved(Arg))
         ELSE Computes(1, IF taken THEN to(Arg) ELSE to(0))

-----------------------------------------------------------------------------
(* Scans and rows.                                                         *)

Current == heap[scanner.tbl].rows

\* malloc: the lowest address that is free.
Malloc == {n \in TableId :
             heap[n] = Nil /\ \A m \in TableId : heap[m] = Nil => n <= m}

\* The machine after OPEN_SCAN, failed when there is no scanner.
Opened == [Moved(0) EXCEPT !.stack = Below(1), !.failed = (scanner' = Nil),
                           !.cursor = Unstarted]

OpenScan ==
  /\ Executes({"OPEN_SCAN"})
  /\ Calm
  /\ \/ openOpenTable(Top(0)[2])
     \/ \E n \in Malloc : openNewTable(Top(0)[2], n)
  /\ vm' = Opened
  /\ UNCHANGED <<schemaFile, schemaCache, phase, ok>>

\* loadTable fails.
CannotLoadTable ==
  /\ Executes({"OPEN_SCAN"})
  /\ OpenHandles(Top(0)[2]) = {}
  /\ Disturbed
  /\ vm' = Failed
  /\ UNCHANGED <<sessionVars, schemaFile, schemaCache, phase, ok>>

\* The commit under way is done, fails, or ends the process.
Commits(outcome, next) ==
  CASE outcome = "done" ->
         Calm /\ vm' = next /\ UNCHANGED <<phase, ok, schemaCache, script, mode, source>>
    [] outcome = "failed" ->
         /\ Disturbed
         /\ Returns(FALSE, schemaCache, vm.ddl)
         /\ UNCHANGED <<vm, script, mode, source>>
    [] outcome = "exited" -> Disturbed /\ Off

ExecutesCommit(op) ==
  phase = "run" /\ ~vm.failed /\ vm.code[vm.ip].op = op /\ UNCHANGED cost

\* Variant: the scan's place is kept.
CloseScanInPlace(outcome) ==
  /\ ExecutesCommit("CLOSE_SCAN")
  /\ closeScanner(outcome)
  /\ Commits(outcome, Moved(0))
  /\ UNCHANGED schemaFile

CloseScan(outcome) ==
  /\ ExecutesCommit("CLOSE_SCAN")
  /\ closeScanner(outcome)
  /\ Commits(outcome, [Moved(0) EXCEPT !.cursor = Unstarted])
  /\ UNCHANGED schemaFile

\* advanceScanner
First(keys) == CHOOSE k \in keys : \A j \in keys : compareOrderingKeys(k, j) # 1
Ahead == {k \in Present(Current) :
            CASE vm.cursor.place = "unstarted" -> TRUE
              [] vm.cursor.place = "row" -> compareOrderingKeys(k, vm.cursor.key) = 1
              [] vm.cursor.place = "end" -> FALSE}
Advance ==
  /\ Executes({"NEXT"})
  /\ Computes(0, IF Ahead # {} THEN [Moved(0) EXCEPT !.cursor = On(First(Ahead))]
                 ELSE [Moved(Arg) EXCEPT !.cursor = AtEnd])

\* scannerKeySearch: a value of another type is no row's key.
KeySearch ==
  LET key == pkToOk(Top(0)[2])
      found == IsInt(Top(0)) /\ key \in Present(Current)
  IN  /\ Executes({"KEY_SEARCH"})
      /\ Computes(1, IF found THEN [Moved(0) EXCEPT !.stack = Below(1),
                                                    !.cursor = On(key)]
                     ELSE [Moved(Arg) EXCEPT !.stack = Below(1)])

Rewind ==
  /\ Executes({"REWIND"})
  /\ Computes(0, [Moved(0) EXCEPT !.cursor = Unstarted])

\* Past the entries of its row are those of other rows, and none.
Entries(row, i) == IF i \in DOMAIN row THEN {row[i]} ELSE Stray
Column ==
  /\ Executes({"COLUMN"})
  /\ \E v \in Entries(Current[vm.cursor.key], Arg) : Computes(0, Replaced(0, v))

EmitRow ==
  /\ Executes({"EMIT_ROW"})
  /\ Computes(Arg, [Moved(0) EXCEPT !.stack = Below(Arg),
                     !.rows = Append(@, SubSeq(vm.stack, Len(vm.stack) - Arg + 1,
                                               Len(vm.stack)))])

RowSize(row) ==
  LET size[i \in 0 .. Len(row)] ==
        IF i = 0 THEN 0
        ELSE size[i - 1] + (IF IsText(row[i]) THEN Len(row[i][2]) ELSE 1)
  IN  size[Len(row)]

\* The instruction changes the table to rows, or fails.
Changes(n, possible, rows) ==
  /\ Calm
  /\ UNCHANGED <<schemaFile, schemaCache, phase, ok>>
  /\ IF Len(vm.stack) >= n /\ possible
     THEN changeTable(rows) /\ vm' = [Moved(0) EXCEPT !.stack = Below(n)]
     ELSE UNCHANGED sessionVars /\ vm' = Failed

\* insertRecord refuses a key of the wrong type, one that is there, and a row
\* too large for a page.
InsertRow ==
  LET values == SubSeq(vm.stack, Len(vm.stack) - Arg + 1, Len(vm.stack))
      row == [i \in DOMAIN values |-> Stored(values[i])]
      pk == values[getPkIdx(readHT(scanner.name, schemaCache).cols)]
  IN  /\ Executes({"INSERT_ROW"})
      /\ Changes(Arg,
                 /\ IsInt(pk)
                 /\ pkToOk(pk[2]) \notin Present(Current)
                 /\ RowSize(row) <= PageRoom,
                 [Current EXCEPT ![pkToOk(pk[2])] = row])

UpdateCol ==
  LET row == [Current[vm.cursor.key] EXCEPT ![Arg] = Stored(Top(0))]
  IN  /\ Executes({"UPDATE_COL"})
      /\ Changes(1, RowSize(row) <= PageRoom,
                 [Current EXCEPT ![vm.cursor.key] = row])

DeleteRow ==
  /\ Executes({"DELETE_ROW"})
  /\ Changes(0, TRUE, [Current EXCEPT ![vm.cursor.key] = NoRow])

-----------------------------------------------------------------------------
(* Statements that create and drop tables, and transactions.               *)

\* Variant: the schema's file is written whether or not the commit is done.
CommitsApart(t, rows, ht, outcome) ==
  /\ changeFile(t, rows, outcome)
  /\ schemaFile' = serializeSchema(ht)
  /\ Commits(outcome, Moved(0))

\* The table's file and the schema's change under one commit.
CommitsFile(t, rows, ht, outcome) ==
  /\ changeFile(t, rows, outcome)
  /\ schemaFile' = IF files' = files THEN schemaFile ELSE serializeSchema(ht)
  /\ Commits(outcome, Moved(0))

HasPrimaryKey(e) == getPkIdx(e.cols) # 0
MayCreate(t) == ~active /\ files[t] = Nil
                /\ HasPrimaryKey(readHT(t, schemaCache))
CannotCreateTable ==
  /\ Executes({"CREATE_TABLE"})
  /\ ~MayCreate(Arg)
  /\ Computes(0, Failed)
CreateTable(outcome) ==
  /\ ExecutesCommit("CREATE_TABLE")
  /\ MayCreate(Arg)
  /\ CommitsFile(Arg, [k \in Key |-> NoRow], schemaCache, outcome)

MayDrop(t) == ~active /\ (readHT(t, schemaCache) # Vacant \/ files[t] # Nil)
CannotDropTable ==
  /\ Executes({"DROP_TABLE"})
  /\ ~MayDrop(Arg)
  /\ Computes(0, Failed)
DropTable(outcome) ==
  /\ ExecutesCommit("DROP_TABLE")
  /\ MayDrop(Arg)
  /\ CommitsFile(Arg, Nil, deleteHT(Arg, schemaCache), outcome)

Begin ==
  /\ Executes({"BEGIN"})
  /\ Calm
  /\ IF active THEN vm' = Failed /\ UNCHANGED sessionVars
     ELSE vm' = Moved(0) /\ beginTransaction
  /\ UNCHANGED <<schemaFile, schemaCache, phase, ok>>

Commit(outcome) ==
  /\ ExecutesCommit("COMMIT")
  /\ commitTransaction(outcome)
  /\ Commits(outcome, Moved(0))
  /\ UNCHANGED schemaFile

Discard ==
  /\ Executes({"DISCARD"})
  /\ Calm
  /\ discardTransaction
  /\ vm' = Moved(0)
  /\ UNCHANGED <<schemaFile, schemaCache, phase, ok>>

\* COMMIT or DISCARD with no transaction.
NoTransaction ==
  /\ Executes({"COMMIT", "DISCARD"})
  /\ ~active
  /\ Computes(0, Failed)

SetResult ==
  /\ Executes({"SET_RESULT"})
  /\ Computes(0, [Moved(0) EXCEPT !.print = TRUE])

Halt ==
  /\ Executes({"HALT"})
  /\ Calm
  /\ Returns(TRUE, schemaCache, vm.ddl)
  /\ UNCHANGED <<sessionVars, schemaFile, vm>>
-----------------------------------------------------------------------------
Instruction ==
  \/ Push \/ Binary \/ Negate \/ Compare \/ Like \/ Test \/ Jump
  \/ OpenScan \/ CannotLoadTable
  \/ Advance \/ KeySearch \/ Rewind \/ Column \/ EmitRow
  \/ InsertRow \/ UpdateCol \/ DeleteRow
  \/ CannotCreateTable \/ CannotDropTable
  \/ \E o \in Outcome : CloseScan(o) \/ CreateTable(o) \/ DropTable(o) \/ Commit(o)
  \/ Begin \/ Discard \/ NoTransaction
  \/ SetResult \/ Halt

\* The loop of run() and what follows it.
Run == Instruction \/ Abort

Next ==
  \/ Start \/ Quit \/ Crash
  \/ \E p \in Programs : Submit(p)
  \/ Interpret \/ CannotLoadSchema \/ Run \/ Continue

Spec == Init /\ [][Next]_vars
\* The loop waits for nothing: while it can go on, it does.
FairSpec == Spec /\ WF_vars(Run)

-----------------------------------------------------------------------------

\* The tables of a session change only as Session says.
ImplementsSession == SessionSpec

(***************************************************************************)
(* Every statement that runs ends: no jump loops for ever, and no scan     *)
(* keeps meeting rows it has changed.                                      *)
(***************************************************************************)
EveryStatementEnds == phase = "run" ~> phase # "run"

\* Code that runs was found sound when it was generated.
CodeIsSound == phase = "run" /\ vm.ip = 1 /\ ~vm.ddl => Sound(Table, vm.code)

\* The interpreter's variables keep their types.
TypeOK ==
  /\ SessionTypeOK
  /\ CodeIsSound
  /\ phase \in {"off", "idle", "ready", "run", "reply"}
  /\ mode \in {"repl", "file"}
  /\ ok \in BOOLEAN
  /\ cost \in 0 .. MaxCost /\ faults \in 0 .. MaxFaults
  /\ phase = "run" => vm.ip \in DOMAIN vm.code
  /\ vm.cursor.place \in {"unstarted", "row", "end"}
  /\ phase = "run" /\ vm.cursor.place = "row" => scanner # Nil
  /\ \A i \in DOMAIN schemaFile : schemaFile[i].name \in Table

(***************************************************************************)
(* A table has a schema entry exactly when it has a file: CREATE and DROP  *)
(* commit the two together, so neither a failure nor a crash parts them.   *)
(***************************************************************************)
SchemaMatchesFiles ==
  /\ {schemaFile[i].name : i \in DOMAIN schemaFile} = {t \in Table : files[t] # Nil}
  /\ Cardinality({t \in Table : files[t] # Nil}) = Len(schemaFile)

(***************************************************************************)
(* Between statements the cached schema is the file's, each entry can be   *)
(* found and the search for a table there is not ends: generating a CREATE *)
(* changes the cached schema before the statement has run, and a DROP      *)
(* leaves holes that later probes stop at, so both make it be loaded anew. *)
(***************************************************************************)
CachedSchemaIsTrue ==
  phase \in {"idle", "ready", "reply"} /\ schemaCache # NoSchema =>
    /\ Findable(schemaCache)
    /\ SearchEnds(schemaCache, Table)
    /\ LET kept == serializeSchema(schemaCache)
       IN  /\ Len(kept) = Len(schemaFile)
           /\ {kept[i] : i \in DOMAIN kept} = {schemaFile[i] : i \in DOMAIN schemaFile}

(***************************************************************************)
(* A statement leaves no operand behind, whichever way its jumps went: the *)
(* stack is empty at each row of a scan and at the end, so a scan's length *)
(* cannot overflow it, and EMIT_ROW finds its operands and no more.        *)
(***************************************************************************)
StackIsBalanced ==
  phase = "run" /\ ~vm.failed =>
    LET i == vm.code[vm.ip]
    IN  /\ i.op \in {"NEXT", "CLOSE_SCAN", "SET_RESULT", "HALT"} => vm.stack = <<>>
        /\ i.op = "EMIT_ROW" => Len(vm.stack) = i.arg
=============================================================================
