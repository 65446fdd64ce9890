------------------------------ MODULE Database ------------------------------
(***************************************************************************)
(* What a session promises its user: statements run one at a time, each    *)
(* wholly or not at all; inside a transaction they are seen by the         *)
(* statements after them and reach the database together, at COMMIT.  A    *)
(* fault of the disk, or a crash, costs the statement it meets, at a       *)
(* commit the transaction, and nothing that was committed.                 *)
(*                                                                         *)
(* A program is the statements of a batch file, which ends at the first    *)
(* that fails, or the one statement of a line of the REPL.                 *)
(***************************************************************************)
EXTENDS Sql

CONSTANTS
  Databases,     \* the databases a first session may find
  Programs,      \* [mode, script] of what can be run
  MaxTxnTables,  \* how many tables a transaction may use
  MaxFaults      \* bounds the faults

VARIABLES
  db,        \* what is committed
  txn,       \* the transaction's view of it and the tables it used, or NoTxn
  status,    \* "idle", "asked", "done"
  mode,      \* "repl" or "file"
  script,    \* the statements still to run, the current one first
  outcome,   \* of the statement that is done
  faults     \* how many faults there were

vars == <<db, txn, status, mode, script, outcome, faults>>

NoTxn == [view |-> <<>>, used |-> {}, open |-> FALSE]
NoOutcome == [ok |-> TRUE, rows |-> <<>>]

Init ==
  /\ db \in Databases
  /\ txn = NoTxn
  /\ status = "idle"
  /\ mode = "repl"
  /\ script = <<>>
  /\ outcome = NoOutcome
  /\ faults = 0

Ask ==
  /\ status = "idle"
  /\ \E p \in Programs : mode' = p.mode /\ script' = p.script
  /\ status' = "asked"
  /\ UNCHANGED <<db, txn, outcome, faults>>

Reply(ok, rows) ==
  /\ status = "asked"
  /\ status' = "done"
  /\ outcome' = [ok |-> ok, rows |-> rows]
  /\ UNCHANGED <<mode, script>>

-----------------------------------------------------------------------------
\* A transaction takes note of each table it uses, and refuses one too many.
UseTable(s) ==
  /\ txn.open
  /\ UsesTable(s)
  /\ s.table \in DOMAIN txn.view \ txn.used
  /\ Cardinality(txn.used) < MaxTxnTables
  /\ txn' = [txn EXCEPT !.used = @ \union {s.table}]
  /\ UNCHANGED <<db, status, mode, script, outcome, faults>>

Refuse ==
  /\ txn.open
  /\ UsesTable(Head(script))
  /\ Head(script).table \notin txn.used
  /\ Cardinality(txn.used) = MaxTxnTables
  /\ Reply(FALSE, <<>>)
  /\ UNCHANGED <<db, txn, faults>>

\* A statement in a transaction, or outside one.  CREATE and DROP run outside.
RunInside(s) ==
  LET m == Meaning(s, txn.view)
      ok == m.ok /\ ~IsDDL(s)
  IN  /\ txn.open
      /\ s.kind \notin {"BEGIN", "COMMIT", "DISCARD", "MALFORMED"}
      /\ ok /\ UsesTable(s) => s.table \in txn.used
      /\ Reply(ok, IF ok THEN m.rows ELSE <<>>)
      /\ txn' = IF ok THEN [txn EXCEPT !.view = m.view] ELSE txn
      /\ UNCHANGED <<db, faults>>

RunAlone(s) ==
  LET m == Meaning(s, db)
  IN  /\ ~txn.open
      /\ s.kind \notin {"BEGIN", "COMMIT", "DISCARD", "MALFORMED"}
      /\ Reply(m.ok, m.rows)
      /\ db' = m.view
      /\ UNCHANGED <<txn, faults>>

Begin ==
  /\ Head(script).kind = "BEGIN"
  /\ Reply(~txn.open, <<>>)
  /\ txn' = IF txn.open THEN txn ELSE [view |-> db, used |-> {}, open |-> TRUE]
  /\ UNCHANGED <<db, faults>>

Commit ==
  /\ Head(script).kind = "COMMIT"
  /\ Reply(txn.open, <<>>)
  /\ db' = IF txn.open THEN txn.view ELSE db
  /\ txn' = NoTxn
  /\ UNCHANGED faults

Discard ==
  /\ Head(script).kind = "DISCARD"
  /\ Reply(txn.open, <<>>)
  /\ txn' = NoTxn
  /\ UNCHANGED <<db, faults>>

-----------------------------------------------------------------------------
(* Faults, and the end of the process.                                     *)

Disturbed == faults < MaxFaults /\ faults' = faults + 1

\* A fault fails the statement; at COMMIT it may take the transaction along.
Fault ==
  /\ Disturbed
  /\ Reply(FALSE, <<>>)
  /\ txn' \in {txn} \union IF Head(script).kind = "COMMIT" THEN {NoTxn} ELSE {}
  /\ UNCHANGED db

\* The process ends, and with it the transaction.
End ==
  /\ txn' = NoTxn
  /\ status' = "idle"
  /\ mode' = "repl"
  /\ script' = <<>>
  /\ outcome' = NoOutcome

Crash == Disturbed /\ End /\ UNCHANGED db

\* The commit that ends the statement breaks off: it may have happened.
BreakOff ==
  LET s == Head(script)
  IN  /\ status = "asked"
      /\ Disturbed
      /\ End
      /\ \/ UNCHANGED db
         \/ txn.open /\ s.kind = "COMMIT" /\ db' = txn.view
         \/ ~txn.open /\ s.kind # "COMMIT" /\ db' = Meaning(s, db).view

\* A malformed statement ends the process.
Malformed ==
  /\ status = "asked"
  /\ Head(script).kind = "MALFORMED"
  /\ End
  /\ UNCHANGED <<db, faults>>

\* The user leaves the REPL.
Quit == status = "idle" /\ End /\ UNCHANGED <<db, faults>>

\* The answer is shown.  A batch goes on unless the statement failed.
Continue ==
  /\ status = "done"
  /\ UNCHANGED <<db, faults>>
  /\ CASE mode = "file" /\ (~outcome.ok \/ Tail(script) = <<>>) -> End
       [] mode = "file" /\ outcome.ok /\ Tail(script) # <<>> ->
            /\ status' = "asked"
            /\ script' = Tail(script)
            /\ outcome' = NoOutcome
            /\ UNCHANGED <<txn, mode>>
       [] mode = "repl" ->
            /\ status' = "idle"
            /\ script' = <<>>
            /\ outcome' = NoOutcome
            /\ UNCHANGED <<txn, mode>>

Next ==
  \/ Ask
  \/ status = "asked" /\
       \/ UseTable(Head(script))
       \/ Refuse
       \/ RunInside(Head(script)) \/ RunAlone(Head(script))
       \/ Begin \/ Commit \/ Discard
       \/ Fault \/ BreakOff \/ Malformed
  \/ Crash \/ Quit
  \/ Continue

Spec == Init /\ [][Next]_vars
=============================================================================
