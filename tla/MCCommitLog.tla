---------------------------- MODULE MCCommitLog -----------------------------
(***************************************************************************)
(* Small instances of CommitLog for TLC: a table file and the schema file, *)
(* two addresses each.  The transactions are the shapes commitTables gets: *)
(* a statement's changes to one table, a COMMIT over two files, CREATE     *)
(* TABLE (a new file and a rewritten schema) and DROP TABLE (a rewritten   *)
(* schema and a removed file).                                             *)
(***************************************************************************)
EXTENDS CommitLogInv

CONSTANTS tbl, schema, hdr, page, v1, v2

MCFile  == {tbl, schema}
MCAddr  == {hdr, page}
MCValue == {v1, v2}

Update == {WriteEntry(tbl, page, v2), WriteEntry(tbl, hdr, v2)}

Both == {WriteEntry(tbl, page, v1), WriteEntry(schema, page, v1)}

CreateTable ==
  {CreateEntry(tbl), WriteEntry(tbl, hdr, v1),
   CreateEntry(schema), WriteEntry(schema, hdr, v2)}

DropTable ==
  {RemoveEntry(tbl), CreateEntry(schema), WriteEntry(schema, hdr, v1)}

MCTransactions == {Update, Both, CreateTable, DropTable}

\* The schema file exists; the table exists or is yet to be created.
MCInit ==
  /\ Init
  /\ fs[schema] = [a \in Addr |-> v1]
  /\ fs[tbl] \in {Absent, [a \in Addr |-> v1]}

\* The log exists already, so no new log's directory entry is at stake.
MCInitOldLog == MCInit /\ logFile

MCSpec     == MCInit /\ [][Next]_vars
MCFairSpec == MCSpec /\ Fairness
MCOldLogSpec == MCInitOldLog /\ [][Next]_vars
=============================================================================
