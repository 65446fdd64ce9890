------------------------------- MODULE Program ------------------------------
(***************************************************************************)
(* The whole program: the interpreter with its splitter, lexer, parser and *)
(* generator, and what it promises its user.                               *)
(***************************************************************************)
EXTENDS Interpreter, Generator

\* The queries of a batch, with what follows each; a line is one query.
RECURSIVE queriesOf(_)
queriesOf(text) ==
  IF text = <<>> THEN <<>>
  ELSE LET q == isolateQuery(text) IN <<q>> \o queriesOf(q.rest)
ProgramQueries(p) ==
  IF p.mode = "file" THEN queriesOf(p.text) ELSE <<[query |-> p.text, rest |-> <<>>]>>

\* The tree of each query there can be; with no token there is nothing to do.
TreeOf(ts) == IF Len(ts) = 1 THEN NoStatement ELSE compile(ts)
Tree == [q \in Query |-> TreeOf(lexQuery(q))]
QueryTree(q) == Tree[q]

-----------------------------------------------------------------------------
(* What a user sees.                                                       *)

Decided ==
  \/ phase = "reply"
  \/ phase = "run" /\ (vm.failed \/ vm.code[vm.ip].op = "HALT")
Succeeded == IF phase = "reply" THEN ok ELSE ~vm.failed

\* The rows of a table that the next statement will find, if this one fails.
Seen(t) ==
  CASE scanner # Nil /\ scanner.name = t -> before.rows
    [] InTxn(t) /\ ~(scanner # Nil /\ scanner.name = t) ->
         heap[(CHOOSE h \in registered : h.name = t).tbl].rows
    [] OTHER -> files[t]

\* The database whose tables hold rows[t].
Tables(rows) ==
  LET entry(t) == CHOOSE i \in DOMAIN schemaFile : schemaFile[i].name = t
  IN  [t \in {schemaFile[i].name : i \in DOMAIN schemaFile} |->
         [cols |-> schemaFile[entry(t)].cols,
          rows |-> [pk \in {PkOf[k] : k \in Present(rows[t])} |->
                      rows[t][pkToOk(pk)]]]]

Db == INSTANCE Database WITH
        Programs <- {[mode |-> p.mode, script |-> p.script] : p \in Programs},
        db       <- Tables(files),
        txn      <- IF active
                    THEN [view |-> Tables([t \in Table |-> Seen(t)]),
                          used |-> Names, open |-> TRUE]
                    ELSE [view |-> <<>>, used |-> {}, open |-> FALSE],
        status   <- CASE phase \in {"off", "idle"} -> "idle"
                      [] Decided -> "done"
                      [] OTHER -> "asked",
        outcome  <- IF Decided
                    THEN [ok   |-> Succeeded,
                          rows |-> IF Succeeded /\ vm.print THEN vm.rows ELSE <<>>]
                    ELSE [ok |-> TRUE, rows |-> <<>>]

(***************************************************************************)
(* Whatever is typed, and whatever faults and crashes come between, the    *)
(* program does what Database promises: each statement has the meaning Sql *)
(* gives it and the answer that goes with it, or fails and changes         *)
(* nothing; a transaction is all or nothing; a batch runs statement by     *)
(* statement to its end or its first error (README, "Transactions" and     *)
(* "Running").                                                             *)
(***************************************************************************)
ImplementsDatabase == Db!Spec
=============================================================================
