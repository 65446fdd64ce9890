------------------------------- MODULE Session ------------------------------
(***************************************************************************)
(* The tables of a session (vm.c): the table cache that owns every open    *)
(* table, the transaction's registry and the scanner that borrow them, and *)
(* the commits, discards and rollbacks that keep them and their files in   *)
(* step.                                                                   *)
(*                                                                         *)
(* A name stands for its hash.  An open table is an object on the heap,    *)
(* and a handle is a name with the address of its object: what a cache     *)
(* entry, the registry or a scanner keeps.  The generator opens one        *)
(* scanner in a statement, so there is one here.                           *)
(*                                                                         *)
(* A commit is one step with three outcomes (CommitLog): done, failed with *)
(* nothing written, or the process ends not knowing which.                 *)
(***************************************************************************)
EXTENDS Integers, FiniteSets

CONSTANTS
  Table,          \* the tables' names
  TableId,        \* the addresses table objects can have
  CacheSize,      \* TABLE_CACHE_SIZE
  MaxTxnTables,   \* MAX_TXN_TABLES
  Contents,       \* what a table can hold
  Nil             \* NULL: no file, no object, an empty cache entry

ASSUME CacheAssumption == CacheSize \in Nat \ {0} /\ MaxTxnTables \in Nat \ {0}

VARIABLES
  files,          \* what each table's file holds, Nil if there is none
  heap,           \* the table objects
  cache,          \* cache.resourceCache
  tableCachePtr,  \* the next entry the cache takes back (FIFO)
  active,         \* transaction.active
  registered,     \* transaction.tables
  scanner,        \* the open scanner's handle, or Nil
  before          \* the undo record of the statement that is running, or Nil

sessionVars ==
  <<files, heap, cache, tableCachePtr, active, registered, scanner, before>>
memory == <<heap, cache, tableCachePtr, active, registered, scanner, before>>

Slots == 0 .. CacheSize - 1
Handle == [name : Table, tbl : TableId]
\* dirty: it has uncommitted changes.  stale: its header fields are those of
\* changes that were discarded.
TableObject ==
  [name : Table, rows : Contents, dirty : BOOLEAN, stale : BOOLEAN]

UndoRecord == [rows : Contents, dirty : BOOLEAN]

ASSUME NilAssumption ==
  Nil \notin Contents \union Handle \union TableObject \union UndoRecord

SessionInit ==
  /\ files \in [Table -> Contents \union {Nil}]
  /\ heap = [n \in TableId |-> Nil]
  /\ cache = [i \in Slots |-> Nil]
  /\ tableCachePtr = 0
  /\ active = FALSE
  /\ registered = {}
  /\ scanner = Nil
  /\ before = Nil

-----------------------------------------------------------------------------
\* findTxnTable, as the question whether the transaction has the table.
InTxn(t) == active /\ \E h \in registered : h.name = t

tableInUse(n) ==
  \/ scanner # Nil /\ scanner.tbl = n
  \/ active /\ \E h \in registered : h.tbl = n

\* The handles a statement finds for a table that is open: the transaction's,
\* else the cache's (searchTableCache).
OpenHandles(t) ==
  IF InTxn(t) THEN {h \in registered : h.name = t}
  ELSE {cache[i] : i \in {j \in Slots : cache[j] # Nil /\ cache[j].name = t}}

\* Variant: the objects lose their changes, and stay in the cache.
keepTableCache(T, h) == cache' = cache /\ heap' = h

\* evictTableCache of each name in T, the heap being h before it.
evictTableCache(T, h) ==
  LET gone == {i \in Slots : cache[i] # Nil /\ cache[i].name \in T}
  IN  /\ cache' = [i \in Slots |-> IF i \in gone THEN Nil ELSE cache[i]]
      /\ heap' = [n \in TableId |->
                    IF \E i \in gone : cache[i].tbl = n THEN Nil ELSE h[n]]

\* discard of the objects in N: the rows are the file's again, the header
\* fields are not.
Discarded(N) ==
  [n \in TableId |->
     IF n \in N /\ heap[n] # Nil
     THEN [heap[n] EXCEPT !.rows = files[heap[n].name], !.dirty = FALSE,
                          !.stale = @ \/ heap[n].dirty]
     ELSE heap[n]]

\* The objects in N after their commit, and the files with their changes.
Committed(N) ==
  [n \in TableId |->
     IF n \in N /\ heap[n] # Nil THEN [heap[n] EXCEPT !.dirty = FALSE] ELSE heap[n]]
Pending(N) == {n \in N : heap[n] # Nil /\ heap[n].dirty}
Written(N) ==
  [t \in Table |->
     IF \E n \in Pending(N) : heap[n].name = t
     THEN heap[CHOOSE n \in Pending(N) : heap[n].name = t].rows ELSE files[t]]

\* The end of the process takes everything but the files.
ProcessEnds ==
  /\ heap' = [n \in TableId |-> Nil]
  /\ cache' = [i \in Slots |-> Nil]
  /\ tableCachePtr' = 0
  /\ active' = FALSE
  /\ registered' = {}
  /\ scanner' = Nil
  /\ before' = Nil

-----------------------------------------------------------------------------
(* openScanner                                                             *)

\* registerTxnTable, then beginStatement.  A transaction with no room for the
\* table leaves it in the cache, with no scanner on it.
Use(h, object) ==
  IF active /\ ~InTxn(h.name) /\ Cardinality(registered) >= MaxTxnTables
  THEN UNCHANGED <<registered, scanner, before>>
  ELSE /\ registered' = IF active THEN registered \union {h} ELSE registered
       /\ scanner' = h
       /\ before' = [rows |-> object.rows, dirty |-> object.dirty]

openOpenTable(t) ==
  /\ scanner = Nil
  /\ \E h \in OpenHandles(t) : Use(h, heap[h.tbl])
  /\ UNCHANGED <<files, heap, cache, tableCachePtr, active>>

Turn(k) == (tableCachePtr + k) % CacheSize

\* Variant: a table in use makes room like any other.
AllTurns == {k \in Slots : cache[Turn(k)] # Nil}

\* insertTableCache: the first entry that is empty, else, from the FIFO pointer
\* on, the first whose table nothing is using.
EmptySlots == {i \in Slots : cache[i] = Nil}
IdleTurns == {k \in Slots : cache[Turn(k)] # Nil /\ ~tableInUse(cache[Turn(k)].tbl)}
Least(S) == CHOOSE i \in S : \A j \in S : i <= j

\* The table t, just loaded at address n, goes into the cache at i.
Insert(t, n, i) ==
  LET h == [name |-> t, tbl |-> n]
      object == [name |-> t, rows |-> files[t], dirty |-> FALSE, stale |-> FALSE]
  IN  /\ cache' = [cache EXCEPT ![i] = h]
      /\ heap' = [m \in TableId |->
                    CASE m = n -> object
                      [] m # n /\ cache[i] # Nil /\ cache[i].tbl = m -> Nil
                      [] OTHER -> heap[m]]
      /\ Use(h, object)
      /\ UNCHANGED <<files, active>>

openNewTable(t, n) ==
  /\ scanner = Nil
  /\ OpenHandles(t) = {}
  /\ files[t] # Nil
  /\ heap[n] = Nil
  /\ CASE EmptySlots # {} ->
            Insert(t, n, Least(EmptySlots)) /\ UNCHANGED tableCachePtr
       [] EmptySlots = {} /\ IdleTurns # {} ->
            /\ Insert(t, n, Turn(Least(IdleTurns)))
            /\ tableCachePtr' = Turn(Least(IdleTurns) + 1)
       [] OTHER -> UNCHANGED sessionVars   \* all in use: the table is closed

-----------------------------------------------------------------------------
(* The statement on the table, and its end.                                *)

\* insertRecord, storePage, deleteRecord: the changes stay in memory.
changeTable(rows) ==
  /\ scanner # Nil
  /\ heap' = [heap EXCEPT ![scanner.tbl].rows = rows, ![scanner.tbl].dirty = TRUE]
  /\ UNCHANGED <<files, cache, tableCachePtr, active, registered, scanner, before>>

\* commitTables of the objects in N; with nothing to write it cannot fail.
commitTables(N, outcome) ==
  /\ outcome # "done" => Pending(N) # {}
  /\ files' \in CASE outcome = "done" -> {Written(N)}
                  [] outcome = "failed" -> {files}
                  [] outcome = "exited" -> {files, Written(N)}

\* closeScanner: the table commits unless the transaction has it.  A failed
\* commit has discarded the changes, and the table is closed.
closeScanner(outcome) ==
  LET n == scanner.tbl
  IN  /\ scanner # Nil
      /\ IF InTxn(scanner.name)
         THEN outcome = "done" /\ UNCHANGED <<files, heap>>
         ELSE commitTables({n}, outcome)
      /\ IF outcome = "exited" THEN ProcessEnds
         ELSE /\ scanner' = Nil
              /\ before' = Nil
              /\ UNCHANGED <<tableCachePtr, active, registered>>
              /\ CASE InTxn(scanner.name) -> UNCHANGED cache
                   [] ~InTxn(scanner.name) /\ outcome = "done" ->
                        heap' = Committed({n}) /\ UNCHANGED cache
                   [] OTHER -> evictTableCache({scanner.name}, Discarded({n}))

\* abortStatement: rollbackStatement gives the table back what was pending
\* before the statement; outside a transaction it is then discarded and closed.
abortStatement ==
  LET n == scanner.tbl
      back == [heap EXCEPT ![n].rows = before.rows, ![n].dirty = before.dirty]
  IN  /\ scanner # Nil
      /\ scanner' = Nil
      /\ before' = Nil
      /\ IF InTxn(scanner.name) THEN heap' = back /\ UNCHANGED cache
         ELSE evictTableCache({scanner.name}, back)
      /\ UNCHANGED <<files, tableCachePtr, active, registered>>

-----------------------------------------------------------------------------
(* Transactions, and statements that create and remove files.              *)

Objects == {h.tbl : h \in registered}
Names == {h.name : h \in registered}

beginTransaction ==
  /\ ~active
  /\ active' = TRUE
  /\ registered' = {}
  /\ UNCHANGED <<files, heap, cache, tableCachePtr, scanner, before>>

TransactionOver == active' = FALSE /\ registered' = {}

commitTransaction(outcome) ==
  /\ active /\ scanner = Nil
  /\ commitTables(Objects, outcome)
  /\ IF outcome = "exited" THEN ProcessEnds
     ELSE /\ TransactionOver
          /\ IF outcome = "done" THEN heap' = Committed(Objects) /\ UNCHANGED cache
             ELSE evictTableCache(Names, Discarded(Objects))
          /\ UNCHANGED <<tableCachePtr, scanner, before>>

discardTransaction ==
  /\ active /\ scanner = Nil
  /\ evictTableCache(Names, Discarded(Objects))
  /\ TransactionOver
  /\ UNCHANGED <<files, tableCachePtr, scanner, before>>

\* CREATE TABLE and DROP TABLE: the table's file is to hold rows, or to go
\* (Nil); an object left open under the name is closed first.
changeFile(t, rows, outcome) ==
  /\ ~active /\ scanner = Nil
  /\ files' \in CASE outcome = "done" -> {[files EXCEPT ![t] = rows]}
                  [] outcome = "failed" -> {files}
                  [] outcome = "exited" -> {files, [files EXCEPT ![t] = rows]}
  /\ IF outcome = "exited" THEN ProcessEnds
     ELSE /\ evictTableCache({t}, heap)
          /\ UNCHANGED <<tableCachePtr, active, registered, scanner, before>>

\* closeTableCache and the end of the process, or a crash.
endSession == ProcessEnds /\ UNCHANGED files

Outcome == {"done", "failed", "exited"}

\* The statement leaves its table with any rows, and CREATE and DROP leave a
\* file with any or none.
ChangeTable ==
  /\ scanner # Nil /\ heap'[scanner.tbl] # Nil
  /\ heap'[scanner.tbl].rows \in Contents
  /\ changeTable(heap'[scanner.tbl].rows)
ChangeFile(t, outcome) ==
  /\ files'[t] \in Contents \union {Nil}
  /\ changeFile(t, files'[t], outcome)

SessionNext ==
  \/ \E t \in Table :
       \/ openOpenTable(t)
       \/ \E n \in TableId : openNewTable(t, n)
       \/ \E o \in Outcome : ChangeFile(t, o)
  \/ ChangeTable
  \/ \E o \in Outcome : closeScanner(o) \/ commitTransaction(o)
  \/ abortStatement
  \/ beginTransaction
  \/ discardTransaction
  \/ endSession

SessionSpec == SessionInit /\ [][SessionNext]_sessionVars

-----------------------------------------------------------------------------
\* The session's variables keep their types.
SessionTypeOK ==
  /\ files \in [Table -> Contents \union {Nil}]
  /\ heap \in [TableId -> TableObject \union {Nil}]
  /\ cache \in [Slots -> Handle \union {Nil}]
  /\ tableCachePtr \in Slots
  /\ active \in BOOLEAN
  /\ registered \subseteq Handle
  /\ scanner \in Handle \union {Nil}
  /\ before \in UndoRecord \union {Nil}

CachedHandles == {cache[i] : i \in {j \in Slots : cache[j] # Nil}}

(***************************************************************************)
(* "The cache owns every open table: a statement's scanners and the active *)
(* transaction only borrow them" (vm.c): the objects on the heap are those *)
(* of the cache, one entry for each and one object for each name, and what *)
(* a scanner or the transaction has borrowed is still there.  Otherwise an *)
(* object leaks, is freed twice or used after it was freed, or two objects *)
(* write one file.                                                         *)
(***************************************************************************)
OpenTablesAreOwned ==
  /\ \A n \in TableId :
       heap[n] # Nil <=> \E h \in CachedHandles : h.tbl = n
  /\ \A i \in Slots : cache[i] # Nil =>
       /\ heap[cache[i].tbl] # Nil => heap[cache[i].tbl].name = cache[i].name
       /\ \A j \in Slots \ {i} : cache[j] # Nil =>
            cache[i].name # cache[j].name /\ cache[i].tbl # cache[j].tbl
  /\ scanner # Nil => scanner \in CachedHandles
  /\ active => registered \subseteq CachedHandles
  /\ ~active => registered = {}

(***************************************************************************)
(* "A table in the cache that nothing is using has no pending changes and  *)
(* matches its file, so it can be handed to the next statement as it is"   *)
(* (vm.c), after every failed statement, failed commit, DISCARD and DROP.  *)
(***************************************************************************)
IdleTablesMatchFiles ==
  \A n \in TableId : heap[n] # Nil /\ ~tableInUse(n) =>
    /\ ~heap[n].dirty /\ ~heap[n].stale
    /\ heap[n].rows = files[heap[n].name]
=============================================================================
