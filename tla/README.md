# A verification development for StripeSQL

StripeSQL is a single-process relational database in C: SQL text is compiled to
bytecode, a VM runs the bytecode over B+ trees of slotted pages, and a redo log
makes commits atomic. This directory holds TLA+ modules translated from that
code, TLC configurations that check them on small instances, and proofs, checked
by TLAPS, of the most important results for every value of the constants.

Paths like `tableIO.c:1309` mean `src/src/storage_engine/tableIO.c`, line 1309
(`vm.c`, `schema.c`, `lexer.c` and `parser.c` are in `src/src/SQL_interpreter/`,
`main.c` in `src/src/`). `PROJECT.json` maps every definition to its lines.

## 1. Inventory of the system

### How the parts interact

    main.c ---- text of one statement ----> lexer, parser, generator
      |  lock, recovery at start                      | bytecode
      v                                               v
    wal.c recover()                    vm.c: statements, transactions,
      ^                                      table cache, scanners, schema
      |                                    | findPage, insertRecord, ...
      |                                    v
      |                                bplus.c: tree of nodes over pages (page.c)
      |                                    | readNode, markNode, allocPage, ...
      |                                    v
      +---- log entries, marker ---- tableIO.c: dirty maps, undo, commit
                                           |            + cache.c (node cache)
                                           v
                                     tables/*.tbl, schema, stripe.log

Everything is one thread in one process; calls are synchronous. What makes the
program hard is therefore not interleaving but *time*: a process or an operating
system that dies at any point of a commit, a statement that fails at any point
of its work, copies of state (dirty map, undo record, node cache, header fields,
scanner, schema cache) that must agree after long sequences of calls, and
structural invariants of a tree that is edited through private copies of nodes.

### Components

| Component | State it keeps | Operations | What makes it correct |
|---|---|---|---|
| Write-ahead log (`wal.c`) | `stripe.log`: entries, checksums, commit marker; `manager` (open file, transaction ID, count) | `initManager`, `addLogEntry`, `markLogCommitted`, `resetLog`, `recover` | a complete log is durable before any file changes; it is emptied only when nothing of its commit can be lost; recovery is idempotent |
| Commit (`tableIO.c`, `commitTables`) | none of its own | log, mark, apply, sync, reset; exit 74 past the commit point | a commit is atomic and durable; a reported failure before the commit point never takes effect |
| Table I/O (`tableIO.c`) | per table: `pageDirty`, `nodeDirty`, `delete`, header fields, `statement_undo` | `markPage`, `markNode`, `markDelete`, `allocPage`, `allocNode`, `readNode`, `beginStatement`, `rollbackStatement`, `discard`, `applyTable` | a statement happens entirely or not at all; a failed one restores earlier pending versions; a reused table matches its file |
| Node cache (`cache.c`) | root and its children, in an open-addressed table | get, offer, update, remove, clear | what it returns is what the file holds |
| Stripe allocation (`tableIO.c`) | `pageFree`, `nodeFree`, stripe counts | `allocPage`, `allocNode` | no address is handed out twice, pages and nodes never overlap |
| B+ tree (`bplus.c`) | nodes: keys, children, parent, neighbours | `insertRecord`, `updateRecord`, `deleteRecord`, `readRecord`, `storePage` | every key is found where the search leads; parents, neighbours, bounds and occupancy stay consistent through splits, borrows and merges |
| Slotted pages (`page.c`) | sorted slots, entries, used bytes | `SPInsert`, `SPUpdate`, `SPDelete`, `SPSplit`, `SPSearch` | sorted, within capacity, min and max key right |
| Ordering keys (`ordering.c`) | none | `pkToOk`, `compareOrderingKeys` | order of encoded keys is the order of the keys |
| Address tables (`tableIO.c`) | entries by address, linear probing, count | `insertAddrTable`, `findAddrTable`, `removeAddrTable` | a map: growing and removing hide no other entry |
| VM (`vm.c`) | transaction registry (4 tables), table cache (16, FIFO), scanner, schema cache; for a statement, its code, stack and rows | `interpret`, the instructions of `run` | a table in use is never closed; an idle one is as its file; a scan visits each row once; a statement does what its text says, or nothing |
| Schema (`schema.c`) | hash table of tables, loaded when a statement needs it | create, drop, read, write | a table has a file exactly when it has a schema entry; entries stay findable |
| Lexer, parser, generator | none beyond a statement | compile | the program means what the text says; jumps land where they should, with the stack as it was |
| Shell (`main.c`, `file.c` lock) | lock file, pending query text | `main`, `repl`, `runFile`, `isolateQuery` | one process at a time; statements are cut where the lexer would cut them |

### Behaviours that are hard

`PROJECT.json` lists them under `hazards`, each at its line. In groups:

* **Crashes** in every step of a commit and of recovery, where the operating
  system may also lose any write that was not synced, including directory
  entries and the log's truncation.
* **Partial failure** of an I/O call before the commit point (the changes must
  be discarded and the log emptied), of the marker's own sync (undecided), and
  after the commit point (exit, recovery finishes); and of a read of the log in
  recovery, which the code does not tell from a log that is not there.
* **Stale copies**: header fields after `discard`, the node cache after a moved
  root is rolled back or a commit rewrites nodes, a log handle that stays open
  after a failed start, scanners over leaves that are merged away.
* **Long sequences**: statements inside a transaction that fail after others
  changed the same objects; inserts and deletes that reshape the tree.
* **Limits**: four tables in a transaction, sixteen in the cache, pages and
  nodes at capacity, the ends of stripes, hash tables that grow.
* **Two readings of one text**: the shell's splitter and the lexer both decide
  where strings and comments end; precedence, short circuits and the key search
  each decide what of a condition is evaluated.

## 2. Modules

| Module | Role |
|---|---|
| `LogEntries` | log entries, files, and what performing a set of entries does to them |
| `AtomicStore` | abstract specification of a commit |
| `CommitLog` | `commitTables`, `wal.c` and recovery, over a disk that can lose unsynced writes |
| `CommitLogInv` | its inductive invariant |
| `CommitLogProofs` | theorems about it |
| `MCCommitLog` | small instances for TLC |
| `StatementStore` | abstract specification of statements and transactions on one table |
| `TableStore` | one open table's memory: dirty maps, undo, header, node cache, statement and transaction life |
| `TableStoreProofs` | theorems about it |
| `MCTableStore` | small instance for TLC |
| `AddrTable` | the hash table from addresses to objects |
| `Stripes` | where pages and nodes go in a table's file |
| `Addresses` | one open table's changes as kept in address tables over the stripes; implements `TableStore` |
| `AddressesProofs` | theorems: the hash table is a map, objects do not overlap, and the maps implement `TableStore` |
| `MCAddresses` | small instance for TLC |
| `OrderedTable` | abstract specification of a table's rows by key |
| `BPlusTree` | one table's B+ tree: inserting, updating and deleting records, with every split, borrow and merge of nodes and division of pages |
| `BPlusTreeInv` | its inductive invariant |
| `BPlusTreeShape`, `BPlusTreeBalance`, `BPlusTreeProofs` | theorems about it: the tree's shape and searches; dividing, merging and balancing nodes; pages, the three calls, and the invariants |
| `MCBPlusTree` | small instance for TLC |
| `TableScan` | abstract specification of a scan that changes its own table |
| `Scanner` | the VM's scanner over `BPlusTree` |
| `MCScanner` | small instance for TLC |
| `Session` | the table cache, the transaction's registry, the scanner, and every commit, discard and rollback of tables |
| `Values`, `SchemaTable` | values of a statement; the schema's hash table |
| `Loops` | theorems: loops counted along |
| `Bytecode` | bytecode, what each kind of statement becomes, and when code is sound |
| `Ordering` | integer primary keys to ordering keys, and their comparison |
| `Interpreter` | shell, `interpret`, each instruction of `run`, over `Session` |
| `InterpreterProofs` | theorems about `Session`, `SchemaTable` and `Interpreter` |
| `Trees`, `Lexer`, `Parser`, `Generator` | SQL text to tokens, to a tree, to the code of expressions and of statements on rows |
| `Program` | the interpreter with these, and what it promises its user |
| `Sql` | reference: what a statement means, and how it is written |
| `Database` | abstract specification of a session |
| `MCInterpreter` | programs for TLC |

### 2.1 The commit protocol

`CommitLog` has two levels of storage. `fs`, `log` and `logFile` are what the
operating system shows, and survive the process. `held`, `named`, `logHeld` and
`logNamed` are *sets* of what a power loss may leave at each address, directory
entry and in the log: a write adds to the set and a sync leaves one member. The
phases `newlog, log, mark, sync, apply, reset, truncated` are the points
`commitTables` and `wal.c` pass through; `down` and `replay` are start-up and
recovery. The actions follow the calls:

| Code | Actions |
|---|---|
| `initManager`, `ensureLogOpen` | `Begin`, `BeginFails`, `SyncNewLog`, `SyncNewLogFails` |
| `logTable`, `logFileChange`, `addLogEntry` | `AddLogEntry(e)`, `LogFails` |
| `markLogCommitted` | `SyncEntries`, `WriteMarker`, `SyncMarker`, `MarkFails`, `SyncMarkerFails` |
| `applyTable`, `applyFileChange`, directory sync | `ApplyEntry(e)`, `SyncApplied(f)`, `FinishApply` |
| `resetLog` | `TruncateLog`, `SyncReset` |
| `recover`, `executeCommit`, `applyEntry` | `Start`, `ReplayEntry(e)`, `ReplayMissing(e)`, `SyncReplayed(f)`, `FinishReplay` |
| a failing open, seek or read of the log in them | `StartUnread`, `ReplayUnread(e)` |
| exit 74 | `Exit` |
| the environment | `Kill` (the process dies), `Power` (unsynced writes may be lost) |

A transaction is a set of entries: the dirty maps hold each address once and are
walked in hash order, so the model lets them be written in any order that puts a
file's CREATE first. An address stands for one separately written range, and a
damaged entry or object is one value, not its bytes.

Recovery does not tell a log it cannot read from one that is not there.
`StartUnread` goes on from a log that would not open (to `idle`) or whose length
or marker would not read (to `reset`), and `ReplayUnread` performs what is left in
`manager.entry`: the entry read before, or for the first one the log's last, which
the pass that checks the log left there (`redo` keeps it, and whether a file was
created or removed). `unread` remembers that recovery ever went on like this. From
there the code promises nothing of its files and the properties that speak of them
stop; what it still keeps is that no commit is appended to a leftover log
(`BeginFails` refuses it) and that no file changes ahead of its log. A read that
fails elsewhere (in `initManager`, or in the pass that checks the entries) ends the
commit or the start: that is in `BeginFails` and `Exit`.

`AtomicStore` says what the README of the program promises: a commit is decided
at one instant, is replied to truthfully, and a crash decides an undecided one
either way. `ImplementsStore` is the refinement; its commit point is the return
of the marker's sync, or the crash that leaves the marker on disk. The parts below
take a commit for this one step, so they too say nothing of a session that follows
a recovery with an unread log.

### 2.2 One table

`TableStore` is the memory of one open table. Its client, the B+ tree, may read
nodes, allocate, mark objects changed or deleted and move the root in any order,
with three habits of `bplus.c`: it touches only allocated addresses, never one it
has deleted, and marks every object it allocates and every node it makes the
root. The actions `OpenScanner`, `EndInTxn`, `EndAndCommit`, `AbortStatement`,
`BeginTransaction`, `Commit`, `Discard` and `CloseIdle` are what `vm.c` does to
the table, `Crash` and `CrashInCommit` what a restart does. A commit is a single
step here, because `CommitLog` implements `AtomicStore`; its failure before the
commit point discards the changes and closes the table, as both callers do.

`StatementStore` keeps three contents of the table: committed, current, and the
one the running statement began with. A failed statement goes back to the third,
a DISCARD to the first. The refinement maps the third to what the undo record
*would* put back, so it holds only if that record is complete at every moment.

### 2.3 The B+ tree

`BPlusTree` follows `bplus.c` function by function: one operator per function,
named for it, that takes the tree and returns it changed. `insertRecord`,
`updateRecord` and `deleteRecord` are one step each, since nothing else runs
meanwhile and a call that fails is undone by its statement (`TableStore`). The
code edits private copies of nodes and stores them when it is done, so an
operator takes the caller's copy of the node it changes apart from the tree: a
copy that is older than the node, and would overwrite it, can occur in the model
as it can in the code. An address stands for an object, a record is the room it
takes, a page the records it holds by key. The loops and recursive calls of the
code are `Rounds` of one step: as many as there are nodes, for a walk through the
tree, and each leaves alone a state that needs no more. `balanceTreeDelete` and
`mergeNode` call each other, a level up each time and as their last step, so their
round carries the copy of the node it came to (`RebalanceLevel`); `balanceTreeAdd`
makes room from the topmost full ancestor down (`Ancestors`).

Two branches of the code are never taken, and the model says so where it leaves
one out: `splitUpdateParent` finds no full parent, as `balanceTreeAdd` has just
made room (the branch is left out; `Occupancy` would break if it were needed),
and `balanceTreeDelete` never rebalances the parent of a leaf that borrowed
(the branch is kept). A root that is replaced by its only child stays in the
file unmarked (`bplus.c:782`): space that is never used again, which the model
forgets.

`Rows` maps the tree to the rows a scan meets: leaves from the left, along
`next`. That each call does to them what `OrderedTable` says is part of
`ImplementsScan` below.

### 2.4 Scans

`Scanner` extends the tree with what `vm.c` keeps of a scan: the address and a
copy of the leaf, the child index, the address and a copy of the page, the slot.
`openScanner`, `advanceScanner`, `scannerKeySearch`, `OP_REWIND`, `OP_UPDATE_COL`
and `OP_DELETE_ROW` are its actions, with `seekScanner`, which finds the
row again after an update divided its page, and `findPlace`, the place in the tree
after a deletion emptied a page and rebalanced its leaf. `TableScan` knows only rows, the keys still ahead and the key
the scan is on. `ImplementsScan` maps the pages and leaves the scanner has yet to
reach to those keys; rows move between pages under it, the keys must not.

### 2.5 Addresses

`TableStore` keeps its changes in functions and takes addresses from a set.
`Addresses` keeps them as `tableIO.c` does: three open-addressed tables, a
statement's undo record of three more, and the four allocation fields of the
header. `ImplementsTableStore` says that they are those functions and that set,
so growing, shifting entries back over a removed one (`removeAddrTable`) and
restoring an undo record slot by slot lose nothing, and the counts that decide
whether there is anything to commit are right. The hash of an address is chosen
at the start and stays. It is checked by `addresses` and proved in
`AddressesProofs`, so what is proved of `TableStore` holds of the hash tables.

### 2.6 The session

`Session` has every table of the database. An open table is an object on a heap,
and the cache, the registry and the scanner keep *handles* to it, so closing a
table that something still uses, closing one twice or opening one twice can
happen in the model. `Insert` evicts as `insertTableCache` does, in FIFO turn and
past tables in use. An object's `stale` marks header fields that `discard` leaves
behind. Commits have three outcomes, as `CommitLog` shows: done, failed with
nothing written, or the process gone. What the rows are is left open
(`Contents`); `SessionSpec` lets a statement leave any.

### 2.7 The program

`Program` is the whole program above the tree. `Lexer`, `Parser` and
`Generator` are functions from text to tokens to a tree to code, one operator per
function of the code, and recursive; `Interpreter` has them as parameters
(`Queries`, `Parse`, `munchData`), so that it can be proved about, and runs the code one instruction per step, with
a fault or a crash possible at each, over `Session`, whose `Contents` become rows
by key. `Sound` (`Bytecode`) says of code that whichever way it jumps it stays
inside itself and never misses an operand, an open scan or a row; `TypeOK` requires
it of all code that is about to run. Schemas are looked up in `SchemaTable`, the hash table with its triangular
probing. Statements of a batch file are cut by `isolateQuery`; a REPL line is one
statement.

A text is a sequence of words, and inside strings of single characters, so that
the places where strings, comments and statements end are decided by the code's
rules. Four conversions are modelled by what they do: a stored integer keeps its
low bits (`Truncate`, with `HalfRange` = 4, so that 4 is stored as -4), a row is
filed under its key's word with the sign bit flipped and scanned in the order of
those (`Ordering`, with `SignBit` = 8 and keys from -2 to 7), a truth value is
stored as 0 or 1, and division rounds towards zero.

The reference it is checked against has none of this: in `Sql` an expression is a
tree with a value, a statement changes a view of the database as a whole, and
`StatementText` writes it down with no parenthesis that precedence makes
unnecessary. `Database` runs statements over it: one at a time, wholly or not at
all, a transaction's together at its COMMIT. `ImplementsDatabase` is the
refinement, from the text to the rows that are shown and the files' contents.
`ImplementsSession` says that the instructions use the tables in no other way than
`SessionSpec` allows, so the theorems about it hold of the program.

## 3. Runs

| Run | Question | Distinct states |
|---|---|---|
| `commitlog_power` | two commits, crashes of the operating system, failing I/O and failing reads in recovery at any step: atomic, truthful, write-ahead, implements `AtomicStore`? Once faults stop, does every commit and every start end? | 253,220 |
| `commitlog_kill` | two commits when the process is killed, and the sync of the marker or of a new log may fail too: still all or nothing? | 143,195 |
| `tablestore` | any sequence of statements, failures, transactions, commits and crashes on one table: memory agrees with the file, implements `StatementStore`? | 931,596 |
| `addresses` | allocation, hash tables and rollback by undo record: implement `TableStore`, and no two objects overlap? | 229,179 |
| `bplus_deep` | three levels: do search, scan, links, parents, bounds and occupancy stay right through splits, borrows and merges of interior nodes? | 84,861 |
| `scanner` | records of several sizes, scans that update and delete any row they are on: each row met once, pages divided so that all fit, every call's result true? | 103,432 |
| `interpreter` | text to answer, over a cache of two tables, a fault or crash at any instruction: implements `Database`? Tables owned and true to their files, schema true, stack balanced, every statement ends? | 103,797 |
| `commitlog_marker`, `commitlog_newlog`, `commitlog_rerun`, `commitlog_unread`, `key_search` | see Findings | violations |

**What the properties say.** `AllOrNothing`: between commits the files are those
before or after the latest transaction. `ReplyIsTrue`: what the client was told
agrees with the files, also after later crashes. `CommittedLogIsReadable`:
recovery never refuses a log a crash can leave. `LogEmptyWhenIdle`: a log whose
truncation could still be lost would replay to the same files.
`OneTransactionPerLog`: no entry is appended after a leftover one. `WriteAhead` and
`ResetOnlyWhenDurable`: action properties on the order of syncs. All of these but
`CommittedLogIsReadable`, `OneTransactionPerLog` and `WriteAhead` speak of a program
whose recoveries could read their logs (`~unread`); `commitlog_unread` shows what
becomes of the others. For a table,
`CacheMatchesFile`, `IdleTableMatchesFile` and `NothingBeyondAllocated` relate
its copies to the file and to what a rollback would restore. For the tree,
`SearchFindsRows` (a search finds exactly what a scan meets), `CallsAnswerTruly`
and `ImplementsScan` are what its callers rely on; `LeavesAreLinked`,
`ParentsAgree`, `BoundsHold`, `Occupancy` and `NothingIsLost` are the structure
the code's own comments count on; `ScannerHoldsItsRow` says that the scanner's
copies are never older than the tree. For the session, `OpenTablesAreOwned` and
`IdleTablesMatchFiles` are the two comments on which the table cache rests;
`SchemaMatchesFiles` and `CachedSchemaIsTrue` keep files, schema file and cached
schema together; `StackIsBalanced` says that no way through a condition leaves an
operand behind.

**Bounds.** Two files of two addresses and two values give the four shapes of a
commit: a statement's changes, a COMMIT over two files, CREATE TABLE (a new file
and a rewritten schema) and DROP TABLE. `MaxTxns` = 2 lets a log left by one
commit meet the next one; `MaxFaults` = 3 allows a failure in a commit, a crash,
and a crash or a failing read in its recovery. More faults repeat these. The run of `TableStore`
needs no bound on its length: with two node addresses, one page address, two
objects and a cache of one node the state space is finite and explored
completely. A cache of one node makes "full" and "not offered" happen; one of the
objects names the first node as its parent, so that both cached positions (root,
child of the root) occur. The theorems below remove these bounds.

The trees are explored completely too, from the empty tree by every sequence of
calls. Trees equal up to the names of their addresses are explored once (`View`
names a node by its place in the tree; the addresses of pages never matter). In
`scanner` a page has room for three small records or one large one, with a size
that fits in no page, and M = 5, odd like the build's 45: six keys are enough for
two levels, for the division that must be retried and for an update that makes
three pages of one, and a scan is open over each such tree, on each of its rows.
In `bplus_deep` every page holds one record and M = 4, the least that can be
halved twice: eleven pages make a third level, and with twelve every way to split,
borrow, merge and shrink at the second occurs. An odd M with three levels, or a
scan over three, is beyond TLC here.

`addresses` has two units of a stripe with one node and two with one page each,
and four changes: enough to pass every stripe's end, for pages to reach the second
unit before nodes do, and for a table to grow (`FirstCapacity` = 4 instead of 8)
and be rolled back. Of the possible hashes three are tried: one probe run that
wraps around the end of the table, one that growth parts, and two runs that meet.

`interpreter` runs sessions of up to four lines (`MaxCost`) from thirteen
statements on two tables and a line that is no statement, with one fault or crash
at any step (`MaxFaults`). A cache of two tables with one in a transaction
(`CacheSize` = 2, `MaxTxnTables` = 1) keeps the build's relation (16 > 4): the
cache can be full while a transaction holds a table. Expressions and batch files
cost as much as a whole session, so each runs alone: every operator, each
comparison under NOT and on either side of AND and OR, two levels of nesting, NULL,
BETWEEN, IN, LIKE, division by zero; failures in the middle of a batch,
transactions left open at its end, quotes and semicolons in strings and comments,
and the statements that are parsed and do nothing. The three names of tables hash
to slots that collide.

**Deadlock** is not checked where `MaxTxns` stops the clients or `MaxCost` the
user: the model then really has nothing left to do. It is checked for
`TableStore`, `Addresses`, `BPlusTree` and `Scanner`.

**Fairness.** `commitlog_power` assumes weak fairness of `Progress` (a running
process takes its next step: the code is sequential and waits for nobody) and of
`Start` (the user restarts a dead process). `interpreter` assumes weak fairness of
`Run`, the loop of `run()` and the shell around it, and nothing of the user, who
may never type a line. Nothing is assumed of faults: they end because they are
bounded, and `EventuallyIdle` and `EveryStatementEnds` say what happens then. The
first needs `~unread` too: a CREATE TABLE half of which recovery discarded leaves a
file with an unsynced name, the next commit logs a write to it, a power loss takes
the file, and every later start fails to finish that log (`ReplayMissing`). The
latter depends on every jump back, as well as on the scan moving on.

**Variants.** A definition marked "Variant" is a mistake the code could contain;
it is no part of any specification. Each property is violated when one of them
takes the place of the definition it sits beside, so no property holds by the
shape of the model.

## 4. What is proved

For every set of files, addresses, values and transactions, every number of
commits and faults:

* `CommitLogProofs` (2,956 obligations): for every set of faults, `LogInvariance`,
  `TypeCorrect`, `Readability` and `SeparateLogs`; for those of `SafeFaults`,
  `WriteAheadLogging`, and, until recovery goes on from a log it could not read,
  `Invariance`, `Atomicity`, `Truthfulness`, `Discarding`, `EmptyBetweenCommits`,
  `DurableReset` and `Refinement`.
* `TableStoreProofs` (785 obligations): `Invariance`, `TypeCorrect`,
  `CacheCoherence`, `IdleTables`, `Allocation` and `Refinement`.
* `AddressesProofs` (4179 obligations): `InsertIsUpdate`, `RemoveIsUpdate` and
  `CountTellsEmpty`, for every capacity, every hash and any number of entries;
  `LayoutInvariance` and `NoOverlap`, for every size of header, node, page and
  stripe; `MapsStaySound` and `AddressesImplementTableStore`, for every hash as well.
* `BPlusTreeShape`, `BPlusTreeBalance` and `BPlusTreeProofs` (7814, 6709 and 5456
  obligations): `TreeInvariant`, `TreeTypeCorrect`, `LookupsAgreeWithScans`,
  `LeavesStayLinked`, `ScansAscend`, `NodesStayHalfFull`, `ParentsAlwaysAgree`,
  `BoundsAlwaysHold`, `NothingIsEverLost`, `PagesAlwaysFit` and `ResultsStayTrue`, for
  every set of keys, every size of records, every page capacity, every order of the tree
  from 4, trees of any height and calls without end.
* `InterpreterProofs` (5183 obligations): of `Session`, `SessionInvariance`,
  `SessionTypeCorrect`, `Ownership` and `IdleTables`, for every size of the cache
  and of a transaction, any number of tables and whatever they hold; of the schema's
  table, `Doubling`, `Inserted`, `Loaded`, `FileWrittenWithout` and `SearchesEnd`, for
  every hash and any number of tables; of the machine, `KeysKeepTheirOrder`, for every
  width of a word, and `Invariance`, `SessionImplemented`, `TypeCorrect`,
  `StackBalanced`, `SchemaMatches` and `SchemaCacheTrue`, for any programs, tables, keys
  and hashes, any number of statements, faults and crashes.
* `Loops` (99 obligations): what they share.

**Assumptions.** The named ASSUMEs of the modules (distinct markers, types of the
constants). The theorems on `CommitLog`, but for the four that hold for every set of
faults, also assume `SafeFaults`: the combinations
of faults that `commitlog_marker`, `commitlog_newlog` and `commitlog_rerun` do not
refute (no failing sync of the marker; with crashes of the operating system, no
separate kills and no failing sync of a new log; failing I/O calls and failing reads
in recovery are allowed). What `commitlog_unread` refutes is left out by the `~unread`
in the statements: they hold up to the step in which recovery goes on from a log it
could not read, and cover a failing read that stops it. Those about what a power loss may find assume `LosesPower`
where it matters. The theorems on `TableStore` assume nothing else; those on
`Session` assume `CacheAssumption` and `NilAssumption` (sizes are not zero, NULL is
no object), `KeysKeepTheirOrder` only `SignBitAssumption` (a word has a sign bit).
Those on `SchemaTable` assume of the first capacity that probing comes to all of its
slots (`CapacityAssumption`, which TLC evaluates; `Doubling` extends it to the
capacities that follow) and of names that they have hashes and none is empty
(`Hashed`). The theorems on `Interpreter` have two hypotheses. `Contents = Rows`, by
which the runs too give `Contents` its value: what `Session` leaves open are rows by
key. And `[]CodeIsSound`: code that starts to run was found sound. This is the
contract between generator and machine. It speaks of `generate` only, which is
recursive over trees and cannot be proved about, and is checked by `interpreter` for
each of its programs as a part of `TypeOK`. Code that creates or drops tables needs no such
hypothesis. Their other assumptions are on the types of constants
(`NamesAssumption`, `DatabasesAssumption`, `ProgramsAssumption`, `TreesAssumption` and
so on in `Interpreter`). Those on
`AddrTable` assume `CapacityAssumption` (the first capacity is at least two, where the
code has 8) and that no address is 0 (`Hashed`), which the header sees to. `NoOverlap`
assumes only `GeometryAssumption` (sizes are not zero); the refinement also
`LayoutAssumption` (the addresses are those the stripes have room for, up to a bound),
`HashAssumption` (a hash is a number) and `MarkersAssumption`. Those on `BPlusTree`
assume that keys are numbers and the least ordering key is one of them
(`KeyAssumption`), that no record is empty (`SizeAssumption`), and that a node has room
for four children (`OrderAssumption`, where the build has 45).

**The arguments.** A property of `CommitLog` speaks of the moments between
commits, but what makes it true is what a crash at *any* moment would find. So
`IInv` relates every log that may be found to the files that may be found with
it: a complete log must be `Redoable` (performing it from whatever a crash
leaves gives an allowed result, because the entries overwrite everything they
touch and everything else is as it was), and an incomplete one must find the
files `Quiet`. The lemma behind recovery's idempotence is `RedoCompletes`:
files on which all of a log was performed are its `Effect`, wherever they began.
A skipped log ends what `IInv` says, as files and log then belong to different
commits. `LogInv` holds always, and `HeldLog` for the safe faults: what the log holds
in each phase (`LogShape`), that a committed one stays until it is emptied, and that
a step writes only to files that are there (`FilesThere`). Write-ahead needs no more.

For `TableStore` the invariant adds that *what a rollback would restore obeys the
same conditions as what is pending*, and that a header differing from the file's
comes with a dirty object (`HeaderMarked`), without which `commitTables` would
skip the table and leave an idle one with a header its file does not have.

For `Session`, `OpenTablesAreOwned` and `IdleTablesMatchFiles` need each other:
closing frees the right object because each has one entry, and may free it because
an idle one has nothing to lose. The invariant adds what holds while a table is
*not* idle: an object differs from its file only while the scanner or the
transaction has borrowed it, the undo record of a statement outside a transaction
is the file's contents (so that what `abortStatement` closes may be read again), and
an open table has a file. By `SessionImplemented` the two theorems also speak of the
program's instructions.

An entry of the schema is found (`Holds`) because the slots that probing passes on
the way to it are taken. Triangular probing comes to every slot of a table of a power
of two, which `Doubling` shows of 2C from C: the steps from C to 2C - 1 mirror those
before them (`Mirrored`) and lead to the other half. With the load below four fifths
a search then ends. A deletion breaks this, and the proof shows why that does no harm: the
table is written to the file and loaded anew before it is searched again
(`CacheInv`), and `writeEntries` does not probe.

For `Interpreter`, `Invariance` ties the machine to an analysis of its code
(`Shapes`): before each instruction the stack has the depth the analysis computed,
all of it data but for the name on top that `OP_OPEN_SCAN` takes; a scan is open where it says
so, and on a row where it says so (`Running`, `Fits`). Each instruction keeps that,
wherever it jumps (`Follows`), so none fails for want of operands, and
each call on `Session` is made when `Session` allows it: this is what the refinement
needs. `SchemaInv` says that the schema file has each table with a file once, and what the
cached schema holds meanwhile: what the file has, or, between the generation of a
CREATE or DROP and its commit, also the entry that is about to be written.

For the stripes (`LaidOut`), each object lies in a stripe of its kind and before
that kind's free byte, and the free byte is a whole number of objects into the
last stripe in use. That must hold of three headers, the table's, its file's and
the undo record's, because rollback and discard bring the other two back. Stripes
of two kinds do not meet (`KindsAreApart`), and within a kind the free byte only
grows (`PageAllocated`, `NodeAllocated`).

An address table is right (`Table`) while every entry can be found (`Searchable`:
from its hash on to it, every slot is taken, by another address), its count is that
of its entries, and a fifth of its slots is empty, so that a probe ends. The hard
step is `removeAddrTable`. While it shifts entries back the table has a hole, and
the invariant (`Shifting`) says that only entries the loop has yet to reach may need
the hole filled; when it meets an empty slot there are none. Loops, here and in
`applyTable` and `rollbackStatement`, are functions over a range. The library's
induction cannot be cited, so a loop is taken for the sequence of the states it goes
through (`Iteration`) and counted along (`Counting`: a set of numbers that is not
empty has a least one).

The refinement rests on `AInv`: the layout, a sound table for each of the six maps
(`Maps`), and a root and objects within the layout for each of the three headers
(`Fits`). Given it, each action maps to the one of `TableStore`, or to a stutter, with
the maps read through `findAddrTable`. The work is in the two loops that walk one
table while they change another (`MapsRolledBack`, `ViewDrained`).

What makes the tree right is spread over its nodes' fields, and some of it no field
has. So the invariant (`Good` and `Roomy` of `BPlusTreeInv`) claims three functions on
the nodes: a height, the lower bound of a node's keys, and the node that follows it at
its height. With them every condition is about a node and its parent, child or
neighbour alone: a child is one lower than its parent, its bounds are those its parent
has for it, it is followed by the next child, or, if it is the last, by the first
child of the node that follows its parent, and a leaf's links are that order. There is no
recursion in it. What runs ask of whole trees follows by walking: down from the root
for searches and bounds, since heights fall; along the leaves for scans, since bounds
rise (`ScanIs`, `SearchFinds`).

`ScanIsOrdered`, say, is not inductive, as a scan goes by links that a merge rewrites and
a merge by parents that a split rewrites. While a call is under way the invariant
holds but for one place, and its parameters say which: a page that is not yet in any
leaf (`loose`), a node that is above its parent's bound for it (`over`), a node one
child below half (`but`). Splits and merges of leaves and of interior nodes are one
lemma each way (`Apart`, read as what is divided or as what is joined), borrowing
moves the boundary between two neighbours. `balanceTreeAdd` and `balanceTreeDelete`
are sequences of states, climbing by parents, which ends since heights rise and are
at most the number of nodes. That a split never finds its parent full, and a merge or
borrow always finds a sibling, is `Roomy`; that a caller's copy of a node is never older
than the node is part of what each lemma shows.

**Only model-checked.** `EventuallyIdle` and `EveryStatementEnds` (liveness is out
of the prover's reach); atomicity when the marker's sync can fail
(`commitlog_kill`); `ImplementsDatabase`, and that generated code is sound,
since lexer, parser, generator and `Sql` are recursive; and the scanner
(`ScannerHoldsItsRow`, `CallsAnswerTruly`, `ImplementsScan`), whose tree is the one proved
about.

## 5. Findings

Five runs show the code doing something other than it says. The first four need
a failure the tests of the repository do not inject.

* `commitlog_marker`: when the sync after the marker fails, the statement is
  reported as discarded while the log is complete; a kill before `resetLog`
  makes the next start commit it (`wal.c:229`).
* `commitlog_newlog`: when the directory sync of a new log fails, the log handle
  stays open, so no later commit syncs the directory, and a power loss can take
  the log of a half-applied commit (`wal.c:110`).
* `commitlog_rerun`: recovery applies a log it has not synced; killed between
  writing and syncing the marker, then an operating-system crash during
  recovery, leaves part of a commit (`wal.c:348`).
* `commitlog_unread`: recovery takes a log that fails to open for no log
  (`wal.c:351`), one whose length or marker fails to read for an uncommitted one,
  which it empties (`wal.c:325`), and performs a stale buffer in place of an entry
  that fails to read (`wal.c:287`); in each case the program runs on part of a commit,
  where the comment (`wal.c:344`) says that the commit is retried or the start refused.
* `key_search`: a condition whose leftmost comparison is `key = literal` becomes a
  search for that key, and the rest of it is dropped: `id = 1 OR x = 3` misses
  rows, `id = 1 AND x = 3` finds a row too many, `NOT id = 1` finds the row it
  excludes (`generator.c:78`).

The programs of `interpreter` avoid what `key_search` shows, and the following,
which no document of the repository decides:

* UPDATE of the primary-key column changes the stored value and not the slot's key
  (`vm.c:987`): a search by key and a scan then disagree. UPDATE of an unknown
  column writes through index 255.
* `+ - * /` on text and LIKE on integers are not rejected; `OP_DIVIDE` reads its
  operand before it checks the stack, and looks only for an integer's or a float's
  zero: `1 / (1 = 2)` or `1 / NULL` is undefined in C (`vm.c:745`, modelled: the
  quotient is 0, or the process ends). A column that is stored as NULL is read as a
  number of four bytes. An INSERT with the wrong number of values is not rejected.
* `id = NULL` searches for the key that NULL's zero bits make; a primary key is
  stored in 32 bits and searched in 64.
* The splitter takes `\'` for an escaped quote and the lexer does not; a string
  that does not end is dropped without a message. In the REPL the text after the
  first statement is ignored.
* More than 256 constants, or 64 values in an IN list, overflow their counters.
* `CREATE VIEW y AS SELECT ...`, which the grammar seems to be meant for, ends the
  process, as `SELECT` is expected to have been consumed (modelled, and in the batch
  files); a `;` after nothing but a comment is an error.
* The README of the program says that COMMIT closes its tables; they stay cached.

## 6. Plan

Done: the commit protocol (checked, proved), one table's memory (checked, proved),
its address tables and stripes (checked, proved), the B+ tree and the division of its
pages (checked, proved), scans over it (checked), the session's tables, the schema and
the machine (checked, proved), and the program from text to answer (checked). What is left, in this order:

1. **Slotted pages**: the arrays of slots and entries of `page.c` and their
   compaction, as an implementation of the pages of `BPlusTree`.
2. **Failing reads** inside the tree: `BPlusTree` reads every object it asks for;
   `TableStore` and `Session` already undo the statement of a failed one.
3. **Proofs**: the scanner over the tree, and with it that each call changes the rows
   as `OrderedTable` says.

## 7. Not modelled

* **Text and floating-point keys** (`ordering.c`): conversions of a key to bytes
  that compare like it, without state. Below `Interpreter` keys are numbers.
* **Process lock** (`file.c`): one system call that the kernel makes atomic, and an
  exit when it fails. Every module assumes the single process it gives.
* **Slot arrays, and the bytes** of pages, nodes, rows, headers and log entries,
  and the checksum: a damaged object is one value. The slots of the node cache are
  probed as those of the address tables are, and not modelled a second time.
* **Floats and decimals**, the width of integers in arithmetic (a stored integer's
  is kept), the sizes of the constant pool and the stack. The model of the parser
  does not tell apart what follows a first error.
* **Debug printing, memory helpers, test drivers**: no behaviour of their own.
  Memory exhaustion is ignored, as the code ignores it almost everywhere.
