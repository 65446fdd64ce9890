----------------------------- MODULE TableStore -----------------------------
(***************************************************************************)
(* One open table of StripeSQL in memory: the dirty hashmaps, the undo     *)
(* record of the running statement and the header fields (tableIO.c), the  *)
(* node cache (cache.c), and the life a statement and a transaction give   *)
(* them (openScanner, closeScanner, abortStatement, BEGIN TRANSACTION,     *)
(* COMMIT and DISCARD in vm.c).                                            *)
(*                                                                         *)
(* The B+ tree is the client: between openScanner and closeScanner it may  *)
(* read nodes, allocate addresses, mark objects changed or deleted and set *)
(* the root in any order, with three habits of bplus.c kept: it touches    *)
(* only allocated addresses, never one it has deleted, and it marks every  *)
(* object it allocates and every node it makes the root.                   *)
(*                                                                         *)
(* Simplifications: pageDirty and nodeDirty are one map, as are the undo   *)
(* record's (stripes keep page and node addresses apart); the four         *)
(* allocation fields are the set of addresses handed out; a commit is one  *)
(* step, as CommitLog shows it may be taken to be.  A definition marked    *)
(* "Variant" is no part of Next: see CommitLog.                            *)
(***************************************************************************)
EXTENDS Naturals, FiniteSets

CONSTANTS
  NodeAddr,    \* addresses of nodes
  PageAddr,    \* addresses of pages
  Object,      \* contents of nodes and pages
  Parent,      \* Parent[n]: the address n names as its parent
  CacheSize,   \* nodeCache.maxNodes
  Unreadable,  \* what the file holds where no object is, or a deleted one
  None,        \* an address a map does not hold
  Unsaved      \* an address the statement has not changed

Address == NodeAddr \union PageAddr

ASSUME ParentAssumption == Parent \in [Object -> NodeAddr \union {None}]
ASSUME CacheSizeAssumption == CacheSize \in Nat
ASSUME MarkersAssumption ==
  /\ Unreadable \notin Object
  /\ None \notin Object
  /\ Unsaved \notin Object
  /\ None # Unsaved /\ None # Unreadable /\ Unsaved # Unreadable

VARIABLES
  file,        \* the objects in the table's file
  fileHeader,  \* the header in the table's file
  open,        \* whether the table is in the table cache
  header,      \* the table struct's root and allocation fields
  dirty,       \* pageDirty and nodeDirty
  deleted,     \* delete
  cache,       \* nodeCache
  running,     \* undo.active: a statement is using the table
  saved,       \* undo.pages and undo.nodes: prior pending versions
  unmarked,    \* undo.deletes: addresses with no delete mark before
  savedHeader, \* undo's header fields
  inTxn,       \* transaction.active
  registered   \* whether the transaction holds the table

disk   == <<file, fileHeader>>
memory == <<open, header, dirty, deleted, cache>>
undo   == <<running, saved, unmarked, savedHeader>>
txn    == <<inTxn, registered>>
vars   == <<disk, memory, undo, txn>>

Header == [root : NodeAddr, used : SUBSET Address]

Nothing == [a \in Address |-> None]
NoNodes == [a \in NodeAddr |-> None]
NoChange == [a \in Address |-> Unsaved]

Init ==
  /\ file \in [Address -> Object \union {Unreadable}]
  /\ fileHeader \in Header
  /\ fileHeader.root \in fileHeader.used
  /\ \A a \in Address : file[a] # Unreadable => a \in fileHeader.used
  /\ open = FALSE
  /\ header = fileHeader
  /\ dirty = Nothing
  /\ deleted = {}
  /\ cache = NoNodes
  /\ running = FALSE
  /\ saved = NoChange
  /\ unmarked = {}
  /\ savedHeader = fileHeader
  /\ inTxn = FALSE
  /\ registered = FALSE

-----------------------------------------------------------------------------

\* The struct is freed; a table that is not open is given its file's header.
Close(h) ==
  /\ open' = FALSE
  /\ header' = h
  /\ dirty' = Nothing
  /\ deleted' = {}
  /\ cache' = NoNodes

\* freeUndo
FreeUndo ==
  /\ running' = FALSE
  /\ saved' = NoChange
  /\ unmarked' = {}
  /\ UNCHANGED savedHeader

\* openScanner: loads the table unless it is open (loadTable reads the
\* header), registers it with the transaction and begins the statement.
OpenScanner ==
  /\ ~running
  /\ open' = TRUE
  /\ registered' = inTxn
  /\ running' = TRUE
  /\ savedHeader' = header
  /\ UNCHANGED <<disk, header, dirty, deleted, cache, saved, unmarked, inTxn>>

\* Variant: the latest version is remembered, not the first.
RememberLatest(a) == saved' = [saved EXCEPT ![a] = dirty[a]]

\* rememberPage, rememberNode: the version before the statement's first change.
Remember(a) ==
  saved' = IF saved[a] = Unsaved THEN [saved EXCEPT ![a] = dirty[a]] ELSE saved

\* markPage, markNode
Mark(a, o) ==
  /\ running
  /\ a \in header.used \ deleted
  /\ Remember(a)
  /\ dirty' = [dirty EXCEPT ![a] = o]
  /\ UNCHANGED <<disk, open, header, deleted, cache, running, unmarked,
                 savedHeader, txn>>

\* markDelete, with rememberDelete
MarkDelete(a) ==
  /\ running
  /\ a \in header.used \ (deleted \union {header.root})
  /\ unmarked' = unmarked \union {a}
  /\ deleted' = deleted \union {a}
  /\ UNCHANGED <<disk, open, header, dirty, cache, running, saved,
                 savedHeader, txn>>

\* allocPage, allocNode, and the marking of the object they made room for
Alloc(a, o) ==
  /\ running
  /\ a \notin header.used
  /\ header' = [header EXCEPT !.used = header.used \union {a}]
  /\ Remember(a)
  /\ dirty' = [dirty EXCEPT ![a] = o]
  /\ UNCHANGED <<disk, open, deleted, cache, running, unmarked, savedHeader,
                 txn>>

\* setRoot, and the marking of the new root beside it
SetRoot(a, o) ==
  /\ running
  /\ a \in header.used \ deleted
  /\ header' = [header EXCEPT !.root = a]
  /\ cache' = NoNodes
  /\ Remember(a)
  /\ dirty' = [dirty EXCEPT ![a] = o]
  /\ UNCHANGED <<disk, open, deleted, running, unmarked, savedHeader, txn>>

\* readNode of a node that is neither dirty nor cached: nodeCacheOffer.
ReadNode(a) ==
  /\ running
  /\ dirty[a] = None /\ cache[a] = None
  /\ file[a] # Unreadable
  /\ a = header.root \/ Parent[file[a]] = header.root
  /\ Cardinality({n \in NodeAddr : cache[n] # None}) < CacheSize
  /\ cache' = [cache EXCEPT ![a] = file[a]]
  /\ UNCHANGED <<disk, open, header, dirty, deleted, undo, txn>>

-----------------------------------------------------------------------------

\* What the session reads, and what a commit would make of the file.
View(a) ==
  IF a \in deleted THEN Unreadable
  ELSE IF dirty[a] # None THEN dirty[a]
  ELSE file[a]

\* Variant: the cached nodes do not follow the file.
ApplyKeepsCache ==
  /\ file' = [a \in Address |-> View(a)]
  /\ fileHeader' = header
  /\ dirty' = Nothing
  /\ deleted' = {}
  /\ UNCHANGED <<open, header, cache>>

\* applyTable: dirty objects are written, deleted ones marked as garbage, the
\* header is written, and the cached nodes follow the file.
Apply ==
  /\ file' = [a \in Address |-> View(a)]
  /\ fileHeader' = header
  /\ dirty' = Nothing
  /\ deleted' = {}
  /\ cache' = [a \in NodeAddr |->
                 IF cache[a] = None \/ a \in deleted THEN None
                 ELSE IF dirty[a] # None THEN dirty[a]
                 ELSE cache[a]]
  /\ UNCHANGED <<open, header>>

IsDirty == dirty # Nothing \/ deleted # {}

\* Variant: after a failed commit the table stays open.
CommitTableKeepsOpen ==
  \/ ~IsDirty /\ UNCHANGED <<disk, memory>>
  \/ IsDirty /\ Apply
  \/ /\ IsDirty
     /\ dirty' = Nothing
     /\ deleted' = {}
     /\ UNCHANGED <<disk, open, header, cache>>

\* commitTables: a table with nothing pending is skipped, header included.  A
\* commit that fails before its commit point discards the changes, and its
\* caller evicts the table.
CommitTable ==
  \/ ~IsDirty /\ UNCHANGED <<disk, memory>>
  \/ IsDirty /\ Apply
  \/ IsDirty /\ Close(fileHeader) /\ UNCHANGED disk

\* closeScanner inside a transaction
EndInTxn ==
  /\ running /\ registered
  /\ FreeUndo
  /\ UNCHANGED <<disk, memory, txn>>

\* closeScanner outside a transaction
EndAndCommit ==
  /\ running /\ ~registered
  /\ FreeUndo
  /\ CommitTable
  /\ UNCHANGED txn

\* Variant: objects the statement added stay pending.
RollbackKeepsAdded ==
  /\ dirty' = [a \in Address |-> IF saved[a] \in {Unsaved, None}
                                  THEN dirty[a] ELSE saved[a]]
  /\ deleted' = deleted \ unmarked
  /\ header' = savedHeader
  /\ cache' = IF header.root # savedHeader.root THEN NoNodes ELSE cache
  /\ UNCHANGED open

\* Variant: every address is put back, the unchanged ones too.
RollbackAll ==
  /\ dirty' = saved
  /\ deleted' = deleted \ unmarked
  /\ header' = savedHeader
  /\ cache' = IF header.root # savedHeader.root THEN NoNodes ELSE cache
  /\ UNCHANGED open

\* rollbackStatement
Rollback ==
  /\ dirty' = [a \in Address |-> IF saved[a] = Unsaved THEN dirty[a]
                                                       ELSE saved[a]]
  /\ deleted' = deleted \ unmarked
  /\ header' = savedHeader
  /\ cache' = IF header.root # savedHeader.root THEN NoNodes ELSE cache
  /\ UNCHANGED open

\* abortStatement: a table outside a transaction is also discarded and closed.
AbortStatement ==
  /\ running
  /\ FreeUndo
  /\ \/ registered /\ Rollback
     \/ ~registered /\ Close(fileHeader)
  /\ UNCHANGED <<disk, txn>>

BeginTransaction ==
  /\ ~running /\ ~inTxn
  /\ inTxn' = TRUE
  /\ UNCHANGED <<disk, memory, undo, registered>>

Commit ==
  /\ ~running /\ inTxn
  /\ \/ registered /\ CommitTable
     \/ ~registered /\ UNCHANGED <<disk, memory>>
  /\ inTxn' = FALSE
  /\ registered' = FALSE
  /\ UNCHANGED undo

Discard ==
  /\ ~running /\ inTxn
  /\ IF registered THEN Close(fileHeader) ELSE UNCHANGED memory
  /\ inTxn' = FALSE
  /\ registered' = FALSE
  /\ UNCHANGED <<disk, undo>>

\* insertTableCache closes a table nothing is using to make room for another.
CloseIdle ==
  /\ open /\ ~running /\ ~registered
  /\ Close(fileHeader)
  /\ UNCHANGED <<disk, undo, txn>>

\* The process ends and is started again, with no table open.
Restart(h) ==
  /\ Close(h)
  /\ FreeUndo
  /\ inTxn' = FALSE
  /\ registered' = FALSE

Crash == Restart(fileHeader) /\ UNCHANGED disk

\* The process ends in a commit, past the commit point: recovery finishes it.
CrashInCommit ==
  /\ running # registered
  /\ IsDirty
  /\ file' = [a \in Address |-> View(a)]
  /\ fileHeader' = header
  /\ Restart(header)

Next ==
  \/ OpenScanner
  \/ \E a \in Address, o \in Object : Mark(a, o) \/ Alloc(a, o)
  \/ \E a \in Address : MarkDelete(a)
  \/ \E a \in NodeAddr, o \in Object : SetRoot(a, o)
  \/ \E a \in NodeAddr : ReadNode(a)
  \/ EndInTxn
  \/ EndAndCommit
  \/ AbortStatement
  \/ BeginTransaction
  \/ Commit
  \/ Discard
  \/ CloseIdle
  \/ Crash
  \/ CrashInCommit

Spec == Init /\ [][Next]_vars

-----------------------------------------------------------------------------

TypeOK ==
  /\ file \in [Address -> Object \union {Unreadable}]
  /\ fileHeader \in Header
  /\ open \in BOOLEAN
  /\ header \in Header
  /\ dirty \in [Address -> Object \union {None}]
  /\ deleted \in SUBSET Address
  /\ cache \in [NodeAddr -> Object \union {None}]
  /\ running \in BOOLEAN
  /\ saved \in [Address -> Object \union {None, Unsaved}]
  /\ unmarked \in SUBSET Address
  /\ savedHeader \in Header
  /\ inTxn \in BOOLEAN
  /\ registered \in BOOLEAN

\* What the undo record would put back.
Prior(a) == IF saved[a] = Unsaved THEN dirty[a] ELSE saved[a]

PriorView(a) ==
  IF a \in deleted \ unmarked THEN Unreadable
  ELSE IF Prior(a) # None THEN Prior(a)
  ELSE file[a]

(***************************************************************************)
(* Reading through the node cache never shows anything but the file: not   *)
(* after a statement that moved the root was rolled back, nor after a      *)
(* commit that rewrote or deleted cached nodes (cache.h; tableIO.c, "what  *)
(* the cache has is what the file has").                                   *)
(***************************************************************************)
CacheMatchesFile == \A a \in NodeAddr : cache[a] \in {None, file[a]}

(***************************************************************************)
(* A table in the table cache that nothing is using has no pending changes *)
(* and matches its file, so the next statement may use it as it is (the    *)
(* claim vm.c makes of its table cache).                                   *)
(***************************************************************************)
IdleTableMatchesFile ==
  (open /\ ~running /\ ~registered) =>
    dirty = Nothing /\ deleted = {} /\ header = fileHeader

(***************************************************************************)
(* No address beyond those allocated holds anything, in the file or        *)
(* pending, so allocating one again after a rollback or a DISCARD cannot   *)
(* bring an old object back; and the root is an object that will be there. *)
(***************************************************************************)
NothingBeyondAllocated ==
  /\ \A a \in Address \ header.used :
       file[a] = Unreadable /\ dirty[a] = None /\ a \notin deleted
  /\ header.root \in header.used \ deleted

(***************************************************************************)
(* Statements, transactions and crashes do to the table's contents what    *)
(* StatementStore promises.  The contents a statement began with are those *)
(* its undo record would put back.                                         *)
(***************************************************************************)
Contents ==
  [objects : [Address -> Object \union {Unreadable}], header : Header]

Committed == [objects |-> file, header |-> fileHeader]
Current   == [objects |-> [a \in Address |-> View(a)], header |-> header]
Before    == IF running
             THEN [objects |-> [a \in Address |-> PriorView(a)],
                   header |-> savedHeader]
             ELSE Current

Store == INSTANCE StatementStore WITH
  committed <- Committed, current <- Current, before <- Before,
  busy <- running, held <- inTxn

ImplementsStore == Store!SSpec

-----------------------------------------------------------------------------
(***************************************************************************)
(* The inductive invariant.  What a rollback would restore obeys the same  *)
(* conditions as what is pending; and a header that differs from the       *)
(* file's comes with a dirty object, or commitTables would skip it.        *)
(***************************************************************************)
\* Header h with pending versions d and delete marks x is within bounds.
WithinAllocated(h, d, x) ==
  /\ \A a \in Address \ h.used :
       file[a] = Unreadable /\ d[a] = None /\ a \notin x
  /\ h.root \in h.used \ x

\* Every difference between h and the file's header has a dirty object.
HeaderMarked(h, d) ==
  /\ fileHeader.used \subseteq h.used
  /\ \A a \in h.used \ fileHeader.used : d[a] # None
  /\ h.root # fileHeader.root => d[h.root] # None

PriorDirty == [a \in Address |-> Prior(a)]

IInv ==
  /\ TypeOK
  /\ CacheMatchesFile
  /\ WithinAllocated(fileHeader, Nothing, {})
  /\ WithinAllocated(header, dirty, deleted)
  /\ HeaderMarked(header, dirty)
  /\ registered => inTxn
  /\ running /\ inTxn => registered
  /\ ~running => saved = NoChange /\ unmarked = {}
  /\ ~running /\ ~registered =>
       dirty = Nothing /\ deleted = {} /\ header = fileHeader
  /\ running =>
       /\ WithinAllocated(savedHeader, PriorDirty, deleted \ unmarked)
       /\ HeaderMarked(savedHeader, PriorDirty)
  /\ running /\ ~registered =>
       /\ PriorDirty = Nothing
       /\ deleted \subseteq unmarked
       /\ savedHeader = fileHeader
=============================================================================
