-------------------------- MODULE TableStoreProofs --------------------------
(***************************************************************************)
(* Proofs about TableStore, for every table, object, tree shape and size   *)
(* of cache.                                                               *)
(***************************************************************************)
EXTENDS TableStore, TLAPS

LEMMA InitInv == Init => IInv
<1> SUFFICES ASSUME Init PROVE IInv
  OBVIOUS
<1>1. TypeOK
  BY MarkersAssumption DEF Init, TypeOK, Header, Nothing, NoNodes, NoChange
<1>2. WithinAllocated(fileHeader, Nothing, {})
  BY DEF Init, WithinAllocated, Nothing
<1>3. HeaderMarked(header, dirty)
  BY DEF Init, HeaderMarked
<1>4. CacheMatchesFile
  BY DEF Init, CacheMatchesFile, NoNodes
<1>. QED
  BY <1>1, <1>2, <1>3, <1>4 DEF Init, IInv

LEMMA MarkStep ==
  ASSUME IInv, NEW a \in Address, NEW o \in Object, Mark(a, o)
  PROVE  IInv'
<1>1. TypeOK'
  BY MarkersAssumption DEF IInv, TypeOK, Mark, Remember, Header, disk, txn
<1>2. CacheMatchesFile'
  BY DEF IInv, CacheMatchesFile, Mark, disk
<1>3. WithinAllocated(fileHeader, Nothing, {})'
  BY DEF IInv, WithinAllocated, Mark, disk, Nothing
<1>4. WithinAllocated(header, dirty, deleted)'
  BY DEF IInv, TypeOK, Header, WithinAllocated, Mark, disk
<1>5. HeaderMarked(header, dirty)'
  BY MarkersAssumption DEF IInv, TypeOK, Header, HeaderMarked, Mark, disk
<1>6. PriorDirty' = PriorDirty
  BY MarkersAssumption DEF IInv, TypeOK, Mark, Remember, PriorDirty, Prior
<1>. QED
  BY <1>1, <1>2, <1>3, <1>4, <1>5, <1>6
  DEF IInv, Mark, disk, txn, WithinAllocated, HeaderMarked

LEMMA AllocStep ==
  ASSUME IInv, NEW a \in Address, NEW o \in Object, Alloc(a, o)
  PROVE  IInv'
<1>1. TypeOK'
  BY MarkersAssumption DEF IInv, TypeOK, Alloc, Remember, Header, disk, txn
<1>2. CacheMatchesFile'
  BY DEF IInv, CacheMatchesFile, Alloc, disk
<1>3. WithinAllocated(fileHeader, Nothing, {})'
  BY DEF IInv, WithinAllocated, Alloc, disk, Nothing
<1>4. WithinAllocated(header, dirty, deleted)'
  BY DEF IInv, TypeOK, Header, WithinAllocated, Alloc, disk
<1>5. HeaderMarked(header, dirty)'
  BY MarkersAssumption DEF IInv, TypeOK, Header, HeaderMarked, Alloc, disk
<1>6. PriorDirty' = PriorDirty
  BY MarkersAssumption DEF IInv, TypeOK, Alloc, Remember, PriorDirty, Prior
<1>. QED
  BY <1>1, <1>2, <1>3, <1>4, <1>5, <1>6
  DEF IInv, Alloc, disk, txn, WithinAllocated, HeaderMarked

LEMMA SetRootStep ==
  ASSUME IInv, NEW a \in NodeAddr, NEW o \in Object, SetRoot(a, o)
  PROVE  IInv'
<1>1. TypeOK'
  BY MarkersAssumption
  DEF IInv, TypeOK, SetRoot, Remember, Header, NoNodes, Address, disk, txn
<1>2. CacheMatchesFile'
  BY DEF IInv, CacheMatchesFile, SetRoot, NoNodes, disk
<1>3. WithinAllocated(fileHeader, Nothing, {})'
  BY DEF IInv, WithinAllocated, SetRoot, disk, Nothing
<1>4. WithinAllocated(header, dirty, deleted)'
  BY DEF IInv, TypeOK, Header, WithinAllocated, SetRoot, disk, Address
<1>5. HeaderMarked(header, dirty)'
  BY MarkersAssumption
  DEF IInv, TypeOK, Header, HeaderMarked, SetRoot, disk, Address
<1>6. PriorDirty' = PriorDirty
  BY MarkersAssumption DEF IInv, TypeOK, SetRoot, Remember, PriorDirty, Prior
<1>. QED
  BY <1>1, <1>2, <1>3, <1>4, <1>5, <1>6
  DEF IInv, SetRoot, disk, txn, WithinAllocated, HeaderMarked

LEMMA MarkDeleteStep ==
  ASSUME IInv, NEW a \in Address, MarkDelete(a)
  PROVE  IInv'
<1>1. TypeOK'
  BY DEF IInv, TypeOK, MarkDelete, disk, txn
<1>2. CacheMatchesFile'
  BY DEF IInv, CacheMatchesFile, MarkDelete, disk
<1>3. WithinAllocated(fileHeader, Nothing, {})'
  BY DEF IInv, WithinAllocated, MarkDelete, disk, Nothing
<1>4. WithinAllocated(header, dirty, deleted)'
  BY DEF IInv, TypeOK, Header, WithinAllocated, MarkDelete, disk
<1>5. HeaderMarked(header, dirty)'
  BY DEF IInv, HeaderMarked, MarkDelete, disk
<1>6. PriorDirty' = PriorDirty
  BY DEF MarkDelete, PriorDirty, Prior
<1>7. (deleted \ unmarked)' = deleted \ unmarked
  BY DEF MarkDelete
<1>. QED
  BY <1>1, <1>2, <1>3, <1>4, <1>5, <1>6, <1>7
  DEF IInv, MarkDelete, disk, txn, WithinAllocated, HeaderMarked

LEMMA ReadNodeStep ==
  ASSUME IInv, NEW a \in NodeAddr, ReadNode(a)
  PROVE  IInv'
<1>1. TypeOK'
  BY MarkersAssumption DEF IInv, TypeOK, ReadNode, disk, undo, txn, Address
<1>2. CacheMatchesFile'
  BY DEF IInv, TypeOK, CacheMatchesFile, ReadNode, disk
<1>3. UNCHANGED <<file, fileHeader, header, dirty, deleted, running, saved,
                  unmarked, savedHeader, inTxn, registered>>
  BY DEF ReadNode, disk, undo, txn
<1>4. PriorDirty' = PriorDirty
  BY <1>3 DEF PriorDirty, Prior
<1>. QED
  BY <1>1, <1>2, <1>3, <1>4 DEF IInv, WithinAllocated, HeaderMarked

-----------------------------------------------------------------------------

\* With no statement running and the transaction not holding the table, all
\* that IInv says of what is pending follows from the file.
LEMMA FreshTable ==
  ASSUME TypeOK, CacheMatchesFile, WithinAllocated(fileHeader, Nothing, {}),
         header = fileHeader, dirty = Nothing, deleted = {},
         running = FALSE, saved = NoChange, unmarked = {}, registered = FALSE
  PROVE  IInv
BY DEF IInv, WithinAllocated, HeaderMarked

\* A table commitTables would skip has its file's header.
LEMMA NothingPending ==
  ASSUME IInv, ~IsDirty
  PROVE  header = fileHeader
<1>1. dirty = Nothing
  BY DEF IsDirty
<1>2. header \in Header /\ fileHeader \in Header
  BY DEF IInv, TypeOK
<1>3. header.used = fileHeader.used
  <2>1. header.used \subseteq Address /\ fileHeader.used \subseteq header.used
    BY <1>2 DEF IInv, HeaderMarked, Header
  <2>2. \A a \in header.used \ fileHeader.used : dirty[a] # None
    BY DEF IInv, HeaderMarked
  <2>. QED
    BY <1>1, <2>1, <2>2 DEF Nothing
<1>4. header.root = fileHeader.root
  BY <1>1, <1>2 DEF IInv, HeaderMarked, Header, Nothing, Address
<1>. QED
  BY <1>2, <1>3, <1>4 DEF Header

LEMMA CloseType ==
  ASSUME NEW h \in Header, Close(h)
  PROVE  /\ open' \in BOOLEAN
         /\ header' \in Header
         /\ dirty' \in [Address -> Object \union {None}]
         /\ deleted' \in SUBSET Address
         /\ cache' \in [NodeAddr -> Object \union {None}]
BY DEF Close, Nothing, NoNodes

LEMMA FreeUndoType ==
  ASSUME FreeUndo
  PROVE  /\ running' \in BOOLEAN
         /\ saved' \in [Address -> Object \union {None, Unsaved}]
         /\ unmarked' \in SUBSET Address
BY DEF FreeUndo, NoChange

LEMMA ViewType ==
  ASSUME TypeOK
  PROVE  \A a \in Address : View(a) \in Object \union {Unreadable}
BY DEF TypeOK, View

\* The header that is pending fits the contents a commit writes.
LEMMA ViewWithinAllocated ==
  ASSUME IInv
  PROVE  /\ \A a \in Address \ header.used : View(a) = Unreadable
         /\ header.root \in header.used
BY DEF IInv, WithinAllocated, View

LEMMA OpenScannerStep == IInv /\ OpenScanner => IInv'
<1> SUFFICES ASSUME IInv, OpenScanner PROVE IInv'
  OBVIOUS
<1>1. UNCHANGED <<file, fileHeader, header, dirty, deleted, cache, saved,
                  unmarked, inTxn>>
  BY DEF OpenScanner, disk
<1>2. saved = NoChange /\ unmarked = {} /\ savedHeader' = header
  BY DEF IInv, OpenScanner
<1>3. running' = TRUE /\ registered' = inTxn
  BY DEF OpenScanner
<1>4. TypeOK'
  BY <1>1, <1>2, <1>3 DEF OpenScanner, IInv, TypeOK
<1>5. PriorDirty' = dirty
  BY <1>1, <1>2 DEF PriorDirty, Prior, NoChange, IInv, TypeOK
<1>6. WithinAllocated(header, dirty, deleted) /\ HeaderMarked(header, dirty)
  BY DEF IInv
<1>7. (running =>
         /\ WithinAllocated(savedHeader, PriorDirty, deleted \ unmarked)
         /\ HeaderMarked(savedHeader, PriorDirty))'
  BY <1>1, <1>2, <1>5, <1>6 DEF WithinAllocated, HeaderMarked
<1>8. ASSUME ~inTxn
      PROVE  dirty = Nothing /\ deleted = {} /\ header = fileHeader
  BY <1>8 DEF IInv, OpenScanner
<1>9. (running /\ ~registered =>
         /\ PriorDirty = Nothing
         /\ deleted \subseteq unmarked
         /\ savedHeader = fileHeader)'
  BY <1>1, <1>2, <1>3, <1>5, <1>8
<1>10. CacheMatchesFile'
  BY <1>1 DEF IInv, CacheMatchesFile
<1>. QED
  BY <1>1, <1>3, <1>4, <1>7, <1>9, <1>10
  DEF IInv, WithinAllocated, HeaderMarked

\* Applying the pending changes leaves a table that matches its file.
LEMMA ApplyStep ==
  ASSUME IInv, Apply, running' = FALSE, saved' = NoChange, unmarked' = {},
         registered' = FALSE, inTxn' \in BOOLEAN, savedHeader' = savedHeader
  PROVE  IInv'
<1>1. TypeOK'
  <2>1. file' \in [Address -> Object \union {Unreadable}]
    BY ViewType DEF Apply, IInv
  <2>2. cache' \in [NodeAddr -> Object \union {None}]
    BY DEF Apply, IInv, TypeOK, Address
  <2>. QED
    BY <2>1, <2>2
    DEF Apply, IInv, TypeOK, Nothing, NoChange
<1>2. CacheMatchesFile'
  <2> SUFFICES ASSUME NEW a \in NodeAddr PROVE cache'[a] \in {None, file'[a]}
    BY DEF CacheMatchesFile
  <2>1. cache[a] \in {None, file[a]}
    BY DEF IInv, CacheMatchesFile
  <2>2. file'[a] = View(a)
    BY DEF Apply, Address
  <2>. QED
    BY <2>1, <2>2 DEF Apply, View
<1>3. WithinAllocated(fileHeader, Nothing, {})'
  <2>1. fileHeader' = header /\ \A a \in Address : file'[a] = View(a)
    BY DEF Apply
  <2>. QED
    BY <2>1, ViewWithinAllocated DEF WithinAllocated, Nothing
<1>4. (header = fileHeader /\ dirty = Nothing /\ deleted = {})'
  BY DEF Apply
<1>. QED
  BY <1>1, <1>2, <1>3, <1>4
  DEF IInv, WithinAllocated, HeaderMarked, Nothing

\* So does closing it, with its file unchanged.
LEMMA CloseStep ==
  ASSUME IInv, Close(fileHeader), UNCHANGED disk, running' = FALSE,
         saved' = NoChange, unmarked' = {}, registered' = FALSE,
         inTxn' \in BOOLEAN, savedHeader' = savedHeader
  PROVE  IInv'
<1>1. file' = file /\ fileHeader' = fileHeader
  BY DEF disk
<1>2. TypeOK'
  BY <1>1, CloseType DEF IInv, TypeOK, NoChange
<1>3. CacheMatchesFile'
  BY DEF Close, CacheMatchesFile, NoNodes
<1>4. WithinAllocated(fileHeader, Nothing, {})'
  BY <1>1 DEF IInv, WithinAllocated, Nothing
<1>5. (header = fileHeader /\ dirty = Nothing /\ deleted = {})'
  BY <1>1 DEF Close
<1>. QED
  BY <1>2, <1>3, <1>4, <1>5
  DEF IInv, WithinAllocated, HeaderMarked, Nothing

\* And leaving alone a table with nothing pending.
LEMMA SkipStep ==
  ASSUME IInv, UNCHANGED <<disk, memory>>, dirty = Nothing, deleted = {},
         header = fileHeader, running' = FALSE, saved' = NoChange,
         unmarked' = {}, registered' = FALSE, inTxn' \in BOOLEAN,
         savedHeader' = savedHeader
  PROVE  IInv'
<1>1. UNCHANGED <<file, fileHeader, open, header, dirty, deleted, cache>>
  BY DEF disk, memory
<1>2. TypeOK'
  BY <1>1 DEF IInv, TypeOK, NoChange
<1>3. CacheMatchesFile'
  BY <1>1 DEF IInv, CacheMatchesFile
<1>. QED
  BY <1>1, <1>2, <1>3 DEF IInv, WithinAllocated, HeaderMarked, Nothing

LEMMA CommitTableStep ==
  ASSUME IInv, CommitTable, running' = FALSE, saved' = NoChange,
         unmarked' = {}, registered' = FALSE, inTxn' \in BOOLEAN,
         savedHeader' = savedHeader
  PROVE  IInv'
<1>1. CASE ~IsDirty /\ UNCHANGED <<disk, memory>>
  BY <1>1, NothingPending, SkipStep DEF IsDirty
<1>2. CASE IsDirty /\ Apply
  BY <1>2, ApplyStep
<1>3. CASE IsDirty /\ Close(fileHeader) /\ UNCHANGED disk
  BY <1>3, CloseStep
<1>. QED
  BY <1>1, <1>2, <1>3 DEF CommitTable

LEMMA EndInTxnStep == IInv /\ EndInTxn => IInv'
<1> SUFFICES ASSUME IInv, EndInTxn PROVE IInv'
  OBVIOUS
<1>1. UNCHANGED <<file, fileHeader, open, header, dirty, deleted, cache,
                  inTxn, registered, savedHeader>>
  BY DEF EndInTxn, disk, memory, txn, FreeUndo
<1>2. registered /\ running' = FALSE /\ saved' = NoChange /\ unmarked' = {}
  BY DEF EndInTxn, FreeUndo
<1>3. TypeOK'
  BY <1>1, <1>2, FreeUndoType DEF IInv, TypeOK, EndInTxn
<1>4. CacheMatchesFile'
  BY <1>1 DEF IInv, CacheMatchesFile
<1>. QED
  BY <1>1, <1>2, <1>3, <1>4 DEF IInv, WithinAllocated, HeaderMarked

LEMMA EndAndCommitStep == IInv /\ EndAndCommit => IInv'
<1> SUFFICES ASSUME IInv, EndAndCommit PROVE IInv'
  OBVIOUS
<1>1. CommitTable /\ running' = FALSE /\ saved' = NoChange /\ unmarked' = {}
        /\ savedHeader' = savedHeader
  BY DEF EndAndCommit, FreeUndo
<1>2. registered \in BOOLEAN /\ inTxn \in BOOLEAN /\ ~registered
  BY DEF EndAndCommit, IInv, TypeOK
<1>3. registered' = FALSE /\ inTxn' \in BOOLEAN
  BY <1>2 DEF EndAndCommit, txn
<1>. QED
  BY <1>1, <1>3, CommitTableStep

LEMMA CommitStep == IInv /\ Commit => IInv'
<1> SUFFICES ASSUME IInv, Commit PROVE IInv'
  OBVIOUS
<1>1. running \in BOOLEAN /\ ~running /\ saved = NoChange /\ unmarked = {}
  BY DEF IInv, TypeOK, Commit
<1>2. running' = FALSE /\ saved' = NoChange /\ unmarked' = {}
        /\ savedHeader' = savedHeader /\ registered' = FALSE
        /\ inTxn' \in BOOLEAN
  BY <1>1 DEF Commit, undo
<1>3. CASE registered /\ CommitTable
  BY <1>2, <1>3, CommitTableStep
<1>4. CASE ~registered /\ UNCHANGED <<disk, memory>>
  <2>1. dirty = Nothing /\ deleted = {} /\ header = fileHeader
    BY <1>1, <1>4 DEF IInv
  <2>. QED
    BY <1>2, <1>4, <2>1, SkipStep
<1>. QED
  BY <1>3, <1>4 DEF Commit

LEMMA DiscardStep == IInv /\ Discard => IInv'
<1> SUFFICES ASSUME IInv, Discard PROVE IInv'
  OBVIOUS
<1>1. running \in BOOLEAN /\ ~running /\ saved = NoChange /\ unmarked = {}
  BY DEF IInv, TypeOK, Discard
<1>2. running' = FALSE /\ saved' = NoChange /\ unmarked' = {}
        /\ savedHeader' = savedHeader /\ registered' = FALSE
        /\ inTxn' \in BOOLEAN /\ UNCHANGED disk
  BY <1>1 DEF Discard, undo
<1>3. CASE registered
  BY <1>2, <1>3, CloseStep DEF Discard
<1>4. CASE ~registered
  <2>1. dirty = Nothing /\ deleted = {} /\ header = fileHeader
    BY <1>1, <1>4 DEF IInv
  <2>. QED
    BY <1>2, <1>4, <2>1, SkipStep DEF Discard
<1>. QED
  BY <1>3, <1>4

LEMMA CloseIdleStep == IInv /\ CloseIdle => IInv'
<1> SUFFICES ASSUME IInv, CloseIdle PROVE IInv'
  OBVIOUS
<1>1. running \in BOOLEAN /\ ~running /\ saved = NoChange /\ unmarked = {}
  BY DEF IInv, TypeOK, CloseIdle
<1>2. registered \in BOOLEAN /\ inTxn \in BOOLEAN /\ ~registered
  BY DEF IInv, TypeOK, CloseIdle
<1>3. running' = FALSE /\ saved' = NoChange /\ unmarked' = {}
        /\ savedHeader' = savedHeader /\ registered' = FALSE
        /\ inTxn' \in BOOLEAN
  BY <1>1, <1>2 DEF CloseIdle, undo, txn
<1>. QED
  BY <1>3, CloseStep DEF CloseIdle

LEMMA BeginTransactionStep == IInv /\ BeginTransaction => IInv'
<1> SUFFICES ASSUME IInv, BeginTransaction PROVE IInv'
  OBVIOUS
<1>1. UNCHANGED <<file, fileHeader, open, header, dirty, deleted, cache,
                  running, saved, unmarked, savedHeader, registered>>
  BY DEF BeginTransaction, disk, memory, undo
<1>2. ~running /\ inTxn' = TRUE
  BY DEF BeginTransaction
<1>3. TypeOK'
  BY <1>1, <1>2 DEF IInv, TypeOK
<1>4. CacheMatchesFile'
  BY <1>1 DEF IInv, CacheMatchesFile
<1>5. PriorDirty' = PriorDirty
  BY <1>1 DEF PriorDirty, Prior
<1>. QED
  BY <1>1, <1>2, <1>3, <1>4, <1>5 DEF IInv, WithinAllocated, HeaderMarked

\* Rolling back makes pending what the undo record held, which was as good.
LEMMA AbortStatementStep == IInv /\ AbortStatement => IInv'
<1> SUFFICES ASSUME IInv, AbortStatement PROVE IInv'
  OBVIOUS
<1>1. running /\ running' = FALSE /\ saved' = NoChange /\ unmarked' = {}
        /\ savedHeader' = savedHeader
  BY DEF AbortStatement, FreeUndo
<1>2. file' = file /\ fileHeader' = fileHeader /\ inTxn' = inTxn
        /\ registered' = registered /\ UNCHANGED disk
  BY DEF AbortStatement, disk, txn
<1>3. CASE ~registered
  <2>1. registered \in BOOLEAN /\ inTxn \in BOOLEAN
    BY DEF IInv, TypeOK
  <2>. QED
    BY <1>1, <1>2, <1>3, <2>1, CloseStep DEF AbortStatement
<1>4. CASE registered
  <2>1. dirty' = PriorDirty /\ deleted' = deleted \ unmarked
          /\ header' = savedHeader /\ open' = open
    BY <1>4 DEF AbortStatement, Rollback, PriorDirty, Prior
  <2>2. cache' = NoNodes \/ cache' = cache
    BY <1>4 DEF AbortStatement, Rollback
  <2>3. PriorDirty \in [Address -> Object \union {None}]
    BY MarkersAssumption DEF IInv, TypeOK, PriorDirty, Prior
  <2>4. TypeOK'
    <3>1. cache' \in [NodeAddr -> Object \union {None}]
      BY <2>2 DEF IInv, TypeOK, NoNodes
    <3>. QED
      BY <1>1, <1>2, <2>1, <2>3, <3>1 DEF IInv, TypeOK, NoChange
  <2>5. CacheMatchesFile'
    BY <1>2, <2>2 DEF IInv, CacheMatchesFile, NoNodes
  <2>6. /\ WithinAllocated(savedHeader, PriorDirty, deleted \ unmarked)
        /\ HeaderMarked(savedHeader, PriorDirty)
    BY <1>1 DEF IInv
  <2>7. WithinAllocated(header, dirty, deleted)'
    BY <1>2, <2>1, <2>6 DEF WithinAllocated
  <2>8. HeaderMarked(header, dirty)'
    BY <1>2, <2>1, <2>6 DEF HeaderMarked
  <2>9. WithinAllocated(fileHeader, Nothing, {})'
    BY <1>2 DEF IInv, WithinAllocated, Nothing
  <2>10. (registered => inTxn)' /\ registered'
    BY <1>2, <1>4 DEF IInv
  <2>. QED
    BY <1>1, <2>4, <2>5, <2>7, <2>8, <2>9, <2>10 DEF IInv
<1>. QED
  BY <1>3, <1>4

LEMMA CrashStep == IInv /\ Crash => IInv'
<1> SUFFICES ASSUME IInv, Crash PROVE IInv'
  OBVIOUS
<1>. QED
  BY CloseStep DEF Crash, Restart, FreeUndo

LEMMA CrashInCommitStep == IInv /\ CrashInCommit => IInv'
<1> SUFFICES ASSUME IInv, CrashInCommit PROVE IInv'
  OBVIOUS
<1>1. file' = [a \in Address |-> View(a)] /\ fileHeader' = header
  BY DEF CrashInCommit
<1>2. running' = FALSE /\ saved' = NoChange /\ unmarked' = {}
        /\ savedHeader' = savedHeader /\ registered' = FALSE /\ inTxn' = FALSE
  BY DEF CrashInCommit, Restart, FreeUndo
<1>3. header' = header /\ dirty' = Nothing /\ deleted' = {}
        /\ cache' = NoNodes /\ open' = FALSE
  BY DEF CrashInCommit, Restart, Close
<1>4. TypeOK'
  <2>1. file' \in [Address -> Object \union {Unreadable}]
    BY <1>1, ViewType DEF IInv
  <2>. QED
    BY <1>1, <1>2, <1>3, <2>1
    DEF IInv, TypeOK, Nothing, NoNodes, NoChange
<1>5. CacheMatchesFile'
  BY <1>3 DEF CacheMatchesFile, NoNodes
<1>6. WithinAllocated(fileHeader, Nothing, {})'
  BY <1>1, ViewWithinAllocated DEF WithinAllocated, Nothing
<1>. QED
  BY <1>1, <1>2, <1>3, <1>4, <1>5, <1>6, FreshTable
  DEF IInv, WithinAllocated, HeaderMarked, Nothing

LEMMA NextStep == IInv /\ [Next]_vars => IInv'
<1> SUFFICES ASSUME IInv, [Next]_vars PROVE IInv'
  OBVIOUS
<1>1. CASE UNCHANGED vars
  <2>1. UNCHANGED <<file, fileHeader, open, header, dirty, deleted, cache,
                    running, saved, unmarked, savedHeader, inTxn, registered>>
    BY <1>1 DEF vars, disk, memory, undo, txn
  <2>2. TypeOK' /\ CacheMatchesFile'
    BY <2>1 DEF IInv, TypeOK, CacheMatchesFile
  <2>3. PriorDirty' = PriorDirty
    BY <2>1 DEF PriorDirty, Prior
  <2>. QED
    BY <2>1, <2>2, <2>3 DEF IInv, WithinAllocated, HeaderMarked
<1>2. CASE Next
  BY <1>2, OpenScannerStep, MarkStep, AllocStep, MarkDeleteStep, SetRootStep,
     ReadNodeStep, EndInTxnStep, EndAndCommitStep, AbortStatementStep,
     BeginTransactionStep, CommitStep, DiscardStep, CloseIdleStep, CrashStep,
     CrashInCommitStep
  DEF Next
<1>. QED
  BY <1>1, <1>2

-----------------------------------------------------------------------------

\* The inductive invariant holds in every reachable state.
THEOREM Invariance == Spec => []IInv
BY InitInv, NextStep, PTL DEF Spec

\* The state of a table keeps its types.
THEOREM TypeCorrect == Spec => []TypeOK
<1>1. IInv => TypeOK
  BY DEF IInv
<1>. QED
  BY <1>1, Invariance, PTL

\* Reading through the node cache shows what the file holds (readNode).
THEOREM CacheCoherence == Spec => []CacheMatchesFile
<1>1. IInv => CacheMatchesFile
  BY DEF IInv
<1>. QED
  BY <1>1, Invariance, PTL

\* An open table nothing is using matches its file (vm.c's table cache).
THEOREM IdleTables == Spec => []IdleTableMatchesFile
<1>1. IInv => IdleTableMatchesFile
  BY DEF IInv, IdleTableMatchesFile
<1>. QED
  BY <1>1, Invariance, PTL

\* Nothing is left at addresses that can be allocated (again).
THEOREM Allocation == Spec => []NothingBeyondAllocated
<1>1. IInv => NothingBeyondAllocated
  BY DEF IInv, WithinAllocated, NothingBeyondAllocated
<1>. QED
  BY <1>1, Invariance, PTL

-----------------------------------------------------------------------------
(***************************************************************************)
(* TableStore implements StatementStore.                                   *)
(***************************************************************************)

\* A table with nothing pending shows its file's contents.
LEMMA CleanContents ==
  ASSUME TypeOK, dirty = Nothing, deleted = {}, header = fileHeader
  PROVE  Current = Committed
<1>1. \A a \in Address : View(a) = file[a]
  BY DEF View, Nothing
<1>2. [a \in Address |-> View(a)] = file
  BY <1>1 DEF TypeOK
<1>. QED
  BY <1>2 DEF Current, Committed

\* The contents after the steps that touch the file or close the table.
LEMMA AfterApply ==
  ASSUME Apply
  PROVE  Committed' = Current /\ Current' = Committed'
<1>1. file' = [a \in Address |-> View(a)] /\ fileHeader' = header
        /\ header' = header /\ dirty' = Nothing /\ deleted' = {}
  BY DEF Apply
<1>2. Committed' = Current
  BY <1>1 DEF Committed, Current
<1>3. [a \in Address |-> View(a)'] = file'
  BY <1>1 DEF View, Nothing
<1>. QED
  BY <1>1, <1>2, <1>3 DEF Committed, Current

LEMMA AfterClose ==
  ASSUME TypeOK, Close(fileHeader), UNCHANGED disk
  PROVE  Committed' = Committed /\ Current' = Committed
<1>1. file' = file /\ fileHeader' = fileHeader /\ header' = fileHeader
        /\ dirty' = Nothing /\ deleted' = {}
  BY DEF Close, disk
<1>2. [a \in Address |-> View(a)'] = file
  BY <1>1 DEF View, Nothing, TypeOK
<1>. QED
  BY <1>1, <1>2 DEF Committed, Current

LEMMA AfterSkip ==
  ASSUME UNCHANGED <<disk, memory>>
  PROVE  Committed' = Committed /\ Current' = Current
<1>1. UNCHANGED <<file, fileHeader, header, dirty, deleted>>
  BY DEF disk, memory
<1>2. [a \in Address |-> View(a)'] = [a \in Address |-> View(a)]
  BY <1>1 DEF View
<1>. QED
  BY <1>1, <1>2 DEF Committed, Current

LEMMA AfterCommitTable ==
  ASSUME IInv, CommitTable
  PROVE  Committed' \in {Committed, Current} /\ Current' = Committed'
<1>1. CASE ~IsDirty /\ UNCHANGED <<disk, memory>>
  <2>1. Current = Committed
    BY <1>1, NothingPending, CleanContents DEF IsDirty, IInv
  <2>. QED
    BY <1>1, <2>1, AfterSkip
<1>2. CASE IsDirty /\ Apply
  BY <1>2, AfterApply
<1>3. CASE IsDirty /\ Close(fileHeader) /\ UNCHANGED disk
  BY <1>3, AfterClose DEF IInv
<1>. QED
  BY <1>1, <1>2, <1>3 DEF CommitTable

\* A change keeps the contents its statement began with.
LEMMA KeepsPrior ==
  ASSUME PriorDirty' = PriorDirty, (deleted \ unmarked)' = deleted \ unmarked,
         UNCHANGED <<file, savedHeader>>, running, running' = running
  PROVE  Before' = Before
<1>1. \A a \in Address : Prior(a)' = Prior(a)
  BY DEF PriorDirty
<1>2. \A a \in Address : PriorView(a)' = PriorView(a)
  BY <1>1 DEF PriorView
<1>3. [a \in Address |-> PriorView(a)'] = [a \in Address |-> PriorView(a)]
  BY <1>2
<1>. QED
  BY <1>3 DEF Before

LEMMA StoreChange ==
  ASSUME IInv, IInv', running, running' = running,
         PriorDirty' = PriorDirty, (deleted \ unmarked)' = deleted \ unmarked,
         UNCHANGED <<file, fileHeader, savedHeader, inTxn>>
  PROVE  Store!SChange
<1>1. Committed' = Committed
  BY DEF Committed
<1>2. Current' \in Contents
  <2>1. TypeOK'
    BY DEF IInv
  <2>2. \A a \in Address : View(a)' \in Object \union {Unreadable}
    BY <2>1 DEF TypeOK, View
  <2>. QED
    BY <2>1, <2>2 DEF Current, Contents, TypeOK
<1>3. Before' = Before
  BY KeepsPrior
<1>. QED
  BY <1>1, <1>2, <1>3 DEF Store!SChange

LEMMA StoreInit == Init => Store!SInit
<1> SUFFICES ASSUME Init PROVE Store!SInit
  OBVIOUS
<1>1. TypeOK
  BY InitInv DEF IInv
<1>2. Current = Committed /\ Committed \in Contents
  BY <1>1, CleanContents DEF Init, Committed, Contents, TypeOK
<1>. QED
  BY <1>2 DEF Store!SInit, Init, Before

LEMMA StoreMark ==
  ASSUME IInv, IInv', NEW a \in Address, NEW o \in Object,
         Mark(a, o) \/ Alloc(a, o)
  PROVE  Store!SChange
<1>1. PriorDirty' = PriorDirty
  BY MarkersAssumption
  DEF IInv, TypeOK, Mark, Alloc, Remember, PriorDirty, Prior
<1>. QED
  BY <1>1, StoreChange DEF Mark, Alloc, disk, txn

LEMMA StoreSetRoot ==
  ASSUME IInv, IInv', NEW a \in NodeAddr, NEW o \in Object, SetRoot(a, o)
  PROVE  Store!SChange
<1>1. PriorDirty' = PriorDirty
  BY MarkersAssumption DEF IInv, TypeOK, SetRoot, Remember, PriorDirty, Prior
<1>. QED
  BY <1>1, StoreChange DEF SetRoot, disk, txn

LEMMA StoreMarkDelete ==
  ASSUME IInv, IInv', NEW a \in Address, MarkDelete(a)
  PROVE  Store!SChange
<1>1. PriorDirty' = PriorDirty
  BY DEF MarkDelete, PriorDirty, Prior
<1>2. (deleted \ unmarked)' = deleted \ unmarked
  BY DEF MarkDelete
<1>. QED
  BY <1>1, <1>2, StoreChange DEF MarkDelete, disk, txn

LEMMA StoreRead ==
  ASSUME IInv, NEW a \in NodeAddr, ReadNode(a)
  PROVE  UNCHANGED Store!svars
<1>1. UNCHANGED <<file, fileHeader, header, dirty, deleted, running, saved,
                  unmarked, savedHeader, inTxn>> /\ running
  BY DEF ReadNode, disk, undo, txn
<1>2. [b \in Address |-> View(b)'] = [b \in Address |-> View(b)]
  BY <1>1 DEF View
<1>3. Before' = Before
  BY <1>1, KeepsPrior DEF PriorDirty, Prior
<1>. QED
  BY <1>1, <1>2, <1>3 DEF Store!svars, Committed, Current

LEMMA StoreOpenScanner ==
  ASSUME IInv, OpenScanner
  PROVE  Store!SBegin
<1>1. UNCHANGED <<file, fileHeader, header, dirty, deleted, saved, unmarked,
                  inTxn>>
  BY DEF OpenScanner, disk
<1>2. ~running /\ running' = TRUE /\ savedHeader' = header
        /\ saved = NoChange /\ unmarked = {}
  BY DEF OpenScanner, IInv
<1>3. \A a \in Address : PriorView(a)' = View(a)
  BY <1>1, <1>2 DEF PriorView, Prior, View, NoChange
<1>4. [a \in Address |-> PriorView(a)'] = [a \in Address |-> View(a)]
  BY <1>3
<1>5. Before' = Current /\ Before = Current
  BY <1>2, <1>4 DEF Before, Current
<1>6. [a \in Address |-> View(a)'] = [a \in Address |-> View(a)]
  BY <1>1 DEF View
<1>. QED
  BY <1>1, <1>2, <1>5, <1>6 DEF Store!SBegin, Committed, Current

LEMMA StoreEndInTxn ==
  ASSUME IInv, EndInTxn
  PROVE  Store!SEnd
<1>1. UNCHANGED <<disk, memory>> /\ inTxn' = inTxn /\ running' = FALSE
  BY DEF EndInTxn, FreeUndo, txn
<1>2. running /\ inTxn
  BY DEF EndInTxn, IInv
<1>3. Committed' = Committed /\ Current' = Current
  BY <1>1, AfterSkip
<1>4. Before' = Current
  BY <1>1, <1>3 DEF Before
<1>. QED
  BY <1>1, <1>2, <1>3, <1>4 DEF Store!SEnd

LEMMA StoreEndAndCommit ==
  ASSUME IInv, EndAndCommit
  PROVE  Store!SEnd
<1>1. CommitTable /\ inTxn' = inTxn /\ running' = FALSE
  BY DEF EndAndCommit, FreeUndo, txn
<1>2. running /\ ~inTxn
  BY DEF EndAndCommit, IInv
<1>3. Committed' \in {Committed, Current} /\ Current' = Committed'
  BY <1>1, AfterCommitTable
<1>4. Before' = Committed'
  BY <1>1, <1>3 DEF Before
<1>. QED
  BY <1>1, <1>2, <1>3, <1>4 DEF Store!SEnd, Store!Settle

LEMMA StoreAbort ==
  ASSUME IInv, AbortStatement
  PROVE  Store!SFail
<1>1. running /\ running' = FALSE /\ inTxn' = inTxn /\ UNCHANGED disk
  BY DEF AbortStatement, FreeUndo, txn
<1>2. Committed' = Committed /\ file' = file
  BY <1>1 DEF Committed, disk
<1>3. Current' = Before
  <2>1. CASE registered
    <3>1. dirty' = PriorDirty /\ deleted' = deleted \ unmarked
            /\ header' = savedHeader
      BY <2>1 DEF AbortStatement, Rollback, PriorDirty, Prior
    <3>2. \A a \in Address : View(a)' = PriorView(a)
      BY <1>2, <3>1 DEF View, PriorView, PriorDirty
    <3>3. [a \in Address |-> View(a)'] = [a \in Address |-> PriorView(a)]
      BY <3>2
    <3>. QED
      BY <1>1, <3>1, <3>3 DEF Current, Before
  <2>2. CASE ~registered
    <3>1. Current' = Committed
      BY <1>1, <2>2, AfterClose DEF AbortStatement, IInv
    <3>2. PriorDirty = Nothing /\ deleted \subseteq unmarked
            /\ savedHeader = fileHeader
      BY <1>1, <2>2 DEF IInv
    <3>3. \A a \in Address : PriorView(a) = file[a]
      BY <3>2 DEF PriorView, PriorDirty, Nothing
    <3>4. [a \in Address |-> PriorView(a)] = file
      BY <3>3 DEF IInv, TypeOK
    <3>. QED
      BY <1>1, <3>1, <3>2, <3>4 DEF Before, Committed
  <2>. QED
    BY <2>1, <2>2
<1>4. Before' = Before
  BY <1>1, <1>3 DEF Before
<1>. QED
  BY <1>1, <1>2, <1>3, <1>4 DEF Store!SFail

LEMMA StoreBeginTransaction ==
  ASSUME BeginTransaction
  PROVE  Store!SOpen
<1>1. UNCHANGED <<disk, memory>> /\ running' = running
  BY DEF BeginTransaction, undo
<1>2. ~running /\ ~inTxn /\ inTxn' = TRUE
  BY DEF BeginTransaction
<1>3. Committed' = Committed /\ Current' = Current
  BY <1>1, AfterSkip
<1>4. Before' = Before
  BY <1>1, <1>2, <1>3 DEF Before
<1>. QED
  BY <1>1, <1>2, <1>3, <1>4 DEF Store!SOpen

LEMMA StoreCommit ==
  ASSUME IInv, Commit
  PROVE  Store!SCommit
<1>1. ~running /\ running' = running /\ inTxn /\ inTxn' = FALSE
  BY DEF Commit, undo
<1>2. Committed' \in {Committed, Current} /\ Current' = Committed'
  <2>1. CASE registered /\ CommitTable
    BY <2>1, AfterCommitTable
  <2>2. CASE ~registered /\ UNCHANGED <<disk, memory>>
    <3>1. Current = Committed
      BY <1>1, <2>2, CleanContents DEF IInv
    <3>. QED
      BY <2>2, <3>1, AfterSkip
  <2>. QED
    BY <2>1, <2>2 DEF Commit
<1>3. Before' = Committed'
  BY <1>1, <1>2 DEF Before
<1>. QED
  BY <1>1, <1>2, <1>3 DEF Store!SCommit, Store!Settle

LEMMA StoreDiscard ==
  ASSUME IInv, Discard
  PROVE  Store!SDiscard
<1>1. ~running /\ running' = running /\ inTxn /\ inTxn' = FALSE
        /\ UNCHANGED disk
  BY DEF Discard, undo
<1>2. Committed' = Committed /\ Current' = Committed
  <2>1. CASE registered
    BY <1>1, <2>1, AfterClose DEF Discard, IInv
  <2>2. CASE ~registered
    <3>1. Current = Committed
      BY <1>1, <2>2, CleanContents DEF IInv
    <3>. QED
      BY <1>1, <2>2, <3>1, AfterSkip DEF Discard
  <2>. QED
    BY <2>1, <2>2
<1>3. Before' = Committed
  BY <1>1, <1>2 DEF Before
<1>. QED
  BY <1>1, <1>2, <1>3 DEF Store!SDiscard

LEMMA StoreCloseIdle ==
  ASSUME IInv, CloseIdle
  PROVE  UNCHANGED Store!svars
<1>1. ~running /\ ~registered /\ running' = running /\ inTxn' = inTxn
        /\ UNCHANGED disk /\ Close(fileHeader)
  BY DEF CloseIdle, undo, txn
<1>2. Current = Committed
  BY <1>1, CleanContents DEF IInv
<1>3. Committed' = Committed /\ Current' = Committed
  BY <1>1, AfterClose DEF IInv
<1>4. Before' = Before
  BY <1>1, <1>2, <1>3 DEF Before
<1>. QED
  BY <1>1, <1>2, <1>3, <1>4 DEF Store!svars

LEMMA StoreCrash ==
  ASSUME IInv, Crash
  PROVE  Store!SCrash
<1>1. running' = FALSE /\ inTxn' = FALSE /\ UNCHANGED disk
        /\ Close(fileHeader)
  BY DEF Crash, Restart, FreeUndo
<1>2. Committed' = Committed /\ Current' = Committed
  BY <1>1, AfterClose DEF IInv
<1>3. Before' = Committed
  BY <1>1, <1>2 DEF Before
<1>. QED
  BY <1>1, <1>2, <1>3 DEF Store!SCrash

LEMMA StoreCrashInCommit ==
  ASSUME IInv, CrashInCommit
  PROVE  Store!SExit
<1>1. running # inTxn
  BY DEF CrashInCommit, IInv, TypeOK
<1>2. running' = FALSE /\ inTxn' = FALSE /\ fileHeader' = header
        /\ header' = header /\ dirty' = Nothing /\ deleted' = {}
        /\ file' = [a \in Address |-> View(a)]
  BY DEF CrashInCommit, Restart, FreeUndo, Close
<1>3. Committed' = Current
  BY <1>2 DEF Committed, Current
<1>4. [a \in Address |-> View(a)'] = file'
  BY <1>2 DEF View, Nothing
<1>5. Current' = Current
  BY <1>2, <1>3, <1>4 DEF Committed, Current
<1>6. Before' = Current
  BY <1>2, <1>5 DEF Before
<1>. QED
  BY <1>1, <1>2, <1>3, <1>5, <1>6 DEF Store!SExit

LEMMA StoreStutter ==
  ASSUME UNCHANGED vars
  PROVE  UNCHANGED Store!svars
<1>1. UNCHANGED <<file, fileHeader, header, dirty, deleted, running, saved,
                  unmarked, savedHeader, inTxn>>
  BY DEF vars, disk, memory, undo, txn
<1>2. [a \in Address |-> View(a)'] = [a \in Address |-> View(a)]
  BY <1>1 DEF View
<1>3. [a \in Address |-> PriorView(a)'] = [a \in Address |-> PriorView(a)]
  BY <1>1 DEF PriorView, Prior
<1>4. Committed' = Committed /\ Current' = Current
  BY <1>1, <1>2 DEF Committed, Current
<1>5. Before' = Before
  BY <1>1, <1>3, <1>4 DEF Before
<1>. QED
  BY <1>1, <1>4, <1>5 DEF Store!svars

\* Statements are atomic, and a transaction is committed or dropped whole: the
\* maps, the undo record and the file of tableIO.c do what StatementStore says.
THEOREM Refinement == Spec => ImplementsStore
<1>1. Init => Store!SInit
  BY StoreInit
<1>2. IInv /\ IInv' /\ [Next]_vars => [Store!SNext]_(Store!svars)
  <2> SUFFICES ASSUME IInv, IInv', [Next]_vars
               PROVE  Store!SNext \/ UNCHANGED Store!svars
    OBVIOUS
  <2>1. CASE OpenScanner
    BY <2>1, StoreOpenScanner DEF Store!SNext
  <2>2. ASSUME NEW a \in Address, NEW o \in Object, Mark(a, o) \/ Alloc(a, o)
        PROVE  Store!SNext
    BY <2>2, StoreMark DEF Store!SNext
  <2>3. ASSUME NEW a \in Address, MarkDelete(a)
        PROVE  Store!SNext
    BY <2>3, StoreMarkDelete DEF Store!SNext
  <2>4. ASSUME NEW a \in NodeAddr, NEW o \in Object, SetRoot(a, o)
        PROVE  Store!SNext
    BY <2>4, StoreSetRoot DEF Store!SNext
  <2>5. ASSUME NEW a \in NodeAddr, ReadNode(a)
        PROVE  UNCHANGED Store!svars
    BY <2>5, StoreRead
  <2>6. CASE EndInTxn \/ EndAndCommit
    BY <2>6, StoreEndInTxn, StoreEndAndCommit DEF Store!SNext
  <2>7. CASE AbortStatement
    BY <2>7, StoreAbort DEF Store!SNext
  <2>8. CASE BeginTransaction
    BY <2>8, StoreBeginTransaction DEF Store!SNext
  <2>9. CASE Commit \/ Discard
    BY <2>9, StoreCommit, StoreDiscard DEF Store!SNext
  <2>10. CASE CloseIdle
    BY <2>10, StoreCloseIdle
  <2>11. CASE Crash \/ CrashInCommit
    BY <2>11, StoreCrash, StoreCrashInCommit DEF Store!SNext
  <2>12. CASE UNCHANGED vars
    BY <2>12, StoreStutter
  <2>. QED
    BY <2>1, <2>2, <2>3, <2>4, <2>5, <2>6, <2>7, <2>8, <2>9, <2>10, <2>11,
       <2>12
    DEF Next
<1>. QED
  BY <1>1, <1>2, Invariance, PTL DEF Spec, ImplementsStore, Store!SSpec

=============================================================================
