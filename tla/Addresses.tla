------------------------------ MODULE Addresses ------------------------------
(***************************************************************************)
(* An open table's changes as tableIO.c keeps them: hash tables of dirty   *)
(* pages, dirty nodes and delete marks, keyed by addresses that the        *)
(* stripes hand out, and a statement's undo record of three more hash      *)
(* tables and a copy of the allocation fields.                             *)
(*                                                                         *)
(* This is what TableStore takes for granted of its maps and its set of    *)
(* addresses, and the module implements it: what a rollback removes and    *)
(* puts back, entry by entry and in the order of the undo record's slots,  *)
(* must leave every other entry where probing finds it, and an address     *)
(* handed out again must be free.                                          *)
(*                                                                         *)
(* Left to TableStore: the node cache, moving the root, crashes.           *)
(***************************************************************************)
EXTENDS AddrTable, Stripes

CONSTANTS
  Object,       \* contents of pages and nodes
  Unreadable,   \* what the file holds where no object is, or a deleted one
  Unsaved,      \* in TableStore: an address the statement has not changed
  LastAddress,  \* bound: where the last object may be
  PageAddress,  \* the addresses up to it that the layout has for pages
  NodeAddress,  \* and for nodes
  Hash,         \* bound: the hashes addresses may have, as functions
  MaxChanges    \* bound on the changes a behaviour makes

Address == PageAddress \union NodeAddress

ASSUME MarkersAssumption ==
  /\ Unreadable \notin Object /\ NULL \notin Object /\ Unsaved \notin Object
  /\ NULL # Unsaved /\ NULL # Unreadable /\ Unsaved # Unreadable

ASSUME HashAssumption == \A h \in Hash : \A a \in Address : h[a] \in Nat

\* The addresses of the layout that an object of the table may be given.
ASSUME LayoutAssumption ==
  /\ LastAddress \in Nat /\ InitialFields.pageFree <= LastAddress
  /\ PageAddress =
       {a \in 0 .. LastAddress :
          \E s \in 1 .. LastAddress + 1, i \in 0 .. PageStripeLen - 1 :
            a = currentPageStripeStart([pageStripes |-> s]) + i * PageSize}
  /\ NodeAddress =
       {a \in 0 .. LastAddress :
          \E s \in 1 .. LastAddress + 1, i \in 0 .. NodeStripeLen - 1 :
            a = currentNodeStripeStart([nodeStripes |-> s]) + i * NodeSize}

VARIABLES
  file,        \* the objects in the table's file
  fileHeader,  \* the header in the table's file
  open,        \* whether the table is in the table cache
  header,      \* the table struct's root and allocation fields
  pageDirty,
  nodeDirty,
  delete,
  undo,        \* the running statement's undo record
  inTxn,       \* transaction.active
  registered,  \* whether the transaction holds the table
  changes      \* how many changes were made

maps == <<pageDirty, nodeDirty, delete>>
vars == <<hashAddress, file, fileHeader, open, header, maps, undo, inTxn,
          registered, changes>>

\* The header's fields, and which addresses they have handed out.
EmptyHeader ==
  LET fields == InitialFields
  IN  [pageStripes |-> fields.pageStripes, nodeStripes |-> fields.nodeStripes,
       pageFree |-> fields.pageFree, nodeFree |-> fields.nodeFree,
       root |-> MetaLen, pages |-> {}, nodes |-> {}]
WithPage(h) == [allocPage(h) EXCEPT !.pages = @ \union {PageRoom(h).pageFree}]
WithNode(h) == [allocNode(h) EXCEPT !.nodes = @ \union {NodeRoom(h).nodeFree}]

Used(h) == h.pages \union h.nodes

\* freeUndo; the copy of the header stays, unused.
NoUndo(h) == [active |-> FALSE, pages |-> initAddrTable, nodes |-> initAddrTable,
              deletes |-> initAddrTable, header |-> h]

\* A table as createTree commits it: a root node and one page.
Init ==
  /\ hashAddress \in Hash
  /\ header = WithPage(WithNode(EmptyHeader))
  /\ fileHeader = header
  /\ file \in [Address -> Object \union {Unreadable}]
  /\ \A a \in Address : file[a] = Unreadable <=> a \notin Used(header)
  /\ open = FALSE
  /\ pageDirty = initAddrTable
  /\ nodeDirty = initAddrTable
  /\ delete = initAddrTable
  /\ undo = NoUndo(header)
  /\ inTxn = FALSE
  /\ registered = FALSE
  /\ changes = 0

-----------------------------------------------------------------------------

\* openScanner and beginStatement.
OpenScanner ==
  /\ ~undo.active
  /\ open' = TRUE
  /\ registered' = inTxn
  /\ undo' = [undo EXCEPT !.active = TRUE, !.header = header]
  /\ UNCHANGED <<hashAddress, file, fileHeader, header, maps, inTxn, changes>>

\* rememberPage, rememberNode: what the map held before the first change.
Remember(a, dirty, saved) ==
  IF containsAddrTable(a, saved) THEN saved
  ELSE insertAddrTable(a, findAddrTable(a, dirty), saved)

\* rememberDelete: the address of an object, with no copy.
RememberDelete(a) ==
  IF containsAddrTable(a, undo.deletes) THEN undo.deletes
  ELSE insertAddrTable(a, containsAddrTable(a, delete), undo.deletes)

Working ==
  /\ undo.active
  /\ changes < MaxChanges
  /\ changes' = changes + 1
  /\ UNCHANGED <<hashAddress, file, fileHeader, open, inTxn, registered>>

Marked == {a \in Address : containsAddrTable(a, delete)}

\* The pending version of a, as a reader of the table sees it.
Pending(a) ==
  IF a \in PageAddress THEN findAddrTable(a, pageDirty)
                       ELSE findAddrTable(a, nodeDirty)
View(a) ==
  IF a \in Marked THEN Unreadable
  ELSE IF Pending(a) # NULL THEN Pending(a)
  ELSE file[a]

markPage(a, o) ==
  /\ undo' = [undo EXCEPT !.pages = Remember(a, pageDirty, undo.pages)]
  /\ pageDirty' = insertAddrTable(a, o, pageDirty)
  /\ UNCHANGED <<nodeDirty, delete>>

markNode(a, o) ==
  /\ undo' = [undo EXCEPT !.nodes = Remember(a, nodeDirty, undo.nodes)]
  /\ nodeDirty' = insertAddrTable(a, o, nodeDirty)
  /\ UNCHANGED <<pageDirty, delete>>

\* Writing back what was read is left out.
ChangePage ==
  \E a \in header.pages \ Marked : \E o \in Object \ {View(a)} :
    Working /\ markPage(a, o) /\ UNCHANGED header

ChangeNode ==
  \E a \in header.nodes \ Marked : \E o \in Object \ {View(a)} :
    Working /\ markNode(a, o) /\ UNCHANGED header

\* The B+ tree marks every object it makes room for.
AddPage ==
  \E o \in Object :
    /\ PageRoom(header).pageFree <= LastAddress
    /\ Working
    /\ header' = WithPage(header)
    /\ markPage(PageRoom(header).pageFree, o)

AddNode ==
  \E o \in Object :
    /\ NodeRoom(header).nodeFree <= LastAddress
    /\ Working
    /\ header' = WithNode(header)
    /\ markNode(NodeRoom(header).nodeFree, o)

markDelete ==
  \E a \in Used(header) \ (Marked \union {header.root}) :
    /\ Working
    /\ undo' = [undo EXCEPT !.deletes = RememberDelete(a)]
    /\ delete' = insertAddrTable(a, NULL, delete)
    /\ UNCHANGED <<header, pageDirty, nodeDirty>>

-----------------------------------------------------------------------------

\* The table struct is freed, and read from its file when it is opened again.
Close ==
  /\ open' = FALSE
  /\ header' = fileHeader
  /\ pageDirty' = initAddrTable
  /\ nodeDirty' = initAddrTable
  /\ delete' = initAddrTable

\* What draining the maps slot by slot writes.
Write(objects, e) == [objects EXCEPT ![e.key] = e.value]
Erase(objects, e) == [objects EXCEPT ![e.key] = Unreadable]
Drained(at, objects) == ForEach(Write, objects, at.entries)
Garbage(at, objects) == ForEach(Erase, objects, at.entries)

\* A map that was drained keeps its capacity.
Emptied(at) == [entries |-> Slots(Capacity(at)), count |-> 0]

applyTable ==
  /\ file' = Garbage(delete, Drained(nodeDirty, Drained(pageDirty, file)))
  /\ fileHeader' = header
  /\ pageDirty' = Emptied(pageDirty)
  /\ nodeDirty' = Emptied(nodeDirty)
  /\ delete' = Emptied(delete)
  /\ UNCHANGED <<open, header>>

isDirty == pageDirty.count > 0 \/ nodeDirty.count > 0 \/ delete.count > 0

\* A table with nothing dirty is skipped; a commit that fails closes the table.
commitTable ==
  IF isDirty
  THEN applyTable \/ (Close /\ UNCHANGED <<file, fileHeader>>)
  ELSE UNCHANGED <<file, fileHeader, open, header, maps>>

\* closeScanner: the statement ends, and commits outside a transaction.
CloseScanner ==
  /\ undo.active
  /\ undo' = NoUndo(undo.header)
  /\ IF registered THEN UNCHANGED <<file, fileHeader, open, header, maps>>
                   ELSE commitTable
  /\ UNCHANGED <<hashAddress, inTxn, registered, changes>>

\* Puts the version of one undo entry back: NULL if there was none.
PutBack(dirty, e) ==
  LET rest == removeAddrTable(e.key, dirty)
  IN  IF e.value = NULL THEN rest ELSE insertAddrTable(e.key, e.value, rest)

Unmark(marks, e) == IF e.value THEN marks ELSE removeAddrTable(e.key, marks)

rollbackStatement ==
  /\ pageDirty' = ForEach(PutBack, pageDirty, undo.pages.entries)
  /\ nodeDirty' = ForEach(PutBack, nodeDirty, undo.nodes.entries)
  /\ delete' = ForEach(Unmark, delete, undo.deletes.entries)
  /\ header' = undo.header
  /\ UNCHANGED open

\* abortStatement: a table outside a transaction is closed.
AbortStatement ==
  /\ undo.active
  /\ undo' = NoUndo(undo.header)
  /\ IF registered THEN rollbackStatement ELSE Close
  /\ UNCHANGED <<hashAddress, file, fileHeader, inTxn, registered, changes>>

BeginTransaction ==
  /\ ~undo.active /\ ~inTxn
  /\ inTxn' = TRUE
  /\ UNCHANGED <<hashAddress, file, fileHeader, open, header, maps, undo,
                 registered, changes>>

Commit ==
  /\ ~undo.active /\ inTxn
  /\ IF registered THEN commitTable
                   ELSE UNCHANGED <<file, fileHeader, open, header, maps>>
  /\ inTxn' = FALSE
  /\ registered' = FALSE
  /\ UNCHANGED <<hashAddress, undo, changes>>

Discard ==
  /\ ~undo.active /\ inTxn
  /\ IF registered THEN Close ELSE UNCHANGED <<open, header, maps>>
  /\ inTxn' = FALSE
  /\ registered' = FALSE
  /\ UNCHANGED <<hashAddress, file, fileHeader, undo, changes>>

Next ==
  \/ OpenScanner
  \/ ChangePage
  \/ ChangeNode
  \/ AddPage
  \/ AddNode
  \/ markDelete
  \/ CloseScanner
  \/ AbortStatement
  \/ BeginTransaction
  \/ Commit
  \/ Discard

ASpec == Init /\ [][Next]_vars

-----------------------------------------------------------------------------
(***************************************************************************)
(* No two objects in the table's file share a byte, and none reaches into  *)
(* the header, whatever the pace at which pages and nodes were allocated   *)
(* and however often a rollback gave addresses back (the stripes of        *)
(* allocPage and allocNode, the counters rollbackStatement restores).      *)
(***************************************************************************)
Bytes(h) == {[first |-> a, last |-> a + PageSize - 1] : a \in h.pages} \union
            {[first |-> a, last |-> a + NodeSize - 1] : a \in h.nodes}

ObjectsAreApart ==
  \A x, y \in Bytes(header) :
    /\ x.first >= MetaLen
    /\ x = y \/ x.last < y.first \/ y.last < x.first

(***************************************************************************)
(* The hash tables and the stripes are the maps and the set of addresses   *)
(* of TableStore: no entry is lost, hidden behind a hole, kept or brought  *)
(* back by growing, removing and putting back (removeAddrTable's shifting, *)
(* rollbackStatement), and the counts that tell whether there is anything  *)
(* to commit are those of the entries.                                     *)
(***************************************************************************)
StoreHeader(h) == [root |-> h.root, used |-> Used(h)]

Saved(a) ==
  LET saved == IF a \in PageAddress THEN undo.pages ELSE undo.nodes
  IN  IF containsAddrTable(a, saved) THEN findAddrTable(a, saved) ELSE Unsaved

Unmarked ==
  {a \in Address : containsAddrTable(a, undo.deletes)
                   /\ ~findAddrTable(a, undo.deletes)}

Store == INSTANCE TableStore WITH
  NodeAddr    <- NodeAddress,
  PageAddr    <- PageAddress,
  Parent      <- [o \in Object |-> NULL],
  CacheSize   <- 0,
  None        <- NULL,
  fileHeader  <- StoreHeader(fileHeader),
  header      <- StoreHeader(header),
  dirty       <- [a \in Address |-> Pending(a)],
  deleted     <- Marked,
  cache       <- [a \in NodeAddress |-> NULL],
  running     <- undo.active,
  saved       <- [a \in Address |-> Saved(a)],
  unmarked    <- Unmarked,
  savedHeader <- StoreHeader(undo.header)

ImplementsTableStore == Store!Spec
=============================================================================
