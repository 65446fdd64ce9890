------------------------------- MODULE Scanner ------------------------------
(***************************************************************************)
(* A scanner over the B+ tree of its table (vm.c): finding the next row,   *)
(* searching for a key, and staying on course while the statement updates  *)
(* or deletes the row it is on, which can split its page, or empty it and  *)
(* have leaves borrow and merge.                                           *)
(*                                                                         *)
(* The scanner keeps copies of a leaf and of a page beside their           *)
(* addresses, and positions in both, counted from 0; -1 stands for the     *)
(* unsigned number that a step forward wraps to 0.  A statement updates    *)
(* the row it is on any number of times, or deletes it, then moves on.     *)
(***************************************************************************)
EXTENDS BPlusTree

VARIABLE scan

scanVars == <<tree, scan>>

NoLeaf == [leaf |-> TRUE, kids |-> <<>>, keys |-> <<>>, max |-> 0, parent |-> 0,
           prev |-> 0, next |-> 0]

\* place is where the statement is in its loop: "closed", "between" rows, on
\* a "row"; the rest are the scanner's fields.
NoScan ==
  [place |-> "closed", started |-> FALSE, atEnd |-> FALSE,
   leafAddr |-> 0, leafNode |-> NoLeaf, childIdx |-> 0,
   pageAddr |-> 0, page |-> <<>>, slotIdx |-> 0]

ScanInit == Init /\ scan = NoScan

\* The slot a key is in (SPSearch): slots are in the order of their keys.
SlotOf(p, k) == Cardinality({j \in DOMAIN p : j < k})

\* A page that was deleted is not there to be read.
PageAt(t, pg) == IF pg \in DOMAIN t.page THEN t.page[pg] ELSE <<>>

\* One round of loadFirstValidPage: the page at the scanner's child is loaded,
\* and passed over if it has no rows; past the leaf's last page comes the next
\* leaf, and after the last leaf the end.
LoadPage(t, s) ==
  LET pg == s.leafNode.kids[s.childIdx + 1]
      r == [s EXCEPT !.pageAddr = pg, !.page = PageAt(t, pg), !.slotIdx = 0]
  IN  IF r.page # <<>> THEN [r EXCEPT !.place = "row"] ELSE [r EXCEPT !.childIdx = @ + 1]

NextLeaf(t, s) ==
  LET a == s.leafNode.next IN
  IF a = 0 THEN [s EXCEPT !.atEnd = TRUE]
  ELSE [s EXCEPT !.leafAddr = a, !.leafNode = t.node[a], !.childIdx = 0]

TryPage(t, s) ==
  IF s.place = "row" \/ s.atEnd THEN s
  ELSE IF s.childIdx < Len(s.leafNode.kids) THEN LoadPage(t, s) ELSE NextLeaf(t, s)

\* loadFirstValidPage: from the scanner's child on, the first page with rows.
loadFirstValidPage(t, s) ==
  Rounds(LAMBDA r : TryPage(t, r), s, Cardinality(DOMAIN t.page) + Cardinality(DOMAIN t.node) + 1)

advanceScanner(t, s) ==
  LET first == LeftmostLeaf(t)
  IN  CASE s.atEnd -> s
        [] ~s.atEnd /\ ~s.started ->
             loadFirstValidPage(t, [s EXCEPT !.started = TRUE, !.childIdx = 0,
                                       !.leafAddr = first,
                                       !.leafNode = t.node[first]])
        [] ~s.atEnd /\ s.started /\ s.slotIdx + 1 < Cardinality(DOMAIN s.page) ->
             [s EXCEPT !.slotIdx = @ + 1, !.place = "row"]
        [] OTHER -> loadFirstValidPage(t, [s EXCEPT !.slotIdx = @ + 1,
                                                    !.childIdx = @ + 1])

scannerKeySearch(t, s, k) ==
  LET pg == FindPage(t, k)
      r == [s EXCEPT !.pageAddr = pg, !.page = PageAt(t, pg)]
  IN  CASE pg = 0 -> s
        [] pg # 0 /\ k \notin DOMAIN r.page -> r
        [] OTHER -> [r EXCEPT !.slotIdx = SlotOf(r.page, k), !.place = "row"]

\* Variant: the scanner takes its row to be where it was.
seekNowhere(t, s, k) == s

\* seekScanner: back to the row with key k, wherever it is now.
seekScanner(t, s, k) ==
  LET a == FindLeaf(t, k)
      pg == FindPage(t, k)
  IN  [s EXCEPT !.leafAddr = a, !.leafNode = t.node[a],
                !.childIdx = Position(t.node[a].kids, pg) - 1,
                !.pageAddr = pg, !.page = t.page[pg],
                !.slotIdx = SlotOf(t.page[pg], k)]

\* The key of the row the scanner is on.
RowKey(s) == CHOOSE k \in DOMAIN s.page : SlotOf(s.page, k) = s.slotIdx

-----------------------------------------------------------------------------
\* OPEN_SCAN, and the REWIND after it.
OpenScan ==
  /\ scan.place = "closed"
  /\ scan' = [NoScan EXCEPT !.place = "between"]
  /\ UNCHANGED tree

\* An INSERT scans nothing.
InsertRow(k, z) == scan.place = "closed" /\ Insert(k, z) /\ UNCHANGED scan

NextRow ==
  /\ scan.place # "closed" /\ (scan.place = "row" => scan.started)
  /\ scan' = advanceScanner(tree, [scan EXCEPT !.place = "between"])
  /\ UNCHANGED tree

\* Only the first instruction after OPEN_SCAN and REWIND searches.
KeySearch(k) ==
  /\ scan = [NoScan EXCEPT !.place = "between"]
  /\ scan' = scannerKeySearch(tree, scan, k)
  /\ UNCHANGED tree

\* UPDATE_COL: the page is changed in the scanner's copy and stored; when it
\* was split the scanner looks for its row.  A row that fits in no page fails
\* the statement, which is undone (TableStore).
UpdateCol(z) ==
  LET k == RowKey(scan)
      p == [scan.page EXCEPT ![k] = z]
      t == StorePage(tree, p, scan.pageAddr)
      split == Used(p) > Capacity
  IN  /\ scan.place = "row" /\ z <= Capacity
      /\ tree' = t
      /\ scan' = IF split THEN seekScanner(t, scan, k) ELSE [scan EXCEPT !.page = p]

\* Variant: the leaf and the child are taken to be where they were.
standStill(t, s, a, k) == [s EXCEPT !.childIdx = @ - 1]

\* The last row of its page is gone: the place before the first page past k.
findPlace(t, s, a, k) ==
  LET next == Cardinality({i \in DOMAIN t.node[a].keys : t.node[a].keys[i] <= k})
  IN  [s EXCEPT !.leafAddr = a, !.leafNode = t.node[a], !.childIdx = next - 1]

\* DELETE_ROW
DeleteRow ==
  LET k == RowKey(scan)
      t == DeleteRecord(tree, k).tree
      a == FindLeaf(tree, k)
      page == Restrict(scan.page, DOMAIN scan.page \ {k})
      only == IsRoot(tree.node[a]) /\ Len(tree.node[a].kids) = 1
      left == [scan EXCEPT !.place = "between", !.page = page]
  IN  /\ scan.place = "row"
      /\ tree' = t
      /\ scan' = IF page = <<>>
                 THEN findPlace(t, left, IF only THEN a ELSE LeafAfter(tree, a), k)
                 ELSE [left EXCEPT !.slotIdx = @ - 1]

CloseScan == scan.place # "closed" /\ scan' = NoScan /\ UNCHANGED tree

ScanNext ==
  \/ OpenScan \/ NextRow \/ DeleteRow \/ CloseScan
  \/ \E z \in Size : UpdateCol(z)
  \/ \E k \in Key : KeySearch(k) \/ \E z \in Size : InsertRow(k, z)

ScanSpec == ScanInit /\ [][ScanNext]_scanVars

-----------------------------------------------------------------------------
\* The keys of the pages of node n from its i-th on.
KeysFrom(n, i) == UNION {DOMAIN PageAt(tree, pg) : pg \in ToSet(SubSeq(n.kids, i, Len(n.kids)))}

\* What the scan has yet to meet: the rest of its page, of its leaf, and the
\* leaves after it.
Ahead ==
  LET rest == {k \in DOMAIN scan.page : SlotOf(scan.page, k) > scan.slotIdx}
      later == ToSet(Chain(tree, scan.leafNode.next))
  IN  CASE scan.place = "closed" \/ scan.atEnd -> {}
        [] scan.place # "closed" /\ ~scan.started -> DOMAIN Rows(tree)
        [] OTHER -> rest \union KeysFrom(scan.leafNode, scan.childIdx + 2)
                      \union UNION {KeysFrom(tree.node[a], 1) : a \in later}

Plain == INSTANCE TableScan WITH
           rows  <- Rows(tree),
           ahead <- Ahead,
           on    <- IF scan.place = "row" THEN {RowKey(scan)} ELSE {},
           open  <- scan.place # "closed"

(***************************************************************************)
(* A scan meets every row once and in order, and changes the row it is on  *)
(* and no other, though its updates split pages and its deletions remove   *)
(* them and rebalance leaves under it ("neither the scanner's leaf address *)
(* nor its index can be trusted", vm.c).                                   *)
(***************************************************************************)
ImplementsScan == Plain!SSpec

(***************************************************************************)
(* Whatever scans have done to the tree, the results of the calls are true *)
(* (ResultsAreTrue).  It is asked when no scan is open, as any scan can be *)
(* closed with the tree as it is.                                          *)
(***************************************************************************)
CallsAnswerTruly == scan.place = "closed" => ResultsAreTrue

(***************************************************************************)
(* On a row, the scanner's copies of its page and leaf are those of the    *)
(* tree, and the page is where a search finds the row's key; otherwise the *)
(* next UPDATE_COL would store an old page over newer rows.                *)
(***************************************************************************)
ScannerHoldsItsRow ==
  scan.place = "row" =>
    /\ scan.slotIdx \in 0 .. Cardinality(DOMAIN scan.page) - 1
    /\ scan.pageAddr = FindPage(tree, RowKey(scan))
    /\ scan.page = PageAt(tree, scan.pageAddr)
    /\ scan.started => /\ scan.leafAddr \in DOMAIN tree.node
                       /\ scan.leafNode = tree.node[scan.leafAddr]
                       /\ scan.leafNode.kids[scan.childIdx + 1] = scan.pageAddr
=============================================================================
