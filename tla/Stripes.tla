------------------------------- MODULE Stripes -------------------------------
(***************************************************************************)
(* Where a table file's pages and nodes go (tableIO.c, "stripe            *)
(* allocation").  After the header the file is a row of units, each one    *)
(* stripe for nodes and PageNodeRatio stripes for pages:                   *)
(*                                                                         *)
(*   [header][node stripe][page stripe]..[page stripe][node stripe]..      *)
(*                                                                         *)
(* Pages fill the page stripes and nodes the node stripes, each kind at    *)
(* its own pace, so the one is often units ahead of the other.             *)
(***************************************************************************)
EXTENDS Integers

CONSTANTS
  MetaLen,        \* bytes of the header
  NodeSize,       \* bytes of a node
  PageSize,       \* bytes of a page
  NodeStripeLen,  \* nodes in a node stripe
  PageStripeLen,  \* pages in a page stripe
  PageNodeRatio   \* page stripes in a unit

ASSUME GeometryAssumption ==
  /\ MetaLen \in Nat \ {0}
  /\ NodeSize \in Nat \ {0} /\ PageSize \in Nat \ {0}
  /\ NodeStripeLen \in Nat \ {0} /\ PageStripeLen \in Nat \ {0}
  /\ PageNodeRatio \in Nat \ {0}

NodeStripeBytes == NodeStripeLen * NodeSize
PageStripeBytes == PageStripeLen * PageSize

unitByteSize == NodeStripeBytes + PageNodeRatio * PageStripeBytes
unitStart(unit) == MetaLen + unit * unitByteSize

\* The allocation fields of the header: how many stripes of each kind are in
\* use, and the next free byte of the last one.
InitialFields ==
  [pageStripes |-> 1, nodeStripes |-> 1,
   nodeFree |-> MetaLen, pageFree |-> MetaLen + NodeStripeBytes]

currentNodeStripeStart(h) == unitStart(h.nodeStripes - 1)

currentPageStripeStart(h) ==
  LET stripe == h.pageStripes - 1
  IN  unitStart(stripe \div PageNodeRatio) + NodeStripeBytes
      + (stripe % PageNodeRatio) * PageStripeBytes

\* Variant: the next stripe is taken for the bytes after the last one.
newPageStripeBehind(h) == [h EXCEPT !.pageStripes = @ + 1]

newPageStripe(h) ==
  LET n == [h EXCEPT !.pageStripes = @ + 1]
  IN  [n EXCEPT !.pageFree = currentPageStripeStart(n)]

newNodeStripe(h) ==
  LET n == [h EXCEPT !.nodeStripes = @ + 1]
  IN  [n EXCEPT !.nodeFree = currentNodeStripeStart(n)]

\* The header from which the next page is taken, and the header after it is.
PageRoom(h) ==
  IF h.pageFree >= currentPageStripeStart(h) + PageStripeBytes
  THEN newPageStripe(h) ELSE h
allocPage(h) == [PageRoom(h) EXCEPT !.pageFree = @ + PageSize]

NodeRoom(h) ==
  IF h.nodeFree >= currentNodeStripeStart(h) + NodeStripeBytes
  THEN newNodeStripe(h) ELSE h
allocNode(h) == [NodeRoom(h) EXCEPT !.nodeFree = @ + NodeSize]
=============================================================================
