------------------------------ MODULE MCScanner -----------------------------
(***************************************************************************)
(* Scans of small trees for TLC.  As in MCBPlusTree, states equal up to    *)
(* the addresses of nodes and pages are explored once.                     *)
(***************************************************************************)
EXTENDS Scanner

CONSTANTS
  LastKey,   \* the largest key
  Outside    \* a name for an address that is not in the tree

T == INSTANCE MCBPlusTree
MCKey == 0 .. LastKey

ScanView ==
  LET nodes == T!Preorder(tree, tree.root)
      leaves == Scan(tree)
      pages == FlattenSeq([i \in DOMAIN leaves |-> tree.node[leaves[i]].kids])
      name(s, a) == CASE a = 0 -> 0
                      [] a # 0 /\ a \in ToSet(s) -> Position(s, a)
                      [] OTHER -> Outside
      leaf == scan.leafNode
  IN  <<T!View,
        [scan EXCEPT
           !.leafAddr = name(nodes, @), !.pageAddr = name(pages, @),
           !.leafNode = <<leaf.keys, leaf.max, name(nodes, leaf.parent),
                          name(nodes, leaf.prev), name(nodes, leaf.next),
                          [i \in DOMAIN leaf.kids |-> name(pages, leaf.kids[i])]>>]>>
=============================================================================
