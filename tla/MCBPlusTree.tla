---------------------------- MODULE MCBPlusTree -----------------------------
(***************************************************************************)
(* Small trees for TLC.  Addresses only tell objects apart, so trees equal *)
(* up to their addresses are explored once (View), links included.         *)
(***************************************************************************)
EXTENDS BPlusTree

CONSTANTS
  LastKey,   \* the largest key
  Outside    \* a name for an address of no node in the tree

MCKey == 0 .. LastKey

RECURSIVE Preorder(_, _)
Preorder(t, a) ==
  IF t.node[a].leaf THEN <<a>>
  ELSE <<a>> \o FlattenSeq([i \in DOMAIN t.node[a].kids |->
                              Preorder(t, t.node[a].kids[i])])

\* The tree with each node named by its place in preorder, and each leaf's
\* pages in place of their addresses.  Outside is any address that is of none of them.
\* Comparing the tree with itself has TLC evaluate all of it: it cannot keep a
\* state with a function it has not evaluated.
View ==
  LET order == Preorder(tree, tree.root)
      name(a) == IF a = 0 THEN 0 ELSE IF a \in ToSet(order) THEN Position(order, a) ELSE Outside
  IN  <<tree = tree, [i \in DOMAIN order |->
         LET n == tree.node[order[i]] IN
         <<n.leaf, n.keys, n.max, name(n.parent), name(n.prev), name(n.next),
           [j \in DOMAIN n.kids |-> IF n.leaf THEN tree.page[n.kids[j]]
                                    ELSE name(n.kids[j])]>>]>>
=============================================================================
