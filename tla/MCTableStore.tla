---------------------------- MODULE MCTableStore ----------------------------
(***************************************************************************)
(* A small table for TLC: two addresses for nodes and one for a page, and  *)
(* two objects, of which one names the first node as its parent (and so is *)
(* cached when that node is the root).                                     *)
(***************************************************************************)
EXTENDS TableStore, TLC

CONSTANTS n1, n2, p1, o1, o2

MCNodeAddr == {n1, n2}
MCPageAddr == {p1}
MCObject == {o1, o2}
MCParent == (o1 :> None) @@ (o2 :> n1)

\* A table of one node and one page, or of both nodes and no page.
MCInit ==
  /\ Init
  /\ fileHeader.root = n1
  /\ \A a \in fileHeader.used : file[a] = o1

MCSpec == MCInit /\ [][Next]_vars
=============================================================================
