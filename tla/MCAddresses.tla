---------------------------- MODULE MCAddresses -----------------------------
(***************************************************************************)
(* Two units of one node and two pages, as a table has them but for the    *)
(* number of pages.  Hash tables start with four slots and hold three      *)
(* entries before they double.                                             *)
(***************************************************************************)
EXTENDS Addresses, TLC

MCPageAddress == {6, 9, 14, 17}
MCNodeAddress == {4, 12}

\* The hashes of pages 6, 9, 14 and 17, and of nodes 4 and 12: one probe run
\* around the end of the table, one that growth parts, and two that meet.
Pages(a, b, c, d, nodes) ==
  (6 :> a) @@ (9 :> b) @@ (14 :> c) @@ (17 :> d)
  @@ [n \in 0 .. LastAddress |-> nodes]

MCHash == {Pages(3, 3, 3, 3, 3), Pages(7, 0, 3, 7, 3), Pages(3, 7, 0, 0, 0)}

\* The table's first objects are alike.
MCInit == Init /\ \A a \in Used(header) : file[a] = "o1"
MCSpec == MCInit /\ [][Next]_vars
=============================================================================
