---------------------------- MODULE OrderedTable ----------------------------
(***************************************************************************)
(* What the B+ tree promises its callers (bplus.h): the rows of a table,   *)
(* found by key, each known by the room it takes in a page.                *)
(***************************************************************************)
EXTENDS Naturals, TLC

CONSTANTS
  Key,       \* ordering keys
  Size,      \* room a record can take in a page
  Capacity   \* room in a page

VARIABLE rows   \* the size of the row with each key the table holds

TInit == rows = <<>>

\* What a call makes of the rows r.  A duplicate key, and a row that fits in no
\* page, change nothing.
AfterInsert(r, k, z) == IF k \in DOMAIN r \/ z > Capacity THEN r ELSE (k :> z) @@ r

AfterUpdate(r, k, z) == IF z > Capacity THEN r ELSE [r EXCEPT ![k] = z]

AfterDelete(r, k) == [j \in DOMAIN r \ {k} |-> r[j]]
=============================================================================
