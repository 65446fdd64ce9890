------------------------------ MODULE TableScan -----------------------------
(***************************************************************************)
(* What the virtual machine relies on while a scan changes its own table   *)
(* (vm.c): a scan meets each row there is once, in key order, however the  *)
(* rows move between pages as the scan updates and deletes them.           *)
(***************************************************************************)
EXTENDS OrderedTable

VARIABLES
  ahead,   \* the keys the scan has yet to meet
  on,      \* the key of the row it is on: at most one
  open     \* whether there is a scan

svars == <<rows, ahead, on, open>>

SInit == TInit /\ ahead = {} /\ on = {} /\ open = FALSE

\* Rows are inserted by statements that do not scan.
SInsert ==
  /\ ~open
  /\ UNCHANGED <<ahead, on, open>>
  /\ rows' \in {AfterInsert(rows, k, z) : k \in Key, z \in Size}

SOpen ==
  /\ ~open /\ open'
  /\ ahead' = DOMAIN rows
  /\ UNCHANGED <<rows, on>>

SAdvance ==
  /\ open /\ open'
  /\ on' = {k \in ahead : \A j \in ahead : k <= j}
  /\ ahead' = ahead \ on'
  /\ UNCHANGED rows

\* A key search, in place of a scan from the first row.
SSearch ==
  /\ open /\ open' /\ on = {}
  /\ \E k \in Key : on' = {k} \intersect DOMAIN rows
  /\ ahead = DOMAIN rows
  /\ UNCHANGED <<rows, ahead>>

SUpdate ==
  /\ UNCHANGED <<on, open>>
  /\ \E k \in on : rows' \in {AfterUpdate(rows, k, z) : z \in Size}
  /\ UNCHANGED ahead

SDelete ==
  /\ open' /\ on' = {}
  /\ \E k \in on : rows' = AfterDelete(rows, k) /\ ahead' = ahead \ {k}

SClose ==
  /\ open /\ ~open'
  /\ ahead' = {} /\ on' = {}
  /\ UNCHANGED rows

SNext ==
  \/ SInsert \/ SOpen \/ SAdvance \/ SSearch \/ SUpdate \/ SDelete \/ SClose

SSpec == SInit /\ [][SNext]_svars
=============================================================================
