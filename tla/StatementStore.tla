--------------------------- MODULE StatementStore ---------------------------
(***************************************************************************)
(* What StripeSQL promises about the statements on one table (README,      *)
(* "Statements are atomic"): a statement happens entirely or not at all; a *)
(* failed one leaves a transaction as if it had never run; COMMIT makes    *)
(* the transaction's changes the table's contents, DISCARD drops them, and *)
(* outside a transaction every statement commits by itself.                *)
(***************************************************************************)
CONSTANT Contents    \* the possible contents of the table

VARIABLES
  committed,  \* the contents a restart would find
  current,    \* the contents the session sees
  before,     \* the contents the running statement began with
  busy,       \* whether a statement is running
  held        \* whether a transaction is open

svars == <<committed, current, before, busy, held>>

SInit ==
  /\ committed \in Contents
  /\ current = committed
  /\ before = committed
  /\ busy = FALSE
  /\ held = FALSE

SBegin ==
  /\ ~busy
  /\ busy' = TRUE
  /\ UNCHANGED <<committed, current, before, held>>

SChange ==
  /\ busy
  /\ current' \in Contents
  /\ UNCHANGED <<committed, before, busy, held>>

\* The pending changes are committed, or dropped because that failed.
Settle ==
  /\ committed' \in {committed, current}
  /\ current' = committed'
  /\ before' = committed'

SEnd ==
  /\ busy
  /\ busy' = FALSE
  /\ \/ held /\ before' = current /\ UNCHANGED <<committed, current>>
     \/ ~held /\ Settle
  /\ UNCHANGED held

SFail ==
  /\ busy
  /\ busy' = FALSE
  /\ current' = before
  /\ UNCHANGED <<committed, before, held>>

SOpen ==
  /\ ~busy /\ ~held
  /\ held' = TRUE
  /\ UNCHANGED <<committed, current, before, busy>>

SCommit ==
  /\ ~busy /\ held
  /\ held' = FALSE
  /\ Settle
  /\ UNCHANGED busy

SDiscard ==
  /\ ~busy /\ held
  /\ held' = FALSE
  /\ current' = committed
  /\ before' = committed
  /\ UNCHANGED <<committed, busy>>

\* The process ends: between commits nothing pending survives.
SCrash ==
  /\ current' = committed
  /\ before' = committed
  /\ busy' = FALSE
  /\ held' = FALSE
  /\ UNCHANGED committed

\* The process ends in a commit, past the commit point.
SExit ==
  /\ busy # held
  /\ committed' = current
  /\ current' = current
  /\ before' = current
  /\ busy' = FALSE
  /\ held' = FALSE

SNext ==
  \/ SBegin
  \/ SChange
  \/ SEnd
  \/ SFail
  \/ SOpen
  \/ SCommit
  \/ SDiscard
  \/ SCrash
  \/ SExit

SSpec == SInit /\ [][SNext]_svars

=============================================================================
