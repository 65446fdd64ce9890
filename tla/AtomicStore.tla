----------------------------- MODULE AtomicStore ----------------------------
(***************************************************************************)
(* What StripeSQL's commits promise (README, "Transactions are ACID for a  *)
(* single process"): a commit happens entirely or not at all, at one       *)
(* instant; a reply of "ok" is never given before that instant and a reply *)
(* of "failed" only if it never comes; a crash loses nothing that was      *)
(* committed, and may decide a commit in progress either way.              *)
(***************************************************************************)
EXTENDS LogEntries

CONSTANT Transactions   \* the sets of entries clients ask to commit

VARIABLES
  db,       \* the committed files
  pending,  \* the latest transaction
  status,   \* "idle", "busy" (undecided) or "decided" (not yet replied)
  reply     \* "pending", "ok", "failed", or "unknown" after a crash

avars == <<db, pending, status, reply>>

AInit ==
  /\ db \in Files
  /\ pending = {}
  /\ status = "idle"
  /\ reply = "ok"

ABegin(T) ==
  /\ status = "idle"
  /\ WellFormed(T, db)
  /\ pending' = T
  /\ status' = "busy"
  /\ reply' = "pending"
  /\ UNCHANGED db

\* The transaction is refused before it starts.
ARefuse(T) ==
  /\ status = "idle"
  /\ pending' = T
  /\ reply' = "failed"
  /\ UNCHANGED <<db, status>>

\* The commit point.
ADecide ==
  /\ status = "busy"
  /\ db' = Effect(db, pending)
  /\ status' = "decided"
  /\ UNCHANGED <<pending, reply>>

AReply ==
  /\ status = "decided"
  /\ status' = "idle"
  /\ reply' = "ok"
  /\ UNCHANGED <<db, pending>>

AAbort ==
  /\ status = "busy"
  /\ status' = "idle"
  /\ reply' = "failed"
  /\ UNCHANGED <<db, pending>>

\* A crash takes the reply away and decides an undecided transaction.
ACrash ==
  /\ status \in {"busy", "decided"}
  /\ status' = "idle"
  /\ reply' = "unknown"
  /\ \/ db' = db
     \/ status = "busy" /\ db' = Effect(db, pending)
  /\ UNCHANGED pending

ANext ==
  \/ \E T \in Transactions : ABegin(T) \/ ARefuse(T)
  \/ ADecide
  \/ AReply
  \/ AAbort
  \/ ACrash

ASpec == AInit /\ [][ANext]_avars

=============================================================================
