---------------------------- MODULE CommitLogInv ----------------------------
(***************************************************************************)
(* The inductive invariant of CommitLog.  AllOrNothing and ReplyIsTrue     *)
(* speak of the moments between commits; what makes them true is what a    *)
(* crash at any other moment would find, so the invariant relates every    *)
(* log that may be found to the files that may be found with it.  A        *)
(* recovery that goes on from a log it could not read ends that relation;  *)
(* LogInv, at the end, is what still holds then.                           *)
(***************************************************************************)
EXTENDS CommitLog

\* The combinations of faults the protocol withstands (failing reads until
\* recovery skips a log because of one, see commitlog_unread).  The other three
\* are refuted: see commitlog_marker, commitlog_newlog, commitlog_rerun.
SafeFaults ==
  /\ "markerSync" \notin Faults
  /\ "power" \in Faults => "kill" \notin Faults /\ "dirSync" \notin Faults

LosesPower == "power" \in Faults

\* Entries of T create or remove f.
Renames(T, f) == CreateEntry(f) \in T \/ RemoveEntry(f) \in T

\* Files x agree with b wherever T makes no change.
Untouched(b, T, x) ==
  \A f \in File :
    /\ ~Renames(T, f) => (x[f] = Absent <=> b[f] = Absent)
    /\ (x[f] # Absent /\ b[f] # Absent /\ CreateEntry(f) \notin T) =>
         \A a \in Addr : ~Writes(T, f, a) => x[f][a] = b[f][a]

\* The same of everything a power loss may leave.
UntouchedHeld(b, T) ==
  \A f \in File :
    /\ ~Renames(T, f) => named[f] = {b[f] # Absent}
    /\ (TRUE \in named[f] /\ b[f] # Absent /\ CreateEntry(f) \notin T) =>
         \A a \in Addr : ~Writes(T, f, a) => held[f][a] = {b[f][a]}

\* The entries D of a log have been performed on files x.
Applied(D, x) ==
  \A f \in File :
    /\ RemoveEntry(f) \in D => x[f] = Absent
    /\ CreateEntry(f) \in D =>
         /\ x[f] # Absent
         /\ \A a \in Addr : ~Writes(D, f, a) => x[f][a] = Blank
    /\ \A a \in Addr, v \in Value : WriteEntry(f, a, v) \in D =>
         x[f] # Absent /\ x[f][a] = v

\* D holds a file's CREATE before any of its writes.
CreatesFirst(D, T) ==
  \A f \in File, a \in Addr :
    Writes(D, f, a) /\ CreateEntry(f) \in T => CreateEntry(f) \in D

AllDurable == \A f \in File : Durable(f)

\* Files x are an allowed result of the latest transaction.
Consistent(x) ==
  /\ x \in {base, Effect(base, txn)}
  /\ outcome = "ok" => x = Effect(base, txn)
  /\ outcome = "failed" => x = base

\* Nothing is in flight and the files need no log.
Quiet == AllDurable /\ Consistent(fs)

\* Performing T, from whatever a crash leaves, gives an allowed result.
Redoable(T) ==
  /\ WellFormed(T, base)
  /\ Untouched(base, T, fs)
  /\ UntouchedHeld(base, T)
  /\ Consistent(Effect(base, T))

\* A log recovery may find: one to redo, or one to discard.
SafeLog(l) == IF Committed(l) THEN Redoable(l.ops) ELSE Quiet

ReadableInv ==
  /\ \A l \in logHeld \union {log} : Committed(l) => l.bad = {}
  /\ phase = "mark" => logHeld = {log}

BusyInv ==
  phase \in {"newlog", "log", "mark", "sync"} =>
    /\ outcome = "pending"
    /\ fs = base
    /\ AllDurable
    /\ txn # {}
    /\ logFile
    /\ log.bad = {}
    /\ phase = "newlog" => log = EmptyLog
    /\ phase = "log" => log.marker = {} /\ log.ops \subseteq txn
    /\ phase = "mark" => log.marker = {} /\ log.ops = txn
    /\ phase = "sync" => log.marker = txn /\ log.ops = txn

IdleInv ==
  phase = "idle" => log = EmptyLog /\ Quiet /\ outcome # "pending"

\* The entries being performed, and how far they got.
RedoInv ==
  phase \in {"apply", "replay"} =>
    /\ logFile
    /\ Committed(log)
    /\ Redoable(log.ops)
    /\ done \subseteq log.ops
    /\ Applied(done, fs)
    /\ CreatesFirst(done, log.ops)
    /\ \A f \in unsynced : fs[f] # Absent /\ RemoveEntry(f) \notin log.ops
    /\ \A f \in File \ unsynced :
         (Touches(log.ops, f) => Touches(done, f)) =>
           (fs[f] # Absent => \A a \in Addr : held[f][a] = {fs[f][a]})
    /\ phase = "apply" => outcome = "pending" /\ log.ops = txn
    /\ phase = "replay" =>
         outcome # "pending" /\ (redo.changedFiles <=> ChangesFiles(done))

ResetInv ==
  phase \in {"reset", "truncated"} =>
    /\ logFile
    /\ Quiet
    /\ outcome = "pending" => fs = Effect(base, txn)
    /\ Committed(log) => Redoable(log.ops) /\ fs = Effect(base, log.ops)
    /\ phase = "truncated" => log = EmptyLog

DownInv ==
  phase = "down" => outcome # "pending" /\ SafeLog(log)

\* What a power loss may find.
HeldInv ==
  LosesPower =>
    /\ \A l \in logHeld : SafeLog(l)
    /\ FALSE \in logNamed => Quiet
    /\ logFile /\ phase # "newlog" => logNamed = {TRUE}
    /\ phase \in {"down", "apply", "replay", "reset"} /\ Committed(log) =>
         logHeld = {log}
    /\ ~Committed(log) =>
         \A l \in logHeld : Committed(l) => fs = Effect(base, l.ops)

IInv ==
  /\ TypeOK
  /\ WellFormed(txn, base)
  /\ ~logFile => log = EmptyLog
  /\ ReadableInv
  /\ BusyInv
  /\ IdleInv
  /\ RedoInv
  /\ ResetInv
  /\ DownInv
  /\ HeldInv

-----------------------------------------------------------------------------
(***************************************************************************)
(* IInv holds until recovery goes on from a log it has not read.  LogInv   *)
(* holds always, and whatever the faults: what the log holds in each phase *)
(* of a commit, and that the files a step writes to are there.             *)
(***************************************************************************)
LogShape ==
  /\ ~logFile => log = EmptyLog
  /\ phase \notin {"down", "idle"} => logFile
  /\ phase \in {"newlog", "truncated"} => log = EmptyLog
  /\ phase = "log" => log.marker = {} /\ log.bad = {} /\ log.ops \subseteq txn
  /\ phase = "mark" => log.marker = {} /\ log.bad = {} /\ log.ops = txn
  /\ phase \in {"sync", "apply"} => log.marker = txn /\ log.bad = {} /\ log.ops = txn
  /\ phase \in {"apply", "replay"} => Committed(log)

\* Before a commit changes the files they are those it began with, and a
\* file that is still to be written is there, or still to be created.
FilesThere ==
  /\ phase \in {"newlog", "log", "mark", "sync"} => fs = base /\ txn # {}
  /\ phase = "apply" =>
       /\ done \subseteq txn
       /\ \A f \in File, a \in Addr : Writes(txn \ done, f, a) =>
            fs[f] # Absent \/ CreateEntry(f) \in txn \ done
       /\ \A f \in unsynced : RemoveEntry(f) \notin txn
  /\ phase \in {"apply", "replay"} => \A f \in unsynced : fs[f] # Absent

LogInv ==
  /\ TypeOK
  /\ WellFormed(txn, base)
  /\ ReadableInv
  /\ LogShape
  /\ FilesThere

\* A committed log survives a power loss until resetLog empties it.
HeldLog ==
  LosesPower =>
    /\ logFile /\ phase # "newlog" => logNamed = {TRUE}
    /\ phase \in {"down", "idle", "apply", "replay", "reset"}
         /\ Committed(log) => logHeld = {log}
=============================================================================
