------------------------------ MODULE CommitLog -----------------------------
(***************************************************************************)
(* The commit protocol of StripeSQL: commitTables (tableIO.c) over the     *)
(* write-ahead log (wal.c), and crash recovery.                            *)
(*                                                                         *)
(* Storage has two levels.  fs, log and logFile are what the operating     *)
(* system shows: they survive the death of the process.  held, named,      *)
(* logHeld and logNamed are what the disk may show after a power loss: for *)
(* each address, directory entry and for the log, the SET of contents that *)
(* may be found there.  A write adds to the set; a sync leaves one member. *)
(*                                                                         *)
(* Simplifications: stdio's buffer is not a level of its own (it delays    *)
(* writes in order, so a kill finds what an earlier kill would find); the  *)
(* transaction ID is left out (a log only ever holds the entries of one    *)
(* transaction, see OneTransactionPerLog, so the IDs always agree); a      *)
(* checksum is the knowledge of whether an entry is damaged.               *)
(*                                                                         *)
(* A definition marked "Variant" is no part of Next: it is a mistake this  *)
(* code could contain, kept beside the definition it would replace, and    *)
(* put in its place it makes TLC find one of the properties violated.      *)
(***************************************************************************)
EXTENDS LogEntries, Naturals

CONSTANTS
  Transactions,  \* the sets of entries clients ask to commit
  Faults,        \* the faults that may happen, a subset of FaultKind
  MaxTxns,       \* bound: commits attempted
  MaxFaults      \* bound: faults that happen

FaultKind ==
  { "io",         \* a call fails (none of the three below)
    "read",       \* a read of the log fails, and recovery goes on
    "markerSync", \* the sync after the commit marker fails
    "dirSync",    \* the sync of a new log's file or directory fails
    "kill",       \* the process dies, the operating system survives
    "power" }     \* the operating system dies: unsynced writes may be lost

ASSUME TransactionsAssumption == Transactions \subseteq SUBSET LogEntry
ASSUME FaultsAssumption == Faults \subseteq FaultKind
ASSUME BoundsAssumption == MaxTxns \in Nat /\ MaxFaults \in Nat

VARIABLES
  fs,        \* the files under tables/
  held,      \* held[f][a]: what a power loss may leave at address a of f
  named,     \* named[f]: whether f's directory entry may survive
  log,       \* the contents of stripe.log
  logFile,   \* whether stripe.log exists
  logHeld,   \* the contents a power loss may leave in stripe.log
  logNamed,  \* whether its directory entry may survive
  phase,     \* where the process is
  done,      \* entries applied since the phase began
  unsynced,  \* files written since their last sync
  redo,      \* executeCommit's memory: the entry it read last, if it read
             \* one, and whether it created or removed a file
  base,      \* the files when the latest transaction began
  txn,       \* the latest transaction
  unread,    \* whether recovery ever went on from a log it had not read
  outcome,   \* what its client was told
  txns,      \* commits attempted so far
  faults     \* faults so far

disk    == <<fs, held, named>>
logVars == <<log, logFile, logHeld, logNamed>>
proc    == <<done, unsynced, redo>>
history == <<base, txn, unread>>
vars    == <<disk, logVars, phase, proc, history, outcome, txns, faults>>

(***************************************************************************)
(* A log is its readable entries, its damaged ones and its commit marker,  *)
(* held as the set of entries it counts; {} when there is no valid marker. *)
(***************************************************************************)
LogImage == [ops : SUBSET LogEntry, bad : SUBSET LogEntry,
             marker : SUBSET LogEntry]

EmptyLog == [ops |-> {}, bad |-> {}, marker |-> {}]

\* checkCommitted: a valid marker, and exactly as many entries as it counts.
Committed(l) == l.marker # {} /\ l.marker = l.ops \union l.bad

Phase ==
  { "down",      \* no process
    "idle",      \* between commits
    "newlog",    \* stripe.log created, its directory not yet synced
    "log",       \* appending entries
    "mark",      \* entries synced, marker not written
    "sync",      \* marker written, not synced
    "apply",     \* past the commit point: changing the files
    "replay",    \* recovery: changing the files
    "reset",     \* resetLog called
    "truncated"} \* stripe.log truncated, not synced

Redo == [entry : SUBSET LogEntry, changedFiles : BOOLEAN]

NothingRead == [entry |-> {}, changedFiles |-> FALSE]

Durable(f) ==
  /\ named[f] = {fs[f] # Absent}
  /\ fs[f] # Absent => \A a \in Addr : held[f][a] = {fs[f][a]}

\* The held sets of files F with nothing in flight.
Settle(F) ==
  [f \in File |-> [a \in Addr |->
                     IF F[f] = Absent THEN {Blank} ELSE {F[f][a]}]]

Init ==
  /\ fs \in Files
  /\ held = Settle(fs)
  /\ named = [f \in File |-> {fs[f] # Absent}]
  /\ log = EmptyLog
  /\ logFile \in BOOLEAN
  /\ logHeld = {EmptyLog}
  /\ logNamed = {logFile}
  /\ phase = "down"
  /\ done = {}
  /\ unsynced = {}
  /\ redo = NothingRead
  /\ base = fs
  /\ txn = {}
  /\ unread = FALSE
  /\ outcome = "ok"
  /\ txns = 0
  /\ faults = 0

Fault(k) ==
  /\ k \in Faults
  /\ faults < MaxFaults
  /\ faults' = faults + 1

(***************************************************************************)
(* One file operation, as fopen("wb"), remove and fwrite make it.          *)
(***************************************************************************)
Perform(e) ==
  LET f == e.file IN
  CASE e.type = "create" ->
         /\ fs' = [fs EXCEPT ![f] = [a \in Addr |-> Blank]]
         /\ held' = [held EXCEPT ![f] =
                       [a \in Addr |-> held[f][a] \union {Blank}]]
         /\ named' = [named EXCEPT ![f] = named[f] \union {TRUE}]
    [] e.type = "remove" ->
         /\ fs' = [fs EXCEPT ![f] = Absent]
         /\ named' = [named EXCEPT ![f] = named[f] \union {FALSE}]
         /\ UNCHANGED held
    [] e.type = "write" ->
         /\ fs' = [fs EXCEPT ![f] = [fs[f] EXCEPT ![e.addr] = e.payload]]
         /\ held' = [held EXCEPT ![f] =
                       [held[f] EXCEPT ![e.addr] =
                          held[f][e.addr] \union {Blank, e.payload}]]
         /\ UNCHANGED named

\* A file's CREATE is logged, and so performed, before its writes.
Ready(e, T, D) ==
  (e.type = "write" /\ CreateEntry(e.file) \in T) => CreateEntry(e.file) \in D

\* syncFile on a table file, the schema file or a replayed file.
SyncFile(f) ==
  /\ held' = [held EXCEPT ![f] = [a \in Addr |-> {fs[f][a]}]]
  /\ unsynced' = unsynced \ {f}

\* syncDirectory: directory entries, and so creations and removals, last.
SyncDirectory ==
  /\ named' = [f \in File |-> {fs[f] # Absent}]
  /\ held' = [f \in File |->
                IF fs[f] = Absent THEN [a \in Addr |-> {Blank}] ELSE held[f]]

(***************************************************************************)
(* Starting a commit: initManager and ensureLogOpen.  A log that already   *)
(* exists is opened without a directory sync.  initManager refuses a log   *)
(* that is not empty (LogEmptyWhenIdle says when it never has to).         *)
(***************************************************************************)
\* Variant: a commit does not look whether the log is empty.
BeginOverLog(T) ==
  /\ phase = "idle"
  /\ txns < MaxTxns
  /\ T # {} /\ WellFormed(T, fs)
  /\ base' = fs
  /\ txn' = T
  /\ outcome' = "pending"
  /\ txns' = txns + 1
  /\ IF logFile
     THEN phase' = "log" /\ UNCHANGED logVars
     ELSE /\ phase' = "newlog"
          /\ log' = EmptyLog
          /\ logFile' = TRUE
          /\ logHeld' = {EmptyLog}
          /\ logNamed' = logNamed \union {TRUE}
  /\ UNCHANGED <<disk, proc, unread, faults>>

Begin(T) ==
  /\ phase = "idle"
  /\ log = EmptyLog
  /\ txns < MaxTxns
  /\ T # {} /\ WellFormed(T, fs)
  /\ base' = fs
  /\ txn' = T
  /\ outcome' = "pending"
  /\ txns' = txns + 1
  /\ IF logFile
     THEN phase' = "log" /\ UNCHANGED logVars
     ELSE /\ phase' = "newlog"
          /\ log' = EmptyLog
          /\ logFile' = TRUE
          /\ logHeld' = {EmptyLog}
          /\ logNamed' = logNamed \union {TRUE}
  /\ UNCHANGED <<disk, proc, unread, faults>>

\* The log can't be opened or positioned, or still holds a transaction: the
\* changes are discarded and the log is left as it is.
BeginFails(T) ==
  /\ phase = "idle"
  /\ txns < MaxTxns
  /\ T # {} /\ WellFormed(T, fs)
  /\ \/ Fault("io")
     \/ log # EmptyLog /\ UNCHANGED faults
  /\ base' = fs
  /\ txn' = T
  /\ outcome' = "failed"
  /\ txns' = txns + 1
  /\ UNCHANGED <<disk, logVars, phase, proc, unread>>

SyncNewLog ==
  /\ phase = "newlog"
  /\ logNamed' = {TRUE}
  /\ phase' = "log"
  /\ UNCHANGED <<disk, log, logFile, logHeld, proc, history, outcome, txns,
                 faults>>

\* ensureLogOpen returns false and leaves manager.log open.
SyncNewLogFails ==
  /\ phase = "newlog"
  /\ Fault("dirSync")
  /\ outcome' = "failed"
  /\ phase' = "idle"
  /\ UNCHANGED <<disk, logVars, proc, history, txns>>

(***************************************************************************)
(* Writing the log: logTable and logFileChange through addLogEntry, then   *)
(* markLogCommitted.  While the log is not synced, each of its entries may *)
(* be intact, damaged or missing after a power loss.                       *)
(***************************************************************************)
AddLogEntry(e) ==
  /\ phase = "log"
  /\ e \in txn \ log.ops
  /\ Ready(e, txn, log.ops)
  /\ log' = [log EXCEPT !.ops = log.ops \union {e}]
  /\ logHeld' = logHeld
       \union {[l EXCEPT !.ops = l.ops \union {e}] :
                 l \in {x \in logHeld : x.marker = {}}}
       \union {[l EXCEPT !.bad = l.bad \union {e}] :
                 l \in {x \in logHeld : x.marker = {}}}
  /\ UNCHANGED <<disk, logFile, logNamed, phase, proc, history, outcome, txns,
                 faults>>

\* Variant: the marker is written without syncing the entries first.
SkipEntriesSync ==
  /\ phase = "log"
  /\ log.ops = txn
  /\ phase' = "mark"
  /\ UNCHANGED <<disk, logVars, proc, history, outcome, txns, faults>>

\* markLogCommitted's first sync: the marker can't reach disk ahead of them.
SyncEntries ==
  /\ phase = "log"
  /\ log.ops = txn
  /\ logHeld' = {log}
  /\ phase' = "mark"
  /\ UNCHANGED <<disk, log, logFile, logNamed, proc, history, outcome, txns,
                 faults>>

\* Variant: the files are changed before the marker is synced.
WriteMarkerUnsynced ==
  /\ phase = "mark"
  /\ log' = [log EXCEPT !.marker = txn]
  /\ logHeld' = logHeld \union {[l EXCEPT !.marker = txn] : l \in logHeld}
  /\ phase' = "apply"
  /\ done' = {}
  /\ unsynced' = {}
  /\ UNCHANGED <<disk, logFile, logNamed, redo, history, outcome, txns, faults>>

WriteMarker ==
  /\ phase = "mark"
  /\ log' = [log EXCEPT !.marker = txn]
  /\ logHeld' = logHeld \union {[l EXCEPT !.marker = txn] : l \in logHeld}
  /\ phase' = "sync"
  /\ UNCHANGED <<disk, logFile, logNamed, proc, history, outcome, txns,
                 faults>>

\* markLogCommitted's second sync is the commit point.
SyncMarker ==
  /\ phase = "sync"
  /\ logHeld' = {log}
  /\ phase' = "apply"
  /\ done' = {}
  /\ unsynced' = {}
  /\ UNCHANGED <<disk, log, logFile, logNamed, redo, history, outcome, txns,
                 faults>>

\* Variant: an abort without resetLog.
AbortKeepsLog ==
  /\ outcome' = "failed"
  /\ phase' = "idle"
  /\ UNCHANGED <<disk, logFile, logNamed, proc, history, txns>>

\* commitTables prints that the changes were discarded, and resets the log.
Abort ==
  /\ outcome' = "failed"
  /\ phase' = "reset"
  /\ UNCHANGED <<disk, logFile, logNamed, proc, history, txns>>

\* Variant: a torn entry passes for an entry with an empty payload.
LogFailsUnnoticed ==
  /\ phase = "log"
  /\ Fault("io")
  /\ \E e \in txn \ log.ops :
       /\ log' = [log EXCEPT !.ops = log.ops \union {[e EXCEPT !.payload = Blank]}]
       /\ logHeld' = logHeld \union {log'}
  /\ Abort

\* An append fails, leaving a torn entry or nothing, or the first sync does.
LogFails ==
  /\ phase = "log"
  /\ Fault("io")
  /\ \/ UNCHANGED <<log, logHeld>>
     \/ \E e \in txn \ log.ops :
          /\ log' = [log EXCEPT !.bad = {e}]
          /\ logHeld' = logHeld \union {log'}
  /\ Abort

MarkFails ==
  /\ phase = "mark"
  /\ Fault("io")
  /\ UNCHANGED <<log, logHeld>>
  /\ Abort

\* The marker was written: a failed sync does not take it back.
SyncMarkerFails ==
  /\ phase = "sync"
  /\ Fault("markerSync")
  /\ UNCHANGED <<log, logHeld>>
  /\ Abort

(***************************************************************************)
(* After the commit point: applyTable and applyFileChange, one file after  *)
(* another, each synced before the next; a removal needs no sync of the    *)
(* file.  Then the directory, if a file was created or removed.            *)
(***************************************************************************)
ApplyEntry(e) ==
  /\ phase = "apply"
  /\ e \in txn \ done
  /\ Ready(e, txn, done)
  /\ unsynced \subseteq {e.file}
  /\ Perform(e)
  /\ done' = done \union {e}
  /\ unsynced' = IF e.type = "remove" THEN unsynced ELSE {e.file}
  /\ UNCHANGED <<logVars, phase, redo, history, outcome, txns, faults>>

SyncApplied(f) ==
  /\ phase = "apply"
  /\ f \in unsynced
  /\ \A e \in txn : e.file = f => e \in done
  /\ SyncFile(f)
  /\ UNCHANGED <<fs, named, logVars, phase, done, redo, history, outcome,
                 txns, faults>>

\* Variant: a file written last is not synced.
FinishApplyUnsynced ==
  /\ phase = "apply"
  /\ done = txn
  /\ IF ChangesFiles(txn) THEN SyncDirectory ELSE UNCHANGED <<held, named>>
  /\ phase' = "reset"
  /\ UNCHANGED <<fs, logVars, proc, history, outcome, txns, faults>>

\* Variant: the directory is not synced.
FinishApplyNoDirectory ==
  /\ phase = "apply"
  /\ done = txn
  /\ unsynced = {}
  /\ phase' = "reset"
  /\ UNCHANGED <<disk, logVars, proc, history, outcome, txns, faults>>

FinishApply ==
  /\ phase = "apply"
  /\ done = txn
  /\ unsynced = {}
  /\ IF ChangesFiles(txn) THEN SyncDirectory ELSE UNCHANGED <<held, named>>
  /\ phase' = "reset"
  /\ UNCHANGED <<fs, logVars, proc, history, outcome, txns, faults>>

(***************************************************************************)
(* resetLog: truncate, then sync.  Reached by a commit, an abort and       *)
(* recovery.  Until the sync the old log may come back.                    *)
(***************************************************************************)
TruncateLog ==
  /\ phase = "reset"
  /\ log' = EmptyLog
  /\ logHeld' = logHeld \union {EmptyLog}
  /\ phase' = "truncated"
  /\ UNCHANGED <<disk, logFile, logNamed, proc, history, outcome, txns,
                 faults>>

SyncReset ==
  /\ phase = "truncated"
  /\ logHeld' = {log}
  /\ phase' = "idle"
  /\ outcome' = IF outcome = "pending" THEN "ok" ELSE outcome
  /\ UNCHANGED <<disk, log, logFile, logNamed, proc, history, txns, faults>>

(***************************************************************************)
(* recover, run by main before anything reads a table.  A committed log    *)
(* with a damaged entry fails recovery and stays: the process never gets   *)
(* past "down" (CommittedLogIsReadable says that does not happen).         *)
(***************************************************************************)
\* Variant: recovery replays a log without checking its marker.
StartUnchecked ==
  /\ phase = "down"
  /\ IF log = EmptyLog THEN phase' = "idle" ELSE phase' = "replay"
  /\ done' = {}
  /\ unsynced' = {}
  /\ redo' = NothingRead
  /\ UNCHANGED <<disk, logVars, history, outcome, txns, faults>>

\* Variant: recovery discards every log.
StartDiscards ==
  /\ phase = "down"
  /\ IF log = EmptyLog THEN phase' = "idle" ELSE phase' = "reset"
  /\ done' = {}
  /\ unsynced' = {}
  /\ redo' = NothingRead
  /\ UNCHANGED <<disk, logVars, history, outcome, txns, faults>>

\* Variant: recovery refuses an uncommitted log.
StartRefuses ==
  /\ phase = "down"
  /\ \/ log = EmptyLog /\ phase' = "idle"
     \/ Committed(log) /\ phase' = "replay"
  /\ done' = {}
  /\ unsynced' = {}
  /\ redo' = NothingRead
  /\ UNCHANGED <<disk, logVars, history, outcome, txns, faults>>

Start ==
  /\ phase = "down"
  /\ \/ /\ ~logFile \/ log = EmptyLog
        /\ phase' = "idle"
     \/ /\ logFile /\ Committed(log)
        /\ log.bad = {}
        /\ phase' = "replay"
     \/ /\ logFile /\ log # EmptyLog /\ ~Committed(log)
        /\ phase' = "reset"
  /\ done' = {}
  /\ unsynced' = {}
  /\ redo' = NothingRead
  /\ UNCHANGED <<disk, logVars, history, outcome, txns, faults>>

\* A log that can't be opened is taken for no log, and one whose length or
\* marker can't be read for one that is not committed.
StartUnread ==
  /\ phase = "down"
  /\ logFile
  /\ Fault("read")
  /\ phase' \in {"idle", "reset"}
  /\ done' = {}
  /\ unsynced' = {}
  /\ redo' = NothingRead
  /\ unread' = (unread \/ log # EmptyLog)
  /\ UNCHANGED <<disk, logVars, base, txn, outcome, txns>>

LoseProcess ==
  /\ phase' = "down"
  /\ outcome' = IF outcome = "pending" THEN "unknown" ELSE outcome
  /\ UNCHANGED <<proc, history, txns>>

\* Entry e is the next one executeCommit comes to in its second pass.
NextEntry(e) ==
  /\ phase = "replay"
  /\ unsynced = {}
  /\ e \in log.ops \ done
  /\ Ready(e, log.ops, done)

\* applyEntry fails to write to a missing file, and the program exits.
Missing(e) == e.type = "write" /\ fs[e.file] = Absent

\* Every entry is synced by itself.
Replay(e) ==
  /\ ~Missing(e)
  /\ Perform(e)
  /\ unsynced' = IF e.type = "remove" THEN {} ELSE {e.file}
  /\ redo' = [entry |-> {e},
              changedFiles |-> redo.changedFiles \/ ChangesFiles({e})]

ReplayEntry(e) ==
  /\ NextEntry(e)
  /\ Replay(e)
  /\ done' = done \union {e}
  /\ UNCHANGED <<logVars, phase, history, outcome, txns, faults>>

ReplayMissing(e) ==
  /\ NextEntry(e)
  /\ Missing(e)
  /\ LoseProcess
  /\ UNCHANGED <<disk, logVars, faults>>

\* What manager.entry holds when entry e can't be read: the entry before it,
\* and before the first one the log's last, which the first pass left there.
Leftover(e) ==
  IF redo.entry # {} THEN redo.entry
  ELSE IF log.ops = {e} THEN {e}
  ELSE {x \in log.ops \ {e} :
          \A y \in log.ops : Ready(y, log.ops, log.ops \ {x})}

\* The second pass does not look at what readEntry returns: it performs what
\* is left in manager.entry, and skips e.
ReplayUnread(e) ==
  /\ NextEntry(e)
  /\ Fault("read")
  /\ \E x \in Leftover(e) :
       \/ /\ Replay(x)
          /\ done' = done \union {e}
          /\ unread' = TRUE
          /\ UNCHANGED <<logVars, phase, base, txn, outcome, txns>>
       \/ /\ Missing(x)
          /\ LoseProcess
          /\ UNCHANGED <<disk, logVars>>

SyncReplayed(f) ==
  /\ phase = "replay"
  /\ f \in unsynced
  /\ SyncFile(f)
  /\ UNCHANGED <<fs, named, logVars, phase, done, redo, history, outcome,
                 txns, faults>>

\* Variant: recovery does not sync the directory.
FinishReplayNoDirectory ==
  /\ phase = "replay"
  /\ done = log.ops
  /\ unsynced = {}
  /\ phase' = "reset"
  /\ UNCHANGED <<disk, logVars, proc, history, outcome, txns, faults>>

FinishReplay ==
  /\ phase = "replay"
  /\ done = log.ops
  /\ unsynced = {}
  /\ IF redo.changedFiles THEN SyncDirectory ELSE UNCHANGED <<held, named>>
  /\ phase' = "reset"
  /\ UNCHANGED <<fs, logVars, proc, history, outcome, txns, faults>>

(***************************************************************************)
(* Ends of the process.                                                    *)
(***************************************************************************)
\* exit(74): an I/O call failed after the commit point, in resetLog or in
\* recovery (a read of its first pass over the entries included).
Exit ==
  /\ phase \in {"apply", "replay", "reset", "truncated"}
  /\ Fault("io")
  /\ LoseProcess
  /\ UNCHANGED <<disk, logVars>>

\* The process is killed; an append may be cut short.
Kill ==
  /\ phase # "down"
  /\ Fault("kill")
  /\ \/ UNCHANGED <<log, logHeld>>
     \/ /\ phase = "log"
        /\ \E e \in txn \ log.ops :
             /\ log' = [log EXCEPT !.bad = {e}]
             /\ logHeld' = logHeld \union {log'}
  /\ LoseProcess
  /\ UNCHANGED <<disk, logFile, logNamed>>

\* Each address, directory entry and the log become one of the contents the
\* disk may hold.
Power ==
  /\ Fault("power")
  /\ \E n \in [File -> BOOLEAN], c \in [File -> Content] :
       /\ \A f \in File : n[f] \in named[f]
       /\ \A f \in File, a \in Addr : c[f][a] \in held[f][a]
       /\ fs' = [f \in File |-> IF n[f] THEN c[f] ELSE Absent]
       /\ held' = Settle(fs')
       /\ named' = [f \in File |-> {n[f]}]
  /\ \E l \in logHeld, n \in logNamed :
       /\ log' = IF n THEN l ELSE EmptyLog
       /\ logHeld' = {log'}
       /\ logFile' = n
       /\ logNamed' = {n}
  /\ LoseProcess

-----------------------------------------------------------------------------

\* The steps the program takes by itself once a commit or a start began.
Progress ==
  \/ SyncNewLog
  \/ SyncEntries
  \/ WriteMarker
  \/ SyncMarker
  \/ FinishApply
  \/ TruncateLog
  \/ SyncReset
  \/ FinishReplay
  \/ \E e \in LogEntry :
       AddLogEntry(e) \/ ApplyEntry(e) \/ ReplayEntry(e) \/ ReplayMissing(e)
  \/ \E f \in File : SyncApplied(f) \/ SyncReplayed(f)

Failure ==
  \/ SyncNewLogFails
  \/ LogFails
  \/ MarkFails
  \/ SyncMarkerFails
  \/ StartUnread
  \/ \E e \in LogEntry : ReplayUnread(e)
  \/ Exit
  \/ Kill
  \/ Power

Next ==
  \/ \E T \in Transactions : Begin(T) \/ BeginFails(T)
  \/ Start
  \/ Progress
  \/ Failure

Spec == Init /\ [][Next]_vars

\* A running process takes its next step, and the user restarts a dead one.
Fairness == WF_vars(Progress) /\ WF_vars(Start)

FairSpec == Spec /\ Fairness

-----------------------------------------------------------------------------

TypeOK ==
  /\ fs \in Files
  /\ held \in [File -> [Addr -> SUBSET (Value \union {Blank})]]
  /\ named \in [File -> SUBSET BOOLEAN]
  /\ log \in LogImage
  /\ logFile \in BOOLEAN
  /\ logHeld \subseteq LogImage
  /\ logNamed \subseteq BOOLEAN
  /\ phase \in Phase
  /\ done \subseteq LogEntry
  /\ unsynced \subseteq File
  /\ redo \in Redo
  /\ base \in Files
  /\ txn \subseteq LogEntry
  /\ unread \in BOOLEAN
  /\ outcome \in {"pending", "ok", "failed", "unknown"}
  /\ txns \in Nat
  /\ faults \in Nat

(***************************************************************************)
(* A table is never read while it holds part of a commit: between commits  *)
(* the files are those before the latest transaction or those after it     *)
(* (README:114, "so a table never holds part of one"; README:93 and :109   *)
(* for a table and its schema entry, and for several tables).  This takes  *)
(* a recovery that could read its log: see RecoveryFinishesCommits.        *)
(***************************************************************************)
AllOrNothing ==
  (phase = "idle" /\ ~unread) => fs \in {base, Effect(base, txn)}

(***************************************************************************)
(* The reply is the truth, also after later crashes: a commit that         *)
(* returned true is in the files, one that returned false is not.          *)
(***************************************************************************)
ReplyIsTrue ==
  (phase = "idle" /\ ~unread) =>
    /\ outcome = "ok" => fs = Effect(base, txn)
    /\ outcome = "failed" => fs = base

\* README:116 and tableIO.c:1272: a transaction reported as failed before the
\* commit point stays discarded.
AbortedStaysDiscarded ==
  (phase = "idle" /\ outcome = "failed" /\ ~unread) => fs = base

(***************************************************************************)
(* wal.c:344 and :346, on recover: a commit that was interrupted is        *)
(* retried, and the program does not go on if it could not be finished.    *)
(***************************************************************************)
RecoveryFinishesCommits ==
  [][(/\ phase \in {"down", "replay"} /\ Committed(log)
      /\ phase' \in {"idle", "reset"})
       => fs' = Effect(fs, log.ops)]_vars

(***************************************************************************)
(* Whatever a power loss leaves of the log, a log whose marker is valid    *)
(* has no damaged entry, so recovery never refuses to start (wal.c:218).   *)
(***************************************************************************)
CommittedLogIsReadable ==
  \A l \in logHeld \union {log} : Committed(l) => l.bad = {}

(***************************************************************************)
(* Between commits the log is empty, so initManager never refuses a commit *)
(* and no entry is appended after a leftover one; and a log that could     *)
(* still come back holds a commit the files already have, so replaying it  *)
(* changes nothing (tableIO.c:1302, :1327).                                *)
(***************************************************************************)
LogEmptyWhenIdle ==
  (phase = "idle" /\ ~unread) =>
    /\ log = EmptyLog
    /\ \A l \in logHeld : Committed(l) => Effect(fs, l.ops) = fs

(***************************************************************************)
(* No entry is ever appended after a leftover one, not even once recovery  *)
(* left a log behind: a leftover partial transaction would corrupt the     *)
(* next one (tableIO.c:1302, wal.c:133).                                   *)
(***************************************************************************)
OneTransactionPerLog ==
  phase \in {"log", "mark", "sync", "apply"} =>
    log.ops \union log.bad \union log.marker \subseteq txn

(***************************************************************************)
(* Write-ahead: a running process changes a file only once a log with a    *)
(* valid marker describing the change is on disk, name included.           *)
(***************************************************************************)
WriteAhead ==
  [][(fs' # fs /\ phase' # "down") =>
       /\ TRUE \in logNamed /\ FALSE \notin logNamed
       /\ \A l \in logHeld : Committed(l) /\ l.ops = log.ops]_vars

(***************************************************************************)
(* The log is emptied only once nothing of its commit can be lost.         *)
(***************************************************************************)
ResetOnlyWhenDurable ==
  [][(Committed(log) /\ log' = EmptyLog /\ phase' # "down" /\ ~unread) =>
       /\ \A f \in File : Durable(f)
       /\ Effect(fs, log.ops) = fs]_vars

\* Once faults stop, every start and every commit ends with the process
\* ready for the next statement.  Half a commit that recovery went past can lead
\* to a log that writes to a lost file, and then no start succeeds.
EventuallyIdle == []<>(phase = "idle" \/ unread)

(***************************************************************************)
(* The protocol implements the atomic store.  The commit is decided when   *)
(* the marker's sync returns, or by the crash that finds it on disk.  From *)
(* the moment recovery goes on without having read a log, nothing is said. *)
(***************************************************************************)
StoreDb ==
  IF phase # "sync" /\ Committed(log) THEN Effect(base, log.ops) ELSE fs

StoreStatus ==
  IF phase \in {"newlog", "log", "mark", "sync"} THEN "busy"
  ELSE IF outcome = "pending" /\ phase \in {"apply", "reset", "truncated"}
       THEN "decided"
       ELSE "idle"

Store == INSTANCE AtomicStore WITH
  db <- StoreDb, pending <- txn, status <- StoreStatus, reply <- outcome

ImplementsStore ==
  Store!AInit /\ [][Store!ANext \/ unread']_(Store!avars)
=============================================================================
