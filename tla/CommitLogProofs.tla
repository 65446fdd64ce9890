-------------------------- MODULE CommitLogProofs ---------------------------
(***************************************************************************)
(* Proofs about the commit protocol: for every set of faults, its types    *)
(* and what its log holds; for every combination in SafeFaults, that       *)
(* commits are atomic and durable, that replies are true, that the         *)
(* protocol is write-ahead and that it implements AtomicStore, all but the *)
(* write-ahead up to a recovery that could not read its log.               *)
(***************************************************************************)
EXTENDS CommitLogInv, TLAPS

(***************************************************************************)
(* Entries.                                                                *)
(***************************************************************************)

\* The three kinds of entries are told apart by their type.
LEMMA EntryShape ==
  ASSUME NEW e \in LogEntry
  PROVE  /\ e.file \in File
         /\ e.addr \in Addr
         /\ e.type \in {"create", "remove", "write"}
         /\ e.type = "create" => e = CreateEntry(e.file)
         /\ e.type = "remove" => e = RemoveEntry(e.file)
         /\ e.type = "write" => /\ e.payload \in Value
                                /\ e = WriteEntry(e.file, e.addr, e.payload)
<1>1. CASE e \in {CreateEntry(f) : f \in File}
  BY <1>1, HeaderAssumption DEF CreateEntry
<1>2. CASE e \in {RemoveEntry(f) : f \in File}
  BY <1>2, HeaderAssumption DEF RemoveEntry
<1>3. CASE e \in {WriteEntry(f, a, v) : f \in File, a \in Addr, v \in Value}
  BY <1>3 DEF WriteEntry
<1>. QED  BY <1>1, <1>2, <1>3 DEF LogEntry

\* Different entries of a file, or entries of different files, differ.
LEMMA EntryFields ==
  ASSUME NEW f, NEW a, NEW v
  PROVE  /\ CreateEntry(f).type = "create" /\ CreateEntry(f).file = f
         /\ RemoveEntry(f).type = "remove" /\ RemoveEntry(f).file = f
         /\ WriteEntry(f, a, v).type = "write" /\ WriteEntry(f, a, v).file = f
         /\ WriteEntry(f, a, v).addr = a /\ WriteEntry(f, a, v).payload = v
BY DEF CreateEntry, RemoveEntry, WriteEntry

LEMMA EntryTypes ==
  /\ \A f \in File : CreateEntry(f) \in LogEntry /\ RemoveEntry(f) \in LogEntry
  /\ \A f \in File, a \in Addr, v \in Value : WriteEntry(f, a, v) \in LogEntry
BY DEF LogEntry

(***************************************************************************)
(* What a set of entries does to the files.                                *)
(***************************************************************************)

LEMMA WrittenType ==
  ASSUME NEW T, NEW f \in File, NEW a \in Addr, NEW c \in Content
  PROVE  Written(T, f, a, c) \in Value \union {Blank}
<1>1. CASE Writes(T, f, a)
  <2>1. (CHOOSE v \in Value : WriteEntry(f, a, v) \in T) \in Value
    BY <1>1 DEF Writes
  <2>. QED  BY <1>1, <2>1 DEF Written
<1>2. CASE ~Writes(T, f, a)
  BY <1>2 DEF Written, Content
<1>. QED  BY <1>1, <1>2

LEMMA WrittenBlank ==
  ASSUME NEW T, NEW f \in File, NEW a \in Addr, NEW c, CreateEntry(f) \in T
  PROVE  Written(T, f, a, c) \in Value \union {Blank}
<1>1. CASE Writes(T, f, a)
  <2>1. (CHOOSE v \in Value : WriteEntry(f, a, v) \in T) \in Value
    BY <1>1 DEF Writes
  <2>. QED  BY <1>1, <2>1 DEF Written
<1>2. CASE ~Writes(T, f, a)
  BY <1>2 DEF Written
<1>. QED  BY <1>1, <1>2

LEMMA EffectType ==
  ASSUME NEW b \in Files, NEW T
  PROVE  Effect(b, T) \in Files
<1> SUFFICES ASSUME NEW f \in File,
                    ~(\/ RemoveEntry(f) \in T
                      \/ b[f] = Absent /\ CreateEntry(f) \notin T),
                    NEW a \in Addr
             PROVE  Written(T, f, a, b[f]) \in Value \union {Blank}
  BY DEF Effect, Files, Content
<1>1. CASE b[f] = Absent
  BY <1>1, WrittenBlank
<1>2. CASE b[f] # Absent
  BY <1>2, WrittenType DEF Files
<1>. QED  BY <1>1, <1>2

\* The value an address is written with, when each is written at most once.
LEMMA WrittenValue ==
  ASSUME NEW b, NEW T, WellFormed(T, b), NEW c,
         NEW f \in File, NEW a \in Addr, NEW v \in Value,
         WriteEntry(f, a, v) \in T
  PROVE  Written(T, f, a, c) = v
<1>1. Writes(T, f, a)
  BY DEF Writes
<1>2. (CHOOSE w \in Value : WriteEntry(f, a, w) \in T) = v
  <2>1. \A w \in Value : WriteEntry(f, a, w) \in T => w = v
    BY DEF WellFormed
  <2>. QED  BY <2>1
<1>. QED  BY <1>1, <1>2 DEF Written

\* A file is there after T unless T removes it or it never was.
LEMMA EffectAbsent ==
  ASSUME NEW b \in Files, NEW T, NEW f \in File
  PROVE  Effect(b, T)[f] = Absent <=>
           \/ RemoveEntry(f) \in T
           \/ b[f] = Absent /\ CreateEntry(f) \notin T
<1>1. CASE RemoveEntry(f) \in T \/ (b[f] = Absent /\ CreateEntry(f) \notin T)
  BY <1>1 DEF Effect
<1>2. CASE ~(RemoveEntry(f) \in T \/ (b[f] = Absent /\ CreateEntry(f) \notin T))
  <2>1. Effect(b, T)[f] = [a \in Addr |-> Written(T, f, a, b[f])]
    BY <1>2 DEF Effect
  <2>2. [a \in Addr |-> Written(T, f, a, b[f])] \in Content
    <3>1. CASE b[f] = Absent
      BY <1>2, <3>1, WrittenBlank DEF Content
    <3>2. CASE b[f] # Absent
      <4>1. b[f] \in Content
        BY <3>2 DEF Files
      <4>. QED  BY <4>1, WrittenType DEF Content
    <3>. QED  BY <3>1, <3>2
  <2>. QED  BY <1>2, <2>1, <2>2, AbsentAssumption
<1>. QED  BY <1>1, <1>2

\* What a file that is there holds after T.
LEMMA EffectAt ==
  ASSUME NEW b \in Files, NEW T, NEW f \in File, NEW a \in Addr,
         Effect(b, T)[f] # Absent
  PROVE  Effect(b, T)[f][a] = Written(T, f, a, b[f])
BY DEF Effect

\* Two states of the files are equal if every file and address agrees.
LEMMA FilesEqual ==
  ASSUME NEW x \in Files, NEW y \in Files,
         \A f \in File : x[f] = Absent <=> y[f] = Absent,
         \A f \in File : x[f] # Absent =>
                           \A a \in Addr : x[f][a] = y[f][a]
  PROVE  x = y
<1>1. \A f \in File : x[f] = y[f]
  <2> SUFFICES ASSUME NEW f \in File PROVE x[f] = y[f]
    OBVIOUS
  <2>1. CASE x[f] = Absent
    BY <2>1
  <2>2. CASE x[f] # Absent
    <3>1. x[f] \in Content /\ y[f] \in Content
      BY <2>2 DEF Files
    <3>. QED  BY <2>2, <3>1 DEF Content
  <2>. QED  BY <2>1, <2>2
<1>. QED  BY <1>1 DEF Files

\* Performing all of T on files that differ from b only where T makes a
\* change gives the effect of T on b.
LEMMA RedoCompletes ==
  ASSUME NEW b \in Files, NEW x \in Files, NEW T, WellFormed(T, b),
         Untouched(b, T, x), Applied(T, x)
  PROVE  x = Effect(b, T)
<1>1. Effect(b, T) \in Files
  BY EffectType
<1>2. ASSUME NEW f \in File
      PROVE  x[f] = Absent <=> Effect(b, T)[f] = Absent
  <2>1. CASE RemoveEntry(f) \in T
    BY <2>1, EffectAbsent DEF Applied
  <2>2. CASE CreateEntry(f) \in T
    BY <2>2, EffectAbsent DEF Applied, WellFormed
  <2>3. CASE ~Renames(T, f)
    BY <2>3, EffectAbsent DEF Renames, Untouched
  <2>. QED  BY <2>1, <2>2, <2>3 DEF Renames
<1>3. ASSUME NEW f \in File, x[f] # Absent, NEW a \in Addr
      PROVE  x[f][a] = Effect(b, T)[f][a]
  <2>1. Effect(b, T)[f][a] = Written(T, f, a, b[f])
    BY <1>2, <1>3, EffectAt
  <2>2. CASE Writes(T, f, a)
    BY <2>1, <2>2, WrittenValue DEF Writes, Applied
  <2>3. CASE ~Writes(T, f, a) /\ CreateEntry(f) \in T
    BY <2>1, <2>3 DEF Written, Applied
  <2>4. CASE ~Writes(T, f, a) /\ CreateEntry(f) \notin T
    <3>1. b[f] # Absent
      BY <1>2, <1>3, <2>4, EffectAbsent
    <3>. QED  BY <1>3, <2>1, <2>4, <3>1 DEF Written, Untouched
  <2>. QED  BY <2>2, <2>3, <2>4
<1>. QED  BY <1>1, <1>2, <1>3, FilesEqual

\* The effect of T has T applied, and differs from b only where T says.
LEMMA EffectApplied ==
  ASSUME NEW b \in Files, NEW T, WellFormed(T, b)
  PROVE  Applied(T, Effect(b, T)) /\ Untouched(b, T, Effect(b, T))
<1>1. ASSUME NEW f \in File
      PROVE  /\ RemoveEntry(f) \in T => Effect(b, T)[f] = Absent
             /\ CreateEntry(f) \in T =>
                  /\ Effect(b, T)[f] # Absent
                  /\ \A a \in Addr : ~Writes(T, f, a) =>
                       Effect(b, T)[f][a] = Blank
  BY EffectAbsent, EffectAt DEF Written, WellFormed
<1>2. ASSUME NEW f \in File, NEW a \in Addr, NEW v \in Value,
             WriteEntry(f, a, v) \in T
      PROVE  Effect(b, T)[f] # Absent /\ Effect(b, T)[f][a] = v
  <2>1. Writes(T, f, a)
    BY <1>2 DEF Writes
  <2>2. Effect(b, T)[f] # Absent
    BY <2>1, EffectAbsent DEF WellFormed
  <2>. QED  BY <1>2, <2>2, EffectAt, WrittenValue
<1>3. ASSUME NEW f \in File
      PROVE  ~Renames(T, f) => (Effect(b, T)[f] = Absent <=> b[f] = Absent)
  BY EffectAbsent DEF Renames
<1>4. ASSUME NEW f \in File, Effect(b, T)[f] # Absent,
             CreateEntry(f) \notin T, NEW a \in Addr, ~Writes(T, f, a)
      PROVE  Effect(b, T)[f][a] = b[f][a]
  BY <1>4, EffectAt DEF Written
<1>. QED  BY <1>1, <1>2, <1>3, <1>4 DEF Applied, Untouched

\* A transaction over b can be performed again over its own effect ...
LEMMA WellFormedAgain ==
  ASSUME NEW b \in Files, NEW T, WellFormed(T, b)
  PROVE  WellFormed(T, Effect(b, T))
<1>1. ASSUME NEW f \in File, NEW a \in Addr, Writes(T, f, a)
      PROVE  Effect(b, T)[f] # Absent
  BY <1>1, EffectAbsent DEF WellFormed
<1>. QED  BY <1>1 DEF WellFormed

\* ... and then changes nothing: redo is idempotent.
LEMMA EffectIdempotent ==
  ASSUME NEW b \in Files, NEW T, WellFormed(T, b)
  PROVE  Effect(Effect(b, T), T) = Effect(b, T)
<1> DEFINE x == Effect(b, T)
<1>1. x \in Files
  BY EffectType
<1>2. WellFormed(T, x) /\ Applied(T, x)
  BY WellFormedAgain, EffectApplied
<1>3. Untouched(x, T, x)
  BY DEF Untouched
<1>. QED  BY <1>1, <1>2, <1>3, RedoCompletes

-----------------------------------------------------------------------------
(***************************************************************************)
(* Type correctness.                                                       *)
(***************************************************************************)

\* Perform, one kind of entry at a time.
LEMMA PerformCases ==
  ASSUME NEW e \in LogEntry, Perform(e)
  PROVE  \/ /\ e = CreateEntry(e.file)
            /\ fs' = [fs EXCEPT ![e.file] = [a \in Addr |-> Blank]]
            /\ held' = [held EXCEPT ![e.file] =
                          [a \in Addr |-> held[e.file][a] \union {Blank}]]
            /\ named' = [named EXCEPT ![e.file] = named[e.file] \union {TRUE}]
         \/ /\ e = RemoveEntry(e.file)
            /\ fs' = [fs EXCEPT ![e.file] = Absent]
            /\ named' = [named EXCEPT ![e.file] = named[e.file] \union {FALSE}]
            /\ held' = held
         \/ /\ e = WriteEntry(e.file, e.addr, e.payload)
            /\ e.payload \in Value
            /\ fs' = [fs EXCEPT ![e.file] =
                        [fs[e.file] EXCEPT ![e.addr] = e.payload]]
            /\ held' = [held EXCEPT ![e.file] =
                          [held[e.file] EXCEPT ![e.addr] =
                             held[e.file][e.addr] \union {Blank, e.payload}]]
            /\ named' = named
<1>1. CASE e.type = "create"
  BY <1>1, EntryShape DEF Perform
<1>2. CASE e.type = "remove"
  BY <1>2, EntryShape DEF Perform
<1>3. CASE e.type = "write"
  BY <1>3, EntryShape DEF Perform
<1>. QED  BY <1>1, <1>2, <1>3, EntryShape

\* A file operation on an existing file, or a creation, keeps the types.
LEMMA PerformType ==
  ASSUME TypeOK, NEW e \in LogEntry, Perform(e),
         e.type = "write" => fs[e.file] # Absent
  PROVE  /\ fs' \in Files
         /\ held' \in [File -> [Addr -> SUBSET (Value \union {Blank})]]
         /\ named' \in [File -> SUBSET BOOLEAN]
<1> USE EntryShape DEF TypeOK
<1>1. CASE e = CreateEntry(e.file)
  <2>0. e.type = "create"
    BY <1>1, EntryFields
  <2>1. fs' = [fs EXCEPT ![e.file] = [a \in Addr |-> Blank]]
    BY <2>0 DEF Perform
  <2>2. held' = [held EXCEPT ![e.file] =
                   [a \in Addr |-> held[e.file][a] \union {Blank}]]
    BY <2>0 DEF Perform
  <2>3. named' = [named EXCEPT ![e.file] = named[e.file] \union {TRUE}]
    BY <2>0 DEF Perform
  <2>. QED  BY <2>1, <2>2, <2>3 DEF Files, Content
<1>2. CASE e = RemoveEntry(e.file)
  <2>0. e.type = "remove"
    BY <1>2, EntryFields
  <2>1. fs' = [fs EXCEPT ![e.file] = Absent] /\ held' = held
    BY <2>0 DEF Perform
  <2>2. named' = [named EXCEPT ![e.file] = named[e.file] \union {FALSE}]
    BY <2>0 DEF Perform
  <2>. QED  BY <2>1, <2>2 DEF Files, Content
<1>3. CASE e.type = "write"
  <2>1. fs' = [fs EXCEPT ![e.file] =
                 [fs[e.file] EXCEPT ![e.addr] = e.payload]]
    BY <1>3 DEF Perform
  <2>2. held' = [held EXCEPT ![e.file] =
                   [held[e.file] EXCEPT ![e.addr] =
                      held[e.file][e.addr] \union {Blank, e.payload}]]
    BY <1>3 DEF Perform
  <2>3. named' = named
    BY <1>3 DEF Perform
  <2>4. fs[e.file] \in Content
    BY <1>3 DEF Files
  <2>5. fs' \in Files
    BY <1>3, <2>1, <2>4 DEF Files, Content
  <2>6. held' \in [File -> [Addr -> SUBSET (Value \union {Blank})]]
    BY <1>3, <2>2
  <2>. QED  BY <2>3, <2>5, <2>6
<1>. QED  BY <1>1, <1>2, <1>3

LEMMA SyncFileType ==
  ASSUME TypeOK, NEW f \in File, SyncFile(f), fs[f] # Absent
  PROVE  /\ held' \in [File -> [Addr -> SUBSET (Value \union {Blank})]]
         /\ unsynced' \subseteq File
BY DEF TypeOK, SyncFile, Files, Content

LEMMA SyncDirectoryType ==
  ASSUME TypeOK, SyncDirectory
  PROVE  /\ held' \in [File -> [Addr -> SUBSET (Value \union {Blank})]]
         /\ named' \in [File -> SUBSET BOOLEAN]
BY DEF TypeOK, SyncDirectory

LEMMA SettleType ==
  ASSUME NEW F \in Files
  PROVE  Settle(F) \in [File -> [Addr -> SUBSET (Value \union {Blank})]]
<1> SUFFICES ASSUME NEW f \in File, F[f] # Absent, NEW a \in Addr
             PROVE  F[f][a] \in Value \union {Blank}
  BY DEF Settle
<1>1. F[f] \in Content
  BY DEF Files
<1>. QED  BY <1>1 DEF Content

-----------------------------------------------------------------------------
(***************************************************************************)
(* Facts about the parts of the invariant.                                 *)
(***************************************************************************)

\* What a log may need stays true while only the log and the phase change.
LEMMA SameFiles ==
  ASSUME UNCHANGED <<fs, held, named, base, txn, outcome>>
  PROVE  /\ Quiet' <=> Quiet
         /\ \A T : Redoable(T)' <=> Redoable(T)
         /\ \A l : SafeLog(l)' <=> SafeLog(l)
<1>1. Quiet' <=> Quiet
  BY DEF Quiet, AllDurable, Durable, Consistent
<1>2. ASSUME NEW T PROVE Redoable(T)' <=> Redoable(T)
  BY DEF Redoable, Untouched, UntouchedHeld, Consistent
<1>3. ASSUME NEW l PROVE SafeLog(l)' <=> SafeLog(l)
  BY <1>1, <1>2 DEF SafeLog, Committed
<1>. QED  BY <1>1, <1>2, <1>3

\* Losing the process turns a pending reply into an unknown one.
LEMMA LostReply ==
  ASSUME UNCHANGED <<fs, held, named, base, txn>>,
         outcome' = IF outcome = "pending" THEN "unknown" ELSE outcome
  PROVE  /\ Quiet => Quiet'
         /\ \A T : Redoable(T) => Redoable(T)'
         /\ \A l : SafeLog(l) => SafeLog(l)'
<1>1. \A x : Consistent(x) => Consistent(x)'
  BY DEF Consistent
<1>2. Quiet => Quiet'
  BY <1>1 DEF Quiet, AllDurable, Durable
<1>3. ASSUME NEW T PROVE Redoable(T) => Redoable(T)'
  BY <1>1 DEF Redoable, Untouched, UntouchedHeld
<1>4. ASSUME NEW l PROVE SafeLog(l) => SafeLog(l)'
  BY <1>2, <1>3 DEF SafeLog, Committed
<1>. QED  BY <1>2, <1>3, <1>4

\* When nothing is in flight, a power loss leaves the files as they are.
LEMMA DurableHeld ==
  ASSUME AllDurable, NEW T
  PROVE  UntouchedHeld(fs, T)
BY DEF AllDurable, Durable, UntouchedHeld

\* A log for a transaction that has not touched the files can be redone.
LEMMA FreshRedoable ==
  ASSUME AllDurable, fs = base, WellFormed(txn, base), outcome = "pending"
  PROVE  Redoable(txn)
<1>1. Untouched(base, txn, fs)
  BY DEF Untouched
<1>2. UntouchedHeld(base, txn)
  BY DurableHeld
<1>. QED  BY <1>1, <1>2 DEF Redoable, Consistent

\* A new transaction starts from files nothing is in flight for; a log of an
\* earlier one that may still come back redoes what the files already hold.
LEMMA Rebase ==
  ASSUME fs \in Files, base \in Files, AllDurable,
         UNCHANGED <<fs, held, named>>,
         base' = fs, outcome' \in {"pending", "failed"}
  PROVE  /\ Quiet'
         /\ \A l : Redoable(l.ops) /\ fs = Effect(base, l.ops) =>
                     /\ Redoable(l.ops)'
                     /\ fs' = Effect(base', l.ops)
<1>1. Quiet'
  BY DEF Quiet, Consistent, AllDurable, Durable
<1>2. ASSUME NEW l, Redoable(l.ops), fs = Effect(base, l.ops)
      PROVE  Redoable(l.ops)' /\ fs' = Effect(base', l.ops)
  <2>1. WellFormed(l.ops, base)
    BY <1>2 DEF Redoable
  <2>2. WellFormed(l.ops, fs)
    BY <1>2, <2>1, WellFormedAgain
  <2>3. Effect(fs, l.ops) = fs
    BY <1>2, <2>1, EffectIdempotent
  <2>4. Untouched(fs, l.ops, fs)
    BY DEF Untouched
  <2>5. UntouchedHeld(fs, l.ops)'
    <3>1. UntouchedHeld(fs, l.ops)
      BY DurableHeld
    <3>. QED  BY <3>1 DEF UntouchedHeld
  <2>6. Consistent(fs)'
    BY <1>1 DEF Quiet
  <2>. QED  BY <2>2, <2>3, <2>4, <2>5, <2>6 DEF Redoable, Untouched,
              UntouchedHeld, Consistent
<1>. QED  BY <1>1, <1>2

-----------------------------------------------------------------------------
(***************************************************************************)
(* The invariant holds initially.                                          *)
(***************************************************************************)

LEMMA NothingReadType == NothingRead \in Redo
BY DEF NothingRead, Redo

LEMMA InitInv == Init => IInv
<1> SUFFICES ASSUME Init PROVE IInv
  OBVIOUS
<1> USE DEF Init
<1>1. TypeOK
  <2>1. held \in [File -> [Addr -> SUBSET (Value \union {Blank})]]
    BY SettleType
  <2>2. EmptyLog \in LogImage
    BY DEF EmptyLog, LogImage
  <2>. QED  BY <2>1, <2>2, NothingReadType DEF TypeOK, Phase
<1>2. WellFormed(txn, base)
  BY DEF WellFormed, Writes
<1>3. ~Committed(EmptyLog)
  BY DEF Committed, EmptyLog
<1>4. AllDurable
  BY DEF AllDurable, Durable, Settle
<1>5. Effect(base, txn) = base
  <2>1. Untouched(base, {}, base) /\ Applied({}, base)
    BY DEF Untouched, Applied
  <2>. QED  BY <1>2, <2>1, RedoCompletes
<1>6. Quiet
  BY <1>4, <1>5 DEF Quiet, Consistent
<1>7. SafeLog(EmptyLog)
  BY <1>3, <1>6 DEF SafeLog
<1>8. ReadableInv
  BY <1>3 DEF ReadableInv
<1>9. DownInv
  BY <1>7 DEF DownInv
<1>10. HeldInv
  BY <1>3, <1>6, <1>7 DEF HeldInv
<1>. QED  BY <1>1, <1>2, <1>8, <1>9, <1>10
            DEF IInv, BusyInv, IdleInv, RedoInv, ResetInv

-----------------------------------------------------------------------------
(***************************************************************************)
(* Each step preserves the invariant: starting a commit.                   *)
(***************************************************************************)

LEMMA EmptyNotCommitted ==
  ~Committed(EmptyLog) /\ EmptyLog \in LogImage
BY DEF Committed, EmptyLog, LogImage

LEMMA BeginStep ==
  ASSUME IInv, NEW T \in Transactions, Begin(T)
  PROVE  IInv'
<1> USE DEF Begin, disk, logVars, proc
<1>1. /\ fs \in Files /\ base \in Files /\ AllDurable
      /\ log = EmptyLog /\ ~Committed(log) /\ log' = EmptyLog
      /\ UNCHANGED <<fs, held, named>>
      /\ base' = fs /\ txn' = T /\ outcome' = "pending"
      /\ phase' \in {"log", "newlog"}
  BY EmptyNotCommitted DEF IInv, IdleInv, Quiet, TypeOK
<1>2. TypeOK'
  <2>1. T \subseteq LogEntry
    BY TransactionsAssumption
  <2>2. log' \in LogImage /\ logHeld' \subseteq LogImage
    BY <1>1, EmptyNotCommitted DEF IInv, TypeOK
  <2>3. logFile' \in BOOLEAN /\ logNamed' \subseteq BOOLEAN
    BY DEF IInv, TypeOK
  <2>. QED  BY <1>1, <2>1, <2>2, <2>3 DEF IInv, TypeOK, Phase
<1>3. WellFormed(txn, base)'
  BY <1>1 DEF WellFormed
<1>4. Quiet'
  BY <1>1, Rebase
<1>5. ReadableInv'
  BY <1>1, EmptyNotCommitted DEF IInv, ReadableInv
<1>6. BusyInv'
  BY <1>1, <1>4 DEF BusyInv, EmptyLog, Quiet
<1>7. HeldInv'
  <2> SUFFICES ASSUME LosesPower PROVE HeldInv'
    BY DEF HeldInv
  <2>1. ASSUME NEW l \in logHeld, Committed(l)
        PROVE  Redoable(l.ops)' /\ fs' = Effect(base', l.ops)
    <3>1. Redoable(l.ops) /\ fs = Effect(base, l.ops)
      BY <1>1, <2>1 DEF IInv, HeldInv, SafeLog
    <3>. QED  BY <1>1, <3>1, Rebase
  <2>2. logHeld' = logHeld \/ logHeld' = {EmptyLog}
    OBVIOUS
  <2>3. \A l \in logHeld' : Committed(l) =>
          Redoable(l.ops)' /\ fs' = Effect(base', l.ops)
    BY <2>1, <2>2, EmptyNotCommitted
  <2>4. \A l \in logHeld' : SafeLog(l)'
    BY <1>4, <2>3 DEF SafeLog, Committed
  <2>5. logFile' /\ phase' # "newlog" => logNamed' = {TRUE}
    BY DEF IInv, HeldInv
  <2>. QED  BY <1>1, <1>4, <2>3, <2>4, <2>5 DEF HeldInv
<1>. QED  BY <1>1, <1>2, <1>3, <1>5, <1>6, <1>7
            DEF IInv, IdleInv, RedoInv, ResetInv, DownInv

LEMMA BeginFailsStep ==
  ASSUME IInv, NEW T \in Transactions, BeginFails(T)
  PROVE  IInv'
<1> USE DEF BeginFails, disk, logVars, proc, Fault
<1>1. /\ fs \in Files /\ base \in Files /\ AllDurable
      /\ log = EmptyLog /\ ~Committed(log)
      /\ UNCHANGED <<fs, held, named, log, logFile, logHeld, logNamed, phase>>
      /\ base' = fs /\ txn' = T /\ outcome' = "failed" /\ phase = "idle"
  BY EmptyNotCommitted DEF IInv, IdleInv, Quiet, TypeOK
<1>2. TypeOK'
  <2>1. faults' \in Nat
    BY DEF IInv, TypeOK
  <2>. QED  BY <1>1, <2>1, TransactionsAssumption DEF IInv, TypeOK
<1>3. WellFormed(txn, base)'
  BY <1>1 DEF WellFormed
<1>4. Quiet'
  BY <1>1, Rebase
<1>5. ReadableInv'
  BY <1>1 DEF IInv, ReadableInv
<1>7. HeldInv'
  <2> SUFFICES ASSUME LosesPower PROVE HeldInv'
    BY DEF HeldInv
  <2>1. ASSUME NEW l \in logHeld, Committed(l)
        PROVE  Redoable(l.ops)' /\ fs' = Effect(base', l.ops)
    <3>1. Redoable(l.ops) /\ fs = Effect(base, l.ops)
      BY <1>1, <2>1 DEF IInv, HeldInv, SafeLog
    <3>. QED  BY <1>1, <3>1, Rebase
  <2>4. \A l \in logHeld' : SafeLog(l)'
    BY <1>1, <1>4, <2>1 DEF SafeLog, Committed
  <2>5. logFile' /\ phase' # "newlog" => logNamed' = {TRUE}
    <3>1. logFile \in BOOLEAN /\ logFile' = logFile
      BY <1>1 DEF IInv, TypeOK
    <3>2. logFile => logNamed = {TRUE}
      BY <1>1 DEF IInv, HeldInv
    <3>3. logNamed' = logNamed
      BY <1>1
    <3>. QED  BY ONLY <3>1, <3>2, <3>3
  <2>6. \A l \in logHeld' : Committed(l) => fs' = Effect(base', l.ops)
    BY <1>1, <2>1
  <2>7. ~Committed(log')
    BY <1>1
  <2>. QED  BY <1>4, <2>4, <2>5, <2>6, <2>7 DEF HeldInv
<1>. QED  BY <1>1, <1>2, <1>3, <1>4, <1>5, <1>7
            DEF IInv, IdleInv, RedoInv, ResetInv, DownInv, BusyInv

LEMMA SyncNewLogStep ==
  ASSUME IInv, SyncNewLog
  PROVE  IInv'
<1> USE DEF SyncNewLog, disk, proc, history
<1>1. TypeOK'
  BY DEF IInv, TypeOK, Phase
<1>2. WellFormed(txn, base)'
  BY DEF IInv, WellFormed
<1>3. ReadableInv' /\ BusyInv'
  BY DEF IInv, ReadableInv, BusyInv, EmptyLog, AllDurable, Durable
<1>4. Quiet' <=> Quiet
  BY SameFiles
<1>5. \A l : SafeLog(l)' <=> SafeLog(l)
  BY SameFiles
<1>6. HeldInv'
  BY <1>4, <1>5 DEF IInv, HeldInv, LosesPower
<1>. QED  BY <1>1, <1>2, <1>3, <1>6
            DEF IInv, IdleInv, RedoInv, ResetInv, DownInv

LEMMA SyncNewLogFailsStep ==
  ASSUME SafeFaults, IInv, SyncNewLogFails
  PROVE  IInv'
<1> USE DEF SyncNewLogFails, disk, logVars, proc, history, Fault
<1>1. ~LosesPower
  BY DEF SafeFaults, LosesPower
<1>2. TypeOK'
  BY DEF IInv, TypeOK, Phase
<1>3. WellFormed(txn, base)'
  BY DEF IInv, WellFormed
<1>4. ReadableInv'
  BY DEF IInv, ReadableInv
<1>5. IdleInv'
  BY DEF IInv, BusyInv, IdleInv, Quiet, Consistent, AllDurable, Durable
<1>. QED  BY <1>1, <1>2, <1>3, <1>4, <1>5
            DEF IInv, BusyInv, RedoInv, ResetInv, DownInv, HeldInv, LosesPower

-----------------------------------------------------------------------------
(***************************************************************************)
(* Writing the log.                                                        *)
(***************************************************************************)

\* While the log is being written a log that is not committed is harmless,
\* and so is a stale committed one.
LEMMA BusyQuiet ==
  ASSUME IInv, phase \in {"newlog", "log", "mark", "sync"}
  PROVE  Quiet
BY DEF IInv, BusyInv, Quiet, Consistent

LEMMA AddLogEntryStep ==
  ASSUME IInv, NEW e \in LogEntry, AddLogEntry(e)
  PROVE  IInv'
<1> USE DEF AddLogEntry, disk, proc, history
<1>1. /\ log \in LogImage /\ logHeld \subseteq LogImage
      /\ log.marker = {} /\ log.bad = {} /\ log.ops \subseteq txn
  BY DEF IInv, TypeOK, BusyInv
<1>2. /\ log' \in LogImage
      /\ log'.marker = {} /\ log'.bad = {} /\ log'.ops \subseteq txn
  BY <1>1 DEF LogImage
<1>3. \A l \in logHeld' : l \in logHeld \/ l.marker = {}
  BY <1>1 DEF LogImage
<1>4. logHeld' \subseteq LogImage
  BY <1>1 DEF LogImage
<1>5. TypeOK'
  BY <1>2, <1>4 DEF IInv, TypeOK
<1>6. WellFormed(txn, base)'
  BY DEF IInv, WellFormed
<1>7. ReadableInv'
  BY <1>2, <1>3 DEF IInv, ReadableInv, Committed
<1>8. BusyInv'
  BY <1>2 DEF IInv, BusyInv, AllDurable, Durable
<1>9. Quiet' /\ \A l : SafeLog(l)' <=> SafeLog(l)
  BY BusyQuiet, SameFiles
<1>10. HeldInv'
  <2> SUFFICES ASSUME LosesPower PROVE HeldInv'
    BY DEF HeldInv
  <2>1. \A l \in logHeld' : SafeLog(l)'
    BY <1>3, <1>9 DEF IInv, HeldInv, SafeLog, Committed
  <2>2. \A l \in logHeld' : Committed(l) => fs' = Effect(base', l.ops)
    BY <1>1, <1>3 DEF IInv, HeldInv, Committed
  <2>3. logFile' /\ phase' # "newlog" => logNamed' = {TRUE}
    BY DEF IInv, HeldInv
  <2>4. phase' = "log"
    OBVIOUS
  <2>. QED  BY <1>9, <2>1, <2>2, <2>3, <2>4 DEF HeldInv
<1>11. logFile'
  BY DEF IInv, BusyInv
<1>. QED  BY <1>5, <1>6, <1>7, <1>8, <1>10, <1>11
            DEF IInv, IdleInv, RedoInv, ResetInv, DownInv

LEMMA SyncEntriesStep ==
  ASSUME IInv, SyncEntries
  PROVE  IInv'
<1> USE DEF SyncEntries, disk, proc, history
<1>1. /\ log.marker = {} /\ log.bad = {} /\ log.ops = txn /\ log \in LogImage
  BY DEF IInv, TypeOK, BusyInv
<1>2. TypeOK'
  BY <1>1 DEF IInv, TypeOK, Phase
<1>3. WellFormed(txn, base)'
  BY DEF IInv, WellFormed
<1>4. ReadableInv' /\ BusyInv'
  BY <1>1 DEF IInv, ReadableInv, BusyInv, AllDurable, Durable, Committed
<1>5. Quiet' /\ ~Committed(log)
  BY <1>1, BusyQuiet, SameFiles DEF Committed
<1>6. SafeLog(log)'
  BY <1>1, <1>5 DEF SafeLog, Committed
<1>7. HeldInv'
  BY <1>5, <1>6 DEF IInv, HeldInv, Committed, LosesPower
<1>. QED  BY <1>2, <1>3, <1>4, <1>7
            DEF IInv, IdleInv, RedoInv, ResetInv, DownInv

LEMMA WriteMarkerStep ==
  ASSUME IInv, WriteMarker
  PROVE  IInv'
<1> USE DEF WriteMarker, disk, proc, history
<1>1. /\ log.marker = {} /\ log.bad = {} /\ log.ops = txn /\ log \in LogImage
      /\ logHeld = {log} /\ txn # {} /\ txn \subseteq LogEntry
      /\ fs = base /\ AllDurable /\ outcome = "pending"
      /\ WellFormed(txn, base)
  BY DEF IInv, TypeOK, BusyInv, ReadableInv
<1>2. /\ log' \in LogImage /\ log'.marker = txn /\ log'.ops = txn
      /\ log'.bad = {} /\ Committed(log') /\ logHeld' = {log, log'}
  BY <1>1 DEF LogImage, Committed
<1>3. TypeOK'
  BY <1>1, <1>2 DEF IInv, TypeOK, Phase
<1>4. WellFormed(txn, base)'
  BY <1>1 DEF WellFormed
<1>5. ReadableInv' /\ BusyInv'
  BY <1>1, <1>2 DEF IInv, ReadableInv, BusyInv, AllDurable, Durable, Committed
<1>6. Quiet' /\ Redoable(txn)'
  <2>1. Redoable(txn) /\ Quiet
    BY <1>1, FreshRedoable, BusyQuiet
  <2>2. Redoable(txn)' <=> Redoable(txn)
    BY DEF Redoable, WellFormed, Untouched, UntouchedHeld, Consistent
  <2>. QED  BY <2>1, <2>2, SameFiles
<1>7. \A l \in logHeld' : SafeLog(l)'
  <2>1. ASSUME NEW l, l = log PROVE SafeLog(l)'
    BY <1>1, <1>6, <2>1 DEF SafeLog, Committed
  <2>2. ASSUME NEW l, l = log' PROVE SafeLog(l)'
    <3>1. Committed(l) /\ l.ops = txn'
      BY <1>2, <2>2
    <3>. QED  BY <1>6, <3>1 DEF SafeLog, Committed, Redoable
  <2>. QED  BY <1>2, <2>1, <2>2
<1>8. HeldInv'
  BY <1>2, <1>6, <1>7 DEF IInv, HeldInv, LosesPower
<1>9. logFile'
  BY DEF IInv, BusyInv
<1>. QED  BY <1>3, <1>4, <1>5, <1>8, <1>9
            DEF IInv, IdleInv, RedoInv, ResetInv, DownInv

LEMMA SyncMarkerStep ==
  ASSUME IInv, SyncMarker
  PROVE  IInv'
<1>1. /\ phase = "sync" /\ phase' = "apply" /\ logHeld' = {log}
      /\ done' = {} /\ unsynced' = {}
      /\ UNCHANGED <<fs, held, named, log, logFile, logNamed, redo, base, txn,
                     unread, outcome, txns, faults>>
  BY DEF SyncMarker, disk, history
<1>2. /\ log.marker = txn /\ log.ops = txn /\ log.bad = {} /\ txn # {}
      /\ fs = base /\ AllDurable /\ outcome = "pending" /\ logFile
      /\ WellFormed(txn, base) /\ log \in LogImage
  BY <1>1 DEF IInv, TypeOK, BusyInv
<1>3. Committed(log)
  BY <1>2 DEF Committed
<1>4. TypeOK'
  BY <1>1, <1>2 DEF IInv, TypeOK, Phase
<1>5. Redoable(txn)
  BY <1>2, FreshRedoable
<1>6. Redoable(log.ops)'
  <2>1. Redoable(txn)' <=> Redoable(txn)
    BY <1>1 DEF Redoable, WellFormed, Untouched, UntouchedHeld, Consistent
  <2>2. txn' = log.ops'
    BY <1>1, <1>2
  <2>. QED  BY <1>5, <2>1, <2>2 DEF Redoable
<1>7. ReadableInv'
  BY <1>1, <1>2 DEF ReadableInv
<1>8. RedoInv'
  <2>1. Applied({}, fs) /\ CreatesFirst({}, log.ops)
    BY DEF Applied, CreatesFirst, Writes
  <2>2. \A f \in File : fs[f] # Absent =>
                          \A a \in Addr : held[f][a] = {fs[f][a]}
    BY <1>2 DEF AllDurable, Durable
  <2>. QED  BY <1>1, <1>2, <1>3, <1>6, <2>1, <2>2 DEF RedoInv, Applied,
              CreatesFirst
<1>9. HeldInv'
  <2>1. LosesPower => logNamed' = {TRUE}
    BY <1>1, <1>2 DEF IInv, HeldInv
  <2>2. SafeLog(log)'
    BY <1>1, <1>3, <1>6 DEF SafeLog, Committed
  <2>3. \A l \in logHeld' : SafeLog(l)'
    BY <1>1, <2>2
  <2>. QED  BY <1>1, <1>3, <2>1, <2>3 DEF HeldInv, Committed
<1>. QED  BY <1>1, <1>2, <1>4, <1>7, <1>8, <1>9
            DEF IInv, BusyInv, IdleInv, ResetInv, DownInv

\* The failures that end in resetLog with nothing committed.
LEMMA AbortStep ==
  ASSUME IInv, phase \in {"log", "mark"}, Abort,
         log'.marker = {}, log' \in LogImage,
         \A l \in logHeld' : l \in logHeld \/ l = log',
         faults' \in Nat
  PROVE  IInv'
<1>1. /\ phase' = "reset" /\ outcome' = "failed"
      /\ UNCHANGED <<fs, held, named, logFile, logNamed, done, unsynced, redo,
                     base, txn, unread, txns>>
  BY DEF Abort, disk, proc, history
<1>2. /\ fs = base /\ AllDurable /\ logFile /\ ~Committed(log)
      /\ WellFormed(txn, base)
  BY DEF IInv, BusyInv, Committed
<1>3. TypeOK'
  BY <1>1 DEF IInv, TypeOK, Phase
<1>4. Quiet'
  BY <1>1, <1>2 DEF Quiet, AllDurable, Durable, Consistent
<1>5. ~Committed(log')
  BY DEF Committed
<1>6. ReadableInv'
  BY <1>1, <1>5 DEF IInv, ReadableInv
<1>7. ResetInv'
  BY <1>1, <1>2, <1>4, <1>5 DEF ResetInv
<1>8. HeldInv'
  <2> SUFFICES ASSUME LosesPower PROVE HeldInv'
    BY DEF HeldInv
  <2>1. ASSUME NEW l \in logHeld', Committed(l)
        PROVE  Redoable(l.ops)' /\ fs' = Effect(base', l.ops)
    <3>1. Redoable(l.ops) /\ fs = Effect(base, l.ops)
      BY <1>2, <1>5, <2>1 DEF IInv, HeldInv, SafeLog
    <3>2. Consistent(Effect(base, l.ops))'
      BY <1>1, <1>2, <3>1 DEF Consistent
    <3>. QED  BY <1>1, <3>1, <3>2 DEF Redoable, WellFormed, Untouched,
                UntouchedHeld, Consistent
  <2>2. \A l \in logHeld' : SafeLog(l)'
    BY <1>4, <2>1 DEF SafeLog, Committed
  <2>3. logNamed' = {TRUE}
    BY <1>1, <1>2 DEF IInv, HeldInv
  <2>. QED  BY <1>4, <1>5, <2>1, <2>2, <2>3 DEF HeldInv
<1>. QED  BY <1>1, <1>2, <1>3, <1>6, <1>7, <1>8
            DEF IInv, BusyInv, IdleInv, RedoInv, DownInv, WellFormed

LEMMA LogFailsStep ==
  ASSUME IInv, LogFails
  PROVE  IInv'
<1>1. phase = "log" /\ Abort /\ faults' \in Nat
  BY DEF LogFails, Fault, IInv, TypeOK
<1>2. log.marker = {} /\ log \in LogImage /\ txn \subseteq LogEntry
  BY <1>1 DEF IInv, BusyInv, TypeOK
<1>3. CASE UNCHANGED <<log, logHeld>>
  BY <1>1, <1>2, <1>3, AbortStep
<1>4. CASE \E e \in txn \ log.ops :
             /\ log' = [log EXCEPT !.bad = {e}]
             /\ logHeld' = logHeld \union {log'}
  <2>1. log'.marker = {} /\ log' \in LogImage
    BY <1>2, <1>4 DEF LogImage
  <2>2. \A l \in logHeld' : l \in logHeld \/ l = log'
    BY <1>4
  <2>. QED  BY <1>1, <2>1, <2>2, AbortStep
<1>. QED  BY <1>3, <1>4 DEF LogFails

LEMMA MarkFailsStep ==
  ASSUME IInv, MarkFails
  PROVE  IInv'
<1>1. phase = "mark" /\ Abort /\ faults' \in Nat /\ UNCHANGED <<log, logHeld>>
  BY DEF MarkFails, Fault, IInv, TypeOK
<1>2. log.marker = {} /\ log \in LogImage
  BY <1>1 DEF IInv, BusyInv, TypeOK
<1>. QED  BY <1>1, <1>2, AbortStep

-----------------------------------------------------------------------------
(***************************************************************************)
(* Performing the entries: what one more entry does to the files.          *)
(***************************************************************************)

LEMMA AppliedCreate ==
  ASSUME NEW b, NEW x \in Files, NEW T, NEW D, D \subseteq T,
         WellFormed(T, b), Untouched(b, T, x), Applied(D, x),
         CreatesFirst(D, T),
         NEW f \in File, CreateEntry(f) \in T \ D,
         NEW y, y = [x EXCEPT ![f] = [a \in Addr |-> Blank]]
  PROVE  /\ Applied(D \union {CreateEntry(f)}, y)
         /\ Untouched(b, T, y)
<1> DEFINE E == D \union {CreateEntry(f)}
<1>1. y[f] # Absent /\ \A a \in Addr : y[f][a] = Blank
  <2>1. [a \in Addr |-> Blank] \in Content
    BY DEF Content
  <2>. QED  BY <2>1, AbsentAssumption DEF Files
<1>2. \A g \in File : g # f => y[g] = x[g]
  BY DEF Files
<1>3. RemoveEntry(f) \notin T /\ \A a \in Addr : ~Writes(D, f, a)
  BY DEF WellFormed, CreatesFirst
<1>4. \A g \in File : /\ RemoveEntry(g) \in E <=> RemoveEntry(g) \in D
                      /\ g # f => (CreateEntry(g) \in E <=> CreateEntry(g) \in D)
  BY EntryFields
<1>5. \A g \in File, a \in Addr, v \in Value :
        WriteEntry(g, a, v) \in E <=> WriteEntry(g, a, v) \in D
  BY EntryFields
<1>6. \A g \in File, a \in Addr : Writes(E, g, a) <=> Writes(D, g, a)
  BY <1>5 DEF Writes
<1>7. ASSUME NEW g \in File
      PROVE  /\ RemoveEntry(g) \in E => y[g] = Absent
             /\ CreateEntry(g) \in E =>
                  /\ y[g] # Absent
                  /\ \A a \in Addr : ~Writes(E, g, a) => y[g][a] = Blank
             /\ \A a \in Addr, v \in Value : WriteEntry(g, a, v) \in E =>
                  y[g] # Absent /\ y[g][a] = v
  <2>1. CASE g = f
    <3>1. RemoveEntry(g) \notin E
      BY <1>3, <1>4, <2>1
    <3>2. \A a \in Addr, v \in Value : WriteEntry(g, a, v) \notin E
      BY <1>3, <1>5, <2>1 DEF Writes
    <3>. QED  BY <1>1, <2>1, <3>1, <3>2
  <2>2. CASE g # f
    BY <1>2, <1>4, <1>5, <1>6, <2>2 DEF Applied
  <2>. QED  BY <2>1, <2>2
<1>8. Applied(E, y)
  BY <1>7 DEF Applied
<1>9. Untouched(b, T, y)
  BY <1>2 DEF Untouched, Renames
<1>. QED  BY <1>8, <1>9

LEMMA AppliedRemove ==
  ASSUME NEW b, NEW x \in Files, NEW T, NEW D, D \subseteq T,
         WellFormed(T, b), Untouched(b, T, x), Applied(D, x),
         NEW f \in File, RemoveEntry(f) \in T,
         NEW y, y = [x EXCEPT ![f] = Absent]
  PROVE  /\ Applied(D \union {RemoveEntry(f)}, y)
         /\ Untouched(b, T, y)
<1> DEFINE E == D \union {RemoveEntry(f)}
<1>1. y[f] = Absent /\ \A g \in File : g # f => y[g] = x[g]
  BY DEF Files
<1>2. CreateEntry(f) \notin T /\ \A a \in Addr : ~Writes(T, f, a)
  BY DEF WellFormed
<1>3. \A g \in File : /\ CreateEntry(g) \in E <=> CreateEntry(g) \in D
                      /\ g # f => (RemoveEntry(g) \in E <=> RemoveEntry(g) \in D)
  BY EntryFields
<1>4. \A g \in File, a \in Addr, v \in Value :
        WriteEntry(g, a, v) \in E <=> WriteEntry(g, a, v) \in D
  BY EntryFields
<1>5. \A g \in File, a \in Addr : Writes(E, g, a) <=> Writes(D, g, a)
  BY <1>4 DEF Writes
<1>6. ASSUME NEW g \in File
      PROVE  /\ RemoveEntry(g) \in E => y[g] = Absent
             /\ CreateEntry(g) \in E =>
                  /\ y[g] # Absent
                  /\ \A a \in Addr : ~Writes(E, g, a) => y[g][a] = Blank
             /\ \A a \in Addr, v \in Value : WriteEntry(g, a, v) \in E =>
                  y[g] # Absent /\ y[g][a] = v
  <2>1. CASE g = f
    <3>1. CreateEntry(g) \notin E
      BY <1>2, <1>3, <2>1
    <3>2. \A a \in Addr, v \in Value : WriteEntry(g, a, v) \notin E
      BY <1>2, <1>4, <2>1 DEF Writes
    <3>. QED  BY <1>1, <2>1, <3>1, <3>2
  <2>2. CASE g # f
    BY <1>1, <1>3, <1>4, <1>5, <2>2 DEF Applied
  <2>. QED  BY <2>1, <2>2
<1>7. Applied(E, y)
  BY <1>6 DEF Applied
<1>8. Untouched(b, T, y)
  BY <1>1 DEF Untouched, Renames
<1>. QED  BY <1>7, <1>8

LEMMA AppliedWrite ==
  ASSUME NEW b, NEW x \in Files, NEW T, NEW D, D \subseteq T,
         WellFormed(T, b), Untouched(b, T, x), Applied(D, x),
         NEW f \in File, NEW a \in Addr, NEW v \in Value,
         WriteEntry(f, a, v) \in T, x[f] # Absent,
         NEW y, y = [x EXCEPT ![f] = [x[f] EXCEPT ![a] = v]]
  PROVE  /\ Applied(D \union {WriteEntry(f, a, v)}, y)
         /\ Untouched(b, T, y)
<1> DEFINE E == D \union {WriteEntry(f, a, v)}
<1>1. x[f] \in Content
  BY DEF Files
<1>2. /\ y[f] # Absent /\ y[f][a] = v
      /\ \A c \in Addr : c # a => y[f][c] = x[f][c]
      /\ \A g \in File : g # f => y[g] = x[g]
  <2>1. [x[f] EXCEPT ![a] = v] \in Content
    BY <1>1 DEF Content
  <2>2. y[f] = [x[f] EXCEPT ![a] = v]
    BY DEF Files
  <2>3. y[f] # Absent
    BY <2>1, <2>2, AbsentAssumption
  <2>. QED  BY <1>1, <2>2, <2>3 DEF Files, Content
<1>3. Writes(T, f, a) /\ Writes(E, f, a) /\ RemoveEntry(f) \notin T
  BY DEF Writes, WellFormed
<1>4. \A g \in File : /\ CreateEntry(g) \in E <=> CreateEntry(g) \in D
                      /\ RemoveEntry(g) \in E <=> RemoveEntry(g) \in D
  BY EntryFields
<1>5. ASSUME NEW g \in File, NEW c \in Addr, NEW w \in Value,
             WriteEntry(g, c, w) \in E
      PROVE  /\ g = f /\ c = a => w = v
             /\ g # f \/ c # a => WriteEntry(g, c, w) \in D
  <2>1. WriteEntry(g, c, w) \in T
    BY <1>5
  <2>. QED  BY <1>5, <2>1, EntryFields DEF WellFormed
<1>6. \A g \in File, c \in Addr : Writes(D, g, c) => Writes(E, g, c)
  BY DEF Writes
<1>7. ASSUME NEW g \in File
      PROVE  /\ RemoveEntry(g) \in E => y[g] = Absent
             /\ CreateEntry(g) \in E =>
                  /\ y[g] # Absent
                  /\ \A c \in Addr : ~Writes(E, g, c) => y[g][c] = Blank
             /\ \A c \in Addr, w \in Value : WriteEntry(g, c, w) \in E =>
                  y[g] # Absent /\ y[g][c] = w
  <2>1. CASE g = f
    <3>1. RemoveEntry(g) \notin E
      BY <1>3, <1>4, <2>1
    <3>2. CreateEntry(g) \in E =>
            \A c \in Addr : ~Writes(E, g, c) => y[g][c] = Blank
      BY <1>2, <1>3, <1>4, <1>6, <2>1 DEF Applied
    <3>3. \A c \in Addr, w \in Value : WriteEntry(g, c, w) \in E => y[g][c] = w
      BY <1>2, <1>5, <2>1 DEF Applied
    <3>. QED  BY <1>2, <2>1, <3>1, <3>2, <3>3
  <2>2. CASE g # f
    <3>1. y[g] = x[g]
      BY <1>2, <2>2
    <3>2. RemoveEntry(g) \in E => y[g] = Absent
      BY <1>4, <3>1 DEF Applied
    <3>3. CreateEntry(g) \in E => y[g] # Absent
      BY <1>4, <3>1 DEF Applied
    <3>4. ASSUME CreateEntry(g) \in E, NEW c \in Addr, ~Writes(E, g, c)
          PROVE  y[g][c] = Blank
      BY <1>4, <1>6, <3>1, <3>4 DEF Applied
    <3>5. ASSUME NEW c \in Addr, NEW w \in Value, WriteEntry(g, c, w) \in E
          PROVE  y[g] # Absent /\ y[g][c] = w
      BY <1>5, <2>2, <3>1, <3>5 DEF Applied
    <3>. QED  BY <3>2, <3>3, <3>4, <3>5
  <2>. QED  BY <2>1, <2>2
<1>8. Applied(E, y)
  BY <1>7 DEF Applied
<1>9. Untouched(b, T, y)
  BY <1>2, <1>3 DEF Untouched, Renames
<1>. QED  BY <1>8, <1>9

\* A write that is ready goes to a file that is there (wal.c:245).
LEMMA Writable ==
  ASSUME NEW b, NEW x \in Files, NEW T, NEW D, D \subseteq T,
         WellFormed(T, b), Untouched(b, T, x), Applied(D, x),
         NEW e \in LogEntry, e \in T, Ready(e, T, D), e.type = "write"
  PROVE  x[e.file] # Absent
<1>1. Writes(T, e.file, e.addr) /\ e.file \in File /\ e.addr \in Addr
  BY EntryShape DEF Writes
<1>2. CASE CreateEntry(e.file) \in T
  BY <1>1, <1>2 DEF Ready, Applied
<1>3. CASE CreateEntry(e.file) \notin T
  <2>1. b[e.file] # Absent /\ RemoveEntry(e.file) \notin T
    BY <1>1, <1>3 DEF WellFormed
  <2>. QED  BY <1>1, <1>3, <2>1 DEF Untouched, Renames
<1>. QED  BY <1>2, <1>3

\* A power loss keeps what T does not change while T is performed.
LEMMA HeldPerform ==
  ASSUME TypeOK, UntouchedHeld(base, log.ops), UNCHANGED <<base, log>>,
         NEW e \in LogEntry, e \in log.ops, Perform(e)
  PROVE  UntouchedHeld(base, log.ops)'
<1> DEFINE T == log.ops
<1> SUFFICES
      ASSUME NEW f \in File
      PROVE  /\ ~Renames(T, f) => named'[f] = {base[f] # Absent}
             /\ (TRUE \in named'[f] /\ base[f] # Absent
                   /\ CreateEntry(f) \notin T) =>
                  \A a \in Addr : ~Writes(T, f, a) =>
                                     held'[f][a] = {base[f][a]}
  BY DEF UntouchedHeld, Renames, Writes
<1>0. /\ held \in [File -> [Addr -> SUBSET (Value \union {Blank})]]
      /\ named \in [File -> SUBSET BOOLEAN]
      /\ e.file \in File /\ e.addr \in Addr
  BY EntryShape DEF TypeOK
<1>1. CASE e.type = "create"
  <2>1. f # e.file => held'[f] = held[f] /\ named'[f] = named[f]
    BY <1>0, <1>1 DEF Perform
  <2>2. CreateEntry(e.file) \in T
    BY <1>1, EntryShape
  <2>. QED  BY <2>1, <2>2 DEF UntouchedHeld, Renames
<1>2. CASE e.type = "remove"
  <2>1. /\ held' = held
        /\ named' = [named EXCEPT ![e.file] = named[e.file] \union {FALSE}]
    BY <1>2 DEF Perform
  <2>2. RemoveEntry(e.file) \in T
    BY <1>2, EntryShape
  <2>3. TRUE \in named'[f] => TRUE \in named[f]
    BY <1>0, <2>1
  <2>4. ~Renames(T, f) => named'[f] = named[f]
    BY <1>0, <2>1, <2>2 DEF Renames
  <2>. QED  BY <2>1, <2>3, <2>4 DEF UntouchedHeld
<1>3. CASE e.type = "write"
  <2>1. /\ named' = named
        /\ held' = [held EXCEPT ![e.file] =
                      [held[e.file] EXCEPT ![e.addr] =
                         held[e.file][e.addr] \union {Blank, e.payload}]]
    BY <1>3 DEF Perform
  <2>2. \A a \in Addr :
          f # e.file \/ a # e.addr => held'[f][a] = held[f][a]
    BY <1>0, <2>1
  <2>3. Writes(T, e.file, e.addr)
    BY <1>3, EntryShape DEF Writes
  <2>. QED  BY <2>1, <2>2, <2>3 DEF UntouchedHeld
<1>. QED  BY <1>1, <1>2, <1>3, EntryShape

\* What executeCommit remembers once it has performed entry e.
LEMMA RedoType ==
  ASSUME NEW e \in LogEntry, redo \in Redo
  PROVE  [entry |-> {e},
          changedFiles |-> redo.changedFiles \/ ChangesFiles({e})] \in Redo
BY DEF Redo, ChangesFiles

\* A step that performs an entry of the log preserves the invariant.
LEMMA PerformStep ==
  ASSUME IInv, phase \in {"apply", "replay"},
         NEW e \in LogEntry, e \in log.ops \ done, Ready(e, log.ops, done),
         unsynced \subseteq {e.file}, Perform(e),
         done' = done \union {e},
         unsynced' = IF e.type = "remove" THEN unsynced ELSE {e.file},
         redo' \in Redo,
         phase = "replay" =>
           (redo'.changedFiles <=> redo.changedFiles \/ ChangesFiles({e})),
         UNCHANGED <<log, logFile, logHeld, logNamed, phase, base, txn, unread,
                     outcome, txns, faults>>
  PROVE  IInv'
<1>1. /\ TypeOK /\ fs \in Files /\ e.file \in File
      /\ done \subseteq log.ops /\ log.ops \subseteq LogEntry
      /\ WellFormed(log.ops, base) /\ Untouched(base, log.ops, fs)
      /\ UntouchedHeld(base, log.ops) /\ Consistent(Effect(base, log.ops))
      /\ Applied(done, fs) /\ CreatesFirst(done, log.ops)
      /\ logFile /\ Committed(log)
      /\ unsynced \subseteq File
      /\ \A f \in unsynced : fs[f] # Absent /\ RemoveEntry(f) \notin log.ops
  BY EntryShape DEF IInv, RedoInv, Redoable, TypeOK, LogImage
<1>2. e.type = "write" => fs[e.file] # Absent
  BY <1>1, Writable
<1>3. fs' \in Files /\ held' \in [File -> [Addr -> SUBSET (Value \union {Blank})]]
      /\ named' \in [File -> SUBSET BOOLEAN]
  BY <1>1, <1>2, PerformType
<1>4. TypeOK'
  <2>1. done' \subseteq LogEntry /\ unsynced' \subseteq File
    BY <1>1
  <2>2. redo' \in Redo
    OBVIOUS
  <2>. QED  BY <1>1, <1>3, <2>1, <2>2 DEF TypeOK
<1>5. Applied(done', fs') /\ Untouched(base, log.ops, fs')
  <2>1. CASE e = CreateEntry(e.file)
             /\ fs' = [fs EXCEPT ![e.file] = [a \in Addr |-> Blank]]
    BY <1>1, <2>1, AppliedCreate
  <2>2. CASE e = RemoveEntry(e.file) /\ fs' = [fs EXCEPT ![e.file] = Absent]
    BY <1>1, <2>2, AppliedRemove
  <2>3. CASE /\ e = WriteEntry(e.file, e.addr, e.payload)
             /\ e.payload \in Value
             /\ fs' = [fs EXCEPT ![e.file] =
                         [fs[e.file] EXCEPT ![e.addr] = e.payload]]
    <3>1. fs[e.file] # Absent /\ e.addr \in Addr
      BY <1>2, <2>3, EntryFields, EntryShape
    <3> DEFINE w == WriteEntry(e.file, e.addr, e.payload)
    <3>2. w \in log.ops /\ done' = done \union {w}
      BY <2>3
    <3>3. Applied(done \union {w}, fs') /\ Untouched(base, log.ops, fs')
      BY <1>1, <2>3, <3>1, <3>2, AppliedWrite
    <3>. QED  BY <3>2, <3>3
  <2>. QED  BY <2>1, <2>2, <2>3, PerformCases
<1>6. UntouchedHeld(base, log.ops)'
  BY <1>1, HeldPerform
<1>7. Redoable(log.ops)'
  <2>1. Consistent(Effect(base, log.ops))'
    BY <1>1 DEF Consistent
  <2>. QED  BY <1>1, <1>5, <1>6, <2>1 DEF Redoable, UntouchedHeld

<1>8. CreatesFirst(done', log.ops')
  <2>1. ASSUME NEW f \in File, NEW a \in Addr, Writes(done', f, a),
               CreateEntry(f) \in log.ops
        PROVE  CreateEntry(f) \in done'
    <3>1. CASE Writes(done, f, a)
      BY <1>1, <2>1, <3>1 DEF CreatesFirst
    <3>2. CASE ~Writes(done, f, a)
      <4>1. PICK v \in Value : WriteEntry(f, a, v) = e
        BY <2>1, <3>2 DEF Writes
      <4>2. e.type = "write" /\ e.file = f
        BY <4>1, EntryFields
      <4>. QED  BY <2>1, <4>2 DEF Ready
    <3>. QED  BY <3>1, <3>2
  <2>. QED  BY <2>1 DEF CreatesFirst
<1>9. ASSUME NEW f \in unsynced'
      PROVE  fs'[f] # Absent /\ RemoveEntry(f) \notin log.ops
  <2>1. CASE e.type = "remove"
    <3>1. RemoveEntry(e.file) \in log.ops
      BY <2>1, EntryShape
    <3>. QED  BY <1>1, <1>9, <2>1, <3>1
  <2>2. CASE e.type # "remove"
    <3>1. f = e.file /\ f \in File
      BY <1>1, <1>9, <2>2
    <3>2. e \in done'
      OBVIOUS
    <3>3. CASE e.type = "create"
      <4>1. e = CreateEntry(f) /\ RemoveEntry(f) \notin log.ops
        BY <1>1, <3>1, <3>3, EntryShape DEF WellFormed
      <4>. QED  BY <1>5, <3>1, <3>2, <4>1 DEF Applied
    <3>4. CASE e.type = "write"
      <4>1. e.addr \in Addr /\ e.payload \in Value
            /\ e = WriteEntry(f, e.addr, e.payload)
        BY <3>1, <3>4, EntryShape
      <4>2. Writes(log.ops, f, e.addr)
        BY <4>1 DEF Writes
      <4>3. RemoveEntry(f) \notin log.ops
        BY <1>1, <3>1, <4>1, <4>2 DEF WellFormed
      <4>. QED  BY <1>5, <3>1, <3>2, <4>1, <4>3 DEF Applied
    <3>. QED  BY <2>2, <3>3, <3>4, EntryShape
  <2>. QED  BY <2>1, <2>2
<1>10. ASSUME NEW f \in File \ unsynced',
              Touches(log.ops, f) => Touches(done', f),
              fs'[f] # Absent, NEW a \in Addr
       PROVE  held'[f][a] = {fs'[f][a]}
  <2>1. CASE e.file = f
    <3>1. e = RemoveEntry(f)
      BY <1>10, <2>1, EntryShape
    <3>2. fs'[f] = Absent
      BY <1>1, <1>5, <3>1 DEF Applied
    <3>. QED  BY <1>10, <3>2
  <2>2. CASE e.file # f
    <3>1. fs'[f] = fs[f] /\ held'[f] = held[f]
      BY <1>1, <2>2, EntryShape DEF Perform, TypeOK, Files
    <3>2. f \notin unsynced
      BY <2>2
    <3>3. Touches(done', f) => Touches(done, f)
      BY <2>2 DEF Touches
    <3>. QED  BY <1>10, <3>1, <3>2, <3>3 DEF IInv, RedoInv
  <2>. QED  BY <2>1, <2>2
<1>11. RedoInv'
  <2>1. done' \subseteq log'.ops /\ logFile' /\ Committed(log)'
    BY <1>1 DEF Committed
  <2>2. \A f \in unsynced' : fs'[f] # Absent /\ RemoveEntry(f) \notin log'.ops
    BY <1>9
  <2>3. \A f \in File \ unsynced' :
          (Touches(log'.ops, f) => Touches(done', f)) =>
            (fs'[f] # Absent => \A a \in Addr : held'[f][a] = {fs'[f][a]})
    BY <1>10
  <2>4. /\ phase' = "apply" => outcome' = "pending" /\ log'.ops = txn'
        /\ phase' = "replay" => outcome' # "pending"
    BY DEF IInv, RedoInv
  <2>5. phase' = "replay" => (redo'.changedFiles <=> ChangesFiles(done'))
    <3>1. phase = "replay" => (redo.changedFiles <=> ChangesFiles(done))
      BY DEF IInv, RedoInv
    <3>2. ChangesFiles(done') <=> ChangesFiles(done) \/ ChangesFiles({e})
      BY DEF ChangesFiles
    <3>. QED  BY <3>1, <3>2
  <2>. QED  BY <1>5, <1>7, <1>8, <2>1, <2>2, <2>3, <2>4, <2>5
              DEF RedoInv, Applied, CreatesFirst, Touches
<1>12. HeldInv'
  <2> SUFFICES ASSUME LosesPower PROVE HeldInv'
    BY DEF HeldInv
  <2>1. logHeld = {log} /\ logNamed = {TRUE}
    BY <1>1 DEF IInv, HeldInv
  <2>2. SafeLog(log)'
    BY <1>1, <1>7 DEF SafeLog, Committed
  <2>. QED  BY <1>1, <2>1, <2>2 DEF HeldInv, Committed
<1>13. ReadableInv' /\ WellFormed(txn, base)'
  BY DEF IInv, ReadableInv, WellFormed
<1>. QED  BY <1>1, <1>4, <1>11, <1>12, <1>13
            DEF IInv, BusyInv, IdleInv, ResetInv, DownInv

LEMMA ApplyEntryStep ==
  ASSUME IInv, NEW e \in LogEntry, ApplyEntry(e)
  PROVE  IInv'
<1>1. log.ops = txn /\ phase = "apply" /\ redo \in Redo
  BY DEF ApplyEntry, IInv, RedoInv, TypeOK
<1>. QED  BY <1>1, PerformStep DEF ApplyEntry, logVars, history

LEMMA ReplayEntryStep ==
  ASSUME IInv, NEW e \in LogEntry, ReplayEntry(e)
  PROVE  IInv'
<1>1. /\ phase = "replay" /\ unsynced = {}
      /\ redo' = [entry |-> {e},
                  changedFiles |-> redo.changedFiles \/ ChangesFiles({e})]
      /\ e \in log.ops \ done /\ Ready(e, log.ops, done)
      /\ Perform(e) /\ done' = done \union {e}
      /\ unsynced' = IF e.type = "remove" THEN unsynced ELSE {e.file}
  BY DEF ReplayEntry, NextEntry, Replay
<1>2. redo' \in Redo
  BY <1>1, RedoType DEF IInv, TypeOK
<1>3. redo'.changedFiles <=> redo.changedFiles \/ ChangesFiles({e})
  BY <1>1
<1>. QED  BY <1>1, <1>2, <1>3, PerformStep DEF ReplayEntry, logVars, history

-----------------------------------------------------------------------------
(***************************************************************************)
(* Syncing what was performed, and emptying the log.                       *)
(***************************************************************************)

LEMMA SyncFileStep ==
  ASSUME IInv, phase \in {"apply", "replay"}, NEW f \in unsynced, SyncFile(f),
         UNCHANGED <<fs, named, log, logFile, logHeld, logNamed, phase, done,
                     redo, base, txn, unread, outcome, txns, faults>>
  PROVE  IInv'
<1>1. /\ TypeOK /\ f \in File /\ fs[f] # Absent
      /\ WellFormed(log.ops, base) /\ Untouched(base, log.ops, fs)
      /\ UntouchedHeld(base, log.ops) /\ Consistent(Effect(base, log.ops))
      /\ logFile /\ Committed(log)
  BY DEF IInv, RedoInv, Redoable, TypeOK
<1>2. /\ held' = [held EXCEPT ![f] = [a \in Addr |-> {fs[f][a]}]]
      /\ unsynced' = unsynced \ {f}
  BY DEF SyncFile
<1>3. /\ \A a \in Addr : held'[f][a] = {fs[f][a]}
      /\ \A g \in File : g # f => held'[g] = held[g]
  BY <1>1, <1>2 DEF TypeOK
<1>4. TypeOK'
  BY <1>1, SyncFileType DEF TypeOK
<1>5. UntouchedHeld(base, log.ops)'
  <2>1. ASSUME NEW g \in File
        PROVE  /\ ~Renames(log.ops, g) => named'[g] = {base[g] # Absent}
               /\ (/\ TRUE \in named'[g] /\ base[g] # Absent
                   /\ CreateEntry(g) \notin log.ops) =>
                    \A a \in Addr : ~Writes(log.ops, g, a) =>
                                       held'[g][a] = {base[g][a]}
    <3>1. CASE g = f
      BY <1>1, <1>3, <3>1 DEF Untouched, UntouchedHeld
    <3>2. CASE g # f
      <4>1. held'[g] = held[g] /\ named' = named
        BY <1>3, <3>2
      <4>. QED  BY ONLY <1>1, <2>1, <4>1 DEF UntouchedHeld
    <3>. QED  BY <3>1, <3>2
  <2>. QED  BY <2>1 DEF UntouchedHeld, Renames, Writes
<1>6. Redoable(log.ops)'
  BY <1>1, <1>5 DEF Redoable, WellFormed, Untouched, Consistent
<1>7. RedoInv'
  <2>1. ASSUME NEW g \in File \ unsynced',
               Touches(log.ops, g) => Touches(done, g),
               fs[g] # Absent, NEW a \in Addr
        PROVE  held'[g][a] = {fs[g][a]}
    <3>1. CASE g = f
      BY <1>3, <3>1
    <3>2. CASE g # f
      BY <1>2, <1>3, <2>1, <3>2 DEF IInv, RedoInv
    <3>. QED  BY <3>1, <3>2
  <2>2. /\ Committed(log)' /\ logFile'
        /\ done' \subseteq log'.ops
        /\ Applied(done, fs)' /\ CreatesFirst(done, log.ops)'
        /\ \A g \in unsynced' : fs'[g] # Absent /\ RemoveEntry(g) \notin log'.ops
        /\ phase' = "apply" => outcome' = "pending" /\ log'.ops = txn'
        /\ phase' = "replay" => outcome' # "pending"
        /\ phase' = "replay" => (redo'.changedFiles <=> ChangesFiles(done'))
    BY <1>1, <1>2 DEF IInv, RedoInv, Committed, Applied, CreatesFirst
  <2>3. \A g \in File \ unsynced' :
          (Touches(log.ops, g)' => Touches(done, g)') =>
            (fs'[g] # Absent => \A a \in Addr : held'[g][a] = {fs'[g][a]})
    BY <2>1 DEF Touches
  <2>. QED  BY <1>6, <2>2, <2>3 DEF RedoInv
<1>8. HeldInv'
  <2> SUFFICES ASSUME LosesPower PROVE HeldInv'
    BY DEF HeldInv
  <2>1. logHeld = {log} /\ logNamed = {TRUE}
    BY <1>1 DEF IInv, HeldInv
  <2>2. SafeLog(log)'
    BY <1>1, <1>6 DEF SafeLog, Committed
  <2>. QED  BY <1>1, <2>1, <2>2 DEF HeldInv, Committed
<1>9. ReadableInv' /\ WellFormed(txn, base)'
  BY DEF IInv, ReadableInv, WellFormed
<1>. QED  BY <1>1, <1>4, <1>7, <1>8, <1>9
            DEF IInv, BusyInv, IdleInv, ResetInv, DownInv

\* Everything is performed and synced; the directory is synced if need be.
LEMMA FinishStep ==
  ASSUME IInv, phase \in {"apply", "replay"}, done = log.ops, unsynced = {},
         IF ChangesFiles(log.ops) THEN SyncDirectory
                                  ELSE UNCHANGED <<held, named>>,
         phase' = "reset",
         UNCHANGED <<fs, log, logFile, logHeld, logNamed, done, unsynced, redo,
                     base, txn, unread, outcome, txns, faults>>
  PROVE  IInv'
<1>1. /\ TypeOK /\ fs \in Files /\ base \in Files
      /\ WellFormed(log.ops, base) /\ Untouched(base, log.ops, fs)
      /\ UntouchedHeld(base, log.ops) /\ Consistent(Effect(base, log.ops))
      /\ Applied(log.ops, fs)
      /\ logFile /\ Committed(log)
      /\ \A f \in File : fs[f] # Absent =>
                           \A a \in Addr : held[f][a] = {fs[f][a]}
  BY DEF IInv, RedoInv, Redoable, TypeOK
<1>2. fs = Effect(base, log.ops)
  BY <1>1, RedoCompletes
<1>3. ASSUME NEW f \in File
      PROVE  /\ named'[f] = {fs[f] # Absent}
             /\ fs[f] # Absent => held'[f] = held[f]
  <2>1. CASE ChangesFiles(log.ops)
    BY <2>1 DEF SyncDirectory
  <2>2. CASE ~ChangesFiles(log.ops)
    <3>1. ~Renames(log.ops, f)
      BY <2>2, EntryFields DEF ChangesFiles, Renames
    <3>. QED  BY <1>1, <2>2, <3>1 DEF UntouchedHeld, Untouched
  <2>. QED  BY <2>1, <2>2
<1>4. TypeOK'
  <2>1. /\ held' \in [File -> [Addr -> SUBSET (Value \union {Blank})]]
        /\ named' \in [File -> SUBSET BOOLEAN]
    BY <1>1, SyncDirectoryType DEF TypeOK
  <2>. QED  BY <1>1, <2>1 DEF TypeOK, Phase
<1>5. AllDurable'
  BY <1>1, <1>3 DEF AllDurable, Durable
<1>6. Quiet'
  BY <1>1, <1>2, <1>5 DEF Quiet, Consistent
<1>7. UntouchedHeld(base, log.ops)'
  <2>1. ASSUME NEW f \in File
        PROVE  /\ ~Renames(log.ops, f) => named'[f] = {base[f] # Absent}
               /\ (/\ TRUE \in named'[f] /\ base[f] # Absent
                   /\ CreateEntry(f) \notin log.ops) =>
                    \A a \in Addr : ~Writes(log.ops, f, a) =>
                                       held'[f][a] = {base[f][a]}
    BY <1>1, <1>3 DEF Untouched
  <2>. QED  BY <2>1 DEF UntouchedHeld, Renames, Writes
<1>8. Redoable(log.ops)'
  BY <1>1, <1>7 DEF Redoable, WellFormed, Untouched, Consistent
<1>9. ResetInv'
  <2>1. outcome' = "pending" => fs' = Effect(base, txn)'
    BY <1>2 DEF IInv, RedoInv
  <2>2. fs' = Effect(base, log.ops)'
    BY <1>2
  <2>. QED  BY <1>1, <1>6, <1>8, <2>1, <2>2 DEF ResetInv
<1>10. HeldInv'
  <2> SUFFICES ASSUME LosesPower PROVE HeldInv'
    BY DEF HeldInv
  <2>1. logHeld = {log} /\ logNamed = {TRUE}
    BY <1>1 DEF IInv, HeldInv
  <2>2. SafeLog(log)'
    BY <1>1, <1>8 DEF SafeLog, Committed
  <2>. QED  BY <1>1, <2>1, <2>2 DEF HeldInv, Committed
<1>11. ReadableInv' /\ WellFormed(txn, base)'
  BY DEF IInv, ReadableInv, WellFormed
<1>. QED  BY <1>1, <1>4, <1>9, <1>10, <1>11
            DEF IInv, BusyInv, IdleInv, RedoInv, DownInv

LEMMA SyncAppliedStep ==
  ASSUME IInv, NEW f \in File, SyncApplied(f)
  PROVE  IInv'
BY SyncFileStep DEF SyncApplied, logVars, history

LEMMA SyncReplayedStep ==
  ASSUME IInv, NEW f \in File, SyncReplayed(f)
  PROVE  IInv'
BY SyncFileStep DEF SyncReplayed, logVars, history

LEMMA FinishApplyStep ==
  ASSUME IInv, FinishApply
  PROVE  IInv'
<1>1. log.ops = txn
  BY DEF FinishApply, IInv, RedoInv
<1>. QED  BY <1>1, FinishStep DEF FinishApply, logVars, proc, history

LEMMA FinishReplayStep ==
  ASSUME IInv, FinishReplay
  PROVE  IInv'
<1>1. IF ChangesFiles(log.ops) THEN SyncDirectory
                               ELSE UNCHANGED <<held, named>>
  BY DEF FinishReplay, IInv, RedoInv
<1>. QED  BY <1>1, FinishStep DEF FinishReplay, logVars, proc, history

LEMMA TruncateLogStep ==
  ASSUME IInv, TruncateLog
  PROVE  IInv'
<1>1. /\ phase = "reset" /\ phase' = "truncated"
      /\ log' = EmptyLog /\ logHeld' = logHeld \union {EmptyLog}
      /\ UNCHANGED <<fs, held, named, logFile, logNamed, done, unsynced, redo,
                     base, txn, unread, outcome, txns, faults>>
  BY DEF TruncateLog, disk, proc, history
<1>2. Quiet' /\ logFile
  BY <1>1, SameFiles DEF IInv, ResetInv
<1>3. TypeOK'
  BY <1>1, EmptyNotCommitted DEF IInv, TypeOK, Phase
<1>4. ReadableInv'
  BY <1>1, EmptyNotCommitted DEF IInv, ReadableInv
<1>5. ResetInv'
  BY <1>1, <1>2, EmptyNotCommitted DEF IInv, ResetInv
<1>6. HeldInv'
  <2> SUFFICES ASSUME LosesPower PROVE HeldInv'
    BY DEF HeldInv
  <2>1. \A l \in logHeld : SafeLog(l)'
    BY <1>1, SameFiles DEF IInv, HeldInv
  <2>2. SafeLog(EmptyLog)'
    BY <1>2, EmptyNotCommitted DEF SafeLog, Committed
  <2>3. ASSUME NEW l \in logHeld, Committed(l)
        PROVE  fs = Effect(base, l.ops)
    BY <1>1, <2>3 DEF IInv, HeldInv, ResetInv
  <2>4. \A l \in logHeld' : SafeLog(l)'
    BY <1>1, <2>1, <2>2
  <2>5. \A l \in logHeld' : Committed(l) => fs' = Effect(base', l.ops)
    BY <1>1, <2>3, EmptyNotCommitted
  <2>6. logNamed' = {TRUE}
    BY <1>1, <1>2 DEF IInv, HeldInv
  <2>. QED  BY <1>1, <1>2, <2>4, <2>5, <2>6, EmptyNotCommitted DEF HeldInv
<1>7. WellFormed(txn, base)'
  BY <1>1 DEF IInv, WellFormed
<1>. QED  BY <1>1, <1>2, <1>3, <1>4, <1>5, <1>6, <1>7
            DEF IInv, BusyInv, IdleInv, RedoInv, DownInv

LEMMA SyncResetStep ==
  ASSUME IInv, SyncReset
  PROVE  IInv'
<1>1. /\ phase = "truncated" /\ phase' = "idle"
      /\ logHeld' = {log}
      /\ outcome' = (IF outcome = "pending" THEN "ok" ELSE outcome)
      /\ UNCHANGED <<fs, held, named, log, logFile, logNamed, done, unsynced,
                     redo, base, txn, unread, txns, faults>>
  BY DEF SyncReset, disk, proc, history
<1>2. /\ log = EmptyLog /\ logFile /\ Quiet
      /\ outcome = "pending" => fs = Effect(base, txn)
  BY <1>1 DEF IInv, ResetInv
<1>3. Quiet'
  BY <1>1, <1>2 DEF Quiet, AllDurable, Durable, Consistent
<1>4. TypeOK'
  BY <1>1, <1>2, EmptyNotCommitted DEF IInv, TypeOK, Phase
<1>5. ReadableInv'
  BY <1>1, <1>2, EmptyNotCommitted DEF ReadableInv
<1>6. IdleInv'
  BY <1>1, <1>2, <1>3 DEF IdleInv, EmptyLog
<1>7. HeldInv'
  <2> SUFFICES ASSUME LosesPower PROVE HeldInv'
    BY DEF HeldInv
  <2>1. \A l \in logHeld' : SafeLog(l)' /\ ~Committed(l)
    BY <1>1, <1>2, <1>3, EmptyNotCommitted DEF SafeLog, Committed
  <2>2. logNamed' = {TRUE}
    BY <1>1, <1>2 DEF IInv, HeldInv
  <2>3. ~Committed(log')
    BY <1>1, <1>2, EmptyNotCommitted
  <2>. QED  BY <1>3, <2>1, <2>2, <2>3 DEF HeldInv
<1>8. WellFormed(txn, base)'
  BY <1>1 DEF IInv, WellFormed
<1>. QED  BY <1>1, <1>2, <1>4, <1>5, <1>6, <1>7, <1>8
            DEF IInv, BusyInv, RedoInv, ResetInv, DownInv

-----------------------------------------------------------------------------
(***************************************************************************)
(* Starting and ending the process.                                        *)
(***************************************************************************)

\* Recovery finds nothing, a log to redo or a log to discard.
LEMMA RecoverStep ==
  ASSUME IInv, phase = "down",
         \/ phase' = "idle" /\ log = EmptyLog
         \/ phase' = "replay" /\ logFile /\ Committed(log)
         \/ phase' = "reset" /\ logFile /\ ~Committed(log),
         done' = {}, unsynced' = {}, redo' = NothingRead, unread' \in BOOLEAN,
         faults' \in Nat,
         UNCHANGED <<disk, logVars, base, txn, outcome, txns>>
  PROVE  IInv'
<1>1. /\ phase = "down" /\ done' = {} /\ unsynced' = {} /\ redo' = NothingRead
      /\ unread' \in BOOLEAN /\ faults' \in Nat
      /\ UNCHANGED <<fs, held, named, log, logFile, logHeld, logNamed, base,
                     txn, outcome, txns>>
  BY DEF disk, logVars
<1>2. /\ outcome # "pending" /\ SafeLog(log)
      /\ ~logFile => log = EmptyLog
  BY <1>1 DEF IInv, DownInv
<1>3. \/ phase' = "idle" /\ log = EmptyLog
      \/ phase' = "replay" /\ logFile /\ Committed(log)
      \/ phase' = "reset" /\ logFile /\ ~Committed(log)
  OBVIOUS
<1>4. TypeOK'
  <2>1. redo' \in Redo
    BY <1>1, NothingReadType
  <2>. QED  BY <1>1, <1>3, <2>1 DEF IInv, TypeOK, Phase
<1>5. Quiet' <=> Quiet
  BY <1>1, SameFiles
<1>6. \A l : SafeLog(l)' <=> SafeLog(l)
  BY <1>1, SameFiles
<1>7. ReadableInv' /\ WellFormed(txn, base)'
  BY <1>1, <1>3 DEF IInv, ReadableInv, WellFormed
<1>8. IdleInv'
  BY <1>1, <1>2, <1>3, <1>5, EmptyNotCommitted DEF IdleInv, SafeLog
<1>9. ResetInv'
  <2>1. ASSUME ~Committed(log), phase' = "reset"
        PROVE  Quiet' /\ logFile
    BY <1>2, <1>3, <1>5, <2>1 DEF SafeLog
  <2>2. ~Committed(log) => ~Committed(log)'
    BY <1>1 DEF Committed
  <2>3. phase' \in {"reset", "truncated"} =>
          phase' = "reset" /\ ~Committed(log) /\ outcome' # "pending"
    BY <1>1, <1>2, <1>3
  <2>. QED  BY <1>1, <2>1, <2>2, <2>3 DEF ResetInv
<1>10. RedoInv'
  <2> SUFFICES ASSUME phase' = "replay"
               PROVE  RedoInv'
    <3>1. phase' # "apply"
      BY <1>3
    <3>. QED  BY <3>1 DEF RedoInv
  <2>1. /\ logFile /\ Committed(log) /\ Redoable(log.ops)
        /\ WellFormed(log.ops, base) /\ Untouched(base, log.ops, fs)
        /\ UntouchedHeld(base, log.ops) /\ Consistent(Effect(base, log.ops))
    BY <1>2, <1>3 DEF SafeLog, Redoable
  <2>2. ASSUME NEW f \in File, ~Touches(log.ops, f), fs[f] # Absent,
               NEW a \in Addr
        PROVE  held[f][a] = {fs[f][a]}
    <3>1. ~Renames(log.ops, f) /\ ~Writes(log.ops, f, a)
      BY <2>2, EntryFields DEF Touches, Renames, Writes
    <3>. QED  BY <2>1, <2>2, <3>1 DEF Renames, Untouched, UntouchedHeld
  <2>3. Redoable(log.ops)'
    <3>1. UntouchedHeld(base, log.ops)' /\ Untouched(base, log.ops, fs)'
      BY <1>1, <2>1 DEF Untouched, UntouchedHeld, Renames, Writes
    <3>2. Consistent(Effect(base, log.ops))'
      BY <1>1, <2>1 DEF Consistent
    <3>3. WellFormed(log.ops, base)'
      BY <1>1, <2>1 DEF WellFormed
    <3>. QED  BY <3>1, <3>2, <3>3 DEF Redoable
  <2>4. \A f \in File : ~Touches({}, f)
    BY DEF Touches
  <2>5. Applied({}, fs)' /\ CreatesFirst({}, log.ops)'
    BY DEF Applied, CreatesFirst, Writes
  <2>6. \A f \in File :
          (Touches(log.ops, f)' => Touches(done, f)') =>
            (fs'[f] # Absent => \A a \in Addr : held'[f][a] = {fs'[f][a]})
    BY <1>1, <2>2, <2>4 DEF Touches
  <2>7. Applied(done, fs)' /\ CreatesFirst(done, log.ops)' /\ Committed(log)'
    BY <1>1, <2>1, <2>5 DEF Applied, CreatesFirst, Committed
  <2>8. redo'.changedFiles <=> ChangesFiles(done')
    BY <1>1 DEF NothingRead, ChangesFiles
  <2>. QED  BY <1>1, <1>2, <2>1, <2>3, <2>6, <2>7, <2>8 DEF RedoInv
<1>11. HeldInv'
  <2> SUFFICES ASSUME LosesPower PROVE HeldInv'
    BY DEF HeldInv
  <2>1. /\ \A l \in logHeld : SafeLog(l)'
        /\ FALSE \in logNamed' => Quiet'
    BY <1>1, <1>5, <1>6 DEF IInv, HeldInv
  <2>2. logFile' => logNamed' = {TRUE}
    <3>1. logFile => logNamed = {TRUE}
      BY <1>1 DEF IInv, HeldInv
    <3>2. logFile' = logFile /\ logNamed' = logNamed /\ logFile \in BOOLEAN
      BY <1>1 DEF IInv, TypeOK
    <3>. QED  BY ONLY <3>1, <3>2
  <2>3. /\ Committed(log)' => logHeld' = {log'}
        /\ ~Committed(log)' =>
             \A l \in logHeld' : Committed(l) => fs' = Effect(base', l.ops)
    BY <1>1 DEF IInv, HeldInv, Committed
  <2>. QED  BY <1>1, <2>1, <2>2, <2>3 DEF HeldInv
<1>12. BusyInv' /\ DownInv'
  BY <1>3 DEF BusyInv, DownInv
<1>13. (~logFile => log = EmptyLog)'
  <2>1. logFile' = logFile /\ logFile \in BOOLEAN /\ log' = log
    BY <1>1 DEF IInv, TypeOK
  <2>. QED  BY ONLY <1>2, <2>1
<1>. QED  BY <1>4, <1>7, <1>8, <1>9, <1>10, <1>11, <1>12, <1>13 DEF IInv

LEMMA StartStep ==
  ASSUME IInv, Start
  PROVE  IInv'
<1>1. unread' \in BOOLEAN /\ faults' \in Nat
  BY DEF Start, history, IInv, TypeOK
<1>2. \/ phase' = "idle" /\ log = EmptyLog
      \/ phase' = "replay" /\ logFile /\ Committed(log)
      \/ phase' = "reset" /\ logFile /\ ~Committed(log)
  <2>1. CASE (~logFile \/ log = EmptyLog) /\ phase' = "idle"
    BY <2>1 DEF IInv
  <2>. QED  BY <2>1 DEF Start
<1>. QED  BY <1>1, <1>2, RecoverStep DEF Start, history

\* A log that was not read but is empty is the log recovery took it for.
LEMMA StartUnreadStep ==
  ASSUME IInv, StartUnread, ~unread'
  PROVE  IInv'
<1>1. unread' \in BOOLEAN /\ faults' \in Nat
  BY DEF StartUnread, Fault, IInv, TypeOK
<1>2. log = EmptyLog /\ ~Committed(log)
  BY EmptyNotCommitted DEF StartUnread
<1>. QED  BY <1>1, <1>2, RecoverStep DEF StartUnread

\* The program ends by itself, after the commit point or during recovery.
LEMMA ExitStep ==
  ASSUME IInv, phase \in {"apply", "replay", "reset", "truncated"},
         LoseProcess, faults' \in Nat, UNCHANGED <<disk, logVars>>
  PROVE  IInv'
<1>1. /\ phase \in {"apply", "replay", "reset", "truncated"}
      /\ phase' = "down" /\ faults' \in Nat
      /\ outcome' = (IF outcome = "pending" THEN "unknown" ELSE outcome)
      /\ UNCHANGED <<fs, held, named, log, logFile, logHeld, logNamed, done,
                     unsynced, redo, base, txn, unread, txns>>
  BY DEF LoseProcess, disk, logVars, proc, history
<1>2. TypeOK' /\ logFile
  BY <1>1 DEF IInv, TypeOK, Phase, RedoInv, ResetInv
<1>3. Quiet => Quiet'
  BY <1>1, LostReply
<1>4. \A l : SafeLog(l) => SafeLog(l)'
  BY <1>1, LostReply
<1>5. SafeLog(log)
  <2>1. CASE phase \in {"apply", "replay"}
    BY <2>1 DEF IInv, RedoInv, SafeLog
  <2>2. CASE phase \in {"reset", "truncated"}
    BY <2>2 DEF IInv, ResetInv, SafeLog
  <2>. QED  BY <1>1, <2>1, <2>2
<1>6. SafeLog(log)'
  BY <1>1, <1>4, <1>5 DEF SafeLog
<1>7. DownInv'
  BY <1>1, <1>6 DEF DownInv
<1>8. HeldInv'
  <2> SUFFICES ASSUME LosesPower PROVE HeldInv'
    BY DEF HeldInv
  <2>1. /\ \A l \in logHeld' : SafeLog(l)'
        /\ logNamed' = {TRUE}
    BY <1>1, <1>2, <1>4 DEF IInv, HeldInv
  <2>2. Committed(log)' => logHeld' = {log'}
    BY <1>1, EmptyNotCommitted DEF IInv, HeldInv, ResetInv, Committed
  <2>3. ~Committed(log)' =>
          \A l \in logHeld' : Committed(l) => fs' = Effect(base', l.ops)
    BY <1>1 DEF IInv, HeldInv, Committed
  <2>. QED  BY <2>1, <2>2, <2>3 DEF HeldInv
<1>9. ReadableInv' /\ WellFormed(txn, base)'
  BY <1>1 DEF IInv, ReadableInv, WellFormed
<1>. QED  BY <1>1, <1>2, <1>7, <1>8, <1>9
            DEF IInv, BusyInv, IdleInv, RedoInv, ResetInv

LEMMA KillStep ==
  ASSUME SafeFaults, IInv, Kill
  PROVE  IInv'
<1>1. /\ phase # "down" /\ phase' = "down" /\ faults' \in Nat
      /\ outcome' = (IF outcome = "pending" THEN "unknown" ELSE outcome)
      /\ UNCHANGED <<fs, held, named, logFile, logNamed, done, unsynced, redo,
                     base, txn, unread, txns>>
      /\ ~LosesPower
  BY DEF Kill, LoseProcess, Fault, disk, proc, history, SafeFaults,
     LosesPower, IInv, TypeOK
<1>2. \/ UNCHANGED <<log, logHeld>>
      \/ /\ phase = "log" /\ log.marker = {} /\ log'.marker = {}
         /\ log' \in LogImage /\ logHeld' = logHeld \union {log'}
  <2>1. CASE UNCHANGED <<log, logHeld>>
    BY <2>1
  <2>2. CASE /\ phase = "log"
             /\ \E e \in txn \ log.ops :
                  /\ log' = [log EXCEPT !.bad = {e}]
                  /\ logHeld' = logHeld \union {log'}
    <3>1. log.marker = {} /\ log \in LogImage /\ txn \subseteq LogEntry
      BY <2>2 DEF IInv, BusyInv, TypeOK
    <3>2. PICK e \in txn \ log.ops : /\ log' = [log EXCEPT !.bad = {e}]
                                     /\ logHeld' = logHeld \union {log'}
      BY <2>2
    <3>. QED  BY <2>2, <3>1, <3>2 DEF LogImage
  <2>. QED  BY <2>1, <2>2 DEF Kill
<1>3. TypeOK'
  <2>1. log' \in LogImage /\ logHeld' \subseteq LogImage
    BY <1>2 DEF IInv, TypeOK
  <2>. QED  BY <1>1, <2>1 DEF IInv, TypeOK, Phase
<1>4. ReadableInv'
  <2>1. \A l \in logHeld' \union {log'} :
          l \in logHeld \union {log} \/ l.marker = {}
    BY <1>2
  <2>. QED  BY <1>1, <2>1 DEF IInv, ReadableInv, Committed
<1>5. SafeLog(log)
  <2>1. CASE phase \in {"newlog", "log", "mark"}
    <3>1. ~Committed(log)
      BY <2>1 DEF IInv, BusyInv, EmptyLog, Committed
    <3>. QED  BY <2>1, <3>1, BusyQuiet DEF SafeLog
  <2>2. CASE phase = "sync"
    <3>1. Redoable(txn) /\ log.ops = txn /\ Quiet
      BY <2>2, FreshRedoable, BusyQuiet DEF IInv, BusyInv
    <3>. QED  BY <3>1 DEF SafeLog
  <2>3. CASE phase \in {"apply", "replay"}
    BY <2>3 DEF IInv, RedoInv, SafeLog
  <2>4. CASE phase \in {"reset", "truncated"}
    BY <2>4 DEF IInv, ResetInv, SafeLog
  <2>5. CASE phase = "idle"
    BY <2>5, EmptyNotCommitted DEF IInv, IdleInv, SafeLog
  <2>6. phase \in Phase
    BY DEF IInv, TypeOK
  <2>. QED  BY <1>1, <2>1, <2>2, <2>3, <2>4, <2>5, <2>6 DEF Phase
<1>6. SafeLog(log)'
  <2>1. CASE UNCHANGED <<log, logHeld>>
    BY <1>1, <1>5, <2>1, LostReply DEF SafeLog
  <2>2. CASE phase = "log" /\ log'.marker = {}
    <3>1. Quiet'
      BY <1>1, <2>2, BusyQuiet, LostReply
    <3>. QED  BY <2>2, <3>1 DEF SafeLog, Committed
  <2>. QED  BY <1>2, <2>1, <2>2
<1>7. DownInv'
  BY <1>1, <1>6 DEF DownInv
<1>8. HeldInv' /\ WellFormed(txn, base)'
  BY <1>1 DEF IInv, HeldInv, LosesPower, WellFormed
<1>9. (~logFile => log = EmptyLog)'
  <2>1. phase = "log" => logFile
    BY DEF IInv, BusyInv
  <2>. QED  BY <1>1, <1>2, <2>1 DEF IInv
<1>. QED  BY <1>1, <1>3, <1>4, <1>7, <1>8, <1>9
            DEF IInv, BusyInv, IdleInv, RedoInv, ResetInv

\* A power loss leaves files that are durable as they are.
LEMMA SurvivesPower ==
  ASSUME fs \in Files, fs' \in Files, AllDurable,
         NEW n \in [File -> BOOLEAN], NEW c \in [File -> Content],
         \A f \in File : n[f] \in named[f],
         \A f \in File, a \in Addr : c[f][a] \in held[f][a],
         fs' = [f \in File |-> IF n[f] THEN c[f] ELSE Absent]
  PROVE  fs' = fs
<1>1. ASSUME NEW f \in File
      PROVE  fs'[f] = Absent <=> fs[f] = Absent
  <2>1. c[f] # Absent
    BY AbsentAssumption
  <2>2. n[f] <=> fs[f] # Absent
    <3>1. n[f] \in {fs[f] # Absent} /\ n[f] \in BOOLEAN
      BY DEF AllDurable, Durable
    <3>. QED  BY <3>1
  <2>. QED  BY <2>1, <2>2
<1>2. ASSUME NEW f \in File, fs'[f] # Absent, NEW a \in Addr
      PROVE  fs'[f][a] = fs[f][a]
  <2>1. fs[f] # Absent
    BY <1>1, <1>2
  <2>2. fs'[f] = c[f]
    BY <1>2
  <2>3. c[f][a] \in {fs[f][a]}
    BY <2>1 DEF AllDurable, Durable
  <2>. QED  BY <2>2, <2>3
<1>. QED  BY <1>1, <1>2, FilesEqual

LEMMA PowerStep ==
  ASSUME SafeFaults, IInv, Power
  PROVE  IInv'
<1>1. /\ phase' = "down" /\ faults' \in Nat /\ LosesPower
      /\ outcome' = (IF outcome = "pending" THEN "unknown" ELSE outcome)
      /\ UNCHANGED <<done, unsynced, redo, base, txn, unread, txns>>
  BY DEF Power, LoseProcess, Fault, proc, history, LosesPower, IInv, TypeOK
<1>2. PICK n \in [File -> BOOLEAN], c \in [File -> Content] :
        /\ \A f \in File : n[f] \in named[f]
        /\ \A f \in File, a \in Addr : c[f][a] \in held[f][a]
        /\ fs' = [f \in File |-> IF n[f] THEN c[f] ELSE Absent]
        /\ held' = Settle(fs')
        /\ named' = [f \in File |-> {n[f]}]
  BY DEF Power
<1>3. PICK l \in logHeld, m \in logNamed :
        /\ log' = IF m THEN l ELSE EmptyLog
        /\ logHeld' = {log'}
        /\ logFile' = m
        /\ logNamed' = {m}
  BY DEF Power
<1>4. fs \in Files /\ fs' \in Files /\ l \in LogImage /\ m \in BOOLEAN
  BY <1>2, <1>3 DEF Files, IInv, TypeOK
<1>5. TypeOK'
  <2>1. held' \in [File -> [Addr -> SUBSET (Value \union {Blank})]]
    BY <1>2, <1>4, SettleType
  <2>2. named' \in [File -> SUBSET BOOLEAN]
    BY <1>2
  <2>3. log' \in LogImage /\ logFile' \in BOOLEAN /\ logNamed' \subseteq BOOLEAN
    BY <1>3, <1>4, EmptyNotCommitted
  <2>4. logHeld' \subseteq LogImage
    BY <1>3, <2>3
  <2>. QED  BY <1>1, <1>4, <2>1, <2>2, <2>3, <2>4 DEF IInv, TypeOK, Phase
<1>6. AllDurable'
  <2>1. ASSUME NEW f \in File
        PROVE  /\ named'[f] = {fs'[f] # Absent}
               /\ fs'[f] # Absent => \A a \in Addr : held'[f][a] = {fs'[f][a]}
    <3>1. named'[f] = {n[f]} /\ n[f] \in BOOLEAN /\ c[f] # Absent
      BY <1>2, AbsentAssumption
    <3>2. fs'[f] = IF n[f] THEN c[f] ELSE Absent
      BY <1>2
    <3>3. (fs'[f] # Absent) = n[f]
      BY <3>1, <3>2
    <3>4. fs'[f] # Absent => \A a \in Addr : held'[f][a] = {fs'[f][a]}
      BY <1>2 DEF Settle
    <3>. QED  BY <3>1, <3>3, <3>4
  <2>. QED  BY <2>1 DEF AllDurable, Durable
<1>7. Quiet => Quiet'
  <2> SUFFICES ASSUME Quiet PROVE Quiet'
    OBVIOUS
  <2>1. AllDurable
    BY DEF Quiet
  <2>2. fs' = fs
    BY <1>2, <1>4, <2>1, SurvivesPower
  <2>. QED  BY <1>1, <1>6, <2>2 DEF Quiet, Consistent

<1>8. ASSUME NEW T, Redoable(T)
      PROVE  Redoable(T)'
  <2>1. ASSUME NEW f \in File
        PROVE  /\ ~Renames(T, f) => (fs'[f] = Absent <=> base[f] = Absent)
               /\ ~Renames(T, f) => named'[f] = {base[f] # Absent}
               /\ (/\ fs'[f] # Absent /\ base[f] # Absent
                   /\ CreateEntry(f) \notin T) =>
                    \A a \in Addr : ~Writes(T, f, a) => fs'[f][a] = base[f][a]
    <3>1. /\ n[f] \in BOOLEAN /\ n[f] \in named[f] /\ c[f] # Absent
          /\ \A a \in Addr : c[f][a] \in held[f][a]
          /\ fs'[f] = (IF n[f] THEN c[f] ELSE Absent)
          /\ named'[f] = {n[f]}
      BY <1>2, AbsentAssumption
    <3>2. /\ ~Renames(T, f) => named[f] = {base[f] # Absent}
          /\ (TRUE \in named[f] /\ base[f] # Absent /\ CreateEntry(f) \notin T)
               => \A a \in Addr : ~Writes(T, f, a) => held[f][a] = {base[f][a]}
      BY <1>8 DEF Redoable, UntouchedHeld
    <3>3. ~Renames(T, f) => n[f] = (base[f] # Absent)
      BY ONLY <3>1, <3>2
    <3>4. fs'[f] # Absent => TRUE \in named[f] /\ fs'[f] = c[f]
      BY ONLY <3>1
    <3>5. ~Renames(T, f) => (fs'[f] = Absent <=> base[f] = Absent)
      BY ONLY <3>1, <3>3
    <3>6. ~Renames(T, f) => named'[f] = {base[f] # Absent}
      BY ONLY <3>1, <3>3
    <3>7. ASSUME fs'[f] # Absent, base[f] # Absent, CreateEntry(f) \notin T,
                 NEW a \in Addr, ~Writes(T, f, a)
          PROVE  fs'[f][a] = base[f][a]
      BY ONLY <3>1, <3>2, <3>4, <3>7
    <3>. QED  BY ONLY <3>5, <3>6, <3>7
  <2>2. ASSUME NEW f \in File, TRUE \in named'[f], base[f] # Absent,
               CreateEntry(f) \notin T, NEW a \in Addr, ~Writes(T, f, a)
        PROVE  held'[f][a] = {base[f][a]}
    <3>1. fs'[f] # Absent
      <4>1. /\ n[f] \in BOOLEAN /\ c[f] # Absent /\ named'[f] = {n[f]}
            /\ fs'[f] = (IF n[f] THEN c[f] ELSE Absent)
        BY <1>2, AbsentAssumption
      <4>. QED  BY ONLY <2>2, <4>1
    <3>2. held'[f][a] = {fs'[f][a]}
      BY <1>6, <3>1 DEF AllDurable, Durable
    <3>. QED  BY <2>1, <2>2, <3>1, <3>2
  <2>3. base' = base /\ txn' = txn
    BY <1>1
  <2>4. Untouched(base, T, fs)'
    BY ONLY <2>1, <2>3 DEF Untouched
  <2>5. UntouchedHeld(base, T)'
    BY ONLY <2>1, <2>2, <2>3 DEF UntouchedHeld
  <2>6. WellFormed(T, base)' /\ Consistent(Effect(base, T))'
    BY <1>1, <1>8 DEF Redoable, WellFormed, Consistent
  <2>. QED  BY <2>4, <2>5, <2>6 DEF Redoable
<1>9. SafeLog(log)' /\ (~logFile => log = EmptyLog)' /\ (~logFile => Quiet)'
  <2>1. CASE m = TRUE
    <3>1. log' = l /\ logFile'
      BY <1>3, <2>1
    <3>2. SafeLog(l)
      BY <1>1 DEF IInv, HeldInv
    <3>3. CASE Committed(l)
      <4>1. Redoable(l.ops)'
        BY <1>8, <3>2, <3>3 DEF SafeLog
      <4>. QED  BY <3>1, <3>3, <4>1 DEF SafeLog, Committed, Redoable
    <3>4. CASE ~Committed(l)
      BY <1>7, <3>1, <3>2, <3>4 DEF SafeLog, Committed
    <3>. QED  BY <3>3, <3>4
  <2>2. CASE m = FALSE
    <3>1. log' = EmptyLog /\ Quiet'
      BY <1>1, <1>3, <1>7, <2>2 DEF IInv, HeldInv
    <3>. QED  BY <3>1, EmptyNotCommitted DEF SafeLog, Committed
  <2>. QED  BY <1>4, <2>1, <2>2
<1>10. HeldInv'
  <2>1. \A x \in logHeld' : SafeLog(x)'
    BY <1>3, <1>9 DEF SafeLog, Committed
  <2>2. FALSE \in logNamed' => Quiet'
    BY <1>3, <1>9
  <2>3. logFile' => logNamed' = {TRUE}
    <3>1. logFile' = m /\ logNamed' = {m} /\ m \in BOOLEAN
      BY <1>3, <1>4
    <3>. QED  BY ONLY <3>1
  <2>. QED  BY <1>3, <2>1, <2>2, <2>3 DEF HeldInv, Committed
<1>11. ReadableInv'
  <2>1. Committed(log') => log'.bad = {}
    BY <1>3, EmptyNotCommitted DEF IInv, ReadableInv
  <2>. QED  BY <1>1, <1>3, <2>1 DEF ReadableInv
<1>12. outcome' # "pending" /\ WellFormed(txn, base)'
  BY <1>1 DEF IInv, WellFormed
<1>. QED  BY <1>1, <1>5, <1>9, <1>10, <1>11, <1>12
            DEF IInv, BusyInv, IdleInv, RedoInv, ResetInv, DownInv

-----------------------------------------------------------------------------
(***************************************************************************)
(* The invariant is inductive.                                             *)
(***************************************************************************)

LEMMA StutterStep ==
  ASSUME IInv, UNCHANGED vars
  PROVE  IInv'
<1>1. UNCHANGED <<fs, held, named, log, logFile, logHeld, logNamed, phase,
                  done, unsynced, redo, base, txn, unread, outcome, txns,
                  faults>>
  BY DEF vars, disk, logVars, proc, history
<1>2. TypeOK' /\ WellFormed(txn, base)' /\ ReadableInv'
  BY <1>1 DEF IInv, TypeOK, WellFormed, ReadableInv, Committed
<1>3. /\ Quiet' <=> Quiet
      /\ \A T : Redoable(T)' <=> Redoable(T)
      /\ \A l : SafeLog(l)' <=> SafeLog(l)
  BY <1>1, SameFiles
<1>4. BusyInv' /\ IdleInv' /\ DownInv'
  BY <1>1, <1>3 DEF IInv, BusyInv, IdleInv, DownInv, AllDurable, Durable,
     SafeLog, Committed, Redoable
<1>5. (Redoable(log.ops) /\ Committed(log)) =>
         (Redoable(log.ops)' /\ Committed(log)')
  BY <1>1 DEF Redoable, WellFormed, Untouched, UntouchedHeld, Consistent,
     Committed
<1>6. RedoInv'
  BY <1>1, <1>5 DEF IInv, RedoInv, Applied, CreatesFirst, Touches, Committed
<1>7. ResetInv'
  BY <1>1, <1>3, <1>5 DEF IInv, ResetInv, Committed
<1>8. HeldInv'
  BY <1>1, <1>3 DEF IInv, HeldInv, Committed, LosesPower
<1>9. (~logFile => log = EmptyLog)'
  BY <1>1 DEF IInv
<1>. QED  BY <1>2, <1>4, <1>6, <1>7, <1>8, <1>9 DEF IInv

LEMMA NextStep ==
  ASSUME SafeFaults, IInv, Next, ~unread'
  PROVE  IInv'
<1>1. ASSUME NEW T \in Transactions, Begin(T) \/ BeginFails(T) PROVE IInv'
  BY <1>1, BeginStep, BeginFailsStep
<1>2. CASE Start
  BY <1>2, StartStep
<1>3. CASE Progress
  <2>1. ASSUME NEW e \in LogEntry,
               \/ AddLogEntry(e) \/ ApplyEntry(e)
               \/ ReplayEntry(e) \/ ReplayMissing(e)
        PROVE  IInv'
    <3>1. CASE ReplayMissing(e)
      <4>1. phase = "replay" /\ faults' \in Nat
        BY <3>1 DEF ReplayMissing, NextEntry, IInv, TypeOK
      <4>. QED  BY <3>1, <4>1, ExitStep DEF ReplayMissing
    <3>. QED  BY <2>1, <3>1, AddLogEntryStep, ApplyEntryStep, ReplayEntryStep
  <2>2. ASSUME NEW f \in File, SyncApplied(f) \/ SyncReplayed(f) PROVE IInv'
    BY <2>2, SyncAppliedStep, SyncReplayedStep
  <2>3. CASE \/ SyncNewLog \/ SyncEntries \/ WriteMarker \/ SyncMarker
             \/ FinishApply \/ TruncateLog \/ SyncReset \/ FinishReplay
    BY <2>3, SyncNewLogStep, SyncEntriesStep, WriteMarkerStep, SyncMarkerStep,
       FinishApplyStep, TruncateLogStep, SyncResetStep, FinishReplayStep
  <2>. QED  BY <1>3, <2>1, <2>2, <2>3 DEF Progress
<1>4. CASE Failure
  <2>1. ~SyncMarkerFails
    BY DEF SyncMarkerFails, SafeFaults, Fault
  <2>2. ASSUME NEW e \in LogEntry, ReplayUnread(e) PROVE IInv'
    <3>1. phase = "replay" /\ faults' \in Nat
      BY <2>2 DEF ReplayUnread, NextEntry, Fault, IInv, TypeOK
    <3>2. LoseProcess /\ UNCHANGED <<disk, logVars>>
      BY <2>2 DEF ReplayUnread
    <3>. QED  BY <3>1, <3>2, ExitStep
  <2>3. CASE Exit
    <3>1. faults' \in Nat
      BY <2>3 DEF Exit, Fault, IInv, TypeOK
    <3>. QED  BY <2>3, <3>1, ExitStep DEF Exit
  <2>. QED  BY <1>4, <2>1, <2>2, <2>3, SyncNewLogFailsStep, LogFailsStep,
              MarkFailsStep, StartUnreadStep, KillStep, PowerStep DEF Failure
<1>. QED  BY <1>1, <1>2, <1>3, <1>4 DEF Next

\* Once recovery has gone on from a log it had not read, that is never undone.
LEMMA UnreadStays ==
  ASSUME [Next]_vars, unread
  PROVE  unread'
<1>1. CASE UNCHANGED vars
  BY <1>1 DEF vars, history
<1>2. CASE \/ \E T \in Transactions : Begin(T) \/ BeginFails(T)
           \/ Start
  BY <1>2 DEF Begin, BeginFails, Start, history
<1>3. CASE Progress
  BY <1>3 DEF Progress, SyncNewLog, SyncEntries, WriteMarker, SyncMarker,
     FinishApply, TruncateLog, SyncReset, FinishReplay, AddLogEntry,
     ApplyEntry, ReplayEntry, ReplayMissing, SyncApplied, SyncReplayed,
     LoseProcess, history
<1>4. CASE Failure
  BY <1>4 DEF Failure, SyncNewLogFails, LogFails, MarkFails, SyncMarkerFails,
     StartUnread, ReplayUnread, Exit, Kill, Power, Abort, LoseProcess, history
<1>. QED  BY <1>1, <1>2, <1>3, <1>4 DEF Next

\* The inductive invariant holds in every reachable state until recovery goes
\* on from a log it has not read (wal.c:287, :325, :351), whatever the files,
\* transactions and number of faults, if the faults are safe ones.
THEOREM Invariance ==
  ASSUME SafeFaults
  PROVE  Spec => [](~unread => IInv)
<1>1. Init => (~unread => IInv)
  BY InitInv
<1>2. (~unread => IInv) /\ [Next]_vars => (~unread => IInv)'
  BY NextStep, StutterStep, UnreadStays
<1>. QED  BY <1>1, <1>2, PTL DEF Spec

\* Between commits the files hold all of the latest transaction or nothing of
\* it, whatever crashes and failures happened since, if each recovery could
\* read its log (commitTables, recover).
THEOREM Atomicity ==
  ASSUME SafeFaults
  PROVE  Spec => []AllOrNothing
<1>1. (~unread => IInv) => AllOrNothing
  BY DEF IInv, IdleInv, Quiet, Consistent, AllOrNothing
<1>. QED  BY <1>1, Invariance, PTL

\* A commit that was reported done is in the files, one that was reported
\* failed is not, also after later crashes, if each recovery could read its
\* log (commitTables' return value).
THEOREM Truthfulness ==
  ASSUME SafeFaults
  PROVE  Spec => []ReplyIsTrue
<1>1. (~unread => IInv) => ReplyIsTrue
  BY DEF IInv, IdleInv, Quiet, Consistent, ReplyIsTrue
<1>. QED  BY <1>1, Invariance, PTL

\* The changes of a transaction that was reported failed stay discarded, if
\* each recovery could read its log.
THEOREM Discarding ==
  ASSUME SafeFaults
  PROVE  Spec => []AbortedStaysDiscarded
<1>1. (~unread => IInv) => AbortedStaysDiscarded
  BY DEF IInv, IdleInv, Quiet, Consistent, AbortedStaysDiscarded
<1>. QED  BY <1>1, Invariance, PTL

\* Between commits the log is empty, and what may come back of it after a
\* power loss changes nothing, if each recovery could read its log (resetLog,
\* initManager).
THEOREM EmptyBetweenCommits ==
  ASSUME SafeFaults, LosesPower
  PROVE  Spec => []LogEmptyWhenIdle
<1>1. (~unread => IInv) => LogEmptyWhenIdle
  <2> SUFFICES ASSUME IInv, phase = "idle", NEW l \in logHeld, Committed(l)
               PROVE  Effect(fs, l.ops) = fs
    BY DEF IInv, IdleInv, LogEmptyWhenIdle
  <2>1. ~Committed(log)
    BY EmptyNotCommitted DEF IInv, IdleInv
  <2>2. fs = Effect(base, l.ops)
    BY <2>1 DEF IInv, HeldInv
  <2>3. WellFormed(l.ops, base) /\ base \in Files
    BY DEF IInv, HeldInv, SafeLog, Redoable, TypeOK
  <2>. QED  BY <2>2, <2>3, EffectIdempotent
<1>. QED  BY <1>1, Invariance, PTL

\* The log of a commit is emptied only when nothing of the commit can be lost
\* any more, if each recovery could read its log (commitTables and recover
\* call resetLog last).
THEOREM DurableReset ==
  ASSUME SafeFaults
  PROVE  Spec => ResetOnlyWhenDurable
<1>1. ASSUME ~unread => IInv, [Next]_vars, Committed(log), log' = EmptyLog,
             phase' # "down", ~unread
      PROVE  /\ \A f \in File : Durable(f)
             /\ Effect(fs, log.ops) = fs
  <2>1. IInv /\ log' # log
    BY <1>1, EmptyNotCommitted
  <2>2. phase \notin {"log", "mark"}
    BY <1>1, <2>1 DEF IInv, BusyInv, Committed
  <2>3. TruncateLog
    <3>1. ~Kill /\ ~Power
      BY <1>1 DEF Kill, Power, LoseProcess
    <3>2. \A T \in Transactions : ~Begin(T)
      BY <1>1, EmptyNotCommitted DEF Begin
    <3>. QED  BY <1>1, <2>1, <2>2, <3>1, <3>2
              DEF Next, Progress, Failure, vars, logVars, BeginFails,
         Start, StartUnread, SyncNewLog, SyncEntries, WriteMarker, SyncMarker,
         FinishApply, SyncReset, FinishReplay, AddLogEntry, SyncApplied,
         ApplyEntry, ReplayEntry, ReplayMissing, ReplayUnread, SyncReplayed,
         SyncNewLogFails, LogFails, MarkFails, SyncMarkerFails, Exit
  <2>4. /\ AllDurable /\ fs = Effect(base, log.ops)
        /\ WellFormed(log.ops, base) /\ base \in Files
    BY <1>1, <2>1, <2>3 DEF TruncateLog, IInv, ResetInv, Quiet, Redoable, TypeOK
  <2>. QED  BY <2>4, EffectIdempotent DEF AllDurable
<1>2. (~unread => IInv) /\ [Next]_vars =>
        [(Committed(log) /\ log' = EmptyLog /\ phase' # "down" /\ ~unread) =>
           /\ \A f \in File : Durable(f)
           /\ Effect(fs, log.ops) = fs]_vars
  BY <1>1
<1>. QED  BY <1>2, Invariance, PTL DEF Spec, ResetOnlyWhenDurable

-----------------------------------------------------------------------------
(***************************************************************************)
(* What holds also when recovery goes on from a log it has not read: the   *)
(* shape of the log, and write-ahead.                                      *)
(***************************************************************************)

LEMMA LogInit == Init => LogInv /\ HeldLog
<1>1. Init => IInv
  BY InitInv
<1>2. Init => LogInv
  BY <1>1 DEF Init, IInv, LogInv, LogShape, FilesThere
<1>3. Init => HeldLog
  BY EmptyNotCommitted DEF Init, HeldLog
<1>. QED  BY <1>2, <1>3

LEMMA LogBegin ==
  ASSUME LogInv, NEW T \in Transactions, Begin(T) \/ BeginFails(T)
  PROVE  LogInv'
<1> USE DEF LogInv
<1>1. /\ T \subseteq LogEntry /\ T # {} /\ WellFormed(T, fs) /\ phase = "idle"
      /\ txn' = T /\ base' = fs /\ faults' \in Nat /\ txns' \in Nat
      /\ UNCHANGED <<fs, held, named, done, unsynced, redo, unread>>
  <2>1. T \subseteq LogEntry
    BY TransactionsAssumption
  <2>2. faults' \in Nat /\ txns' \in Nat
    <3>1. txns' = txns + 1 /\ (faults' = faults \/ faults' = faults + 1)
      BY DEF Begin, BeginFails, Fault
    <3>2. txns \in Nat /\ faults \in Nat
      BY DEF TypeOK
    <3>. QED  BY ONLY <3>1, <3>2
  <2>. QED  BY <2>1, <2>2 DEF Begin, BeginFails, disk, proc
<1>2. WellFormed(txn, base)'
  BY <1>1 DEF WellFormed
<1>3. CASE Begin(T)
  <2>1. /\ phase' \in {"log", "newlog"} /\ log' = EmptyLog /\ logFile'
        /\ logHeld' \in {logHeld, {EmptyLog}}
        /\ logNamed' \in {logNamed, logNamed \union {TRUE}}
        /\ outcome' = "pending" /\ logFile' \in BOOLEAN
    BY <1>3 DEF Begin, logVars, TypeOK
  <2>2. TypeOK'
    BY <1>1, <2>1, EmptyNotCommitted DEF TypeOK, Phase
  <2>3. ReadableInv'
    BY <2>1, EmptyNotCommitted DEF ReadableInv
  <2>. QED  BY <1>1, <1>2, <2>1, <2>2, <2>3 DEF LogShape, FilesThere, EmptyLog
<1>4. CASE BeginFails(T)
  <2>1. /\ UNCHANGED <<log, logFile, logHeld, logNamed, phase>>
        /\ outcome' = "failed"
    BY <1>4 DEF BeginFails, logVars
  <2>2. TypeOK'
    BY <1>1, <2>1 DEF TypeOK
  <2>3. ReadableInv'
    BY <1>1, <2>1 DEF ReadableInv
  <2>4. LogShape'
    BY <1>1, <2>1 DEF LogShape
  <2>. QED  BY <1>1, <1>2, <2>1, <2>2, <2>3, <2>4 DEF FilesThere
<1>. QED  BY <1>3, <1>4

\* Writing the log, its failures, and emptying it change no file.
LEMMA LogWriting ==
  ASSUME LogInv, \/ SyncNewLog \/ SyncEntries \/ WriteMarker \/ SyncMarker
                 \/ TruncateLog \/ SyncReset
                 \/ \E e \in LogEntry : AddLogEntry(e)
  PROVE  LogInv'
<1> USE DEF LogInv
<1>1. /\ log \in LogImage /\ logHeld \subseteq LogImage /\ txn \subseteq LogEntry
      /\ UNCHANGED <<fs, held, named, redo, base, txn, unread, txns, faults,
                     logFile>>
  BY DEF SyncNewLog, SyncEntries, WriteMarker, SyncMarker, TruncateLog,
     SyncReset, AddLogEntry, disk, proc, history, TypeOK
<1>2. WellFormed(txn, base)'
  BY <1>1 DEF WellFormed
<1>3. CASE SyncNewLog
  BY <1>1, <1>2, <1>3
     DEF SyncNewLog, TypeOK, Phase, proc, ReadableInv, LogShape, FilesThere,
         EmptyLog
<1>4. CASE SyncEntries
  BY <1>1, <1>2, <1>4
     DEF SyncEntries, TypeOK, Phase, proc, ReadableInv, LogShape, FilesThere
<1>5. CASE WriteMarker
  <2>1. /\ log.marker = {} /\ log.bad = {} /\ log.ops = txn /\ logHeld = {log}
        /\ phase = "mark" /\ phase' = "sync" /\ logFile
        /\ UNCHANGED <<done, unsynced, logNamed, outcome>>
    BY <1>5 DEF WriteMarker, ReadableInv, LogShape, proc
  <2>2. /\ log' \in LogImage /\ log'.marker = txn /\ log'.ops = txn
        /\ log'.bad = {} /\ logHeld' = {log, log'}
    BY <1>1, <1>5, <2>1 DEF WriteMarker, LogImage
  <2>3. TypeOK'
    BY <1>1, <2>1, <2>2 DEF TypeOK, Phase
  <2>. QED  BY <1>1, <1>2, <2>1, <2>2, <2>3
              DEF ReadableInv, LogShape, FilesThere, Committed
<1>6. CASE SyncMarker
  <2>1. /\ phase = "sync" /\ phase' = "apply" /\ logHeld' = {log}
        /\ done' = {} /\ unsynced' = {} /\ UNCHANGED <<log, logNamed, outcome>>
    BY <1>6 DEF SyncMarker
  <2>2. TypeOK'
    BY <1>1, <2>1 DEF TypeOK, Phase
  <2>3. /\ log.marker = txn /\ log.bad = {} /\ log.ops = txn /\ logFile
        /\ fs = base /\ txn # {}
    BY <2>1 DEF LogShape, FilesThere
  <2>4. ReadableInv' /\ LogShape'
    BY <1>1, <2>1, <2>3 DEF ReadableInv, LogShape, Committed
  <2>5. txn \ {} = txn
    OBVIOUS
  <2>6. FilesThere'
    BY <1>1, <2>1, <2>3, <2>5 DEF FilesThere, WellFormed
  <2>. QED  BY <1>2, <2>2, <2>4, <2>6
<1>7. CASE TruncateLog
  BY <1>1, <1>2, <1>7, EmptyNotCommitted
     DEF TruncateLog, TypeOK, Phase, proc, ReadableInv, LogShape, FilesThere
<1>8. CASE SyncReset
  BY <1>1, <1>2, <1>8, EmptyNotCommitted
     DEF SyncReset, TypeOK, Phase, proc, ReadableInv, LogShape, FilesThere
<1>9. ASSUME NEW e \in LogEntry, AddLogEntry(e)
      PROVE  LogInv'
  <2>1. /\ log.marker = {} /\ log.bad = {} /\ log.ops \subseteq txn
        /\ phase = "log" /\ phase' = "log" /\ logFile /\ e \in txn
        /\ UNCHANGED <<done, unsynced, logNamed, outcome>>
    BY <1>9 DEF AddLogEntry, LogShape, proc
  <2>2. /\ log' \in LogImage
        /\ log'.marker = {} /\ log'.bad = {} /\ log'.ops \subseteq txn
    BY <1>1, <1>9, <2>1 DEF AddLogEntry, LogImage
  <2>3. \A l \in logHeld' : l \in logHeld \/ l.marker = {}
    BY <1>1, <1>9 DEF AddLogEntry, LogImage
  <2>4. logHeld' \subseteq LogImage
    BY <1>1, <1>9 DEF AddLogEntry, LogImage
  <2>5. TypeOK'
    BY <1>1, <2>1, <2>2, <2>4 DEF TypeOK
  <2>6. ReadableInv'
    BY <2>1, <2>2, <2>3 DEF ReadableInv, Committed
  <2>. QED  BY <1>1, <1>2, <2>1, <2>2, <2>5, <2>6 DEF LogShape, FilesThere
<1>. QED  BY <1>3, <1>4, <1>5, <1>6, <1>7, <1>8, <1>9

\* The log as an append that failed, or was cut short, leaves it.
LEMMA TornLog ==
  ASSUME LogInv, \/ UNCHANGED <<log, logHeld>>
                 \/ /\ phase = "log"
                    /\ \E e \in txn \ log.ops :
                         /\ log' = [log EXCEPT !.bad = {e}]
                         /\ logHeld' = logHeld \union {log'}
  PROVE  /\ log' \in LogImage /\ logHeld' \subseteq LogImage
         /\ \A l \in logHeld' \union {log'} : Committed(l) => l.bad = {}
<1>1. CASE UNCHANGED <<log, logHeld>>
  BY <1>1 DEF LogInv, TypeOK, ReadableInv
<1>2. ASSUME phase = "log", NEW e \in txn \ log.ops,
             log' = [log EXCEPT !.bad = {e}], logHeld' = logHeld \union {log'}
      PROVE  /\ log' \in LogImage /\ logHeld' \subseteq LogImage
             /\ \A l \in logHeld' \union {log'} : Committed(l) => l.bad = {}
  <2>1. /\ log \in LogImage /\ log.marker = {} /\ e \in LogEntry
        /\ logHeld \subseteq LogImage
        /\ \A l \in logHeld : Committed(l) => l.bad = {}
    BY <1>2 DEF LogInv, LogShape, TypeOK, ReadableInv
  <2>2. log' \in LogImage /\ log'.marker = {}
    BY <1>2, <2>1 DEF LogImage
  <2>. QED  BY <1>2, <2>1, <2>2 DEF Committed
<1>. QED  BY <1>1, <1>2

LEMMA LogAborts ==
  ASSUME LogInv, SyncNewLogFails \/ LogFails \/ MarkFails \/ SyncMarkerFails
  PROVE  LogInv'
<1> USE DEF LogInv
<1>1. /\ phase \in {"newlog", "log", "mark", "sync"}
      /\ phase' \in {"idle", "reset"} /\ outcome' = "failed" /\ faults' \in Nat
      /\ UNCHANGED <<fs, held, named, logFile, logNamed, done, unsynced, redo,
                     base, txn, unread, txns>>
  BY DEF SyncNewLogFails, LogFails, MarkFails, SyncMarkerFails, Abort, Fault,
     disk, logVars, proc, history, TypeOK
<1>2. \/ UNCHANGED <<log, logHeld>>
      \/ /\ phase = "log"
         /\ \E e \in txn \ log.ops :
              /\ log' = [log EXCEPT !.bad = {e}]
              /\ logHeld' = logHeld \union {log'}
  BY DEF SyncNewLogFails, LogFails, MarkFails, SyncMarkerFails, logVars
<1>3. /\ log' \in LogImage /\ logHeld' \subseteq LogImage
      /\ \A l \in logHeld' \union {log'} : Committed(l) => l.bad = {}
  BY <1>2, TornLog
<1>4. TypeOK' /\ WellFormed(txn, base)'
  BY <1>1, <1>3 DEF TypeOK, Phase, WellFormed
<1>5. ReadableInv'
  BY <1>1, <1>3 DEF ReadableInv
<1>. QED  BY <1>1, <1>4, <1>5 DEF LogShape, FilesThere

\* What performing an entry does to the files that are there.
LEMMA PerformThere ==
  ASSUME TypeOK, NEW e \in LogEntry, Perform(e),
         e.type = "write" => fs[e.file] # Absent
  PROVE  /\ \A f \in File : fs[f] # Absent /\ e # RemoveEntry(f) => fs'[f] # Absent
         /\ e.type # "remove" => fs'[e.file] # Absent
<1>1. e.file \in File /\ fs \in Files
  BY EntryShape DEF TypeOK
<1>2. CASE /\ e = CreateEntry(e.file)
           /\ fs' = [fs EXCEPT ![e.file] = [a \in Addr |-> Blank]]
  <2>1. [a \in Addr |-> Blank] # Absent
    BY AbsentAssumption DEF Content
  <2>. QED  BY <1>1, <1>2, <2>1 DEF Files
<1>3. CASE e = RemoveEntry(e.file) /\ fs' = [fs EXCEPT ![e.file] = Absent]
  BY <1>1, <1>3, EntryFields DEF Files
<1>4. CASE /\ e = WriteEntry(e.file, e.addr, e.payload) /\ e.payload \in Value
           /\ fs' = [fs EXCEPT ![e.file] =
                       [fs[e.file] EXCEPT ![e.addr] = e.payload]]
  <2>1. fs[e.file] \in Content
    BY <1>1, <1>4, EntryFields DEF Files
  <2>2. [fs[e.file] EXCEPT ![e.addr] = e.payload] \in Content
    BY <1>4, <2>1 DEF Content
  <2>3. [fs[e.file] EXCEPT ![e.addr] = e.payload] # Absent
    BY <2>2, AbsentAssumption
  <2>. QED  BY <1>1, <1>4, <2>3 DEF Files
<1>. QED  BY <1>2, <1>3, <1>4, PerformCases

LEMMA LogApply ==
  ASSUME LogInv, NEW e \in LogEntry, ApplyEntry(e)
  PROVE  LogInv'
<1> USE DEF LogInv
<1>1. /\ phase = "apply" /\ e \in txn \ done /\ Ready(e, txn, done)
      /\ unsynced \subseteq {e.file} /\ Perform(e) /\ done' = done \union {e}
      /\ unsynced' = (IF e.type = "remove" THEN unsynced ELSE {e.file})
      /\ UNCHANGED <<log, logFile, logHeld, logNamed, phase, redo, base, txn,
                     unread, outcome, txns, faults>>
  BY DEF ApplyEntry, logVars, history
<1>2. /\ e.file \in File /\ e.addr \in Addr
      /\ e.type = "write" => e.payload \in Value
                             /\ e = WriteEntry(e.file, e.addr, e.payload)
      /\ e.type = "create" => e = CreateEntry(e.file)
      /\ e.type = "remove" => e = RemoveEntry(e.file)
  BY EntryShape
<1>3. /\ \A f \in File, a \in Addr : Writes(txn \ done, f, a) =>
           fs[f] # Absent \/ CreateEntry(f) \in txn \ done
      /\ \A f \in unsynced : fs[f] # Absent /\ RemoveEntry(f) \notin txn
      /\ done \subseteq txn
  BY <1>1 DEF FilesThere
<1>4. e.type = "write" => fs[e.file] # Absent
  <2>1. ASSUME e.type = "write"
        PROVE  fs[e.file] # Absent
    <3>1. Writes(txn \ done, e.file, e.addr)
      BY <1>1, <1>2, <2>1 DEF Writes
    <3>2. CreateEntry(e.file) \notin txn \ done
      BY <1>1, <2>1 DEF Ready
    <3>. QED  BY <1>2, <1>3, <3>1, <3>2
  <2>. QED  BY <2>1
<1>5. TypeOK'
  <2>1. /\ fs' \in Files
        /\ held' \in [File -> [Addr -> SUBSET (Value \union {Blank})]]
        /\ named' \in [File -> SUBSET BOOLEAN]
    BY <1>1, <1>4, PerformType
  <2>2. unsynced' \subseteq File /\ done' \subseteq LogEntry
    BY <1>1, <1>2 DEF TypeOK
  <2>. QED  BY <1>1, <2>1, <2>2 DEF TypeOK
<1>6. ReadableInv' /\ WellFormed(txn, base)' /\ LogShape'
  BY <1>1 DEF ReadableInv, WellFormed, LogShape, Committed
<1>7. /\ \A f \in File : fs[f] # Absent /\ e # RemoveEntry(f) => fs'[f] # Absent
      /\ e.type # "remove" => fs'[e.file] # Absent
  BY <1>1, <1>4, PerformThere
<1>8. ASSUME NEW f \in File, NEW a \in Addr, Writes(txn \ done', f, a)
      PROVE  fs'[f] # Absent \/ CreateEntry(f) \in txn \ done'
  <2>1. Writes(txn \ done, f, a) /\ Writes(txn, f, a)
    BY <1>1, <1>8 DEF Writes
  <2>2. e # RemoveEntry(f)
    BY <1>1, <2>1 DEF WellFormed
  <2>3. CASE fs[f] # Absent
    BY <1>7, <2>2, <2>3
  <2>4. CASE CreateEntry(f) \in txn \ done /\ e # CreateEntry(f)
    BY <1>1, <2>4
  <2>5. CASE e = CreateEntry(f)
    BY <1>7, <2>5, EntryFields
  <2>. QED  BY <1>3, <2>1, <2>3, <2>4, <2>5
<1>9. ASSUME NEW f \in unsynced'
      PROVE  fs'[f] # Absent /\ RemoveEntry(f) \notin txn
  <2>1. CASE e.type = "remove"
    <3>1. f = e.file /\ RemoveEntry(f) \in txn /\ f \in unsynced
      BY <1>1, <1>2, <1>9, <2>1
    <3>. QED  BY <1>3, <3>1
  <2>2. CASE e.type # "remove"
    <3>1. f = e.file /\ fs'[f] # Absent
      BY <1>1, <1>7, <1>9, <2>2
    <3>2. CreateEntry(f) \in txn \/ Writes(txn, f, e.addr)
      BY <1>1, <1>2, <2>2, <3>1, EntryShape DEF Writes
    <3>. QED  BY <1>2, <3>1, <3>2 DEF WellFormed
  <2>. QED  BY <2>1, <2>2
<1>10. FilesThere'
  BY <1>1, <1>3, <1>8, <1>9 DEF FilesThere
<1>. QED  BY <1>5, <1>6, <1>10

LEMMA LogReplay ==
  ASSUME LogInv, NEW e \in LogEntry, NEW x \in LogEntry, phase = "replay",
         Replay(x), done' = done \union {e}, unread' \in BOOLEAN,
         faults' \in Nat,
         UNCHANGED <<logVars, phase, base, txn, outcome, txns>>
  PROVE  LogInv'
<1> USE DEF LogInv
<1>1. /\ Perform(x)
      /\ redo' = [entry |-> {x},
                  changedFiles |-> redo.changedFiles \/ ChangesFiles({x})]
      /\ unsynced' = IF x.type = "remove" THEN {} ELSE {x.file}
      /\ UNCHANGED <<log, logFile, logHeld, logNamed, phase, base, txn, outcome,
                     txns>>
  BY DEF Replay, logVars
<1>2. x.type = "write" => fs[x.file] # Absent
  BY DEF Replay, Missing
<1>3. TypeOK'
  <2>1. /\ fs' \in Files
        /\ held' \in [File -> [Addr -> SUBSET (Value \union {Blank})]]
        /\ named' \in [File -> SUBSET BOOLEAN]
    BY <1>1, <1>2, PerformType
  <2>2. unsynced' \subseteq File /\ done' \subseteq LogEntry
        /\ redo' \in Redo
    BY <1>1, EntryShape, RedoType DEF TypeOK
  <2>. QED  BY <1>1, <2>1, <2>2 DEF TypeOK
<1>4. ReadableInv' /\ WellFormed(txn, base)' /\ LogShape'
  BY <1>1 DEF ReadableInv, WellFormed, LogShape, Committed
<1>5. \A f \in unsynced' : fs'[f] # Absent
  BY <1>1, <1>2, PerformThere
<1>6. FilesThere'
  BY <1>1, <1>5 DEF FilesThere
<1>. QED  BY <1>3, <1>4, <1>6

\* The entry left in manager.entry is one of the log's, or one before it.
LEMMA LeftoverType ==
  ASSUME TypeOK, NEW e \in LogEntry
  PROVE  Leftover(e) \subseteq LogEntry
BY DEF TypeOK, LogImage, Redo, Leftover

LEMMA LogSyncing ==
  ASSUME LogInv, \/ FinishApply \/ FinishReplay
                 \/ \E f \in File : SyncApplied(f) \/ SyncReplayed(f)
  PROVE  LogInv'
<1> USE DEF LogInv
<1>1. /\ phase \in {"apply", "replay"} /\ phase' \in {phase, "reset"}
      /\ UNCHANGED <<fs, log, logFile, logHeld, logNamed, done, redo, base,
                     txn, unread, outcome, txns, faults>>
      /\ unsynced' \subseteq unsynced
  BY DEF FinishApply, FinishReplay, SyncApplied, SyncReplayed, SyncFile,
     logVars, proc, history
<1>2. /\ held' \in [File -> [Addr -> SUBSET (Value \union {Blank})]]
      /\ named' \in [File -> SUBSET BOOLEAN]
  <2>1. ASSUME NEW f \in File, SyncApplied(f) \/ SyncReplayed(f)
        PROVE  /\ held' \in [File -> [Addr -> SUBSET (Value \union {Blank})]]
               /\ named' = named
    <3>1. SyncFile(f) /\ fs[f] # Absent /\ named' = named
      BY <2>1 DEF SyncApplied, SyncReplayed, FilesThere
    <3>. QED  BY <3>1, SyncFileType
  <2>2. CASE FinishApply \/ FinishReplay
    BY <2>2, SyncDirectoryType DEF FinishApply, FinishReplay, TypeOK
  <2>. QED  BY <2>1, <2>2 DEF TypeOK
<1>3. TypeOK'
  BY <1>1, <1>2 DEF TypeOK, Phase
<1>4. ReadableInv' /\ WellFormed(txn, base)' /\ LogShape'
  BY <1>1 DEF ReadableInv, WellFormed, LogShape, Committed
<1>5. FilesThere'
  BY <1>1 DEF FilesThere
<1>. QED  BY <1>3, <1>4, <1>5

LEMMA LogStart ==
  ASSUME LogInv, Start \/ StartUnread
  PROVE  LogInv'
<1> USE DEF LogInv
<1>1. /\ phase = "down" /\ phase' \in {"idle", "replay", "reset"}
      /\ done' = {} /\ unsynced' = {} /\ redo' = NothingRead
      /\ unread' \in BOOLEAN /\ faults' \in Nat
      /\ phase' # "idle" => logFile
      /\ phase' = "replay" => Committed(log)
      /\ UNCHANGED <<fs, held, named, log, logFile, logHeld, logNamed, base,
                     txn, outcome, txns>>
  BY DEF Start, StartUnread, Fault, disk, logVars, history, TypeOK
<1>2. TypeOK'
  BY <1>1, NothingReadType DEF TypeOK, Phase
<1>3. ReadableInv' /\ WellFormed(txn, base)' /\ LogShape'
  BY <1>1 DEF ReadableInv, WellFormed, LogShape, Committed
<1>4. FilesThere'
  BY <1>1 DEF FilesThere
<1>. QED  BY <1>2, <1>3, <1>4

\* The process is gone; the files and the log are what they are.
LEMMA LogLoses ==
  ASSUME LogInv, LoseProcess, faults' \in Nat, fs' \in Files,
         held' \in [File -> [Addr -> SUBSET (Value \union {Blank})]],
         named' \in [File -> SUBSET BOOLEAN],
         log' \in LogImage, logHeld' \subseteq LogImage,
         logFile' \in BOOLEAN, logNamed' \subseteq BOOLEAN,
         \A l \in logHeld' \union {log'} : Committed(l) => l.bad = {},
         ~logFile' => log' = EmptyLog
  PROVE  LogInv'
<1>1. /\ phase' = "down"
      /\ outcome' = (IF outcome = "pending" THEN "unknown" ELSE outcome)
      /\ UNCHANGED <<done, unsynced, redo, base, txn, unread, txns>>
  BY DEF LoseProcess, proc, history
<1>2. TypeOK' /\ WellFormed(txn, base)'
  BY <1>1 DEF LogInv, TypeOK, Phase, WellFormed
<1>. QED  BY <1>1, <1>2 DEF LogInv, ReadableInv, LogShape, FilesThere

LEMMA LogEnds ==
  ASSUME LogInv, Exit \/ Kill \/ Power
                   \/ \E e \in LogEntry :
                        /\ ReplayMissing(e) \/ ReplayUnread(e)
                        /\ LoseProcess /\ UNCHANGED <<disk, logVars>>
  PROVE  LogInv'
<1> USE DEF LogInv
<1>1. LoseProcess /\ faults' \in Nat
  BY DEF Exit, Kill, Power, ReplayMissing, ReplayUnread, Fault, TypeOK
<1>2. CASE UNCHANGED <<disk, logVars>>
  BY <1>1, <1>2, LogLoses DEF disk, logVars, TypeOK, ReadableInv, LogShape
<1>3. CASE Kill
  <2>1. \/ UNCHANGED <<log, logHeld>>
        \/ /\ phase = "log"
           /\ \E e \in txn \ log.ops :
                /\ log' = [log EXCEPT !.bad = {e}]
                /\ logHeld' = logHeld \union {log'}
    BY <1>3 DEF Kill
  <2>2. /\ log' \in LogImage /\ logHeld' \subseteq LogImage
        /\ \A l \in logHeld' \union {log'} : Committed(l) => l.bad = {}
    BY <2>1, TornLog
  <2>3. UNCHANGED <<fs, held, named, logFile, logNamed>>
    BY <1>3 DEF Kill, disk
  <2>4. ~logFile' => log' = EmptyLog
    BY <2>1, <2>3 DEF LogShape
  <2>. QED  BY <1>1, <2>2, <2>3, <2>4, LogLoses DEF TypeOK
<1>4. CASE Power
  <2>1. PICK n \in [File -> BOOLEAN], c \in [File -> Content] :
          /\ fs' = [f \in File |-> IF n[f] THEN c[f] ELSE Absent]
          /\ held' = Settle(fs')
          /\ named' = [f \in File |-> {n[f]}]
    BY <1>4 DEF Power
  <2>2. fs' \in Files
    BY <2>1 DEF Files
  <2>3. /\ held' \in [File -> [Addr -> SUBSET (Value \union {Blank})]]
        /\ named' \in [File -> SUBSET BOOLEAN]
    BY <2>1, <2>2, SettleType
  <2>4. PICK l \in logHeld, m \in logNamed :
          /\ log' = IF m THEN l ELSE EmptyLog
          /\ logHeld' = {log'} /\ logFile' = m /\ logNamed' = {m}
    BY <1>4 DEF Power
  <2>5. /\ l \in LogImage /\ m \in BOOLEAN /\ log' \in {l, EmptyLog}
        /\ Committed(l) => l.bad = {}
    BY <2>4 DEF TypeOK, ReadableInv
  <2>6. /\ log' \in LogImage /\ logHeld' \subseteq LogImage
        /\ logFile' \in BOOLEAN /\ logNamed' \subseteq BOOLEAN
        /\ ~logFile' => log' = EmptyLog
    BY <2>4, <2>5, EmptyNotCommitted
  <2>7. \A k \in logHeld' \union {log'} : Committed(k) => k.bad = {}
    BY <2>4, <2>5, EmptyNotCommitted
  <2>. QED  BY <1>1, <2>2, <2>3, <2>6, <2>7, LogLoses
<1>. QED  BY <1>2, <1>3, <1>4 DEF Exit

LEMMA LogStep ==
  ASSUME LogInv, [Next]_vars
  PROVE  LogInv'
<1>1. CASE UNCHANGED vars
  <2>1. UNCHANGED <<fs, held, named, log, logFile, logHeld, logNamed, phase,
                    done, unsynced, redo, base, txn, unread, outcome, txns,
                    faults>>
    BY <1>1 DEF vars, disk, logVars, proc, history
  <2>2. TypeOK' /\ WellFormed(txn, base)'
    BY <2>1 DEF LogInv, TypeOK, WellFormed
  <2>. QED  BY <2>1, <2>2 DEF LogInv, ReadableInv, LogShape, FilesThere,
                              Committed
<1>2. ASSUME NEW T \in Transactions, Begin(T) \/ BeginFails(T) PROVE LogInv'
  BY <1>2, LogBegin
<1>3. CASE Start
  BY <1>3, LogStart
<1>4. ASSUME NEW e \in LogEntry, ReplayEntry(e) PROVE LogInv'
  <2>1. unread' \in BOOLEAN /\ faults' \in Nat
    BY <1>4 DEF ReplayEntry, history, LogInv, TypeOK
  <2>. QED  BY <1>4, <2>1, LogReplay DEF ReplayEntry, NextEntry, history
<1>5. ASSUME NEW e \in LogEntry, ReplayUnread(e) PROVE LogInv'
  <2>1. PICK x \in Leftover(e) :
          \/ /\ Replay(x) /\ done' = done \union {e} /\ unread' = TRUE
             /\ UNCHANGED <<logVars, phase, base, txn, outcome, txns>>
          \/ LoseProcess /\ UNCHANGED <<disk, logVars>>
    BY <1>5 DEF ReplayUnread
  <2>2. x \in LogEntry /\ faults' \in Nat /\ phase = "replay"
    BY <1>5, LeftoverType DEF ReplayUnread, NextEntry, Fault, LogInv, TypeOK
  <2>3. CASE LoseProcess /\ UNCHANGED <<disk, logVars>>
    BY <1>5, <2>3, LogEnds
  <2>. QED  BY <2>1, <2>2, <2>3, LogReplay
<1>6. ASSUME NEW e \in LogEntry, ReplayMissing(e) PROVE LogInv'
  BY <1>6, LogEnds DEF ReplayMissing
<1>7. CASE Progress
  BY <1>4, <1>6, <1>7, LogWriting, LogApply, LogSyncing DEF Progress
<1>8. CASE Failure
  BY <1>5, <1>8, LogAborts, LogStart, LogEnds DEF Failure
<1>. QED  BY <1>1, <1>2, <1>3, <1>7, <1>8 DEF Next

\* With a power loss among safe faults, nothing else takes the log away.
LEMMA HeldLogStep ==
  ASSUME SafeFaults, LogInv, HeldLog, [Next]_vars
  PROVE  HeldLog'
<1> SUFFICES ASSUME LosesPower PROVE HeldLog'
  BY DEF HeldLog
<1> USE DEF HeldLog
<1>1. ~Kill /\ ~SyncNewLogFails /\ ~SyncMarkerFails
  BY DEF SafeFaults, LosesPower, Kill, SyncNewLogFails, SyncMarkerFails, Fault
<1>2. CASE UNCHANGED vars
  BY <1>2 DEF vars, logVars
<1>3. ASSUME NEW T \in Transactions, Begin(T) \/ BeginFails(T) PROVE HeldLog'
  BY <1>3 DEF Begin, BeginFails, logVars
<1>4. CASE Start
  BY <1>4 DEF Start, logVars
<1>5. CASE Progress
  <2>1. CASE SyncNewLog \/ SyncEntries \/ WriteMarker \/ SyncMarker
    BY <2>1 DEF SyncNewLog, SyncEntries, WriteMarker, SyncMarker, LogInv,
       LogShape
  <2>2. CASE TruncateLog \/ SyncReset
    BY <2>2, EmptyNotCommitted DEF TruncateLog, SyncReset, LogInv, LogShape
  <2>3. CASE \/ FinishApply \/ FinishReplay
             \/ \E f \in File : SyncApplied(f) \/ SyncReplayed(f)
    BY <2>3 DEF FinishApply, FinishReplay, SyncApplied, SyncReplayed, logVars
  <2>4. ASSUME NEW e \in LogEntry, AddLogEntry(e)
        PROVE  HeldLog'
    BY <2>4 DEF AddLogEntry, LogInv, LogShape
  <2>5. ASSUME NEW e \in LogEntry,
               ApplyEntry(e) \/ ReplayEntry(e) \/ ReplayMissing(e)
        PROVE  HeldLog'
    BY <2>5 DEF ApplyEntry, ReplayEntry, ReplayMissing, NextEntry, LoseProcess,
       logVars
  <2>. QED  BY <1>5, <2>1, <2>2, <2>3, <2>4, <2>5 DEF Progress
<1>6. CASE Failure
  <2>1. CASE LogFails \/ MarkFails
    <3>1. /\ phase \in {"log", "mark"} /\ logFile /\ log.marker = {}
          /\ log \in LogImage /\ txn \subseteq LogEntry
          /\ phase' = "reset" /\ logFile' = logFile /\ logNamed' = logNamed
      BY <2>1 DEF LogFails, MarkFails, Abort, LogInv, LogShape, TypeOK
    <3>2. log'.marker = {}
      BY <2>1, <3>1 DEF LogFails, MarkFails, LogImage
    <3>. QED  BY <3>1, <3>2 DEF Committed
  <2>2. CASE StartUnread
    BY <2>2 DEF StartUnread, logVars
  <2>3. ASSUME NEW e \in LogEntry, ReplayUnread(e)
        PROVE  HeldLog'
    BY <2>3 DEF ReplayUnread, NextEntry, LoseProcess, logVars
  <2>4. CASE Exit
    BY <2>4, EmptyNotCommitted DEF Exit, LoseProcess, logVars, LogInv, LogShape
  <2>5. CASE Power
    <3>1. PICK l \in logHeld, m \in logNamed :
            logHeld' = {log'} /\ logFile' = m /\ logNamed' = {m}
      BY <2>5 DEF Power
    <3>2. m \in BOOLEAN
      BY DEF LogInv, TypeOK
    <3>3. logFile' => logNamed' = {TRUE}
      BY ONLY <3>1, <3>2
    <3>. QED  BY <3>1, <3>3
  <2>. QED  BY <1>1, <1>6, <2>1, <2>2, <2>3, <2>4, <2>5 DEF Failure
<1>. QED  BY <1>2, <1>3, <1>4, <1>5, <1>6 DEF Next

\* The shape of the log in every phase, for every set of faults, failing
\* reads of recovery included (wal.c, commitTables).
THEOREM LogInvariance == Spec => []LogInv
<1>1. Init => LogInv
  BY LogInit
<1>2. LogInv /\ [Next]_vars => LogInv'
  BY LogStep
<1>. QED  BY <1>1, <1>2, PTL DEF Spec

\* The variables of the commit protocol keep their types, whatever the faults
\* (wal.c, tableIO.c).
THEOREM TypeCorrect == Spec => []TypeOK
<1>1. LogInv => TypeOK
  BY DEF LogInv
<1>. QED  BY <1>1, LogInvariance, PTL

\* No log a crash can leave has a valid marker over a damaged entry, whatever
\* the faults, so recovery never refuses a log (checkCommitted,
\* markLogCommitted).
THEOREM Readability == Spec => []CommittedLogIsReadable
<1>1. LogInv => CommittedLogIsReadable
  BY DEF LogInv, ReadableInv, CommittedLogIsReadable
<1>. QED  BY <1>1, LogInvariance, PTL

\* A log holds the entries of one transaction, whatever the faults: none is
\* appended after a leftover one (initManager, commitTables).
THEOREM SeparateLogs == Spec => []OneTransactionPerLog
<1>1. LogInv => OneTransactionPerLog
  BY DEF LogInv, LogShape, OneTransactionPerLog
<1>. QED  BY <1>1, LogInvariance, PTL

\* A running process changes a file only when the log that describes the
\* change is durable, also after a recovery that did not read its log
\* (commitTables, markLogCommitted, recover).
THEOREM WriteAheadLogging ==
  ASSUME SafeFaults, LosesPower
  PROVE  Spec => WriteAhead
<1>1. ASSUME LogInv, HeldLog, [Next]_vars, fs' # fs, phase' # "down"
      PROVE  /\ TRUE \in logNamed /\ FALSE \notin logNamed
             /\ \A l \in logHeld : Committed(l) /\ l.ops = log.ops
  <2>1. phase \in {"apply", "replay"}
    <3>1. \/ \E e \in LogEntry :
               ApplyEntry(e) \/ ReplayEntry(e) \/ ReplayUnread(e)
          \/ Power
      BY <1>1 DEF Next, Progress, Failure, vars, disk, Begin, BeginFails,
         Start, StartUnread, SyncNewLog, SyncEntries, WriteMarker, SyncMarker,
         FinishApply, TruncateLog, SyncReset, FinishReplay, AddLogEntry,
         SyncApplied, SyncReplayed, ReplayMissing, SyncNewLogFails, LogFails,
         MarkFails, SyncMarkerFails, Abort, Exit, Kill
    <3>2. ~Power
      BY <1>1 DEF Power, LoseProcess
    <3>. QED  BY <3>1, <3>2 DEF ApplyEntry, ReplayEntry, ReplayUnread, NextEntry
  <2>2. logHeld = {log} /\ logNamed = {TRUE} /\ Committed(log)
    BY <1>1, <2>1 DEF LogInv, LogShape, HeldLog
  <2>. QED  BY <2>2
<1>2. LogInv /\ HeldLog /\ [Next]_vars =>
        [(fs' # fs /\ phase' # "down") =>
           /\ TRUE \in logNamed /\ FALSE \notin logNamed
           /\ \A l \in logHeld : Committed(l) /\ l.ops = log.ops]_vars
  BY <1>1
<1>3. Init => HeldLog
  BY LogInit
<1>4. LogInv /\ HeldLog /\ [Next]_vars => HeldLog'
  BY HeldLogStep
<1>. QED  BY <1>2, <1>3, <1>4, LogInvariance, PTL DEF Spec, WriteAhead

-----------------------------------------------------------------------------
(***************************************************************************)
(* The protocol implements the atomic store.                               *)
(***************************************************************************)

\* The store's copies of the operators on entries are these operators.
LEMMA StoreOperators ==
  ASSUME NEW T, NEW b
  PROVE  /\ Store!WellFormed(T, b) <=> WellFormed(T, b)
         /\ Store!Effect(b, T) = Effect(b, T)
         /\ Store!Files = Files
<1>1. Store!WellFormed(T, b) <=> WellFormed(T, b)
  BY DEF Store!WellFormed, WellFormed, Store!LogEntry, LogEntry,
     Store!Writes, Writes, Store!CreateEntry, CreateEntry,
     Store!RemoveEntry, RemoveEntry, Store!WriteEntry, WriteEntry
<1>2. Store!Effect(b, T) = Effect(b, T)
  BY DEF Store!Effect, Effect, Store!Written, Written,
     Store!Writes, Writes, Store!CreateEntry, CreateEntry,
     Store!RemoveEntry, RemoveEntry, Store!WriteEntry, WriteEntry
<1>3. Store!Files = Files
  BY DEF Store!Files, Files, Store!Content, Content
<1>. QED  BY <1>1, <1>2, <1>3

\* The abstract state, by phase.
LEMMA StoreState ==
  ASSUME IInv
  PROVE  /\ phase \in {"newlog", "log", "mark", "sync"} =>
              StoreDb = fs /\ fs = base /\ StoreStatus = "busy"
         /\ phase \in {"down", "idle", "replay"} => StoreStatus = "idle"
         /\ phase = "idle" => StoreDb = fs
         /\ phase \in {"apply", "reset", "truncated"} =>
              StoreStatus = IF outcome = "pending" THEN "decided" ELSE "idle"
         /\ phase \in {"apply", "replay"} => StoreDb = Effect(base, log.ops)
         /\ phase \in {"reset", "truncated"} => StoreDb = fs
         /\ ~Committed(log) => StoreDb = fs
<1>1. phase \in {"newlog", "log", "mark", "sync"} =>
        StoreDb = fs /\ fs = base /\ StoreStatus = "busy"
  BY DEF IInv, BusyInv, StoreDb, StoreStatus, Committed, EmptyLog
<1>2. phase = "idle" => StoreDb = fs
  BY EmptyNotCommitted DEF IInv, IdleInv, StoreDb
<1>3. phase \in {"apply", "replay"} => StoreDb = Effect(base, log.ops)
  BY DEF IInv, RedoInv, StoreDb
<1>4. phase \in {"reset", "truncated"} => StoreDb = fs
  BY DEF IInv, ResetInv, StoreDb
<1>. QED  BY <1>1, <1>2, <1>3, <1>4 DEF StoreDb, StoreStatus

LEMMA StoreStutter ==
  ASSUME StoreDb' = StoreDb, txn' = txn, StoreStatus' = StoreStatus,
         outcome' = outcome
  PROVE  UNCHANGED Store!avars
BY DEF Store!avars

LEMMA StoreBegin ==
  ASSUME IInv, IInv', NEW T \in Transactions, Begin(T)
  PROVE  Store!ABegin(T)
<1>1. /\ phase = "idle" /\ phase' \in {"log", "newlog"} /\ WellFormed(T, fs)
      /\ txn' = T /\ outcome' = "pending" /\ fs' = fs
  BY DEF Begin, disk
<1>2. StoreStatus = "idle" /\ StoreDb = fs
  BY <1>1, StoreState
<1>3. StoreStatus' = "busy" /\ StoreDb' = fs'
  <2>1. phase' \in {"newlog", "log", "mark", "sync"} =>
          StoreDb' = fs' /\ StoreStatus' = "busy"
    BY DEF IInv, BusyInv, StoreDb, StoreStatus, Committed, EmptyLog
  <2>. QED  BY <1>1, <2>1
<1>. QED  BY <1>1, <1>2, <1>3, StoreOperators DEF Store!ABegin

LEMMA StoreRefuse ==
  ASSUME IInv, NEW T \in Transactions, BeginFails(T)
  PROVE  Store!ARefuse(T)
<1>1. /\ phase = "idle" /\ phase' = "idle" /\ txn' = T
      /\ outcome' = "failed" /\ fs' = fs /\ log' = log
  BY DEF BeginFails, disk, logVars
<1>2. ~Committed(log)
  BY <1>1, EmptyNotCommitted DEF IInv, IdleInv
<1>3. StoreStatus = "idle" /\ StoreDb = fs
  BY <1>1, StoreState
<1>4. StoreStatus' = "idle" /\ StoreDb' = fs'
  BY <1>1, <1>2 DEF StoreStatus, StoreDb, Committed
<1>. QED  BY <1>1, <1>3, <1>4 DEF Store!ARefuse

\* While the log is being written nothing is decided.
LEMMA StoreBusy ==
  ASSUME IInv, SyncNewLog \/ SyncEntries \/ WriteMarker
                 \/ \E e \in LogEntry : AddLogEntry(e)
  PROVE  UNCHANGED Store!avars
<1>1. /\ phase \in {"newlog", "log", "mark"} /\ phase' \in {"log", "mark", "sync"}
      /\ phase' # "sync" => log'.marker = {}
      /\ UNCHANGED <<fs, base, txn, outcome>>
  <2>1. CASE SyncNewLog
    BY <2>1 DEF SyncNewLog, disk, history, IInv, BusyInv, EmptyLog
  <2>2. CASE SyncEntries
    BY <2>2 DEF SyncEntries, disk, history, IInv, BusyInv
  <2>3. CASE WriteMarker
    BY <2>3 DEF WriteMarker, disk, history
  <2>4. ASSUME NEW e \in LogEntry, AddLogEntry(e)
        PROVE  /\ phase = "log" /\ phase' = "log" /\ log'.marker = {}
               /\ UNCHANGED <<fs, base, txn, outcome>>
    <3>1. log.marker = {} /\ log \in LogImage
      BY <2>4 DEF AddLogEntry, IInv, BusyInv, TypeOK
    <3>. QED  BY <2>4, <3>1 DEF AddLogEntry, disk, history, LogImage
  <2>. QED  BY <2>1, <2>2, <2>3, <2>4
<1>2. StoreDb = fs /\ StoreStatus = "busy"
  BY <1>1, StoreState
<1>3. StoreDb' = fs' /\ StoreStatus' = "busy"
  BY <1>1 DEF StoreDb, StoreStatus, Committed
<1>. QED  BY <1>1, <1>2, <1>3, StoreStutter

LEMMA StoreDecide ==
  ASSUME IInv, SyncMarker
  PROVE  Store!ADecide
<1>1. /\ phase = "sync" /\ phase' = "apply"
      /\ UNCHANGED <<fs, log, base, txn, outcome>>
  BY DEF SyncMarker, disk, history
<1>2. /\ outcome = "pending" /\ log.ops = txn /\ Committed(log)
  BY <1>1 DEF IInv, BusyInv, Committed
<1>3. StoreDb = fs /\ fs = base /\ StoreStatus = "busy"
  BY <1>1, StoreState
<1>4. StoreDb' = Effect(base, txn) /\ StoreStatus' = "decided"
  BY <1>1, <1>2 DEF StoreDb, StoreStatus, Committed
<1>. QED  BY <1>1, <1>3, <1>4, StoreOperators DEF Store!ADecide

LEMMA StoreAbort ==
  ASSUME IInv, SyncNewLogFails \/ LogFails \/ MarkFails
  PROVE  Store!AAbort
<1>1. /\ phase \in {"newlog", "log", "mark"} /\ phase' \in {"idle", "reset"}
      /\ outcome' = "failed" /\ log'.marker = {}
      /\ UNCHANGED <<fs, base, txn>>
  BY DEF SyncNewLogFails, LogFails, MarkFails, Abort, disk, logVars, history,
     IInv, BusyInv, TypeOK, LogImage, EmptyLog
<1>2. StoreDb = fs /\ StoreStatus = "busy"
  BY <1>1, StoreState
<1>3. StoreDb' = fs' /\ StoreStatus' = "idle"
  BY <1>1 DEF StoreDb, StoreStatus, Committed
<1>. QED  BY <1>1, <1>2, <1>3 DEF Store!AAbort

\* Applying, replaying and emptying the log change nothing a client sees.
LEMMA StoreRedo ==
  ASSUME IInv, \/ \E e \in LogEntry : ApplyEntry(e) \/ ReplayEntry(e)
               \/ \E f \in File : SyncApplied(f) \/ SyncReplayed(f)
               \/ FinishApply \/ FinishReplay
  PROVE  UNCHANGED Store!avars
<1>1. /\ phase \in {"apply", "replay"} /\ phase' \in {phase, "reset"}
      /\ UNCHANGED <<log, base, txn, outcome>>
  BY DEF ApplyEntry, ReplayEntry, NextEntry, SyncApplied, SyncReplayed,
     FinishApply, FinishReplay, logVars, history
<1>2. /\ Committed(log)
      /\ phase = "apply" => outcome = "pending"
      /\ phase = "replay" => outcome # "pending"
  BY <1>1 DEF IInv, RedoInv
<1>3. StoreDb' = StoreDb /\ StoreStatus' = StoreStatus
  BY <1>1, <1>2 DEF StoreDb, StoreStatus, Committed
<1>. QED  BY <1>1, <1>3, StoreStutter

LEMMA StoreTruncate ==
  ASSUME IInv, TruncateLog
  PROVE  UNCHANGED Store!avars
<1>1. /\ phase = "reset" /\ phase' = "truncated" /\ log' = EmptyLog
      /\ UNCHANGED <<fs, base, txn, outcome>>
  BY DEF TruncateLog, disk, history
<1>2. StoreDb = fs
  BY <1>1, StoreState
<1>3. StoreDb' = fs'
  BY <1>1, EmptyNotCommitted DEF StoreDb, Committed
<1>4. StoreStatus' = StoreStatus
  BY <1>1 DEF StoreStatus
<1>. QED  BY <1>1, <1>2, <1>3, <1>4, StoreStutter

LEMMA StoreReply ==
  ASSUME IInv, SyncReset
  PROVE  Store!AReply \/ UNCHANGED Store!avars
<1>1. /\ phase = "truncated" /\ phase' = "idle"
      /\ outcome' = (IF outcome = "pending" THEN "ok" ELSE outcome)
      /\ UNCHANGED <<fs, log, base, txn>>
  BY DEF SyncReset, disk, history
<1>2. StoreDb' = StoreDb /\ StoreStatus' = "idle"
  BY <1>1 DEF StoreDb, StoreStatus, Committed
<1>3. CASE outcome = "pending"
  BY <1>1, <1>2, <1>3 DEF Store!AReply, StoreStatus
<1>4. CASE outcome # "pending"
  BY <1>1, <1>2, <1>4, StoreStutter DEF StoreStatus
<1>. QED  BY <1>3, <1>4

LEMMA StoreStart ==
  ASSUME IInv, Start \/ StartUnread
  PROVE  UNCHANGED Store!avars
<1>1. /\ phase = "down" /\ phase' \in {"idle", "replay", "reset"}
      /\ UNCHANGED <<fs, log, base, txn, outcome>>
  BY DEF Start, StartUnread, disk, logVars, history
<1>2. outcome # "pending"
  BY <1>1 DEF IInv, DownInv
<1>3. StoreDb' = StoreDb /\ StoreStatus' = StoreStatus
  BY <1>1, <1>2 DEF StoreDb, StoreStatus, Committed
<1>. QED  BY <1>1, <1>3, StoreStutter

\* The end of the process: what a crash decides.
LEMMA StoreCrash ==
  ASSUME txn' = txn, StoreStatus' = "idle",
         outcome' = IF outcome = "pending" THEN "unknown" ELSE outcome,
         outcome = "pending" => StoreStatus \in {"busy", "decided"},
         outcome # "pending" => StoreStatus = "idle",
         \/ StoreDb' = StoreDb
         \/ StoreStatus = "busy" /\ StoreDb' = Effect(StoreDb, txn)
  PROVE  Store!ACrash \/ UNCHANGED Store!avars
<1>1. CASE outcome = "pending"
  BY <1>1, StoreOperators DEF Store!ACrash
<1>2. CASE outcome # "pending"
  BY <1>2, StoreStutter
<1>. QED  BY <1>1, <1>2

\* A client waits for a reply exactly while its commit is busy or decided.
LEMMA StorePending ==
  ASSUME IInv
  PROVE  /\ outcome = "pending" => StoreStatus \in {"busy", "decided"}
         /\ outcome # "pending" => StoreStatus = "idle"
<1>1. phase \in {"newlog", "log", "mark", "sync", "apply"} => outcome = "pending"
  BY DEF IInv, BusyInv, RedoInv
<1>2. phase \in {"down", "idle", "replay"} => outcome # "pending"
  BY DEF IInv, DownInv, IdleInv, RedoInv
<1>3. phase \in Phase
  BY DEF IInv, TypeOK
<1>. QED  BY <1>1, <1>2, <1>3 DEF StoreStatus, Phase

LEMMA StoreExit ==
  ASSUME IInv, phase \in {"apply", "replay", "reset", "truncated"},
         LoseProcess, UNCHANGED <<disk, logVars>>
  PROVE  Store!ACrash \/ UNCHANGED Store!avars
<1>1. /\ phase \in {"apply", "replay", "reset", "truncated"} /\ phase' = "down"
      /\ outcome' = (IF outcome = "pending" THEN "unknown" ELSE outcome)
      /\ UNCHANGED <<fs, log, base, txn>>
  BY DEF LoseProcess, disk, logVars, history
<1>2. StoreDb' = StoreDb /\ StoreStatus' = "idle"
  BY <1>1 DEF StoreDb, StoreStatus, Committed
<1>. QED  BY <1>1, <1>2, StorePending, StoreCrash

LEMMA StoreKill ==
  ASSUME IInv, Kill
  PROVE  Store!ACrash \/ UNCHANGED Store!avars
<1>1. /\ phase # "down" /\ phase' = "down"
      /\ outcome' = (IF outcome = "pending" THEN "unknown" ELSE outcome)
      /\ UNCHANGED <<fs, base, txn>>
  BY DEF Kill, LoseProcess, disk, history
<1>2. StoreStatus' = "idle"
  BY <1>1 DEF StoreStatus
<1>3. \/ StoreDb' = StoreDb
      \/ StoreStatus = "busy" /\ StoreDb' = Effect(StoreDb, txn)
  <2>1. CASE log' = log /\ phase # "sync"
    BY <1>1, <2>1 DEF StoreDb, Committed
  <2>2. CASE log' = log /\ phase = "sync"
    <3>1. log.ops = txn /\ StoreDb = fs /\ fs = base /\ StoreStatus = "busy"
      BY <2>2, StoreState DEF IInv, BusyInv
    <3>. QED  BY <1>1, <2>2, <3>1 DEF StoreDb, Committed
  <2>3. CASE phase = "log" /\ \E e \in txn \ log.ops :
                                log' = [log EXCEPT !.bad = {e}]
    <3>1. log.marker = {} /\ log \in LogImage /\ StoreDb = fs
      BY <2>3, StoreState DEF IInv, BusyInv, TypeOK
    <3>2. log'.marker = {}
      BY <2>3, <3>1 DEF LogImage
    <3>. QED  BY <1>1, <3>1, <3>2 DEF StoreDb, Committed
  <2>. QED  BY <2>1, <2>2, <2>3 DEF Kill
<1>. QED  BY <1>1, <1>2, <1>3, StorePending, StoreCrash

LEMMA StorePower ==
  ASSUME IInv, Power
  PROVE  Store!ACrash \/ UNCHANGED Store!avars
<1>1. /\ phase' = "down" /\ LosesPower
      /\ outcome' = (IF outcome = "pending" THEN "unknown" ELSE outcome)
      /\ UNCHANGED <<base, txn>>
  BY DEF Power, LoseProcess, Fault, history, LosesPower
<1>2. StoreStatus' = "idle"
  BY <1>1 DEF StoreStatus
<1>3. PICK n \in [File -> BOOLEAN], c \in [File -> Content] :
        /\ \A f \in File : n[f] \in named[f]
        /\ \A f \in File, a \in Addr : c[f][a] \in held[f][a]
        /\ fs' = [f \in File |-> IF n[f] THEN c[f] ELSE Absent]
  BY DEF Power
<1>4. PICK l \in logHeld, m \in logNamed : log' = IF m THEN l ELSE EmptyLog
  BY DEF Power
<1>5. Quiet => fs' = fs
  <2>1. fs \in Files /\ fs' \in Files
    BY <1>3 DEF Files, IInv, TypeOK
  <2>. QED  BY <1>3, <2>1, SurvivesPower DEF Quiet
<1>6. StoreDb' = IF Committed(log') THEN Effect(base, log'.ops) ELSE fs'
  BY <1>1 DEF StoreDb, Committed
<1>7. /\ SafeLog(l) /\ m \in BOOLEAN
      /\ m = FALSE => Quiet
  BY <1>1 DEF IInv, HeldInv, TypeOK
<1>8. CASE Committed(log) /\ phase \in {"down", "apply", "replay", "reset"}
  <2>1. l = log /\ logNamed = {TRUE}
    BY <1>1, <1>8, EmptyNotCommitted DEF IInv, HeldInv
  <2>2. log' = log
    BY <1>4, <2>1
  <2>3. StoreDb' = StoreDb
    BY <1>6, <1>8, <2>2 DEF StoreDb
  <2>. QED  BY <1>1, <1>2, <2>3, StorePending, StoreCrash
<1>9. CASE phase = "sync"
  <2>1. StoreDb = base /\ StoreDb = fs /\ StoreStatus = "busy" /\ Quiet
    BY <1>9, StoreState, BusyQuiet
  <2>2. Committed(l) => Effect(base, l.ops) \in {base, Effect(base, txn)}
    BY <1>7 DEF SafeLog, Redoable, Consistent
  <2>3. StoreDb' \in {base, Effect(base, txn)}
    BY <1>4, <1>5, <1>6, <2>1, <2>2, EmptyNotCommitted
  <2>. QED  BY <1>1, <1>2, <2>1, <2>3, StorePending, StoreCrash
<1>10. CASE ~Committed(log)
  <2>1. StoreDb = fs
    BY <1>10, StoreState
  <2>2. Committed(l) => Effect(base, l.ops) = fs
    BY <1>1, <1>10 DEF IInv, HeldInv
  <2>3. ~Committed(l) => Quiet
    BY <1>7 DEF SafeLog
  <2>4. StoreDb' = fs
    BY <1>4, <1>5, <1>6, <1>7, <2>2, <2>3, EmptyNotCommitted
  <2>. QED  BY <1>1, <1>2, <2>1, <2>4, StorePending, StoreCrash
<1>11. phase \in {"newlog", "log", "mark", "idle", "truncated"} => ~Committed(log)
  BY EmptyNotCommitted DEF IInv, BusyInv, IdleInv, ResetInv, Committed
<1>. QED  BY <1>8, <1>9, <1>10, <1>11 DEF IInv, TypeOK, Phase

\* The commit protocol implements the atomic store, until a recovery goes on
\* from a log it has not read: each commit takes effect at one instant or
\* never, a reply is given only after that instant, and no crash or recovery
\* changes what was decided.
THEOREM Refinement ==
  ASSUME SafeFaults
  PROVE  Spec => ImplementsStore
<1>1. Init => Store!AInit
  <2> SUFFICES ASSUME Init PROVE Store!AInit
    OBVIOUS
  <2>1. StoreStatus = "idle" /\ StoreDb = fs
    BY EmptyNotCommitted DEF Init, StoreStatus, StoreDb
  <2>. QED  BY <2>1, StoreOperators DEF Init, Store!AInit
<1>2. ASSUME ~unread => IInv, [Next]_vars, ~unread'
      PROVE  Store!ANext \/ UNCHANGED Store!avars
  <2>1. IInv /\ IInv'
    BY <1>2, UnreadStays, NextStep, StutterStep
  <2>2. ASSUME NEW T \in Transactions, Begin(T) \/ BeginFails(T)
        PROVE  Store!ANext
    BY <2>1, <2>2, StoreBegin, StoreRefuse DEF Store!ANext
  <2>3. CASE Start
    BY <2>1, <2>3, StoreStart
  <2>4. ASSUME NEW e \in LogEntry, ReplayMissing(e) \/ ReplayUnread(e)
        PROVE  Store!ACrash \/ UNCHANGED Store!avars
    <3>1. phase = "replay" /\ LoseProcess /\ UNCHANGED <<disk, logVars>>
      BY <1>2, <2>4 DEF ReplayMissing, ReplayUnread, NextEntry
    <3>. QED  BY <2>1, <3>1, StoreExit
  <2>5. CASE Progress
    BY <2>1, <2>4, <2>5, StoreBusy, StoreDecide, StoreRedo, StoreTruncate,
       StoreReply DEF Progress, Store!ANext
  <2>6. CASE Exit
    BY <2>1, <2>6, StoreExit DEF Exit, Store!ANext
  <2>7. CASE Failure
    <3>1. ~SyncMarkerFails
      BY DEF SyncMarkerFails, SafeFaults, Fault
    <3>. QED  BY <2>1, <2>4, <2>6, <2>7, <3>1, StoreAbort, StoreStart,
                StoreKill, StorePower DEF Failure, Store!ANext
  <2>8. CASE UNCHANGED vars
    BY <2>8, StoreStutter DEF vars, disk, logVars, history, StoreDb,
       StoreStatus, Committed
  <2>. QED  BY <1>2, <2>2, <2>3, <2>5, <2>7, <2>8 DEF Next
<1>3. (~unread => IInv) /\ [Next]_vars =>
        [Store!ANext \/ unread']_(Store!avars)
  BY <1>2
<1>. QED  BY <1>1, <1>3, Invariance, PTL DEF Spec, ImplementsStore
=============================================================================
