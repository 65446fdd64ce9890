----------------------------- MODULE LogEntries -----------------------------
(***************************************************************************)
(* The vocabulary of a StripeSQL commit: what a file under tables/ holds,  *)
(* the entries the write-ahead log is made of, and what a set of entries   *)
(* does to the files.  It is shared by the abstract store (AtomicStore)    *)
(* and by the commit protocol (CommitLog).                                 *)
(*                                                                         *)
(* A file is a function from addresses to objects.  An address stands for  *)
(* one separately written range: the header, a page, a node, a PAGE_SIZE   *)
(* piece of the schema.  An object written and then marked deleted by the  *)
(* same log is one address with its final value.  Blank is an address past *)
(* the end of the file, or one whose write was torn.  A transaction is the *)
(* SET of its entries: the dirty hashmaps it comes from hold each address  *)
(* once and are walked in hash order, so no order is meaningful but "a     *)
(* file's CREATE is first".                                                *)
(***************************************************************************)

CONSTANTS
  File,     \* names of the files under tables/ (table files and the schema)
  Addr,     \* addresses within a file
  Header,   \* address 0, where a CREATE or REMOVE entry's unused addr points
  Value,    \* serialized objects
  Blank,    \* no object, or a torn one
  Absent    \* the state of a file that does not exist

ASSUME HeaderAssumption == Header \in Addr
ASSUME BlankAssumption == Blank \notin Value

Content == [Addr -> Value \union {Blank}]

ASSUME AbsentAssumption == Absent \notin Content

\* The states of all the files under tables/.
Files == [File -> Content \union {Absent}]

EntryType == {"create", "remove", "write"}

\* wal_entry without its magic, transaction ID and checksum.
Entry == [type : EntryType, file : File, addr : Addr,
          payload : Value \union {Blank}]

CreateEntry(f) ==
  [type |-> "create", file |-> f, addr |-> Header, payload |-> Blank]

RemoveEntry(f) ==
  [type |-> "remove", file |-> f, addr |-> Header, payload |-> Blank]

WriteEntry(f, a, v) ==
  [type |-> "write", file |-> f, addr |-> a, payload |-> v]

\* Every entry a log can hold.
LogEntry ==
  {CreateEntry(f) : f \in File} \union {RemoveEntry(f) : f \in File}
    \union {WriteEntry(f, a, v) : f \in File, a \in Addr, v \in Value}

\* Whether T writes address a of file f.
Writes(T, f, a) == \E v \in Value : WriteEntry(f, a, v) \in T

Touches(T, f) == \E e \in T : e.file = f

\* Whether the directory must be synced after T (changesFiles, changedFiles).
ChangesFiles(T) == \E e \in T : e.type \in {"create", "remove"}

(***************************************************************************)
(* The entries one commit can log over files b: each address at most once, *)
(* nothing else for a removed file, and a file that is written either      *)
(* exists or is created by the same log (the claim of wal.c:245).          *)
(***************************************************************************)
WellFormed(T, b) ==
  /\ T \subseteq LogEntry
  /\ \A f \in File, a \in Addr, v, w \in Value :
       /\ WriteEntry(f, a, v) \in T
       /\ WriteEntry(f, a, w) \in T
       => v = w
  /\ \A f \in File : RemoveEntry(f) \in T =>
       /\ CreateEntry(f) \notin T
       /\ \A a \in Addr : ~Writes(T, f, a)
  /\ \A f \in File, a \in Addr :
       Writes(T, f, a) => b[f] # Absent \/ CreateEntry(f) \in T

\* What address a of file f holds once all of T is done over content c.
Written(T, f, a, c) ==
  IF Writes(T, f, a) THEN CHOOSE v \in Value : WriteEntry(f, a, v) \in T
  ELSE IF CreateEntry(f) \in T THEN Blank
  ELSE c[a]

\* The files once all of T is done over b.
Effect(b, T) ==
  [f \in File |->
     IF \/ RemoveEntry(f) \in T
        \/ b[f] = Absent /\ CreateEntry(f) \notin T
     THEN Absent
     ELSE [a \in Addr |-> Written(T, f, a, b[f])]]

=============================================================================
