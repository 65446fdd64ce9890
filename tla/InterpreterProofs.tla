-------------------------- MODULE InterpreterProofs -------------------------
(***************************************************************************)
(* Proofs about Session, for any tables, addresses, sizes of the cache and *)
(* of a transaction, and contents.  About SchemaTable: whatever the names  *)
(* hash to and however many tables there are, loading the schema's file    *)
(* gives a hash table that holds the file's entries, in which every entry  *)
(* is found and the search for any other name ends.  And about             *)
(* Interpreter, for any tables, keys, programs and bounds, as long as the  *)
(* code it runs was found sound (Sound in Bytecode) when it was generated: *)
(* the machine never misses an operand, a scan or a row, the tables of the *)
(* session change only as Session says, and the schema stays true to the   *)
(* files.                                                                  *)
(***************************************************************************)
EXTENDS Interpreter, Loops, FiniteSetTheorems, FunctionTheorems, WellFoundedInduction, TLAPS

(***************************************************************************)
(* The session.                                                            *)
(***************************************************************************)
USE CacheAssumption
USE DEF Slots

(***************************************************************************)
(* Least picks the least member of a set of numbers.                       *)
(***************************************************************************)
LEMMA LeastMember ==
  ASSUME NEW S, S \subseteq Nat, S # {}
  PROVE  Least(S) \in S
<1> DEFINE R == {p \in Nat \X Nat : p[1] < p[2]}
<1>1. IsWellFoundedOn(R, Nat)
  BY NatLessThanWellFounded DEF OpToRel
<1>2. PICK x \in S : \A y \in S : ~(<<y, x>> \in R)
  BY <1>1, WFMin
<1>3. \A y \in Nat : y < x => <<y, x>> \in R
  OBVIOUS
<1>. HIDE DEF R
<1>4. ASSUME NEW y \in S PROVE x <= y
  <2>1. ~(<<y, x>> \in R)
    BY <1>2
  <2>2. ~(y < x)
    BY <1>3, <2>1
  <2>. QED
    BY <2>2
<1>. QED
  BY <1>4 DEF Least

-----------------------------------------------------------------------------
(* The ownership of open tables, entry by entry.                           *)

Owned(c, h) ==
  /\ \A n \in TableId : h[n] # Nil => \E i \in Slots : c[i] # Nil /\ c[i].tbl = n
  /\ \A i \in Slots : c[i] # Nil =>
       h[c[i].tbl] # Nil /\ h[c[i].tbl].name = c[i].name
  /\ \A i, j \in Slots : c[i] # Nil /\ c[j] # Nil /\ i # j =>
       c[i].name # c[j].name /\ c[i].tbl # c[j].tbl

Cached(c, h) == \E i \in Slots : c[i] # Nil /\ c[i] = h

Borrowed ==
  /\ scanner # Nil => Cached(cache, scanner)
  /\ \A h \in registered : Cached(cache, h)
  /\ ~active => registered = {}

LEMMA OwnershipByEntry ==
  ASSUME SessionTypeOK
  PROVE  OpenTablesAreOwned <=> Owned(cache, heap) /\ Borrowed
<1>1. \A h : h \in CachedHandles <=> Cached(cache, h)
  BY DEF CachedHandles, Cached
<1>2. (\A n \in TableId : heap[n] # Nil <=> \E h \in CachedHandles : h.tbl = n)
      <=> /\ \A n \in TableId : heap[n] # Nil =>
               \E i \in Slots : cache[i] # Nil /\ cache[i].tbl = n
          /\ \A i \in Slots : cache[i] # Nil => heap[cache[i].tbl] # Nil
  BY DEF CachedHandles, SessionTypeOK, Handle
<1>. QED
  BY <1>1, <1>2 DEF OpenTablesAreOwned, Owned, Borrowed, SessionTypeOK, Handle
-----------------------------------------------------------------------------
(* The inductive invariant.                                                *)

\* An open table has a file, from which it differs only by changes for which
\* something has borrowed it, and its header fields are never those of
\* discarded changes.
ObjectsMatch ==
  \A n \in TableId : heap[n] # Nil =>
    /\ files[heap[n].name] # Nil
    /\ ~heap[n].stale
    /\ ~heap[n].dirty => heap[n].rows = files[heap[n].name]
    /\ heap[n].dirty => tableInUse(n)

\* What a statement outside the transaction would be undone to is the file.
UndoMatches ==
  /\ scanner = Nil <=> before = Nil
  /\ scanner # Nil =>
       /\ ~InTxn(scanner.name) => ~before.dirty
       /\ ~before.dirty => before.rows = files[scanner.name]

SessionInv ==
  SessionTypeOK /\ Owned(cache, heap) /\ Borrowed /\ ObjectsMatch /\ UndoMatches

\* The end of the process leaves nothing open.
LEMMA NothingOpen ==
  ASSUME files' \in [Table -> Contents \union {Nil}], ProcessEnds
  PROVE  SessionInv'
<1>1. 0 \in Slots
  BY CacheAssumption
<1>2. SessionTypeOK'
  BY <1>1 DEF ProcessEnds, SessionTypeOK
<1>3. Owned(cache', heap')
  BY DEF ProcessEnds, Owned
<1>4. Borrowed' /\ ObjectsMatch' /\ UndoMatches'
  BY DEF ProcessEnds, Borrowed, ObjectsMatch, UndoMatches
<1>. QED
  BY <1>2, <1>3, <1>4 DEF SessionInv

LEMMA InitInv == SessionInit => SessionInv
<1>. SUFFICES ASSUME SessionInit PROVE SessionInv
  OBVIOUS
<1>1. 0 \in Slots
  BY CacheAssumption
<1>2. SessionTypeOK
  BY <1>1 DEF SessionInit, SessionTypeOK
<1>3. Owned(cache, heap)
  BY DEF SessionInit, Owned
<1>4. Borrowed /\ ObjectsMatch /\ UndoMatches
  BY DEF SessionInit, Borrowed, ObjectsMatch, UndoMatches
<1>. QED
  BY <1>2, <1>3, <1>4 DEF SessionInv

\* Two objects have two names.
LEMMA NamesApart ==
  ASSUME SessionTypeOK, Owned(cache, heap), NEW m \in TableId, NEW n \in TableId,
         heap[m] # Nil, heap[n] # Nil, heap[m].name = heap[n].name
  PROVE  m = n
<1>1. PICK i \in Slots : cache[i] # Nil /\ cache[i].tbl = m
  BY DEF Owned
<1>2. PICK j \in Slots : cache[j] # Nil /\ cache[j].tbl = n
  BY DEF Owned
<1>. QED
  BY <1>1, <1>2 DEF Owned

\* A borrowed handle leads to the object of its name.
LEMMA BorrowedHandle ==
  ASSUME SessionTypeOK, Owned(cache, heap), NEW h, Cached(cache, h)
  PROVE  /\ h \in Handle /\ h.name \in Table /\ h.tbl \in TableId
         /\ heap[h.tbl] # Nil /\ heap[h.tbl].name = h.name
         /\ heap[h.tbl] \in TableObject
BY DEF SessionTypeOK, Owned, Cached, Handle

\* One handle for each name.
LEMMA HandlesApart ==
  ASSUME SessionTypeOK, Owned(cache, heap),
         NEW g, Cached(cache, g), NEW h, Cached(cache, h), g.name = h.name
  PROVE  g = h
BY DEF Owned, Cached

\* Closing tables leaves the others owned, and as h has them.
LEMMA Evicted ==
  ASSUME SessionTypeOK, Owned(cache, heap), NEW T, NEW h,
         \A n \in TableId : /\ h[n] = Nil <=> heap[n] = Nil
                            /\ h[n] # Nil => h[n].name = heap[n].name,
         evictTableCache(T, h)
  PROVE  /\ Owned(cache', heap')
         /\ cache' \in [Slots -> Handle \union {Nil}]
         /\ heap' = [n \in TableId |-> heap'[n]]
         /\ \A n \in TableId : heap'[n] # Nil =>
              heap'[n] = h[n] /\ heap[n] # Nil /\ heap[n].name \notin T
         /\ \A g : Cached(cache, g) /\ g.name \notin T => Cached(cache', g)
<1> DEFINE gone == {i \in Slots : cache[i] # Nil /\ cache[i].name \in T}
<1>1. cache' = [i \in Slots |-> IF i \in gone THEN Nil ELSE cache[i]]
  BY DEF evictTableCache
<1>2. heap' = [n \in TableId |->
                 IF \E i \in gone : cache[i].tbl = n THEN Nil ELSE h[n]]
  BY DEF evictTableCache
<1>3. \A i \in Slots : cache[i] # Nil =>
        cache[i].tbl \in TableId /\ heap[cache[i].tbl] # Nil
        /\ heap[cache[i].tbl].name = cache[i].name
  BY DEF Owned, SessionTypeOK, Handle
<1>4. cache' \in [Slots -> Handle \union {Nil}]
  BY <1>1 DEF SessionTypeOK
<1>5. ASSUME NEW n \in TableId, heap'[n] # Nil
      PROVE  heap'[n] = h[n] /\ heap[n] # Nil /\ heap[n].name \notin T
  <2>1. heap'[n] = h[n] /\ heap[n] # Nil /\ ~(\E i \in gone : cache[i].tbl = n)
    BY <1>2, <1>5
  <2>2. PICK i \in Slots : cache[i] # Nil /\ cache[i].tbl = n
    BY <2>1 DEF Owned
  <2>. QED
    BY <2>1, <2>2, <1>3
<1>6. ASSUME NEW g, Cached(cache, g), g.name \notin T
      PROVE  Cached(cache', g)
  BY <1>1, <1>6 DEF Cached
<1>7. Owned(cache', heap')
  <2>1. ASSUME NEW n \in TableId, heap'[n] # Nil
        PROVE  \E i \in Slots : cache'[i] # Nil /\ cache'[i].tbl = n
    BY <1>1, <1>3, <1>5, <2>1 DEF Owned
  <2>2. ASSUME NEW i \in Slots, cache'[i] # Nil
        PROVE  heap'[cache'[i].tbl] # Nil /\ heap'[cache'[i].tbl].name = cache'[i].name
    <3>1. i \notin gone /\ cache'[i] = cache[i] /\ cache[i] # Nil
      BY <1>1, <2>2
    <3>2. \A j \in gone : cache[j].tbl # cache[i].tbl
      BY <3>1 DEF Owned
    <3>. QED
      BY <3>1, <3>2, <1>2, <1>3
  <2>3. ASSUME NEW i \in Slots, NEW j \in Slots, cache'[i] # Nil, cache'[j] # Nil, i # j
        PROVE  cache'[i].name # cache'[j].name /\ cache'[i].tbl # cache'[j].tbl
    BY <1>1, <2>3 DEF Owned
  <2>. QED
    BY <2>1, <2>2, <2>3 DEF Owned
<1>. QED
  BY <1>2, <1>4, <1>5, <1>6, <1>7
-----------------------------------------------------------------------------
(* Opening a table.                                                        *)

\* A borrowed object is in use.
LEMMA BorrowedInUse ==
  ASSUME SessionInv, NEW h \in registered
  PROVE  Cached(cache, h) /\ tableInUse(h.tbl) /\ InTxn(h.name)
BY DEF SessionInv, Borrowed, tableInUse, InTxn

\* The handle a statement finds is in the cache.
LEMMA FoundHandle ==
  ASSUME SessionInv, NEW t, NEW h \in OpenHandles(t)
  PROVE  Cached(cache, h) /\ h.name = t
<1>1. CASE InTxn(t)
  BY <1>1, BorrowedInUse DEF OpenHandles
<1>2. CASE ~InTxn(t)
  BY <1>2 DEF OpenHandles, Cached
<1>. QED
  BY <1>1, <1>2

LEMMA OpenOpen ==
  ASSUME SessionInv, NEW t \in Table, openOpenTable(t)
  PROVE  SessionInv'
<1>1. PICK h \in OpenHandles(t) : Use(h, heap[h.tbl])
  BY DEF openOpenTable
<1>2. /\ h \in Handle /\ h.name \in Table /\ h.tbl \in TableId
      /\ heap[h.tbl] # Nil /\ heap[h.tbl].name = h.name
      /\ heap[h.tbl] \in TableObject /\ Cached(cache, h)
  BY FoundHandle, BorrowedHandle DEF SessionInv
<1>3. scanner = Nil /\ UNCHANGED <<files, heap, cache, tableCachePtr, active>>
  BY DEF openOpenTable
<1>4. CASE UNCHANGED <<registered, scanner, before>>
  BY <1>3, <1>4 DEF SessionInv, SessionTypeOK, Owned, Borrowed, Cached, ObjectsMatch,
     UndoMatches, tableInUse, InTxn
<1>5. CASE /\ registered' = IF active THEN registered \union {h} ELSE registered
           /\ scanner' = h
           /\ before' = [rows |-> heap[h.tbl].rows, dirty |-> heap[h.tbl].dirty]
  <2>1. before' \in UndoRecord /\ before' # Nil /\ h # Nil
    BY <1>2, <1>5, NilAssumption DEF UndoRecord, TableObject
  <2>2. SessionTypeOK'
    BY <1>2, <1>3, <1>5, <2>1 DEF SessionInv, SessionTypeOK
  <2>3. Owned(cache', heap')
    BY <1>3 DEF SessionInv
  <2>4. Borrowed'
    BY <1>2, <1>3, <1>5 DEF SessionInv, Borrowed, Cached
  <2>5. ObjectsMatch'
    <3>1. ASSUME NEW n \in TableId, tableInUse(n) PROVE tableInUse(n)'
      BY <1>3, <1>5, <3>1 DEF tableInUse
    <3>. QED
      BY <1>3, <3>1 DEF SessionInv, ObjectsMatch
  <2>6. UndoMatches'
    <3>1. ~InTxn(h.name)' => ~active
      BY <1>3, <1>5 DEF InTxn
    <3>2. ~active => ~heap[h.tbl].dirty
      BY <1>2, <1>3 DEF SessionInv, ObjectsMatch, tableInUse
    <3>3. ~heap[h.tbl].dirty => heap[h.tbl].rows = files'[h.name]
      BY <1>2, <1>3 DEF SessionInv, ObjectsMatch
    <3>4. before'.dirty = heap[h.tbl].dirty /\ before'.rows = heap[h.tbl].rows
      BY <1>5
    <3>. QED
      BY <1>5, <2>1, <3>1, <3>2, <3>3, <3>4 DEF UndoMatches
  <2>. QED
    BY <2>2, <2>3, <2>4, <2>5, <2>6 DEF SessionInv
<1>. QED
  BY <1>1, <1>4, <1>5 DEF Use

\* A table not yet open goes where nothing, or a table nothing uses, was.
LEMMA InsertKeeps ==
  ASSUME SessionInv, NEW t \in Table, NEW n \in TableId, NEW i \in Slots,
         scanner = Nil, OpenHandles(t) = {}, files[t] # Nil, heap[n] = Nil,
         cache[i] = Nil \/ ~tableInUse(cache[i].tbl),
         Insert(t, n, i), tableCachePtr' \in Slots
  PROVE  SessionInv'
<1> DEFINE h == [name |-> t, tbl |-> n]
           object == [name |-> t, rows |-> files[t], dirty |-> FALSE, stale |-> FALSE]
<1>1. /\ cache' = [cache EXCEPT ![i] = h]
      /\ heap' = [m \in TableId |->
                    CASE m = n -> object
                      [] m # n /\ cache[i] # Nil /\ cache[i].tbl = m -> Nil
                      [] OTHER -> heap[m]]
      /\ Use(h, object)
      /\ UNCHANGED <<files, active>>
  BY DEF Insert
<1>2. h \in Handle /\ h # Nil /\ h.name = t /\ h.tbl = n
  BY NilAssumption DEF Handle
<1>3. object \in TableObject /\ object # Nil
  <2>1. files[t] \in Contents
    BY DEF SessionInv, SessionTypeOK
  <2>2. object \in TableObject
    BY <2>1 DEF TableObject
  <2>. QED
    BY ONLY <2>2, NilAssumption
<1>4. /\ object.name = t /\ object.rows = files[t]
      /\ object.dirty = FALSE /\ object.stale = FALSE
  OBVIOUS
<1>. HIDE DEF h, object
<1>5. /\ cache \in [Slots -> Handle \union {Nil}]
      /\ heap \in [TableId -> TableObject \union {Nil}]
  BY DEF SessionInv, SessionTypeOK
<1>6. /\ cache' \in [Slots -> Handle \union {Nil}] /\ cache'[i] = h
      /\ \A j \in Slots : j # i => cache'[j] = cache[j]
  BY <1>1, <1>2, <1>5
<1>7. /\ heap' \in [TableId -> TableObject \union {Nil}] /\ heap'[n] = object
      /\ \A m \in TableId : m # n =>
           heap'[m] = IF cache[i] # Nil /\ cache[i].tbl = m THEN Nil ELSE heap[m]
  BY <1>1, <1>3, <1>5
<1>8. ASSUME NEW j \in Slots, cache[j] # Nil
      PROVE  /\ cache[j] \in Handle /\ cache[j].name # t
             /\ cache[j].tbl \in TableId /\ cache[j].tbl # n
             /\ heap[cache[j].tbl] # Nil /\ heap[cache[j].tbl].name = cache[j].name
  <2>1. heap[cache[j].tbl] # Nil /\ heap[cache[j].tbl].name = cache[j].name
    BY <1>8 DEF SessionInv, Owned
  <2>2. ~InTxn(t)
    BY DEF OpenHandles, InTxn
  <2>3. cache[j].name # t
    BY <1>8, <2>2 DEF OpenHandles
  <2>4. cache[j] \in Handle /\ cache[j].tbl \in TableId
    BY <1>5, <1>8 DEF Handle
  <2>. QED
    BY <2>1, <2>3, <2>4
<1>9. Owned(cache', heap')
  <2>1. ASSUME NEW m \in TableId, heap'[m] # Nil
        PROVE  \E j \in Slots : cache'[j] # Nil /\ cache'[j].tbl = m
    <3>1. CASE m = n
      BY <3>1, <1>2, <1>6
    <3>2. CASE m # n
      <4>1. heap[m] # Nil /\ ~(cache[i] # Nil /\ cache[i].tbl = m)
        BY <2>1, <3>2, <1>7
      <4>2. PICK j \in Slots : cache[j] # Nil /\ cache[j].tbl = m
        BY <4>1 DEF SessionInv, Owned
      <4>. QED
        BY <4>1, <4>2, <1>6
    <3>. QED
      BY <3>1, <3>2
  <2>2. ASSUME NEW j \in Slots, cache'[j] # Nil
        PROVE  heap'[cache'[j].tbl] # Nil /\ heap'[cache'[j].tbl].name = cache'[j].name
    <3>1. CASE j = i
      BY <3>1, <1>2, <1>3, <1>4, <1>6, <1>7
    <3>2. CASE j # i
      <4>1. cache'[j] = cache[j] /\ cache[j] # Nil
        BY <2>2, <3>2, <1>6
      <4>2. ~(cache[i] # Nil /\ cache[i].tbl = cache[j].tbl)
        BY <3>2, <4>1 DEF SessionInv, Owned
      <4>. QED
        BY <4>1, <4>2, <1>7, <1>8
    <3>. QED
      BY <3>1, <3>2
  <2>3. ASSUME NEW j \in Slots, NEW k \in Slots, cache'[j] # Nil, cache'[k] # Nil, j # k
        PROVE  cache'[j].name # cache'[k].name /\ cache'[j].tbl # cache'[k].tbl
    <3>1. CASE j = i
      BY <2>3, <3>1, <1>2, <1>6, <1>8
    <3>2. CASE k = i
      BY <2>3, <3>2, <1>2, <1>6, <1>8
    <3>3. CASE j # i /\ k # i
      BY <2>3, <3>3, <1>6 DEF SessionInv, Owned
    <3>. QED
      BY <3>1, <3>2, <3>3
  <2>. QED
    BY <2>1, <2>2, <2>3 DEF Owned
<1>10. ASSUME NEW g, Cached(cache, g), tableInUse(g.tbl)
       PROVE  Cached(cache', g)
  <2>1. PICK j \in Slots : cache[j] # Nil /\ cache[j] = g
    BY <1>10 DEF Cached
  <2>2. j # i
    BY <1>10, <2>1
  <2>. QED
    BY <2>1, <2>2, <1>6 DEF Cached
<1>11. Cached(cache', h)
  BY <1>2, <1>6 DEF Cached
<1>12. \A g \in registered : Cached(cache', g)
  BY <1>10, BorrowedInUse
<1>13. \/ UNCHANGED <<registered, scanner, before>>
       \/ /\ registered' = IF active THEN registered \union {h} ELSE registered
          /\ scanner' = h
          /\ before' = [rows |-> object.rows, dirty |-> object.dirty]
  BY <1>1 DEF Use
<1>14. [rows |-> object.rows, dirty |-> object.dirty] \in UndoRecord
  BY <1>3 DEF TableObject, UndoRecord
<1>15. SessionTypeOK'
  <2>1. /\ registered' \subseteq Handle
        /\ scanner' \in Handle \union {Nil}
        /\ before' \in UndoRecord \union {Nil}
    BY <1>2, <1>13, <1>14 DEF SessionInv, SessionTypeOK
  <2>2. files' \in [Table -> Contents \union {Nil}] /\ active' \in BOOLEAN
    BY <1>1 DEF SessionInv, SessionTypeOK
  <2>. QED
    BY <1>6, <1>7, <2>1, <2>2 DEF SessionTypeOK
<1>16. Borrowed'
  <2>1. scanner' # Nil => Cached(cache', scanner')
    BY <1>11, <1>13
  <2>2. \A g \in registered' : Cached(cache', g)
    BY <1>11, <1>12, <1>13
  <2>3. ~active' => registered' = {}
    BY <1>1, <1>13 DEF SessionInv, Borrowed
  <2>. QED
    BY <2>1, <2>2, <2>3 DEF Borrowed
<1>17. ObjectsMatch'
  <2>1. ASSUME NEW m \in TableId, heap'[m] # Nil
        PROVE  /\ files'[heap'[m].name] # Nil
               /\ ~heap'[m].stale
               /\ ~heap'[m].dirty => heap'[m].rows = files'[heap'[m].name]
               /\ heap'[m].dirty => tableInUse(m)'
    <3>1. CASE m = n
      BY <3>1, <1>1, <1>4, <1>7
    <3>2. CASE m # n
      <4>1. heap'[m] = heap[m] /\ heap[m] # Nil
        BY <2>1, <3>2, <1>7
      <4>2. tableInUse(m) => tableInUse(m)'
        BY <1>1, <1>13 DEF tableInUse
      <4>. QED
        BY <1>1, <4>1, <4>2 DEF SessionInv, ObjectsMatch
    <3>. QED
      BY <3>1, <3>2
  <2>. QED
    BY <2>1 DEF ObjectsMatch
<1>18. UndoMatches'
  <2>1. CASE UNCHANGED <<registered, scanner, before>>
    BY <2>1 DEF SessionInv, UndoMatches
  <2>2. CASE scanner' = h /\ before' = [rows |-> object.rows, dirty |-> object.dirty]
    <3>1. before' # Nil /\ before'.dirty = FALSE /\ before'.rows = files[t]
      BY <2>2, <1>4, <1>14, NilAssumption
    <3>. QED
      BY <2>2, <3>1, <1>1, <1>2 DEF UndoMatches
  <2>. QED
    BY <1>13, <2>1, <2>2
<1>. QED
  BY <1>9, <1>15, <1>16, <1>17, <1>18 DEF SessionInv

LEMMA OpenNew ==
  ASSUME SessionInv, NEW t \in Table, NEW n \in TableId, openNewTable(t, n)
  PROVE  SessionInv'
<1>1. tableCachePtr \in Slots
  BY DEF SessionInv, SessionTypeOK
<1>2. ASSUME NEW k \in Nat PROVE Turn(k) \in Slots
  BY <1>1, CacheAssumption DEF Turn
<1>3. scanner = Nil /\ OpenHandles(t) = {} /\ files[t] # Nil /\ heap[n] = Nil
  BY DEF openNewTable
<1>4. CASE /\ EmptySlots # {}
           /\ Insert(t, n, Least(EmptySlots)) /\ UNCHANGED tableCachePtr
  <2>1. Least(EmptySlots) \in EmptySlots
    BY <1>4, LeastMember, CacheAssumption DEF EmptySlots
  <2>. QED
    BY <1>1, <1>3, <1>4, <2>1, InsertKeeps DEF EmptySlots
<1>5. CASE /\ IdleTurns # {}
           /\ Insert(t, n, Turn(Least(IdleTurns)))
           /\ tableCachePtr' = Turn(Least(IdleTurns) + 1)
  <2>1. Least(IdleTurns) \in IdleTurns
    BY <1>5, LeastMember, CacheAssumption DEF IdleTurns
  <2>2. Least(IdleTurns) \in Nat
    BY <2>1, CacheAssumption DEF IdleTurns
  <2>3. Turn(Least(IdleTurns)) \in Slots /\ Turn(Least(IdleTurns) + 1) \in Slots
    BY <1>2, <2>2
  <2>4. ~tableInUse(cache[Turn(Least(IdleTurns))].tbl)
    BY <2>1 DEF IdleTurns
  <2>. QED
    BY <1>3, <1>5, <2>3, <2>4, InsertKeeps
<1>6. CASE UNCHANGED sessionVars
  BY <1>6 DEF sessionVars, SessionInv, SessionTypeOK, Owned, Borrowed, Cached,
     ObjectsMatch, UndoMatches, tableInUse, InTxn
<1>. QED
  BY <1>4, <1>5, <1>6 DEF openNewTable
-----------------------------------------------------------------------------
(* The statement on the table, and its end.                                *)

\* Setting an object's rows and its mark of changes.
LEMMA ObjectWith ==
  ASSUME NEW o \in TableObject, NEW r \in Contents, NEW d \in BOOLEAN
  PROVE  LET c == [[o EXCEPT !.rows = r] EXCEPT !.dirty = d]
         IN  /\ c \in TableObject /\ c.name = o.name /\ c.rows = r
             /\ c.dirty = d /\ c.stale = o.stale
<1>1. [o EXCEPT !.rows = r] \in TableObject
  BY DEF TableObject
<1>. QED
  BY <1>1 DEF TableObject

LEMMA TableChanges ==
  ASSUME SessionInv, ChangeTable
  PROVE  SessionInv'
<1>1. PICK rows \in Contents : changeTable(rows)
  BY DEF ChangeTable
<1> DEFINE n == scanner.tbl
<1>2. /\ scanner # Nil /\ Cached(cache, scanner)
      /\ n \in TableId /\ heap[n] # Nil /\ heap[n] \in TableObject
  BY <1>1, BorrowedHandle DEF changeTable, SessionInv, Borrowed
<1>3. heap \in [TableId -> TableObject \union {Nil}]
  BY DEF SessionInv, SessionTypeOK
<1> DEFINE changed == [[heap[n] EXCEPT !.rows = rows] EXCEPT !.dirty = TRUE]
<1>4. heap' = [heap EXCEPT ![n] = changed]
  <2>1. heap' = [heap EXCEPT ![n].rows = rows, ![n].dirty = TRUE]
    BY <1>1 DEF changeTable
  <2>. QED
    BY <1>2, <1>3, <2>1
<1>5. /\ changed \in TableObject /\ changed.name = heap[n].name
      /\ changed.dirty = TRUE /\ changed.stale = heap[n].stale
  BY <1>2, ObjectWith
<1>6. changed # Nil
  BY ONLY <1>5, NilAssumption
<1>7. heap'[n] = changed /\ \A m \in TableId : m # n => heap'[m] = heap[m]
  BY <1>2, <1>3, <1>4
<1>8. UNCHANGED <<files, cache, tableCachePtr, active, registered, scanner, before>>
  BY <1>1 DEF changeTable
<1>9. heap' \in [TableId -> TableObject \union {Nil}]
  BY <1>3, <1>4, <1>5
<1>. HIDE DEF n, changed
<1>10. SessionTypeOK' /\ Borrowed' /\ UndoMatches'
  BY <1>8, <1>9 DEF SessionInv, SessionTypeOK, Borrowed, Cached, UndoMatches, InTxn
<1>11. Owned(cache', heap')
  <2>1. \A m \in TableId : /\ heap'[m] # Nil <=> heap[m] # Nil
                           /\ heap[m] # Nil => heap'[m].name = heap[m].name
    BY <1>2, <1>5, <1>6, <1>7
  <2>2. \A i \in Slots : cache[i] # Nil => cache[i].tbl \in TableId
    BY DEF SessionInv, SessionTypeOK, Handle
  <2>3. cache' = cache /\ Owned(cache, heap)
    BY <1>8 DEF SessionInv
  <2>4. ASSUME NEW i \in Slots, cache[i] # Nil
        PROVE  heap'[cache[i].tbl] # Nil /\ heap'[cache[i].tbl].name = cache[i].name
    <3>1. heap[cache[i].tbl] # Nil /\ heap[cache[i].tbl].name = cache[i].name
      BY <2>3, <2>4 DEF Owned
    <3>2. cache[i].tbl \in TableId
      BY <2>2, <2>4
    <3>. QED
      BY <2>1, <3>1, <3>2
  <2>5. Owned(cache, heap')
    BY <2>1, <2>3, <2>4 DEF Owned
  <2>. QED
    BY <2>3, <2>5
<1>12. ObjectsMatch'
  <2>1. \A m \in TableId : /\ tableInUse(m)' <=> tableInUse(m)
                           /\ m = n => tableInUse(m)
    BY <1>2, <1>8 DEF tableInUse, n
  <2>2. ASSUME NEW m \in TableId, heap'[m] # Nil
        PROVE  /\ files'[heap'[m].name] # Nil
               /\ ~heap'[m].stale
               /\ ~heap'[m].dirty => heap'[m].rows = files'[heap'[m].name]
               /\ heap'[m].dirty => tableInUse(m)'
    <3>1. CASE m = n
      <4>1. heap[n].stale = FALSE
        BY <1>2 DEF SessionInv, ObjectsMatch, TableObject
      <4>2. heap'[m].stale = FALSE /\ heap'[m].dirty = TRUE
        BY <3>1, <4>1, <1>5, <1>7
      <4>3. tableInUse(m)'
        BY <3>1, <2>1
      <4>4. files'[heap'[m].name] # Nil
        BY <3>1, <1>2, <1>5, <1>7, <1>8 DEF SessionInv, ObjectsMatch
      <4>. QED
        BY <4>2, <4>3, <4>4
    <3>2. CASE m # n
      BY <3>2, <2>1, <2>2, <1>7, <1>8 DEF SessionInv, ObjectsMatch
    <3>. QED
      BY <3>1, <3>2
  <2>. QED
    BY <2>2 DEF ObjectsMatch
<1>. QED
  BY <1>10, <1>11, <1>12 DEF SessionInv

\* After its commit a table's file holds the table's changes, and the other
\* files are as they were.
LEMMA WrittenFiles ==
  ASSUME SessionTypeOK, Owned(cache, heap), NEW N, N \subseteq TableId
  PROVE  /\ Written(N) \in [Table -> Contents \union {Nil}]
         /\ \A n \in Pending(N) : Written(N)[heap[n].name] = heap[n].rows
         /\ \A n \in TableId \ Pending(N) : heap[n] # Nil =>
              Written(N)[heap[n].name] = files[heap[n].name]
<1>1. ASSUME NEW n \in TableId, heap[n] # Nil
      PROVE  heap[n] \in TableObject /\ heap[n].name \in Table /\ heap[n].rows \in Contents
  BY <1>1 DEF SessionTypeOK, TableObject
<1>2. Pending(N) \subseteq TableId /\ \A n \in Pending(N) : heap[n] # Nil
  BY DEF Pending
<1>3. ASSUME NEW t \in Table, NEW n \in Pending(N), heap[n].name = t
      PROVE  Written(N)[t] = heap[n].rows
  <2> DEFINE m == CHOOSE k \in Pending(N) : heap[k].name = t
  <2>1. m \in Pending(N) /\ heap[m].name = t
    BY <1>3
  <2>2. m = n
    BY <1>2, <1>3, <2>1, NamesApart
  <2>. QED
    BY <1>3, <2>2 DEF Written
<1>4. ASSUME NEW t \in Table, ~(\E n \in Pending(N) : heap[n].name = t)
      PROVE  Written(N)[t] = files[t]
  BY <1>4 DEF Written
<1>5. \A t \in Table : Written(N)[t] \in Contents \union {Nil}
  BY <1>1, <1>2, <1>3, <1>4 DEF SessionTypeOK
<1>6. Written(N) \in [Table -> Contents \union {Nil}]
  <2>1. Written(N) = [t \in Table |-> Written(N)[t]]
    BY DEF Written
  <2>. QED
    BY <1>5, <2>1
<1>7. ASSUME NEW n \in TableId \ Pending(N), heap[n] # Nil
      PROVE  Written(N)[heap[n].name] = files[heap[n].name]
  BY <1>1, <1>2, <1>4, <1>7, NamesApart
<1>. QED
  BY <1>1, <1>2, <1>3, <1>6, <1>7

\* A commit leaves each file with contents, or none.
LEMMA CommitTypes ==
  ASSUME SessionTypeOK, Owned(cache, heap), NEW N, N \subseteq TableId,
         NEW outcome \in Outcome, commitTables(N, outcome)
  PROVE  files' \in [Table -> Contents \union {Nil}]
BY WrittenFiles DEF commitTables, Outcome, SessionTypeOK

\* The objects that stay open after the commit of those in N.
LEMMA CommittedObjects ==
  ASSUME SessionInv, NEW N, N \subseteq TableId
  PROVE  /\ Committed(N) \in [TableId -> TableObject \union {Nil}]
         /\ \A n \in TableId : /\ Committed(N)[n] = Nil <=> heap[n] = Nil
                               /\ heap[n] # Nil =>
                                    /\ Committed(N)[n].name = heap[n].name
                                    /\ Committed(N)[n].rows = heap[n].rows
                                    /\ Committed(N)[n].stale = FALSE
                                    /\ n \in N => Committed(N)[n].dirty = FALSE
                                    /\ n \notin N => Committed(N)[n] = heap[n]
<1>1. ASSUME NEW n \in TableId, heap[n] # Nil, n \in N
      PROVE  /\ Committed(N)[n] \in TableObject
             /\ Committed(N)[n].name = heap[n].name
             /\ Committed(N)[n].rows = heap[n].rows
             /\ Committed(N)[n].stale = FALSE
             /\ Committed(N)[n].dirty = FALSE
  <2>1. heap[n] \in TableObject
    BY <1>1 DEF SessionInv, SessionTypeOK
  <2>2. heap[n].stale = FALSE
    BY <1>1, <2>1 DEF SessionInv, ObjectsMatch, TableObject
  <2>3. Committed(N)[n] = [heap[n] EXCEPT !.dirty = FALSE]
    BY <1>1 DEF Committed
  <2>. QED
    BY <2>1, <2>2, <2>3 DEF TableObject
<1>2. ASSUME NEW n \in TableId, ~(n \in N /\ heap[n] # Nil)
      PROVE  Committed(N)[n] = heap[n]
  BY <1>2 DEF Committed
<1>3. ASSUME NEW n \in TableId, heap[n] # Nil
      PROVE  heap[n] \in TableObject /\ heap[n].stale = FALSE
  BY <1>3 DEF SessionInv, SessionTypeOK, ObjectsMatch, TableObject
<1>4. \A n \in TableId : Committed(N)[n] \in TableObject \union {Nil}
  BY <1>1, <1>2, <1>3
<1>5. Committed(N) = [n \in TableId |-> Committed(N)[n]]
  BY DEF Committed
<1>6. \A n \in TableId : Committed(N)[n] = Nil <=> heap[n] = Nil
  BY <1>1, <1>2, NilAssumption
<1>. QED
  BY <1>1, <1>2, <1>3, <1>4, <1>5, <1>6

\* What is left of the others when the objects in N are discarded.
LEMMA DiscardedObjects ==
  ASSUME SessionInv, NEW N, N \subseteq TableId
  PROVE  \A n \in TableId : /\ Discarded(N)[n] = Nil <=> heap[n] = Nil
                            /\ heap[n] # Nil => Discarded(N)[n].name = heap[n].name
                            /\ n \notin N => Discarded(N)[n] = heap[n]
<1>1. ASSUME NEW n \in TableId, heap[n] # Nil, n \in N
      PROVE  Discarded(N)[n].name = heap[n].name /\ Discarded(N)[n] \in TableObject
  <2> DEFINE file == files[heap[n].name]
             late == heap[n].stale \/ heap[n].dirty
  <2>1. heap[n] \in TableObject
    BY <1>1 DEF SessionInv, SessionTypeOK
  <2>2. file \in Contents
    BY <1>1, <2>1 DEF SessionInv, SessionTypeOK, ObjectsMatch, TableObject
  <2>3. Discarded(N)[n] =
          [[[heap[n] EXCEPT !.rows = file] EXCEPT !.dirty = FALSE] EXCEPT !.stale = late]
    BY <1>1, <2>1 DEF Discarded, TableObject
  <2>4. late \in BOOLEAN
    BY <2>1 DEF TableObject
  <2>. HIDE DEF file, late
  <2>5. /\ [[heap[n] EXCEPT !.rows = file] EXCEPT !.dirty = FALSE] \in TableObject
        /\ [[heap[n] EXCEPT !.rows = file] EXCEPT !.dirty = FALSE].name = heap[n].name
    BY <2>1, <2>2, ObjectWith
  <2>. QED
    BY <2>3, <2>4, <2>5 DEF TableObject
<1>2. ASSUME NEW n \in TableId, ~(n \in N /\ heap[n] # Nil)
      PROVE  Discarded(N)[n] = heap[n]
  BY <1>2 DEF Discarded
<1>. QED
  BY <1>1, <1>2, NilAssumption

\* Tables are closed with nothing left running: those that stay open have no
\* changes, or the transaction still has them.
LEMMA ClosingKeeps ==
  ASSUME SessionInv, NEW T, NEW h,
         \A n \in TableId : /\ h[n] = Nil <=> heap[n] = Nil
                            /\ h[n] # Nil => h[n].name = heap[n].name
                            /\ heap[n] # Nil /\ heap[n].name \notin T =>
                                 h[n] = heap[n] /\ (heap[n].dirty => tableInUse(n)'),
         evictTableCache(T, h),
         files' \in [Table -> Contents \union {Nil}],
         \A t \in Table \ T : files'[t] = files[t],
         scanner' = Nil, before' = Nil, tableCachePtr' = tableCachePtr,
         active' \in BOOLEAN, registered' \subseteq registered,
         ~active' => registered' = {}, \A g \in registered' : g.name \notin T
  PROVE  SessionInv'
<1>1. /\ Owned(cache', heap')
      /\ cache' \in [Slots -> Handle \union {Nil}]
      /\ heap' = [n \in TableId |-> heap'[n]]
      /\ \A n \in TableId : heap'[n] # Nil =>
           heap'[n] = h[n] /\ heap[n] # Nil /\ heap[n].name \notin T
      /\ \A g : Cached(cache, g) /\ g.name \notin T => Cached(cache', g)
  BY Evicted DEF SessionInv
<1>2. ASSUME NEW n \in TableId, heap'[n] # Nil
      PROVE  /\ heap[n] # Nil /\ heap'[n] = heap[n] /\ heap[n] \in TableObject
             /\ heap[n].name \in Table \ T /\ (heap[n].dirty => tableInUse(n)')
  BY <1>1, <1>2 DEF SessionInv, SessionTypeOK, TableObject
<1>3. SessionTypeOK'
  <2>1. heap' \in [TableId -> TableObject \union {Nil}]
    BY <1>1, <1>2
  <2>. QED
    BY <1>1, <2>1 DEF SessionInv, SessionTypeOK
<1>4. Borrowed'
  BY <1>1 DEF SessionInv, Borrowed
<1>5. ObjectsMatch'
  BY <1>2 DEF SessionInv, ObjectsMatch
<1>6. UndoMatches'
  BY DEF UndoMatches
<1>. QED
  BY <1>1, <1>3, <1>4, <1>5, <1>6 DEF SessionInv

\* The objects in N are committed, every other with changes staying in use.
LEMMA CommitKeeps ==
  ASSUME SessionInv, NEW N, N \subseteq TableId,
         files' = Written(N), heap' = Committed(N), cache' = cache,
         scanner' = Nil, before' = Nil, tableCachePtr' = tableCachePtr,
         active' \in BOOLEAN, registered' \subseteq registered,
         ~active' => registered' = {},
         \A n \in TableId \ N : heap[n] # Nil /\ heap[n].dirty => tableInUse(n)'
  PROVE  SessionInv'
<1>1. SessionTypeOK'
  BY CommittedObjects, WrittenFiles DEF SessionInv, SessionTypeOK
<1>2. Owned(cache', heap')
  <2>1. \A n \in TableId : /\ heap'[n] = Nil <=> heap[n] = Nil
                           /\ heap[n] # Nil => heap'[n].name = heap[n].name
    BY CommittedObjects
  <2>2. \A i \in Slots : cache[i] # Nil => cache[i].tbl \in TableId
    BY DEF SessionInv, SessionTypeOK, Handle
  <2>3. Owned(cache, heap)
    BY DEF SessionInv
  <2>4. ASSUME NEW i \in Slots, cache[i] # Nil
        PROVE  heap'[cache[i].tbl] # Nil /\ heap'[cache[i].tbl].name = cache[i].name
    <3>1. heap[cache[i].tbl] # Nil /\ heap[cache[i].tbl].name = cache[i].name
      BY <2>3, <2>4 DEF Owned
    <3>. QED
      BY <2>1, <2>2, <2>4, <3>1
  <2>5. Owned(cache, heap')
    BY <2>1, <2>3, <2>4 DEF Owned
  <2>. QED
    BY <2>5
<1>3. Borrowed'
  BY DEF SessionInv, Borrowed, Cached
<1>4. ObjectsMatch'
  <2>1. ASSUME NEW n \in TableId, heap'[n] # Nil
        PROVE  /\ files'[heap'[n].name] # Nil
               /\ ~heap'[n].stale
               /\ ~heap'[n].dirty => heap'[n].rows = files'[heap'[n].name]
               /\ heap'[n].dirty => tableInUse(n)'
    <3>1. /\ heap[n] # Nil /\ heap[n] \in TableObject
          /\ heap'[n].name = heap[n].name /\ heap'[n].rows = heap[n].rows
          /\ heap'[n].stale = FALSE
          /\ n \in N => heap'[n].dirty = FALSE
          /\ n \notin N => heap'[n].dirty = heap[n].dirty
      BY <2>1, CommittedObjects DEF SessionInv, SessionTypeOK
    <3>2. CASE n \in Pending(N)
      <4>1. n \in N /\ files'[heap[n].name] = heap[n].rows
        BY <3>2, WrittenFiles DEF SessionInv, Pending
      <4>2. heap[n].rows # Nil
        BY <3>1, NilAssumption DEF TableObject
      <4>. QED
        BY <3>1, <4>1, <4>2
    <3>3. CASE n \notin Pending(N)
      <4>1. files'[heap[n].name] = files[heap[n].name]
        BY <3>1, <3>3, WrittenFiles DEF SessionInv
      <4>2. ~heap[n].dirty \/ n \notin N
        BY <3>1, <3>3 DEF Pending
      <4>. QED
        BY <3>1, <4>1, <4>2 DEF SessionInv, ObjectsMatch, TableObject
    <3>. QED
      BY <3>2, <3>3
  <2>. QED
    BY <2>1 DEF ObjectsMatch
<1>5. UndoMatches'
  BY DEF UndoMatches
<1>. QED
  BY <1>1, <1>2, <1>3, <1>4, <1>5 DEF SessionInv

\* The scanner's table is in the transaction only as the scanner's handle.
LEMMA ScannerInTxn ==
  ASSUME SessionInv, scanner # Nil, NEW h \in registered,
         h.name = scanner.name \/ h.tbl = scanner.tbl
  PROVE  h = scanner /\ InTxn(scanner.name)
<1>1. Cached(cache, h) /\ Cached(cache, scanner) /\ InTxn(h.name)
  BY BorrowedInUse DEF SessionInv, Borrowed
<1>2. h.name = scanner.name
  BY <1>1, BorrowedHandle DEF SessionInv
<1>. QED
  BY <1>1, <1>2, HandlesApart DEF SessionInv

\* The scanner's object, and the objects of the other names.
LEMMA ScannerObject ==
  ASSUME SessionInv, scanner # Nil
  PROVE  /\ scanner.tbl \in TableId /\ scanner.name \in Table
         /\ heap[scanner.tbl] # Nil /\ heap[scanner.tbl] \in TableObject
         /\ heap[scanner.tbl].name = scanner.name
         /\ \A n \in TableId : heap[n] # Nil /\ n # scanner.tbl =>
              heap[n].name # scanner.name
BY BorrowedHandle, NamesApart DEF SessionInv, Borrowed

\* What the transaction has of the scanner's table stays in use without it.
LEMMA StillInUse ==
  ASSUME SessionInv, scanner' = Nil, UNCHANGED <<active, registered>>,
         NEW n \in TableId, tableInUse(n),
         scanner = Nil \/ n # scanner.tbl \/ InTxn(scanner.name)
  PROVE  tableInUse(n)'
<1>1. active /\ \E h \in registered : h.tbl = n
  <2>1. CASE scanner # Nil /\ scanner.tbl = n
    <3>1. PICK h \in registered : h.name = scanner.name
      BY <2>1 DEF InTxn
    <3>2. h = scanner
      BY <2>1, <3>1, ScannerInTxn
    <3>. QED
      BY <2>1, <3>1, <3>2 DEF InTxn
  <2>2. CASE ~(scanner # Nil /\ scanner.tbl = n)
    BY <2>2 DEF tableInUse
  <2>. QED
    BY <2>1, <2>2
<1>. QED
  BY <1>1 DEF tableInUse

LEMMA EvictScanner ==
  ASSUME SessionInv, scanner # Nil, ~InTxn(scanner.name), NEW h,
         \A n \in TableId : /\ h[n] = Nil <=> heap[n] = Nil
                            /\ h[n] # Nil => h[n].name = heap[n].name
                            /\ n # scanner.tbl => h[n] = heap[n],
         evictTableCache({scanner.name}, h),
         scanner' = Nil, before' = Nil,
         UNCHANGED <<files, tableCachePtr, active, registered>>
  PROVE  SessionInv'
<1> DEFINE T == {scanner.name}
<1>1. ASSUME NEW n \in TableId, heap[n] # Nil, heap[n].name \notin T
      PROVE  h[n] = heap[n] /\ (heap[n].dirty => tableInUse(n)')
  <2>1. n # scanner.tbl
    BY <1>1, ScannerObject
  <2>2. heap[n].dirty => tableInUse(n)
    BY <1>1 DEF SessionInv, ObjectsMatch
  <2>3. tableInUse(n) => tableInUse(n)'
    BY <2>1, StillInUse
  <2>. QED
    BY <2>1, <2>2, <2>3
<1>2. ASSUME NEW g \in registered' PROVE g.name \notin T
  BY <1>2, ScannerInTxn
<1>3. /\ files' \in [Table -> Contents \union {Nil}] /\ active' \in BOOLEAN
      /\ ~active' => registered' = {}
  BY DEF SessionInv, SessionTypeOK, Borrowed
<1>. HIDE DEF T
<1>4. evictTableCache(T, h)
  BY DEF T
<1>. QED
  BY <1>1, <1>2, <1>3, <1>4, ClosingKeeps

LEMMA ScannerCloses ==
  ASSUME SessionInv, NEW o \in Outcome, closeScanner(o)
  PROVE  SessionInv'
<1> DEFINE N == {scanner.tbl}
<1>1. scanner # Nil /\ scanner.tbl \in TableId /\ N \subseteq TableId
  BY ScannerObject DEF closeScanner
<1>2. CASE o = "exited"
  <2>1. ~InTxn(scanner.name) /\ commitTables(N, o) /\ ProcessEnds
    BY <1>2 DEF closeScanner
  <2>. QED
    BY <1>1, <2>1, CommitTypes, NothingOpen DEF SessionInv
<1>3. CASE o # "exited" /\ InTxn(scanner.name)
  <2>1. /\ scanner' = Nil /\ before' = Nil
        /\ UNCHANGED <<files, heap, cache, tableCachePtr, active, registered>>
    BY <1>3 DEF closeScanner
  <2>2. ObjectsMatch'
    BY <1>3, <2>1, StillInUse DEF SessionInv, ObjectsMatch
  <2>. QED
    BY <2>1, <2>2 DEF SessionInv, SessionTypeOK, Owned, Borrowed, Cached, UndoMatches
<1>4. CASE o = "done" /\ ~InTxn(scanner.name)
  <2>1. /\ files' = Written(N) /\ heap' = Committed(N) /\ cache' = cache
        /\ scanner' = Nil /\ before' = Nil
        /\ UNCHANGED <<tableCachePtr, active, registered>>
    BY <1>4 DEF closeScanner, commitTables
  <2>2. ASSUME NEW n \in TableId \ N, heap[n] # Nil /\ heap[n].dirty
        PROVE  tableInUse(n)'
    BY <2>1, <2>2, StillInUse DEF SessionInv, ObjectsMatch
  <2>3. active' \in BOOLEAN /\ (~active' => registered' = {})
    BY <2>1 DEF SessionInv, SessionTypeOK, Borrowed
  <2>. QED
    BY <1>1, <2>1, <2>2, <2>3, CommitKeeps
<1>5. CASE o = "failed" /\ ~InTxn(scanner.name)
  <2>1. /\ UNCHANGED <<files, tableCachePtr, active, registered>>
        /\ scanner' = Nil /\ before' = Nil
        /\ evictTableCache({scanner.name}, Discarded(N))
    BY <1>5 DEF closeScanner, commitTables
  <2>2. \A n \in TableId : /\ Discarded(N)[n] = Nil <=> heap[n] = Nil
                           /\ Discarded(N)[n] # Nil => Discarded(N)[n].name = heap[n].name
                           /\ n # scanner.tbl => Discarded(N)[n] = heap[n]
    BY <1>1, DiscardedObjects
  <2>. HIDE DEF N
  <2>. QED
    BY <1>1, <1>5, <2>1, <2>2, EvictScanner
<1>. QED
  BY <1>2, <1>3, <1>4, <1>5 DEF Outcome

\* What the statement is undone to.
LEMMA UndoneObjects ==
  ASSUME SessionInv, scanner # Nil
  PROVE  LET back == [heap EXCEPT ![scanner.tbl].rows = before.rows,
                                  ![scanner.tbl].dirty = before.dirty]
         IN  /\ back \in [TableId -> TableObject \union {Nil}]
             /\ \A n \in TableId : n # scanner.tbl => back[n] = heap[n]
             /\ back[scanner.tbl] # Nil /\ back[scanner.tbl].name = scanner.name
             /\ back[scanner.tbl].rows = before.rows
             /\ back[scanner.tbl].dirty = before.dirty
             /\ back[scanner.tbl].stale = FALSE
<1> DEFINE n == scanner.tbl
           r == before.rows
           d == before.dirty
           undone == [[heap[n] EXCEPT !.rows = r] EXCEPT !.dirty = d]
<1>1. n \in TableId /\ heap[n] # Nil /\ heap[n] \in TableObject /\ heap[n].name = scanner.name
  BY ScannerObject
<1>2. r \in Contents /\ d \in BOOLEAN
  BY DEF SessionInv, SessionTypeOK, UndoMatches, UndoRecord
<1>3. heap[n].stale = FALSE
  BY <1>1 DEF SessionInv, ObjectsMatch, TableObject
<1>. HIDE DEF n, r, d
<1>4. /\ undone \in TableObject /\ undone.name = scanner.name /\ undone.rows = r
      /\ undone.dirty = d /\ undone.stale = FALSE
  <2>1. [heap[n] EXCEPT !.rows = r] \in TableObject
    BY <1>1, <1>2 DEF TableObject
  <2>2. /\ undone \in TableObject /\ undone.name = heap[n].name /\ undone.rows = r
        /\ undone.dirty = d /\ undone.stale = heap[n].stale
    BY <1>1, <1>2, <2>1 DEF TableObject
  <2>. QED
    BY ONLY <2>2, <1>1, <1>3
<1>5. heap \in [TableId -> TableObject \union {Nil}]
  BY DEF SessionInv, SessionTypeOK
<1>6. [heap EXCEPT ![n].rows = r, ![n].dirty = d] = [heap EXCEPT ![n] = undone]
  BY <1>1, <1>5
<1>. HIDE DEF undone
<1>7. undone # Nil
  BY ONLY <1>4, NilAssumption
<1>8. /\ [heap EXCEPT ![n] = undone] \in [TableId -> TableObject \union {Nil}]
      /\ [heap EXCEPT ![n] = undone][n] = undone
      /\ \A m \in TableId : m # n => [heap EXCEPT ![n] = undone][m] = heap[m]
  BY <1>1, <1>4, <1>5
<1>9. LET back == [heap EXCEPT ![n].rows = r, ![n].dirty = d]
      IN  /\ back \in [TableId -> TableObject \union {Nil}]
          /\ back[n] = undone
          /\ \A m \in TableId : m # n => back[m] = heap[m]
  BY <1>6, <1>8
<1>. QED
  BY <1>4, <1>7, <1>9 DEF n, r, d

LEMMA StatementAborts ==
  ASSUME SessionInv, abortStatement
  PROVE  SessionInv'
<1> DEFINE n == scanner.tbl
           back == [heap EXCEPT ![n].rows = before.rows, ![n].dirty = before.dirty]
<1>1. /\ scanner # Nil /\ scanner' = Nil /\ before' = Nil
      /\ UNCHANGED <<files, tableCachePtr, active, registered>>
      /\ IF InTxn(scanner.name) THEN heap' = back /\ UNCHANGED cache
         ELSE evictTableCache({scanner.name}, back)
  BY DEF abortStatement
<1>2. /\ n \in TableId /\ heap[n] # Nil /\ heap[n] \in TableObject
      /\ heap[n].name = scanner.name
      /\ \A m \in TableId : heap[m] # Nil /\ m # n => heap[m].name # scanner.name
  BY <1>1, ScannerObject
<1>3. /\ back \in [TableId -> TableObject \union {Nil}]
      /\ \A m \in TableId : m # n => back[m] = heap[m]
      /\ back[n] # Nil /\ back[n].name = scanner.name
      /\ back[n].rows = before.rows /\ back[n].dirty = before.dirty /\ back[n].stale = FALSE
  BY <1>1, UndoneObjects
<1>. HIDE DEF back
<1>4. \A m \in TableId : /\ back[m] = Nil <=> heap[m] = Nil
                         /\ back[m] # Nil => back[m].name = heap[m].name
                         /\ m # n => back[m] = heap[m]
  BY <1>2, <1>3
<1>5. CASE ~InTxn(scanner.name)
  BY <1>1, <1>4, <1>5, EvictScanner
<1>6. CASE InTxn(scanner.name)
  <2>1. heap' = back /\ cache' = cache
    BY <1>1, <1>6
  <2>2. SessionTypeOK'
    BY <1>1, <1>3, <2>1 DEF SessionInv, SessionTypeOK
  <2>3. Owned(cache', heap')
    <3>1. \A i \in Slots : cache[i] # Nil => cache[i].tbl \in TableId
      BY DEF SessionInv, SessionTypeOK, Handle
    <3>2. Owned(cache, heap)
      BY DEF SessionInv
    <3>3. ASSUME NEW i \in Slots, cache[i] # Nil
          PROVE  back[cache[i].tbl] # Nil /\ back[cache[i].tbl].name = cache[i].name
      <4>1. heap[cache[i].tbl] # Nil /\ heap[cache[i].tbl].name = cache[i].name
        BY <3>2, <3>3 DEF Owned
      <4>. QED
        BY <1>4, <3>1, <3>3, <4>1
    <3>4. Owned(cache, back)
      BY <1>4, <3>2, <3>3 DEF Owned
    <3>. QED
      BY <2>1, <3>4
  <2>4. Borrowed'
    BY <1>1, <2>1 DEF SessionInv, Borrowed, Cached
  <2>5. ASSUME NEW m \in TableId, heap'[m] # Nil
        PROVE  /\ files'[heap'[m].name] # Nil
               /\ ~heap'[m].stale
               /\ ~heap'[m].dirty => heap'[m].rows = files'[heap'[m].name]
               /\ heap'[m].dirty => tableInUse(m)'
    <3>1. CASE m = n
      <4>1. heap'[m].name = scanner.name /\ files'[scanner.name] # Nil
        BY <1>1, <1>2, <1>3, <2>1, <3>1 DEF SessionInv, ObjectsMatch
      <4>2. heap'[m].stale = FALSE
        BY <1>3, <2>1, <3>1
      <4>3. heap'[m].rows = before.rows /\ heap'[m].dirty = before.dirty
        BY <1>3, <2>1, <3>1
      <4>4. ~before.dirty => before.rows = files'[scanner.name]
        BY <1>1 DEF SessionInv, UndoMatches
      <4>5. tableInUse(m)'
        <5>1. tableInUse(m)
          BY <1>1, <3>1 DEF tableInUse
        <5>. QED
          BY <1>1, <1>6, <5>1, StillInUse
      <4>. QED
        BY <4>1, <4>2, <4>3, <4>4, <4>5
    <3>2. CASE m # n
      <4>1. heap'[m] = heap[m] /\ heap[m] # Nil
        BY <1>3, <2>1, <2>5, <3>2
      <4>2. tableInUse(m) => tableInUse(m)'
        BY <1>1, <1>6, StillInUse
      <4>. QED
        BY <1>1, <4>1, <4>2 DEF SessionInv, ObjectsMatch
    <3>. QED
      BY <3>1, <3>2
  <2>6. ObjectsMatch'
    BY <2>5 DEF ObjectsMatch
  <2>7. UndoMatches'
    BY <1>1 DEF UndoMatches
  <2>. QED
    BY <2>2, <2>3, <2>4, <2>6, <2>7 DEF SessionInv
<1>. QED
  BY <1>5, <1>6
-----------------------------------------------------------------------------
(* Transactions, and statements that create and remove files.              *)

LEMMA TransactionBegins ==
  ASSUME SessionInv, beginTransaction
  PROVE  SessionInv'
<1>1. /\ ~active /\ active' = TRUE /\ registered' = {}
      /\ UNCHANGED <<files, heap, cache, tableCachePtr, scanner, before>>
  BY DEF beginTransaction
<1>2. \A n : tableInUse(n)' <=> tableInUse(n)
  BY <1>1 DEF tableInUse
<1>3. \A t : ~InTxn(t) /\ ~InTxn(t)'
  BY <1>1 DEF InTxn
<1>4. SessionTypeOK' /\ Owned(cache', heap') /\ Borrowed'
  BY <1>1 DEF SessionInv, SessionTypeOK, Owned, Borrowed, Cached
<1>5. ObjectsMatch'
  BY <1>1, <1>2 DEF SessionInv, ObjectsMatch
<1>6. UndoMatches'
  BY <1>1, <1>3 DEF SessionInv, UndoMatches
<1>. QED
  BY <1>4, <1>5, <1>6 DEF SessionInv

\* Between statements an object with changes is one of the transaction's, and
\* the transaction's objects are those of its names.
LEMMA TransactionObjects ==
  ASSUME SessionInv
  PROVE  /\ Objects \subseteq TableId /\ Names \subseteq Table
         /\ scanner = Nil => \A n \in TableId : heap[n] # Nil /\ heap[n].dirty =>
              active /\ n \in Objects
         /\ \A n \in Objects : heap[n].name \in Names
<1>1. ASSUME NEW h \in registered
      PROVE  h.tbl \in TableId /\ h.name \in Table /\ heap[h.tbl].name = h.name
  BY BorrowedInUse, BorrowedHandle DEF SessionInv
<1>2. ASSUME scanner = Nil, NEW n \in TableId, heap[n] # Nil, heap[n].dirty
      PROVE  active /\ n \in Objects
  BY <1>2 DEF SessionInv, ObjectsMatch, tableInUse, Objects
<1>. QED
  BY <1>1, <1>2 DEF Objects, Names

\* The transaction ends without writing.
LEMMA DropChanges ==
  ASSUME SessionInv, scanner = Nil, evictTableCache(Names, Discarded(Objects)),
         TransactionOver, UNCHANGED <<files, tableCachePtr, scanner, before>>
  PROVE  SessionInv'
<1> DEFINE T == Names
           h == Discarded(Objects)
<1>1. \A n \in TableId : /\ h[n] = Nil <=> heap[n] = Nil
                         /\ h[n] # Nil => h[n].name = heap[n].name
                         /\ n \notin Objects => h[n] = heap[n]
  BY TransactionObjects, DiscardedObjects
<1>2. ASSUME NEW n \in TableId, heap[n] # Nil, heap[n].name \notin T
      PROVE  h[n] = heap[n] /\ ~heap[n].dirty
  <2>1. n \notin Objects
    BY <1>2, TransactionObjects
  <2>. QED
    BY <1>1, <1>2, <2>1, TransactionObjects
<1>3. /\ scanner' = Nil /\ before' = Nil /\ tableCachePtr' = tableCachePtr
      /\ active' = FALSE /\ registered' = {} /\ files' = files
  BY DEF TransactionOver, SessionInv, UndoMatches
<1>4. files' \in [Table -> Contents \union {Nil}]
  BY <1>3 DEF SessionInv, SessionTypeOK
<1>5. evictTableCache(T, h)
  OBVIOUS
<1>. HIDE DEF T, h
<1>. QED
  BY <1>1, <1>2, <1>3, <1>4, <1>5, ClosingKeeps

LEMMA TransactionCommits ==
  ASSUME SessionInv, NEW o \in Outcome, commitTransaction(o)
  PROVE  SessionInv'
<1>1. active /\ scanner = Nil /\ commitTables(Objects, o)
  BY DEF commitTransaction
<1>2. CASE o = "exited"
  BY <1>1, <1>2, TransactionObjects, CommitTypes, NothingOpen
     DEF SessionInv, commitTransaction
<1>3. CASE o = "done"
  <2>1. /\ files' = Written(Objects) /\ heap' = Committed(Objects) /\ cache' = cache
        /\ active' = FALSE /\ registered' = {}
        /\ UNCHANGED <<tableCachePtr, scanner, before>>
    BY <1>1, <1>3 DEF commitTransaction, commitTables, TransactionOver
  <2>2. ~(\E n \in TableId \ Objects : heap[n] # Nil /\ heap[n].dirty)
    BY <1>1, TransactionObjects
  <2>3. scanner' = Nil /\ before' = Nil
    BY <1>1, <2>1 DEF SessionInv, UndoMatches
  <2>. QED
    BY <2>1, <2>2, <2>3, TransactionObjects, CommitKeeps
<1>4. CASE o = "failed"
  BY <1>1, <1>4, DropChanges DEF commitTransaction, commitTables
<1>. QED
  BY <1>2, <1>3, <1>4 DEF Outcome

LEMMA TransactionDiscards ==
  ASSUME SessionInv, discardTransaction
  PROVE  SessionInv'
BY DropChanges DEF discardTransaction

LEMMA FileChange ==
  ASSUME SessionInv, NEW t \in Table, NEW o \in Outcome, ChangeFile(t, o)
  PROVE  SessionInv'
<1> DEFINE T == {t}
<1>1. PICK rows \in Contents \union {Nil} : changeFile(t, rows, o)
  BY DEF ChangeFile
<1>2. /\ files \in [Table -> Contents \union {Nil}]
      /\ files' = files \/ files' = [files EXCEPT ![t] = rows]
  BY <1>1 DEF changeFile, Outcome, SessionInv, SessionTypeOK
<1>3. /\ files' \in [Table -> Contents \union {Nil}]
      /\ \A u \in Table \ T : files'[u] = files[u]
  BY <1>2
<1>4. CASE o = "exited"
  BY <1>1, <1>3, <1>4, NothingOpen DEF changeFile
<1>5. CASE o # "exited"
  <2>1. /\ ~active /\ scanner = Nil /\ evictTableCache(T, heap)
        /\ UNCHANGED <<tableCachePtr, active, registered, scanner, before>>
    BY <1>1, <1>5 DEF changeFile
  <2>2. \A n \in TableId : heap[n] # Nil => ~heap[n].dirty
    BY <2>1, TransactionObjects
  <2>3. before' = Nil /\ registered' = {} /\ active' = FALSE
    BY <2>1 DEF SessionInv, UndoMatches, Borrowed, SessionTypeOK
  <2>. HIDE DEF T
  <2>. QED
    BY <1>3, <2>1, <2>2, <2>3, ClosingKeeps
<1>. QED
  BY <1>4, <1>5

-----------------------------------------------------------------------------
(* The theorems.                                                           *)

LEMMA NextKeeps ==
  ASSUME SessionInv, [SessionNext]_sessionVars
  PROVE  SessionInv'
<1>1. ASSUME NEW t \in Table, openOpenTable(t) PROVE SessionInv'
  BY <1>1, OpenOpen
<1>2. ASSUME NEW t \in Table, NEW n \in TableId, openNewTable(t, n) PROVE SessionInv'
  BY <1>2, OpenNew
<1>3. ASSUME NEW t \in Table, NEW o \in Outcome, ChangeFile(t, o) PROVE SessionInv'
  BY <1>3, FileChange
<1>4. CASE ChangeTable
  BY <1>4, TableChanges
<1>5. ASSUME NEW o \in Outcome, closeScanner(o) PROVE SessionInv'
  BY <1>5, ScannerCloses
<1>6. ASSUME NEW o \in Outcome, commitTransaction(o) PROVE SessionInv'
  BY <1>6, TransactionCommits
<1>7. CASE abortStatement
  BY <1>7, StatementAborts
<1>8. CASE beginTransaction
  BY <1>8, TransactionBegins
<1>9. CASE discardTransaction
  BY <1>9, TransactionDiscards
<1>10. CASE endSession
  BY <1>10, NothingOpen DEF endSession, SessionInv, SessionTypeOK
<1>11. CASE UNCHANGED sessionVars
  BY <1>11 DEF sessionVars, SessionInv, SessionTypeOK, Owned, Borrowed, Cached,
     ObjectsMatch, UndoMatches, tableInUse, InTxn
<1>. QED
  BY <1>1, <1>2, <1>3, <1>4, <1>5, <1>6, <1>7, <1>8, <1>9, <1>10, <1>11
     DEF SessionNext

(***************************************************************************)
(* The inductive invariant holds throughout every session.                 *)
(***************************************************************************)
THEOREM SessionInvariance == SessionSpec => []SessionInv
<1>1. SessionInv /\ [SessionNext]_sessionVars => SessionInv'
  BY NextKeeps
<1>. QED
  BY InitInv, <1>1, PTL DEF SessionSpec

(***************************************************************************)
(* The session's variables keep their types, whatever its statements do.   *)
(***************************************************************************)
THEOREM SessionTypeCorrect == SessionSpec => []SessionTypeOK
<1>1. SessionInv => SessionTypeOK
  BY DEF SessionInv
<1>. QED
  BY SessionInvariance, <1>1, PTL

(***************************************************************************)
(* The cache owns every open table, once, and nothing borrowed is closed:  *)
(* not by insertTableCache making room in a full cache, nor by the         *)
(* evictTableCache of a failed statement, commit or DISCARD, for any       *)
(* TABLE_CACHE_SIZE and MAX_TXN_TABLES.                                    *)
(***************************************************************************)
THEOREM Ownership == SessionSpec => []OpenTablesAreOwned
<1>1. SessionInv => OpenTablesAreOwned
  BY OwnershipByEntry DEF SessionInv
<1>. QED
  BY SessionInvariance, <1>1, PTL

(***************************************************************************)
(* A cached table that nothing uses matches its file, so the next          *)
(* statement may have it as it is (searchTableCache).                      *)
(***************************************************************************)
THEOREM IdleTables == SessionSpec => []IdleTablesMatchFiles
<1>1. SessionInv => IdleTablesMatchFiles
  BY DEF SessionInv, ObjectsMatch, IdleTablesMatchFiles
<1>. QED
  BY SessionInvariance, <1>1, PTL

HIDE CacheAssumption
HIDE DEF Slots

(***************************************************************************)
(* The schema's hash table.                                                *)
(***************************************************************************)
(* Triangular probing comes to every slot.                                 *)

\* There is one quotient, and one remainder.
LEMMA Remainder ==
  ASSUME NEW D \in Nat \ {0}, NEW k \in Int, NEW r \in 0 .. D - 1,
         NEW n \in Nat, n = D * k + r
  PROVE  n % D = r
<1> DEFINE p == n \div D
           t == n % D
<1>1. p \in Int /\ t \in 0 .. D - 1 /\ n = D * p + t
  OBVIOUS
<1>. HIDE DEF p, t
<1>2. CASE p < k
  <2>1. PICK d \in Nat : k = p + 1 + d
    <3>1. k - p - 1 \in Nat /\ k = p + 1 + (k - p - 1)
      BY <1>1, <1>2
    <3>. QED
      BY <3>1
  <2>2. D * (p + 1 + d) = D * p + D + D * d /\ D * d \in Nat /\ D * p \in Int
    BY <1>1
  <2>. QED
    BY <1>1, <2>1, <2>2
<1>3. CASE p > k
  <2>1. PICK d \in Nat : p = k + 1 + d
    <3>1. p - k - 1 \in Nat /\ p = k + 1 + (p - k - 1)
      BY <1>1, <1>3
    <3>. QED
      BY <3>1
  <2>2. D * (k + 1 + d) = D * k + D + D * d /\ D * d \in Nat /\ D * k \in Int
    OBVIOUS
  <2>. QED
    BY <1>1, <2>1, <2>2
<1>4. CASE p = k
  <2>1. D * k \in Int
    OBVIOUS
  <2>. QED
    BY <1>1, <1>4, <2>1 DEF t
<1>. QED
  BY <1>1, <1>2, <1>3, <1>4

LEMMA Division ==
  ASSUME NEW n \in Int, NEW D \in Nat \ {0}
  PROVE  /\ n = D * (n \div D) + (n % D) /\ n % D \in 0 .. D - 1
         /\ n \div D \in Int /\ (n \in Nat => n \div D \in Nat)
<1>1. n % D \in 0 .. D - 1
  OBVIOUS
<1>2. n \div D \in Int /\ n = D * (n \div D) + (n % D)
  OBVIOUS
<1>3. ASSUME n \in Nat PROVE n \div D \in Nat
  BY <1>3
<1>. QED
  BY <1>1, <1>2, <1>3

LEMMA TwiceTriangle ==
  ASSUME NEW s \in Nat
  PROVE  Triangle(s) \in Nat /\ 2 * Triangle(s) = s * (s + 1)
<1> DEFINE k == s \div 2
<1>1. k \in Nat /\ (s = 2 * k \/ s = 2 * k + 1)
  OBVIOUS
<1>. HIDE DEF k
<1>2. CASE s = 2 * k
  <2>1. s * (s + 1) = 2 * (k * (s + 1)) /\ k * (s + 1) \in Nat
    BY <1>1, <1>2
  <2>. QED
    BY <2>1 DEF Triangle
<1>3. CASE s = 2 * k + 1
  <2>1. s * (s + 1) = 2 * (s * (k + 1)) /\ s * (k + 1) \in Nat
    BY <1>1, <1>3
  <2>. QED
    BY <2>1 DEF Triangle
<1>. QED
  BY <1>1, <1>2, <1>3

\* The steps from the end of twice the capacity meet what the steps from the
\* start meet, one capacity further on.
LEMMA Mirrored ==
  ASSUME NEW C \in Nat \ {0}, NEW s \in 0 .. C - 1
  PROVE  /\ 2 * C - 1 - s \in 0 .. 2 * C - 1
         /\ Triangle(2 * C - 1 - s) = (2 * C) * (C - s) - C + Triangle(s)
<1> DEFINE m == 2 * C - 1 - s
<1>1. m \in Nat /\ m \in 0 .. 2 * C - 1
  OBVIOUS
<1>2. 2 * Triangle(s) = s * (s + 1) /\ Triangle(s) \in Nat
  BY TwiceTriangle
<1>3. 2 * Triangle(m) = m * (m + 1) /\ Triangle(m) \in Nat
  BY <1>1, TwiceTriangle
<1>4. m * (m + 1) = 2 * ((2 * C) * (C - s)) - 2 * C + s * (s + 1)
  OBVIOUS
<1>. HIDE DEF m
<1> DEFINE x == (2 * C) * (C - s)
           y == s * (s + 1)
<1>5. x \in Int /\ y \in Int
  OBVIOUS
<1>. HIDE DEF x, y
<1>6. 2 * Triangle(m) = 2 * x - 2 * C + 2 * Triangle(s)
  BY <1>2, <1>3, <1>4 DEF x, y
<1>7. Triangle(m) = x - C + Triangle(s)
  BY <1>2, <1>3, <1>5, <1>6
<1>. QED
  BY <1>1, <1>7 DEF m, x

(***************************************************************************)
(* Steps that grow by one come to every slot of a table twice as large, if *)
(* they do of this one: a capacity that GROW_CAPACITY doubles keeps what   *)
(* findEntry's probing needs.                                              *)
(***************************************************************************)
THEOREM Doubling ==
  ASSUME NEW C \in Nat \ {0}, Covers(C)
  PROVE  Covers(2 * C)
<1> SUFFICES ASSUME NEW slot \in 0 .. 2 * C - 1
    PROVE  \E s \in 0 .. 2 * C - 1 : Triangle(s) % (2 * C) = slot
  BY DEF Covers
<1> DEFINE q == IF slot < C THEN slot ELSE slot - C
<1>1. q \in 0 .. C - 1 /\ (slot = q \/ slot = q + C)
  OBVIOUS
<1>. HIDE DEF q
<1>2. PICK s \in 0 .. C - 1 : Triangle(s) % C = q
  BY <1>1 DEF Covers
<1> DEFINE k == Triangle(s) \div C
           j == k \div 2
<1>3. k \in Nat /\ Triangle(s) = C * k + q /\ Triangle(s) \in Nat
  <2> DEFINE t == Triangle(s)
  <2>1. t \in Nat
    BY TwiceTriangle
  <2>. HIDE DEF t
  <2>2. t = C * (t \div C) + (t % C)
    BY <2>1, Division
  <2>3. t \div C \in Nat
    BY <2>1
  <2>. QED
    BY <1>2, <2>1, <2>2, <2>3 DEF t
<1>. HIDE DEF k
<1>4. j \in Nat /\ (k = 2 * j \/ k = 2 * j + 1)
  BY <1>3
<1>. HIDE DEF j
<1> DEFINE m == 2 * C - 1 - s
<1>5. /\ m \in 0 .. 2 * C - 1 /\ Triangle(m) \in Nat
      /\ Triangle(m) = (2 * C) * (C - s) - C + Triangle(s)
  BY Mirrored, TwiceTriangle
<1>. HIDE DEF m
<1>6. ASSUME NEW n \in 0 .. 2 * C - 1, NEW i \in Int, Triangle(n) \in Nat,
             Triangle(n) = (2 * C) * i + slot
      PROVE  \E t \in 0 .. 2 * C - 1 : Triangle(t) % (2 * C) = slot
  BY <1>6, Remainder
<1>7. CASE k = 2 * j
  <2>1. C * k = (2 * C) * j
    BY <1>4, <1>7
  <2>2. CASE slot = q
    BY <1>3, <1>4, <1>6, <2>1, <2>2
  <2>3. CASE slot = q + C
    <3>1. (2 * C) * (C - s + j - 1) = (2 * C) * (C - s) + (2 * C) * j - 2 * C
      BY <1>4
    <3>2. (2 * C) * (C - s) \in Int /\ (2 * C) * j \in Int /\ C - s + j - 1 \in Int
      BY <1>4
    <3>3. Triangle(m) = (2 * C) * (C - s + j - 1) + slot
      BY <1>1, <1>3, <1>5, <2>1, <2>3, <3>1, <3>2
    <3>. QED
      BY <1>5, <1>6, <3>2, <3>3
  <2>. QED
    BY <1>1, <2>2, <2>3
<1>8. CASE k = 2 * j + 1
  <2>1. C * k = (2 * C) * j + C /\ (2 * C) * j \in Int
    BY <1>4, <1>8
  <2>2. CASE slot = q + C
    <3>1. s \in 0 .. 2 * C - 1
      OBVIOUS
    <3>2. Triangle(s) = (2 * C) * j + slot
      BY <1>1, <1>3, <2>1, <2>2
    <3>. QED
      BY <1>3, <1>4, <1>6, <3>1, <3>2
  <2>3. CASE slot = q
    <3>1. (2 * C) * (C - s + j) = (2 * C) * (C - s) + (2 * C) * j
      BY <1>4
    <3>2. (2 * C) * (C - s) \in Int /\ C - s + j \in Int
      BY <1>4
    <3>3. Triangle(m) = (2 * C) * (C - s + j) + slot
      BY <1>1, <1>3, <1>5, <2>1, <2>3, <3>1, <3>2
    <3>. QED
      BY <1>5, <1>6, <3>2, <3>3
  <2>. QED
    BY <1>1, <2>2, <2>3
<1>. QED
  BY <1>4, <1>7, <1>8
-----------------------------------------------------------------------------
(* Searching.                                                              *)

\* The names a table is for: none is the vacant slot's, and all have a hash.
Hashed(N) == NoName \notin N /\ \A n \in N : Home[n] \in Nat

Entry(N, K) == [name : N, cols : K]
SlotsOf(C, N, K) == [1 .. C -> Entry(N, K) \union {Vacant}]

\* Wherever a name starts, it comes to each slot.
LEMMA EverySlot ==
  ASSUME NEW C \in Nat \ {0}, Covers(C), NEW N, Hashed(N), NEW n \in N
  PROVE  /\ \A s \in Nat : Probe(n, C, s) \in 1 .. C
         /\ \A i \in 1 .. C : \E s \in 0 .. C - 1 : Probe(n, C, s) = i
<1> DEFINE h == Home[n]
<1>0. h \in Nat
  BY DEF Hashed
<1>. HIDE DEF h
<1>1. ASSUME NEW s \in Nat PROVE Probe(n, C, s) \in 1 .. C
  <2>1. h + Triangle(s) \in Nat
    BY <1>0, TwiceTriangle
  <2>2. (h + Triangle(s)) % C \in 0 .. C - 1
    BY <2>1
  <2>. QED
    BY <2>2 DEF Probe, h
<1>2. ASSUME NEW i \in 1 .. C PROVE \E s \in 0 .. C - 1 : Probe(n, C, s) = i
  <2> DEFINE r == (i - 1 - h) % C
             b == (i - 1 - h) \div C
  <2>1. i - 1 - h \in Int
    BY <1>0
  <2>2. r \in 0 .. C - 1 /\ b \in Int /\ i - 1 - h = C * b + r
    BY <2>1, Division
  <2>. HIDE DEF r, b
  <2>3. PICK s \in 0 .. C - 1 : Triangle(s) % C = r
    BY <2>2 DEF Covers
  <2> DEFINE k == Triangle(s) \div C
  <2>4. k \in Int /\ Triangle(s) = C * k + r /\ Triangle(s) \in Nat
    <3> DEFINE t == Triangle(s)
    <3>1. t \in Nat
      BY TwiceTriangle
    <3>. HIDE DEF t
    <3>2. t = C * (t \div C) + (t % C) /\ t \div C \in Int
      BY <3>1, Division
    <3>. QED
      BY <2>3, <3>1, <3>2 DEF t
  <2>. HIDE DEF k
  <2>5. C * (k - b) = C * k - C * b /\ C * k \in Int /\ C * b \in Int
    BY <2>2, <2>4
  <2>6. h + Triangle(s) = C * (k - b) + (i - 1)
    BY <1>0, <2>2, <2>4, <2>5
  <2>7. (h + Triangle(s)) % C = i - 1
    <3> DEFINE t == h + Triangle(s)
               d == k - b
               i0 == i - 1
    <3>1. t \in Nat /\ d \in Int /\ i0 \in 0 .. C - 1 /\ t = C * d + i0
      BY <1>0, <2>2, <2>4, <2>6
    <3>. HIDE DEF t, d, i0
    <3>2. t % C = i0
      BY <3>1, Remainder
    <3>. QED
      BY <3>2 DEF t, i0
  <2>. QED
    BY <2>7 DEF Probe, h
<1>. QED
  BY <1>1, <1>2

\* A search for n ends s steps on its way at the latest, and no sooner.
Stop(n, slots, C, s) == slots[Probe(n, C, s)].name \in {n, NoName}
FirstStop(n, slots, C, s) ==
  /\ s \in 0 .. 2 * C /\ Stop(n, slots, C, s)
  /\ \A r \in 0 .. s - 1 : ~Stop(n, slots, C, r)

\* There is one place where it may end, which is what findEntry finds.
LEMMA SearchEnd ==
  ASSUME NEW C \in Nat \ {0}, NEW n, NEW slots, Len(slots) = C,
         NEW s, FirstStop(n, slots, C, s)
  PROVE  findEntry(n, slots) = Probe(n, C, s)
<1> DEFINE stops == {r \in 0 .. 2 * C : Stop(n, slots, C, r)}
           least == CHOOSE r \in stops : \A q \in stops : r <= q
<1>1. findEntry(n, slots) = Probe(n, C, least)
  BY DEF findEntry, Stop
<1>2. s \in stops /\ \A q \in stops : s <= q
  BY DEF FirstStop
<1>3. least \in stops /\ \A q \in stops : least <= q
  <2>. HIDE DEF stops
  <2>. QED
    BY <1>2
<1>4. least = s
  BY <1>2, <1>3
<1>. QED
  BY <1>1, <1>4

LEMMA SearchStops ==
  ASSUME NEW C \in Nat \ {0}, Covers(C), NEW N, Hashed(N), NEW n \in N,
         NEW slots, Len(slots) = C, \E i \in 1 .. C : slots[i].name \in {n, NoName}
  PROVE  /\ findEntry(n, slots) \in 1 .. C
         /\ slots[findEntry(n, slots)].name \in {n, NoName}
         /\ \E s : FirstStop(n, slots, C, s) /\ findEntry(n, slots) = Probe(n, C, s)
<1>0. \A s \in Nat : Probe(n, C, s) \in 1 .. C
  BY EverySlot
<1>1. \A i \in 1 .. C : \E s \in 0 .. C - 1 : Probe(n, C, s) = i
  BY EverySlot
<1> DEFINE stops == {r \in 0 .. 2 * C : slots[Probe(n, C, r)].name \in {n, NoName}}
<1>2. stops \in SUBSET Nat
  OBVIOUS
<1>3. stops # {}
  <2>1. PICK i \in 1 .. C : slots[i].name \in {n, NoName}
    OBVIOUS
  <2>2. PICK s \in 0 .. C - 1 : Probe(n, C, s) = i
    BY <1>1
  <2>3. s \in stops
    BY <2>1, <2>2
  <2>. QED
    BY <2>3
<1>4. PICK s \in stops : \A r \in stops : s <= r
  <2>. HIDE DEF stops
  <2>. QED
    BY <1>2, <1>3, LeastNumber
<1>5. FirstStop(n, slots, C, s)
  BY <1>4 DEF FirstStop, Stop
<1>6. findEntry(n, slots) = Probe(n, C, s)
  BY <1>5, SearchEnd
<1>7. Probe(n, C, s) \in 1 .. C
  BY <1>0, <1>2
<1>. QED
  BY <1>5, <1>6, <1>7 DEF FirstStop, Stop
-----------------------------------------------------------------------------
(* What slots hold.                                                        *)

Taken(slots) == {i \in DOMAIN slots : slots[i] # Vacant}

\* The slots hold the entries of E, and each is found.
Holds(slots, C, N, K, E) ==
  /\ slots \in SlotsOf(C, N, K)
  /\ \A i \in Taken(slots) : findEntry(slots[i].name, slots) = i
  /\ E = {slots[i] : i \in Taken(slots)}

\* A function has no more values than arguments, and as many if none is the
\* value of two.
LEMMA ValuesCounted ==
  ASSUME NEW S, IsFiniteSet(S), NEW f, S \subseteq DOMAIN f,
         NEW T, T = {f[x] : x \in S}
  PROVE  /\ IsFiniteSet(T) /\ Cardinality(T) <= Cardinality(S)
         /\ (\A x, y \in S : f[x] = f[y] => x = y) => Cardinality(T) = Cardinality(S)
<1> DEFINE g == [x \in S |-> f[x]]
<1>1. g \in Surjection(S, T)
  BY DEF Surjection
<1>2. ASSUME \A x, y \in S : f[x] = f[y] => x = y PROVE g \in Injection(S, T)
  BY <1>2 DEF Injection, IsInjective
<1>. HIDE DEF g
<1>. QED
  BY <1>1, <1>2, FS_Surjection

\* An entry is not a vacant slot, and has a name.
LEMMA EntryFacts ==
  ASSUME NEW N, Hashed(N), NEW K, NEW e \in Entry(N, K)
  PROVE  /\ e # Vacant /\ e.name \in N /\ e.name # NoName
         /\ e.cols \in K /\ e = [name |-> e.name, cols |-> e.cols]
BY DEF Hashed, Entry, Vacant

LEMMA VacantName == Vacant.name = NoName
BY DEF Vacant

\* Slots as a sequence.
LEMMA SlotsLength ==
  ASSUME NEW C \in Nat, NEW N, NEW K, NEW slots \in SlotsOf(C, N, K)
  PROVE  /\ DOMAIN slots = 1 .. C /\ Len(slots) = C
         /\ \A i \in 1 .. C : slots[i] \in Entry(N, K) \union {Vacant}
         /\ slots \in Seq(Entry(N, K) \union {Vacant})
<1>1. slots \in Seq(Entry(N, K) \union {Vacant})
  BY DEF SlotsOf
<1>. QED
  BY <1>1 DEF SlotsOf

\* There are as many entries as slots that are taken, no two have one name,
\* and when there are fewer than slots, one is vacant.
LEMMA EntriesCounted ==
  ASSUME NEW C \in Nat, NEW N, Hashed(N), NEW K, NEW E, NEW slots,
         Holds(slots, C, N, K, E)
  PROVE  /\ E \subseteq Entry(N, K) /\ IsFiniteSet(E) /\ Cardinality(E) <= C
         /\ \A x, y \in E : x.name = y.name => x = y
         /\ Cardinality(E) < C => \E i \in 1 .. C : slots[i] = Vacant
<1>1. /\ DOMAIN slots = 1 .. C
      /\ \A i \in 1 .. C : slots[i] \in Entry(N, K) \union {Vacant}
  BY SlotsLength DEF Holds
<1>2. Taken(slots) \subseteq 1 .. C
  BY <1>1 DEF Taken
<1>3. IsFiniteSet(1 .. C) /\ Cardinality(1 .. C) = C
  BY FS_Interval
<1>4. /\ IsFiniteSet(Taken(slots)) /\ Cardinality(Taken(slots)) <= C
      /\ Cardinality(Taken(slots)) \in Nat
  <2>1. IsFiniteSet(Taken(slots)) /\ Cardinality(Taken(slots)) <= Cardinality(1 .. C)
    BY <1>2, <1>3, FS_Subset
  <2>. QED
    BY <1>3, <2>1, FS_CardinalityType
<1>5. \A i, j \in Taken(slots) : slots[i].name = slots[j].name => i = j
  BY DEF Holds
<1>6. E = {slots[i] : i \in Taken(slots)}
  BY DEF Holds
<1>7. IsFiniteSet(E) /\ Cardinality(E) = Cardinality(Taken(slots))
  BY <1>1, <1>2, <1>4, <1>5, <1>6, ValuesCounted
<1>8. E \subseteq Entry(N, K)
  BY <1>1, <1>6 DEF Taken
<1>9. \A x, y \in E : x.name = y.name => x = y
  BY <1>5, <1>6
<1>10. ASSUME Cardinality(E) < C PROVE \E i \in 1 .. C : slots[i] = Vacant
  <2>1. CASE Taken(slots) = 1 .. C
    BY <1>3, <1>7, <1>10, <2>1
  <2>2. CASE Taken(slots) # 1 .. C
    BY <1>1, <2>2 DEF Taken
  <2>. QED
    BY <2>1, <2>2
<1>. QED
  BY <1>4, <1>7, <1>8, <1>9, <1>10

\* What the search for a name finds: its entry, or a vacant slot.
LEMMA FindsIt ==
  ASSUME NEW C \in Nat \ {0}, Covers(C), NEW N, Hashed(N), NEW K, NEW E, NEW slots,
         Holds(slots, C, N, K, E), Cardinality(E) < C, NEW n \in N
  PROVE  LET i == findEntry(n, slots)
         IN  /\ i \in 1 .. C
             /\ \E s : FirstStop(n, slots, C, s) /\ i = Probe(n, C, s)
             /\ \A e \in E : e.name = n => slots[i] = e
             /\ (\A e \in E : e.name # n) => slots[i] = Vacant
<1> DEFINE i == findEntry(n, slots)
<1>1. /\ DOMAIN slots = 1 .. C /\ Len(slots) = C
      /\ \A j \in 1 .. C : slots[j] \in Entry(N, K) \union {Vacant}
  BY SlotsLength DEF Holds
<1>2. \E j \in 1 .. C : slots[j].name \in {n, NoName}
  BY EntriesCounted, VacantName
<1>3. /\ i \in 1 .. C /\ slots[i].name \in {n, NoName}
      /\ \E s : FirstStop(n, slots, C, s) /\ i = Probe(n, C, s)
  BY <1>1, <1>2, SearchStops
<1>. HIDE DEF i
<1>4. ASSUME NEW e \in E, e.name = n PROVE slots[i] = e
  <2>1. PICK j \in Taken(slots) : e = slots[j]
    BY DEF Holds
  <2>2. findEntry(e.name, slots) = j
    BY <2>1 DEF Holds
  <2>. QED
    BY <1>4, <2>1, <2>2 DEF i
<1>5. ASSUME \A e \in E : e.name # n PROVE slots[i] = Vacant
  <2>1. CASE slots[i] # Vacant
    <3>1. slots[i] \in E
      BY <1>1, <1>3, <2>1 DEF Holds, Taken
    <3>2. slots[i] \in Entry(N, K)
      BY <1>1, <1>3, <2>1
    <3>3. slots[i].name # NoName
      BY <3>2, EntryFacts
    <3>. QED
      BY <1>3, <1>5, <3>1, <3>3
  <2>. QED
    BY <2>1
<1>. QED
  BY <1>3, <1>4, <1>5 DEF i

\* Putting an entry of a new name in a vacant slot adds it, and the others
\* are found as before.
LEMMA PutNew ==
  ASSUME NEW C \in Nat \ {0}, Covers(C), NEW N, Hashed(N), NEW K, NEW E, NEW slots,
         Holds(slots, C, N, K, E), Cardinality(E) < C,
         NEW e \in Entry(N, K), \A x \in E : x.name # e.name
  PROVE  Holds(Put(slots, e), C, N, K, E \union {e})
<1> DEFINE f == findEntry(e.name, slots)
           new == Put(slots, e)
<1>1. e # Vacant /\ e.name \in N /\ e.name # NoName
  BY EntryFacts
<1>2. /\ DOMAIN slots = 1 .. C /\ Len(slots) = C
      /\ \A j \in 1 .. C : slots[j] \in Entry(N, K) \union {Vacant}
  BY SlotsLength DEF Holds
<1>3. /\ f \in 1 .. C /\ slots[f] = Vacant
      /\ \E s : FirstStop(e.name, slots, C, s) /\ f = Probe(e.name, C, s)
  BY <1>1, FindsIt
<1>4. new = [slots EXCEPT ![f] = e]
  BY DEF Put
<1>. HIDE DEF f, new
<1>5. new \in SlotsOf(C, N, K)
  BY <1>3, <1>4 DEF Holds, SlotsOf
<1>6. Len(new) = C /\ DOMAIN new = 1 .. C
  BY <1>5, SlotsLength
<1>7. Taken(new) = Taken(slots) \union {f}
  BY <1>1, <1>2, <1>3, <1>4 DEF Taken
<1>8. E \union {e} = {new[i] : i \in Taken(new)}
  <2>1. E = {slots[i] : i \in Taken(slots)}
    BY DEF Holds
  <2>2. \A i \in Taken(slots) : i # f /\ new[i] = slots[i]
    BY <1>2, <1>3, <1>4 DEF Taken
  <2>3. new[f] = e
    BY <1>2, <1>3, <1>4
  <2>. QED
    BY <1>7, <2>1, <2>2, <2>3
\* A slot passed on the way to a stop is not the one that was vacant.
<1>9. ASSUME NEW n \in N, NEW s, FirstStop(n, slots, C, s),
             slots[Probe(n, C, s)] # Vacant \/ n = e.name
      PROVE  findEntry(n, new) = Probe(n, C, s)
  <2>1. /\ s \in 0 .. 2 * C /\ slots[Probe(n, C, s)].name \in {n, NoName}
        /\ \A r \in 0 .. s - 1 : slots[Probe(n, C, r)].name \notin {n, NoName}
    BY <1>9 DEF FirstStop, Stop
  <2>2. \A r \in Nat : Probe(n, C, r) \in 1 .. C
    BY EverySlot
  <2>3. \A r \in 0 .. s - 1 : Probe(n, C, r) # f
    BY <1>3, <2>1, VacantName
  <2>4. \A r \in 0 .. s - 1 : new[Probe(n, C, r)] = slots[Probe(n, C, r)]
    BY <1>2, <1>4, <2>1, <2>2, <2>3
  <2>5. new[Probe(n, C, s)].name \in {n, NoName}
    <3>1. CASE n = e.name
      BY <1>2, <1>3, <1>4, <2>1, <2>2, <3>1
    <3>2. CASE slots[Probe(n, C, s)] # Vacant
      <4>1. Probe(n, C, s) # f
        BY <1>3, <3>2
      <4>. QED
        BY <1>2, <1>4, <2>1, <2>2, <4>1
    <3>. QED
      BY <1>9, <3>1, <3>2
  <2>6. FirstStop(n, new, C, s)
    BY <2>1, <2>4, <2>5 DEF FirstStop, Stop
  <2>. QED
    BY <1>6, <2>6, SearchEnd
<1>10. ASSUME NEW i \in Taken(new) PROVE findEntry(new[i].name, new) = i
  <2>1. CASE i = f
    BY <1>1, <1>2, <1>3, <1>4, <1>9, <2>1
  <2>2. CASE i # f
    <3>1. i \in Taken(slots) /\ i \in 1 .. C /\ new[i] = slots[i]
      BY <1>2, <1>4, <1>7, <2>2 DEF Taken
    <3> DEFINE n == slots[i].name
    <3>2. slots[i] \in E /\ n \in N /\ findEntry(n, slots) = i
      <4>1. slots[i] \in E /\ findEntry(n, slots) = i
        BY <3>1 DEF Holds
      <4>2. slots[i] \in Entry(N, K)
        BY <1>2, <3>1 DEF Taken
      <4>. QED
        BY <4>1, <4>2, EntryFacts
    <3>. HIDE DEF n
    <3>3. PICK s : FirstStop(n, slots, C, s) /\ i = Probe(n, C, s)
      BY <3>2, FindsIt
    <3>4. slots[Probe(n, C, s)] # Vacant
      BY <3>1, <3>3 DEF Taken
    <3>. QED
      BY <1>9, <3>1, <3>2, <3>3, <3>4 DEF n
  <2>. QED
    BY <2>1, <2>2
<1>. QED
  BY <1>5, <1>8, <1>10 DEF Holds, new
-----------------------------------------------------------------------------
(* Growing.                                                                *)

\* What the first slots hold.
UpTo(slots, i) == {slots[j] : j \in {k \in Taken(slots) : k <= i}}

LEMMA AllVacant ==
  ASSUME NEW C \in Nat, NEW N, NEW K
  PROVE  Holds([i \in 1 .. C |-> Vacant], C, N, K, {})
BY DEF Holds, SlotsOf, Taken

\* A table with other slots.
Refilled(ht, slots) == [ht EXCEPT !.slots = slots]
\* The arrays that putting the slots one by one into D vacant ones makes.
Puts(g, slots, C, D) ==
  /\ g[0] = [j \in 1 .. D |-> Vacant]
  /\ \A i \in 1 .. C : g[i] = IF slots[i] = Vacant THEN g[i - 1]
                             ELSE Put(g[i - 1], slots[i])

LEMMA PutLoop ==
  ASSUME NEW C \in Nat, NEW D \in Nat, NEW N, NEW K, NEW ht,
         ht.slots \in SlotsOf(C, N, K)
  PROVE  \E g : /\ Puts(g, ht.slots, C, D) /\ g[C] \in SlotsOf(D, N, K)
                /\ adjustCapacity(ht, D) = Refilled(ht, g[C])
<1> DEFINE S == SlotsOf(D, N, K)
           start == [j \in 1 .. D |-> Vacant]
           Step(i, x) == IF ht.slots[i] = Vacant THEN x ELSE Put(x, ht.slots[i])
           Loop(g) == g = [i \in 0 .. Capacity(ht) |->
                             IF i = 0 THEN [j \in 1 .. D |-> Vacant]
                             ELSE IF ht.slots[i] = Vacant THEN g[i - 1]
                             ELSE Put(g[i - 1], ht.slots[i])]
           g == CHOOSE g : Loop(g)
           step == [i \in 1 .. C |-> [x \in S |-> Step(i, x)]]
<1>1. Capacity(ht) = C /\ \A i \in 1 .. C : ht.slots[i] \in Entry(N, K) \union {Vacant}
  BY SlotsLength DEF Capacity
<1>2. start \in S
  BY DEF SlotsOf
<1>3. ASSUME NEW i \in 1 .. C, NEW x \in S PROVE Step(i, x) \in S
  <2>1. ht.slots[i] \in Entry(N, K) \union {Vacant}
    BY <1>1
  <2>. QED
    BY <2>1 DEF Put, SlotsOf
<1>. HIDE DEF S, Step, start
<1>4. step \in Steps(C, S)
  BY <1>3 DEF Steps
<1>5. ASSUME NEW i \in 1 .. C, NEW x \in S PROVE step[i][x] = Step(i, x)
  OBVIOUS
<1>. HIDE DEF step
<1>6. PICK f : Runs(f, C, S, start, step)
  BY <1>2, <1>4, Iteration
<1>7. ASSUME NEW i \in 1 .. C PROVE f[i] = Step(i, f[i - 1])
  <2>1. i - 1 \in 0 .. C
    OBVIOUS
  <2>2. f[i - 1] \in S /\ f[i] = step[i][f[i - 1]]
    BY <1>6, <2>1 DEF Runs
  <2>. QED
    BY <1>5, <2>2
<1>8. Loop(f)
  <2>1. f \in [0 .. C -> S] /\ f[0] = start
    BY <1>6 DEF Runs
  <2>2. f = [i \in 0 .. C |-> f[i]]
    BY <2>1
  <2>3. \A i \in 0 .. C : f[i] = IF i = 0 THEN start ELSE Step(i, f[i - 1])
    BY <1>7, <2>1
  <2>. QED
    BY <1>1, <2>2, <2>3 DEF Step, start
<1>. HIDE DEF Loop
<1>9. Loop(g)
  BY <1>8
<1>10. adjustCapacity(ht, D) = Refilled(ht, g[C])
  BY <1>1 DEF adjustCapacity, Loop, Refilled
<1>. HIDE DEF g
<1>11. /\ \A i \in 0 .. C : g[i] = IF i = 0 THEN start ELSE Step(i, g[i - 1])
       /\ g = [i \in 0 .. C |-> g[i]]
  <2>1. \A i \in 0 .. C : g[i] = IF i = 0 THEN start ELSE Step(i, g[i - 1])
    BY <1>1, <1>9 DEF Loop, Step, start
  <2>2. g = [i \in 0 .. C |-> g[i]]
    BY <1>1, <1>9 DEF Loop
  <2>. QED
    BY <2>1, <2>2
<1>12. 0 \in 0 .. C /\ \A i \in 1 .. C : i \in 0 .. C /\ i # 0
  OBVIOUS
<1>13. Puts(g, ht.slots, C, D)
  BY <1>11, <1>12 DEF Puts, Step, start
<1>14. g[C] \in S
  <2>1. g[0] = start
    BY <1>11, <1>12
  <2>2. \A i \in 1 .. C : g[i - 1] \in S => g[i] = step[i][g[i - 1]]
    BY <1>5, <1>11, <1>12
  <2>3. Runs(g, C, S, start, step)
    BY <1>2, <1>4, <1>11, <2>1, <2>2, Unwound
  <2>. QED
    BY <2>3 DEF Runs
<1>. QED
  BY <1>10, <1>13, <1>14 DEF S

\* A larger array holds the same entries.
EnlargedTo(ht, D, N, K, E) ==
  \E slots : /\ Holds(slots, D, N, K, E)
             /\ adjustCapacity(ht, D) = Refilled(ht, slots)

LEMMA Enlarged ==
  ASSUME NEW N, Hashed(N), NEW K, NEW E, NEW ht, NEW C \in Nat,
         Holds(ht.slots, C, N, K, E),
         NEW D \in Nat \ {0}, D > C, Covers(D)
  PROVE  EnlargedTo(ht, D, N, K, E)
<1> DEFINE old == ht.slots
<1>1. /\ old \in SlotsOf(C, N, K) /\ DOMAIN old = 1 .. C
      /\ \A i \in 1 .. C : old[i] \in Entry(N, K) \union {Vacant}
      /\ \A i \in Taken(old) : findEntry(old[i].name, old) = i
      /\ E = {old[i] : i \in Taken(old)}
  BY SlotsLength DEF Holds
<1>2. PICK g : /\ Puts(g, old, C, D)
               /\ adjustCapacity(ht, D) = Refilled(ht, g[C])
  BY <1>1, PutLoop
<1>3. IsFiniteSet(E) /\ Cardinality(E) <= C /\ Cardinality(E) \in Nat
  BY EntriesCounted, FS_CardinalityType
<1>. HIDE DEF old
<1> DEFINE T == {i \in 0 .. C : Holds(g[i], D, N, K, UpTo(old, i))}
<1>4. 0 \in T
  <2>1. UpTo(old, 0) = {}
    BY <1>1 DEF UpTo, Taken
  <2>2. g[0] = [j \in 1 .. D |-> Vacant]
    BY <1>2 DEF Puts
  <2>3. Holds(g[0], D, N, K, UpTo(old, 0))
    BY <2>1, <2>2, AllVacant
  <2>. QED
    BY <2>3
<1>5. ASSUME NEW i \in 1 .. C, i - 1 \in T PROVE i \in T
  <2>1. Holds(g[i - 1], D, N, K, UpTo(old, i - 1))
    BY <1>5
  <2>2. g[i] = IF old[i] = Vacant THEN g[i - 1] ELSE Put(g[i - 1], old[i])
    BY <1>2 DEF Puts
  <2>3. CASE old[i] = Vacant
    <3>1. {k \in Taken(old) : k <= i} = {k \in Taken(old) : k <= i - 1}
      BY <1>1, <2>3 DEF Taken
    <3>2. UpTo(old, i) = UpTo(old, i - 1)
      BY <3>1 DEF UpTo
    <3>. QED
      BY <2>1, <2>2, <2>3, <3>2
  <2>4. CASE old[i] # Vacant
    <3>1. i \in Taken(old) /\ old[i] \in Entry(N, K)
      BY <1>1, <2>4 DEF Taken
    <3>2. {k \in Taken(old) : k <= i} = {k \in Taken(old) : k <= i - 1} \union {i}
      BY <1>1, <3>1 DEF Taken
    <3>3. UpTo(old, i) = UpTo(old, i - 1) \union {old[i]}
      BY <3>2 DEF UpTo
    <3>4. \A x \in UpTo(old, i - 1) : x.name # old[i].name
      <4>1. SUFFICES ASSUME NEW k \in Taken(old), k <= i - 1 PROVE old[k].name # old[i].name
        BY DEF UpTo
      <4>2. k # i
        BY <1>1, <4>1 DEF Taken
      <4>. QED
        BY <1>1, <3>1, <4>1, <4>2
    <3>5. Cardinality(UpTo(old, i - 1)) < D
      <4>1. UpTo(old, i - 1) \subseteq E
        BY <1>1 DEF UpTo
      <4>2. /\ IsFiniteSet(UpTo(old, i - 1))
            /\ Cardinality(UpTo(old, i - 1)) <= Cardinality(E)
        BY <1>3, <4>1, FS_Subset
      <4>. QED
        BY <1>3, <4>2, FS_CardinalityType
    <3>. QED
      BY <2>1, <2>2, <2>4, <3>1, <3>3, <3>4, <3>5, PutNew
  <2>. QED
    BY <2>3, <2>4
<1>6. C \in T
  <2>. HIDE DEF T
  <2>1. 0 .. C \subseteq T
    BY <1>4, <1>5, CountingUpTo
  <2>. QED
    BY <2>1
<1>7. UpTo(old, C) = E
  <2>1. {k \in Taken(old) : k <= C} = Taken(old)
    BY <1>1 DEF Taken
  <2>. QED
    BY <1>1, <2>1 DEF UpTo
<1>. QED
  BY <1>2, <1>6, <1>7 DEF EnlargedTo
-----------------------------------------------------------------------------
(* Tables.                                                                 *)

\* The capacities there are, and a table that holds E, with room enough that
\* searches end.
Capacities == {C \in Nat : C >= FirstCapacity /\ Covers(C)}
HoldsTable(ht, N, K, E) ==
  /\ ht = [slots |-> ht.slots, count |-> ht.count]
  /\ ht.count \in Nat /\ Cardinality(E) <= ht.count
  /\ \E C \in {0} \union Capacities :
       Holds(ht.slots, C, N, K, E) /\ 10 * ht.count <= 8 * C

\* A table's capacity, and what follows for its entries.
LEMMA TableFacts ==
  ASSUME NEW N, Hashed(N), NEW K, NEW E, NEW ht, HoldsTable(ht, N, K, E)
  PROVE  /\ Capacity(ht) \in {0} \union Capacities
         /\ Holds(ht.slots, Capacity(ht), N, K, E)
         /\ 10 * ht.count <= 8 * Capacity(ht)
         /\ Capacity(ht) \in Nat /\ Cardinality(E) \in Nat
         /\ E \subseteq Entry(N, K) /\ IsFiniteSet(E)
         /\ \A x, y \in E : x.name = y.name => x = y
         /\ Capacity(ht) = 0 => E = {}
         /\ Capacity(ht) # 0 => /\ Capacity(ht) \in Nat \ {0} /\ Covers(Capacity(ht))
                               /\ Cardinality(E) < Capacity(ht)
<1>1. PICK C \in {0} \union Capacities :
        Holds(ht.slots, C, N, K, E) /\ 10 * ht.count <= 8 * C
  BY DEF HoldsTable
<1>2. C \in Nat /\ (C # 0 => Covers(C))
  BY DEF Capacities
<1>3. Capacity(ht) = C
  <2>1. ht.slots \in SlotsOf(C, N, K)
    BY <1>1 DEF Holds
  <2>. QED
    BY <1>2, <2>1, SlotsLength DEF Capacity
<1>4. /\ E \subseteq Entry(N, K) /\ IsFiniteSet(E) /\ Cardinality(E) <= C
      /\ \A x, y \in E : x.name = y.name => x = y
  BY <1>1, <1>2, EntriesCounted
<1>5. Cardinality(E) \in Nat
  BY <1>4, FS_CardinalityType
<1>6. ht.count \in Nat /\ Cardinality(E) <= ht.count
  BY DEF HoldsTable
<1>7. C = 0 => E = {}
  BY <1>4, <1>5, FS_EmptySet
<1>8. C # 0 => Cardinality(E) < C
  BY <1>1, <1>2, <1>5, <1>6
<1>. QED
  BY <1>1, <1>2, <1>3, <1>4, <1>5, <1>7, <1>8

LEMMA NoEntries ==
  ASSUME NEW N, Hashed(N), NEW K
  PROVE  HoldsTable(EmptyTable, N, K, {})
<1>1. <<>> = [i \in 1 .. 0 |-> Vacant]
  OBVIOUS
<1>2. Holds(<<>>, 0, N, K, {})
  BY <1>1, AllVacant
<1>3. Cardinality({}) = 0
  BY FS_EmptySet
<1>4. EmptyTable = [slots |-> <<>>, count |-> 0]
  BY DEF EmptyTable
<1>. QED
  BY <1>2, <1>3, <1>4 DEF HoldsTable

\* Growing leads from one capacity to the next, twice as large.
LEMMA GrownCapacity ==
  ASSUME NEW C \in {0} \union Capacities
  PROVE  /\ Grown(C) \in Capacities /\ Grown(C) \in Nat \ {0} /\ Grown(C) > C
         /\ Covers(Grown(C))
         /\ \A n \in Nat : 10 * n <= 8 * C => 10 * (n + 1) <= 8 * Grown(C)
<1>1. FirstCapacity \in Nat /\ FirstCapacity > 1 /\ Covers(FirstCapacity)
  BY CapacityAssumption
<1>2. CASE C = 0
  <2>1. Grown(C) = FirstCapacity
    BY <1>1, <1>2 DEF Grown
  <2>. QED
    BY <1>1, <1>2, <2>1 DEF Capacities
<1>3. CASE C \in Capacities
  <2>1. Grown(C) = 2 * C /\ C \in Nat /\ C >= FirstCapacity /\ Covers(C)
    BY <1>1, <1>3 DEF Grown, Capacities
  <2>2. Covers(2 * C)
    BY <1>1, <2>1, Doubling
  <2>. QED
    BY <1>1, <2>1, <2>2 DEF Capacities
<1>. QED
  BY <1>2, <1>3

\* A table that is enlarged has room for one more.
LEMMA Widened ==
  ASSUME NEW N, Hashed(N), NEW K, NEW E, NEW ht, NEW C \in {0} \union Capacities,
         Holds(ht.slots, C, N, K, E), NEW D, D = Grown(C)
  PROVE  /\ D \in Capacities
         /\ \A n \in Nat : 10 * n <= 8 * C => 10 * (n + 1) <= 8 * D
         /\ EnlargedTo(ht, D, N, K, E)
<1>1. /\ D \in Capacities /\ D \in Nat \ {0} /\ D > C /\ Covers(D)
      /\ \A n \in Nat : 10 * n <= 8 * C => 10 * (n + 1) <= 8 * D
  BY GrownCapacity
<1>2. C \in Nat
  BY DEF Capacities
<1>3. EnlargedTo(ht, D, N, K, E)
  <2>1. D \in Nat \ {0} /\ D > C /\ Covers(D)
    BY <1>1
  <2>. QED
    BY <1>2, <2>1, Enlarged
<1>. QED
  BY <1>1, <1>3

(***************************************************************************)
(* Inserting an entry of a new name adds it and loses none, with or        *)
(* without growth, and the table stays one in which all are found          *)
(* (insertHT, adjustCapacity).                                             *)
(***************************************************************************)
THEOREM Inserted ==
  ASSUME NEW N, Hashed(N), NEW K, NEW E, NEW ht, HoldsTable(ht, N, K, E),
         NEW e \in Entry(N, K), \A x \in E : x.name # e.name
  PROVE  HoldsTable(insertHT(e, ht), N, K, E \union {e})
<1> DEFINE C == Capacity(ht)
           tight == 10 * (ht.count + 1) > 8 * C
           roomy == IF tight THEN adjustCapacity(ht, Grown(C)) ELSE ht
<1>1. /\ C \in {0} \union Capacities /\ C \in Nat
      /\ Holds(ht.slots, C, N, K, E) /\ 10 * ht.count <= 8 * C
      /\ IsFiniteSet(E) /\ Cardinality(E) \in Nat
  BY TableFacts
<1>2. /\ ht = [slots |-> ht.slots, count |-> ht.count]
      /\ ht.count \in Nat /\ Cardinality(E) <= ht.count
  BY DEF HoldsTable
<1>. HIDE DEF C
<1>3. \E D \in Capacities :
        /\ Holds(roomy.slots, D, N, K, E) /\ roomy.count = ht.count
        /\ 10 * (ht.count + 1) <= 8 * D
  <2>1. CASE tight
    <3> DEFINE D == Grown(C)
    <3>0. roomy = adjustCapacity(ht, D)
      BY <2>1
    <3>. HIDE DEF roomy, tight
    <3>1. /\ D \in Capacities
          /\ \A n \in Nat : 10 * n <= 8 * C => 10 * (n + 1) <= 8 * D
      BY <1>1, Widened
    <3>5. EnlargedTo(ht, D, N, K, E)
      BY <1>1, Widened
    <3>2. PICK slots : /\ Holds(slots, D, N, K, E)
                       /\ adjustCapacity(ht, D) = Refilled(ht, slots)
      BY <3>5 DEF EnlargedTo
    <3>. HIDE DEF D
    <3>3. roomy.slots = slots /\ roomy.count = ht.count
      BY <1>2, <3>0, <3>2 DEF Refilled
    <3>4. 10 * (ht.count + 1) <= 8 * D
      BY <1>1, <1>2, <3>1
    <3>. QED
      BY <3>1, <3>2, <3>3, <3>4
  <2>2. CASE ~tight
    <3>1. C \in Capacities
      BY <1>1, <1>2, <2>2
    <3>. QED
      BY <1>1, <1>2, <2>2, <3>1
  <2>. QED
    BY <2>1, <2>2
<1>4. insertHT(e, ht) = [slots |-> Put(roomy.slots, e), count |-> roomy.count + 1]
  BY DEF insertHT, C
<1>. HIDE DEF roomy, tight
<1>5. PICK D \in Capacities :
        /\ Holds(roomy.slots, D, N, K, E) /\ roomy.count = ht.count
        /\ 10 * (ht.count + 1) <= 8 * D
  BY <1>3
<1>6. D \in Nat \ {0} /\ Covers(D) /\ Cardinality(E) < D
  <2>1. D \in Nat /\ Covers(D)
    BY DEF Capacities
  <2>2. Cardinality(E) < D
    BY <1>1, <1>2, <1>5, <2>1
  <2>. QED
    BY <1>1, <2>1, <2>2
<1>7. Holds(Put(roomy.slots, e), D, N, K, E \union {e})
  BY <1>5, <1>6, PutNew
<1>8. Cardinality(E \union {e}) <= ht.count + 1
  <2>1. Cardinality(E \union {e}) = IF e \in E THEN Cardinality(E) ELSE Cardinality(E) + 1
    BY <1>1, FS_AddElement
  <2>. QED
    BY <1>1, <1>2, <2>1
<1>. QED
  BY <1>2, <1>4, <1>5, <1>7, <1>8 DEF HoldsTable

\* The search for a name that has an entry finds it, and any other finds none.
LEMMA ReadsIt ==
  ASSUME NEW N, Hashed(N), NEW K, NEW E, NEW ht, HoldsTable(ht, N, K, E), NEW n \in N
  PROVE  /\ \A e \in E : e.name = n => readHT(n, ht) = e
         /\ (\A e \in E : e.name # n) => readHT(n, ht) = Vacant
<1>1. CASE Capacity(ht) = 0
  <2>1. E = {}
    BY <1>1, TableFacts
  <2>. QED
    BY <1>1, <2>1 DEF readHT
<1>2. CASE Capacity(ht) # 0
  <2>1. /\ Capacity(ht) \in Nat \ {0} /\ Covers(Capacity(ht))
        /\ Cardinality(E) < Capacity(ht) /\ Holds(ht.slots, Capacity(ht), N, K, E)
    BY <1>2, TableFacts
  <2>2. readHT(n, ht) = ht.slots[findEntry(n, ht.slots)]
    BY <1>2 DEF readHT
  <2>. QED
    BY <2>1, <2>2, FindsIt
<1>. QED
  BY <1>1, <1>2
-----------------------------------------------------------------------------
(* The schema's file.                                                      *)

\* A file with the entries of E, each under a name of its own.
FileOf(file, N, K, E) ==
  /\ file \in Seq(Entry(N, K))
  /\ \A i, j \in DOMAIN file : file[i].name = file[j].name => i = j
  /\ E = {file[i] : i \in DOMAIN file}

\* Whatever is inserted, a table has slots and a count.
AnyTable(N, K) == [slots : Seq(Entry(N, K) \union {Vacant}), count : Int]

LEMMA InsertedAny ==
  ASSUME NEW N, NEW K, NEW e \in Entry(N, K), NEW ht \in AnyTable(N, K)
  PROVE  insertHT(e, ht) \in AnyTable(N, K)
<1> DEFINE X == Entry(N, K) \union {Vacant}
           C == Capacity(ht)
           tight == 10 * (ht.count + 1) > 8 * C
           roomy == IF tight THEN adjustCapacity(ht, Grown(C)) ELSE ht
<1>1. /\ ht = [slots |-> ht.slots, count |-> ht.count]
      /\ ht.slots \in Seq(X) /\ ht.count \in Int /\ C \in Nat
  BY DEF AnyTable, Capacity
<1>2. ht.slots \in SlotsOf(C, N, K)
  BY <1>1 DEF SlotsOf, Capacity
<1>3. insertHT(e, ht) = [slots |-> Put(roomy.slots, e), count |-> roomy.count + 1]
  BY DEF insertHT
<1>. HIDE DEF C, tight
<1>4. roomy.slots \in Seq(X) /\ roomy.count \in Int
  <2> DEFINE D == Grown(C)
  <2>1. D \in Nat
    BY <1>1, CapacityAssumption DEF Grown
  <2>. HIDE DEF D
  <2>2. PICK g : /\ g[C] \in SlotsOf(D, N, K)
                 /\ adjustCapacity(ht, D) = Refilled(ht, g[C])
    BY <1>1, <1>2, <2>1, PutLoop
  <2>3. g[C] \in Seq(X)
    BY <2>1, <2>2, SlotsLength
  <2>4. /\ adjustCapacity(ht, D).slots \in Seq(X)
        /\ adjustCapacity(ht, D).count \in Int
    BY <1>1, <2>2, <2>3 DEF Refilled
  <2>. QED
    BY <1>1, <2>4 DEF D
<1>. HIDE DEF roomy
<1>5. Put(roomy.slots, e) \in Seq(X)
  <2> DEFINE slots == roomy.slots
             n == Len(slots)
  <2>1. n \in Nat /\ slots \in [1 .. n -> X] /\ e \in X
    BY <1>4
  <2>. HIDE DEF n, slots, X
  <2>2. Put(slots, e) \in [1 .. n -> X]
    BY <2>1 DEF Put
  <2>3. Put(slots, e) \in Seq(X)
    BY <2>1, <2>2
  <2>. QED
    BY <2>3 DEF slots
<1>. QED
  BY <1>3, <1>4, <1>5 DEF AnyTable

\* Loading the file's entries one by one.
Loads(f, file) ==
  /\ f[0] = EmptyTable
  /\ \A i \in 1 .. Len(file) : f[i] = insertHT(file[i], f[i - 1])

LEMMA LoadLoop ==
  ASSUME NEW N, NEW K, NEW file \in Seq(Entry(N, K))
  PROVE  \E f : Loads(f, file) /\ loadSchema(file) = f[Len(file)]
<1> DEFINE S == AnyTable(N, K)
           n == Len(file)
           Loop(f) == f = [i \in 0 .. n |-> IF i = 0 THEN EmptyTable
                                            ELSE insertHT(file[i], f[i - 1])]
           step == [i \in 1 .. n |-> [x \in S |-> insertHT(file[i], x)]]
           l == CHOOSE f : Loop(f)
<1>1. n \in Nat /\ \A i \in 1 .. n : file[i] \in Entry(N, K)
  OBVIOUS
<1>2. EmptyTable \in S
  <2>1. EmptyTable = [slots |-> <<>>, count |-> 0]
    BY DEF EmptyTable
  <2>. QED
    BY <2>1 DEF AnyTable
<1>3. ASSUME NEW i \in 1 .. n, NEW x \in S PROVE insertHT(file[i], x) \in S
  BY <1>1, InsertedAny
<1>. HIDE DEF S, n
<1>4. step \in Steps(n, S)
  BY <1>3 DEF Steps
<1>5. ASSUME NEW i \in 1 .. n, NEW x \in S PROVE step[i][x] = insertHT(file[i], x)
  OBVIOUS
<1>. HIDE DEF step
<1>6. PICK f : Runs(f, n, S, EmptyTable, step)
  BY <1>1, <1>2, <1>4, Iteration
<1>7. ASSUME NEW i \in 1 .. n PROVE f[i] = insertHT(file[i], f[i - 1])
  <2>1. i - 1 \in 0 .. n
    BY <1>1
  <2>2. f[i - 1] \in S /\ f[i] = step[i][f[i - 1]]
    BY <1>6, <2>1 DEF Runs
  <2>. QED
    BY <1>5, <2>2
<1>8. Loop(f)
  <2>1. f \in [0 .. n -> S] /\ f[0] = EmptyTable
    BY <1>6 DEF Runs
  <2>2. f = [i \in 0 .. n |-> f[i]]
    BY <2>1
  <2>3. \A i \in 0 .. n : f[i] = IF i = 0 THEN EmptyTable ELSE insertHT(file[i], f[i - 1])
    BY <1>1, <1>7, <2>1
  <2>. QED
    BY <2>2, <2>3
<1>. HIDE DEF Loop
<1>9. Loop(l)
  BY <1>8
<1>10. loadSchema(file) = l[n]
  BY DEF loadSchema, Loop, n
<1>. HIDE DEF l
<1>11. /\ \A i \in 0 .. n : l[i] = IF i = 0 THEN EmptyTable ELSE insertHT(file[i], l[i - 1])
  BY <1>9 DEF Loop
<1>12. l[0] = EmptyTable /\ \A i \in 1 .. n : l[i] = insertHT(file[i], l[i - 1])
  BY <1>1, <1>11
<1>. QED
  BY <1>10, <1>12 DEF Loads, n

(***************************************************************************)
(* The table loaded from a file, whatever its length, holds the file's     *)
(* entries (loadSchema, readEntries).                                      *)
(***************************************************************************)
THEOREM Loaded ==
  ASSUME NEW N, Hashed(N), NEW K, NEW E, NEW file, FileOf(file, N, K, E)
  PROVE  HoldsTable(loadSchema(file), N, K, E)
<1> DEFINE n == Len(file)
           Read(i) == {file[j] : j \in 1 .. i}
<1>1. /\ file \in Seq(Entry(N, K)) /\ n \in Nat /\ DOMAIN file = 1 .. n
      /\ \A i \in 1 .. n : file[i] \in Entry(N, K)
      /\ \A i, j \in 1 .. n : file[i].name = file[j].name => i = j
      /\ E = Read(n)
  BY DEF FileOf
<1>2. PICK f : Loads(f, file) /\ loadSchema(file) = f[n]
  BY <1>1, LoadLoop
<1>. HIDE DEF n
<1> DEFINE T == {i \in 0 .. n : HoldsTable(f[i], N, K, Read(i))}
<1>3. 0 \in T
  <2>1. Read(0) = {} /\ f[0] = EmptyTable
    BY <1>2 DEF Loads
  <2>. HIDE DEF Read
  <2>2. HoldsTable(f[0], N, K, Read(0))
    BY <2>1, NoEntries
  <2>. QED
    BY <1>1, <2>2
<1>4. ASSUME NEW i \in 1 .. n, i - 1 \in T PROVE i \in T
  <2>1. HoldsTable(f[i - 1], N, K, Read(i - 1))
    BY <1>4
  <2>2. f[i] = insertHT(file[i], f[i - 1]) /\ file[i] \in Entry(N, K)
    BY <1>1, <1>2 DEF Loads, n
  <2>3. Read(i) = Read(i - 1) \union {file[i]}
    BY <1>1
  <2>4. \A x \in Read(i - 1) : x.name # file[i].name
    BY <1>1
  <2>. HIDE DEF Read
  <2>5. HoldsTable(insertHT(file[i], f[i - 1]), N, K, Read(i - 1) \union {file[i]})
    BY <2>1, <2>2, <2>4, Inserted
  <2>6. HoldsTable(f[i], N, K, Read(i))
    BY <2>2, <2>3, <2>5
  <2>. QED
    BY <1>1, <2>6
<1>5. 0 .. n \subseteq T
  <2>. HIDE DEF T
  <2>. QED
    BY <1>1, <1>3, <1>4, CountingUpTo
<1>6. HoldsTable(f[n], N, K, Read(n))
  <2>1. n \in 0 .. n
    BY <1>1
  <2>2. n \in T
    BY <1>5, <2>1
  <2>. QED
    BY <2>2
<1>. QED
  BY <1>1, <1>2, <1>6

\* The file written from slots whose entries have names of their own.
Apart(slots) ==
  \A i, j \in Taken(slots) : slots[i].name = slots[j].name => i = j
Writes(f, slots) ==
  /\ f[0] = <<>>
  /\ \A i \in 1 .. Len(slots) : f[i] = IF slots[i] = Vacant THEN f[i - 1]
                                      ELSE Append(f[i - 1], slots[i])

LEMMA WriteLoop ==
  ASSUME NEW C \in Nat, NEW N, NEW K, NEW ht, ht.slots \in SlotsOf(C, N, K)
  PROVE  \E f : Writes(f, ht.slots) /\ serializeSchema(ht) = f[C]
<1> DEFINE S == Seq(Entry(N, K))
           Step(i, x) == IF ht.slots[i] = Vacant THEN x ELSE Append(x, ht.slots[i])
           Loop(f) == f = [i \in 0 .. Capacity(ht) |->
                             IF i = 0 THEN <<>>
                             ELSE IF ht.slots[i] = Vacant THEN f[i - 1]
                             ELSE Append(f[i - 1], ht.slots[i])]
           step == [i \in 1 .. C |-> [x \in S |-> Step(i, x)]]
           l == CHOOSE f : Loop(f)
<1>1. /\ Capacity(ht) = C /\ Len(ht.slots) = C
      /\ \A i \in 1 .. C : ht.slots[i] \in Entry(N, K) \union {Vacant}
  BY SlotsLength DEF Capacity
<1>2. <<>> \in S
  OBVIOUS
<1>3. ASSUME NEW i \in 1 .. C, NEW x \in S PROVE Step(i, x) \in S
  <2>1. ht.slots[i] \in Entry(N, K) \union {Vacant}
    BY <1>1
  <2>. QED
    BY <2>1
<1>. HIDE DEF S, Step
<1>4. step \in Steps(C, S)
  BY <1>3 DEF Steps
<1>5. ASSUME NEW i \in 1 .. C, NEW x \in S PROVE step[i][x] = Step(i, x)
  OBVIOUS
<1>. HIDE DEF step
<1>6. PICK f : Runs(f, C, S, <<>>, step)
  BY <1>2, <1>4, Iteration
<1>7. ASSUME NEW i \in 1 .. C PROVE f[i] = Step(i, f[i - 1])
  <2>1. i - 1 \in 0 .. C
    OBVIOUS
  <2>2. f[i - 1] \in S /\ f[i] = step[i][f[i - 1]]
    BY <1>6, <2>1 DEF Runs
  <2>. QED
    BY <1>5, <2>2
<1>8. Loop(f)
  <2>1. f \in [0 .. C -> S] /\ f[0] = <<>>
    BY <1>6 DEF Runs
  <2>2. f = [i \in 0 .. C |-> f[i]]
    BY <2>1
  <2>3. \A i \in 0 .. C : f[i] = IF i = 0 THEN <<>> ELSE Step(i, f[i - 1])
    BY <1>7, <2>1
  <2>. QED
    BY <1>1, <2>2, <2>3 DEF Step
<1>. HIDE DEF Loop
<1>9. Loop(l)
  BY <1>8
<1>10. serializeSchema(ht) = l[C]
  BY <1>1 DEF serializeSchema, Loop
<1>. HIDE DEF l
<1>11. \A i \in 0 .. C : l[i] = IF i = 0 THEN <<>> ELSE Step(i, l[i - 1])
  BY <1>1, <1>9 DEF Loop, Step
<1>12. l[0] = <<>> /\ \A i \in 1 .. C : l[i] = Step(i, l[i - 1])
  BY <1>11
<1>. QED
  BY <1>1, <1>10, <1>12 DEF Writes, Step

\* An entry of a new name at the end of a file.
LEMMA Appended ==
  ASSUME NEW N, NEW K, NEW E, NEW file, FileOf(file, N, K, E),
         NEW e \in Entry(N, K), \A x \in E : x.name # e.name
  PROVE  FileOf(Append(file, e), N, K, E \union {e})
<1> DEFINE n == Len(file)
           new == Append(file, e)
<1>1. /\ file \in Seq(Entry(N, K)) /\ n \in Nat /\ DOMAIN file = 1 .. n
      /\ E = {file[i] : i \in 1 .. n}
      /\ \A i, j \in 1 .. n : file[i].name = file[j].name => i = j
  BY DEF FileOf
<1>2. /\ new \in Seq(Entry(N, K)) /\ DOMAIN new = 1 .. n + 1
      /\ \A i \in 1 .. n : new[i] = file[i]
      /\ new[n + 1] = e
  BY <1>1
<1>. HIDE DEF n, new
<1>3. \A i \in 1 .. n : file[i].name # e.name
  BY <1>1
<1>4. \A i, j \in 1 .. n + 1 : new[i].name = new[j].name => i = j
  <2>1. \A i \in 1 .. n + 1 : i \in 1 .. n \/ i = n + 1
    BY <1>1
  <2>. QED
    BY <1>1, <1>2, <1>3, <2>1
<1>5. E \union {e} = {new[i] : i \in 1 .. n + 1}
  <2>1. \A i \in 1 .. n + 1 : i \in 1 .. n \/ i = n + 1
    BY <1>1
  <2>2. 1 .. n \subseteq 1 .. n + 1 /\ n + 1 \in 1 .. n + 1
    BY <1>1
  <2>. QED
    BY <1>1, <1>2, <2>1, <2>2
<1>. QED
  BY <1>2, <1>4, <1>5 DEF FileOf, new

LEMMA Serialized ==
  ASSUME NEW C \in Nat, NEW N, NEW K, NEW ht, NEW slots, slots = ht.slots,
         slots \in SlotsOf(C, N, K), Apart(slots)
  PROVE  FileOf(serializeSchema(ht), N, K, {slots[i] : i \in Taken(slots)})
<1>1. PICK f : Writes(f, slots) /\ serializeSchema(ht) = f[C]
  BY WriteLoop
<1>2. /\ DOMAIN slots = 1 .. C /\ Len(slots) = C
      /\ \A i \in 1 .. C : slots[i] \in Entry(N, K) \union {Vacant}
  BY SlotsLength
<1> DEFINE T == {i \in 0 .. C : FileOf(f[i], N, K, UpTo(slots, i))}
<1>3. 0 \in T
  <2>1. UpTo(slots, 0) = {} /\ f[0] = <<>>
    BY <1>1, <1>2 DEF UpTo, Taken, Writes
  <2>2. FileOf(<<>>, N, K, {})
    BY DEF FileOf
  <2>3. FileOf(f[0], N, K, UpTo(slots, 0))
    BY <2>1, <2>2
  <2>. QED
    BY <2>3
<1>4. ASSUME NEW i \in 1 .. C, i - 1 \in T PROVE i \in T
  <2>1. FileOf(f[i - 1], N, K, UpTo(slots, i - 1))
    BY <1>4
  <2>2. f[i] = IF slots[i] = Vacant THEN f[i - 1] ELSE Append(f[i - 1], slots[i])
    BY <1>1, <1>2 DEF Writes
  <2>3. FileOf(f[i], N, K, UpTo(slots, i))
    <3>1. CASE slots[i] = Vacant
      <4>1. {k \in Taken(slots) : k <= i} = {k \in Taken(slots) : k <= i - 1}
        BY <1>2, <3>1 DEF Taken
      <4>2. UpTo(slots, i) = UpTo(slots, i - 1)
        BY <4>1 DEF UpTo
      <4>. QED
        BY <2>1, <2>2, <3>1, <4>2
    <3>2. CASE slots[i] # Vacant
      <4>1. i \in Taken(slots) /\ slots[i] \in Entry(N, K)
        BY <1>2, <3>2 DEF Taken
      <4>2. {k \in Taken(slots) : k <= i} = {k \in Taken(slots) : k <= i - 1} \union {i}
        BY <1>2, <4>1 DEF Taken
      <4>3. UpTo(slots, i) = UpTo(slots, i - 1) \union {slots[i]}
        BY <4>2 DEF UpTo
      <4>4. \A x \in UpTo(slots, i - 1) : x.name # slots[i].name
        <5>1. SUFFICES ASSUME NEW k \in Taken(slots), k <= i - 1
              PROVE slots[k].name # slots[i].name
          BY DEF UpTo
        <5>2. k # i
          BY <1>2, <5>1 DEF Taken
        <5>. QED
          BY <4>1, <5>1, <5>2 DEF Apart
      <4>. QED
        BY <2>1, <2>2, <3>2, <4>1, <4>3, <4>4, Appended
    <3>. QED
      BY <3>1, <3>2
  <2>. QED
    BY <2>3
<1>5. 0 .. C \subseteq T
  <2>. HIDE DEF T
  <2>. QED
    BY <1>3, <1>4, CountingUpTo
<1>6. C \in 0 .. C
  OBVIOUS
<1>7. FileOf(f[C], N, K, UpTo(slots, C))
  BY <1>5, <1>6
<1>8. UpTo(slots, C) = {slots[i] : i \in Taken(slots)}
  <2>1. {k \in Taken(slots) : k <= C} = Taken(slots)
    BY <1>2 DEF Taken
  <2>. QED
    BY <2>1 DEF UpTo
<1>. QED
  BY <1>1, <1>7, <1>8

\* The file written from a table that is whole.
LEMMA FileWritten ==
  ASSUME NEW N, Hashed(N), NEW K, NEW E, NEW ht, HoldsTable(ht, N, K, E)
  PROVE  FileOf(serializeSchema(ht), N, K, E)
<1> DEFINE slots == ht.slots
<1>1. Capacity(ht) \in Nat /\ Holds(slots, Capacity(ht), N, K, E)
  BY TableFacts
<1>. HIDE DEF slots
<1>2. /\ slots \in SlotsOf(Capacity(ht), N, K) /\ Apart(slots)
      /\ E = {slots[i] : i \in Taken(slots)}
  BY <1>1 DEF Holds, Apart
<1>3. slots = ht.slots
  BY DEF slots
<1>. QED
  BY <1>1, <1>2, <1>3, Serialized

(***************************************************************************)
(* The file written after a deletion lists all other entries.  The hole    *)
(* that deleteHT leaves may hide some of them from findEntry, but not from *)
(* writeEntries.                                                           *)
(***************************************************************************)
THEOREM FileWrittenWithout ==
  ASSUME NEW N, Hashed(N), NEW K, NEW E, NEW ht, HoldsTable(ht, N, K, E), NEW n \in N
  PROVE  FileOf(serializeSchema(deleteHT(n, ht)), N, K, {e \in E : e.name # n})
<1> DEFINE C == Capacity(ht)
           old == ht.slots
<1>1. /\ C \in Nat /\ Holds(old, C, N, K, E)
      /\ C = 0 => E = {}
      /\ C # 0 => C \in Nat \ {0} /\ Covers(C) /\ Cardinality(E) < C
  BY TableFacts
<1>2. CASE C = 0
  <2>1. deleteHT(n, ht) = ht /\ E = {}
    BY <1>1, <1>2 DEF deleteHT
  <2>2. {e \in E : e.name # n} = E
    BY <2>1
  <2>. QED
    BY <2>1, <2>2, FileWritten
<1>3. CASE C # 0
  <2> DEFINE p == findEntry(n, old)
             slots == [old EXCEPT ![p] = Vacant]
             new == deleteHT(n, ht)
  <2>1. new.slots = slots
    <3>1. ht = [slots |-> ht.slots, count |-> ht.count]
      BY DEF HoldsTable
    <3>2. new = [ht EXCEPT !.slots[p] = Vacant]
      BY <1>3 DEF deleteHT
    <3>. QED
      BY <3>1, <3>2
  <2>. HIDE DEF C, old
  <2>2. /\ p \in 1 .. C
        /\ \A e \in E : e.name = n => old[p] = e
        /\ (\A e \in E : e.name # n) => old[p] = Vacant
    BY <1>1, <1>3, FindsIt
  <2>3. /\ DOMAIN old = 1 .. C
        /\ \A i \in 1 .. C : old[i] \in Entry(N, K) \union {Vacant}
        /\ old \in SlotsOf(C, N, K)
        /\ E = {old[i] : i \in Taken(old)}
    BY <1>1, SlotsLength DEF Holds
  <2>4. Apart(old)
    BY <1>1 DEF Holds, Apart
  <2>. HIDE DEF p
  <2>5. slots \in SlotsOf(C, N, K)
    BY <2>3 DEF SlotsOf
  <2>6. Taken(slots) = Taken(old) \ {p} /\ \A i \in Taken(slots) : slots[i] = old[i]
    BY <2>2, <2>3 DEF Taken
  <2>7. Apart(slots)
    BY <2>4, <2>6 DEF Apart
  <2>8. {slots[i] : i \in Taken(slots)} = {e \in E : e.name # n}
    <3>1. ASSUME NEW i \in Taken(slots) PROVE slots[i] \in {e \in E : e.name # n}
      <4>1. i \in Taken(old) /\ i # p /\ slots[i] = old[i] /\ old[i] \in E
        BY <2>3, <2>6
      <4>2. CASE old[i].name = n
        <5>1. old[p] = old[i]
          BY <2>2, <4>1, <4>2
        <5>2. p \in Taken(old)
          BY <2>2, <2>3, <4>1, <5>1 DEF Taken
        <5>. QED
          BY <2>4, <4>1, <5>1, <5>2 DEF Apart
      <4>. QED
        BY <4>1, <4>2
    <3>2. ASSUME NEW e \in E, e.name # n PROVE \E i \in Taken(slots) : e = slots[i]
      <4>1. PICK i \in Taken(old) : e = old[i]
        BY <2>3
      <4>2. i # p
        <5>1. CASE \E x \in E : x.name = n
          BY <2>2, <3>2, <4>1, <5>1
        <5>2. CASE \A x \in E : x.name # n
          BY <2>2, <4>1, <5>2 DEF Taken
        <5>. QED
          BY <5>1, <5>2
      <4>. QED
        BY <2>6, <4>1, <4>2
    <3>. QED
      BY <3>1, <3>2
  <2>9. C \in Nat
    BY <1>1
  <2>. HIDE DEF slots, new
  <2>10. FileOf(serializeSchema(new), N, K, {slots[i] : i \in Taken(slots)})
    BY <2>1, <2>5, <2>7, <2>9, Serialized
  <2>. QED
    BY <2>8, <2>10 DEF new
<1>. QED
  BY <1>2, <1>3

\* A file is as long as it has entries.
LEMMA FileLength ==
  ASSUME NEW N, NEW K, NEW E, NEW file, FileOf(file, N, K, E)
  PROVE  /\ IsFiniteSet(E) /\ Cardinality(E) = Len(file)
         /\ Cardinality({e.name : e \in E}) = Len(file)
         /\ \A x, y \in E : x.name = y.name => x = y
<1>1. /\ file \in Seq(Entry(N, K)) /\ Len(file) \in Nat /\ DOMAIN file = 1 .. Len(file)
      /\ E = {file[i] : i \in 1 .. Len(file)}
      /\ \A i, j \in 1 .. Len(file) : file[i].name = file[j].name => i = j
  BY DEF FileOf
<1>2. IsFiniteSet(1 .. Len(file)) /\ Cardinality(1 .. Len(file)) = Len(file)
  BY <1>1, FS_Interval
<1>3. \A i, j \in 1 .. Len(file) : file[i] = file[j] => i = j
  BY <1>1
<1>4. IsFiniteSet(E) /\ Cardinality(E) = Len(file)
  BY <1>1, <1>2, <1>3, ValuesCounted
<1>5. \A x, y \in E : x.name = y.name => x = y
  BY <1>1
<1> DEFINE f == [e \in E |-> e.name]
           names == {e.name : e \in E}
<1>6. names = {f[e] : e \in E} /\ E \subseteq DOMAIN f
      /\ \A x, y \in E : f[x] = f[y] => x = y
  BY <1>5
<1>. HIDE DEF f
<1>7. Cardinality({f[e] : e \in E}) = Cardinality(E)
  BY <1>4, <1>6, ValuesCounted
<1>. QED
  BY <1>4, <1>5, <1>6, <1>7

(***************************************************************************)
(* In a table made by loading and inserting every entry is found, and the  *)
(* search for a name it does not have ends: findEntry, which has no other  *)
(* bound, meets a vacant slot.                                             *)
(***************************************************************************)
THEOREM SearchesEnd ==
  ASSUME NEW N, Hashed(N), NEW K, NEW E, NEW ht, HoldsTable(ht, N, K, E)
  PROVE  Findable(ht) /\ SearchEnds(ht, N)
<1> DEFINE C == Capacity(ht)
           slots == ht.slots
<1>1. /\ C \in Nat /\ Holds(slots, C, N, K, E)
      /\ C # 0 => C \in Nat \ {0} /\ Covers(C) /\ Cardinality(E) < C
  BY TableFacts
<1>2. Findable(ht)
  BY <1>1 DEF Holds, Findable, Taken
<1>3. ASSUME C > 0, NEW n \in N
      PROVE  \E s \in 0 .. 2 * C : slots[Probe(n, C, s)].name \in {n, NoName}
  <2>1. C \in Nat \ {0} /\ Covers(C) /\ Cardinality(E) < C
    BY <1>1, <1>3
  <2>. HIDE DEF C, slots
  <2>2. PICK s : FirstStop(n, slots, C, s)
    BY <1>1, <2>1, FindsIt
  <2>. QED
    BY <2>2 DEF FirstStop, Stop
<1>. QED
  BY <1>1, <1>2, <1>3 DEF SearchEnds

(***************************************************************************)
(* The program.                                                            *)
(***************************************************************************)
(* Ordering keys, for every width of a word.                               *)

\* Flipping the sign bit moves every integer up by half the words there are.
LEMMA KeyMoved ==
  ASSUME NEW pk \in Signed
  PROVE  pkToOk(pk) = pk + SignBit
<1>1. SignBit \in Nat \ {0}
  BY SignBitAssumption
<1>2. CASE pk >= 0
  <2>1. pk % (2 * SignBit) = pk
    BY <1>1, <1>2 DEF Signed
  <2>. QED
    BY <1>1, <1>2, <2>1 DEF Signed, pkToOk, AsUnsigned
<1>3. CASE pk < 0
  <2>1. pk % (2 * SignBit) = pk + 2 * SignBit
    BY <1>1, <1>3 DEF Signed
  <2>. QED
    BY <1>1, <1>3, <2>1 DEF Signed, pkToOk, AsUnsigned
<1>. QED
  BY <1>2, <1>3 DEF Signed

(***************************************************************************)
(* Ordering keys compare the way their primary keys do, and two primary    *)
(* keys have the same ordering key only if they are equal, from the        *)
(* smallest integer of a word to the largest (pkToOk,                      *)
(* compareOrderingKeys).                                                   *)
(***************************************************************************)
THEOREM KeysKeepTheirOrder ==
  \A a, b \in Signed :
    /\ pkToOk(a) \in 0 .. 2 * SignBit - 1
    /\ (compareOrderingKeys(pkToOk(a), pkToOk(b)) = -1) <=> a < b
    /\ (compareOrderingKeys(pkToOk(a), pkToOk(b)) = 0) <=> a = b
<1> SUFFICES ASSUME NEW a \in Signed, NEW b \in Signed
    PROVE  /\ pkToOk(a) \in 0 .. 2 * SignBit - 1
           /\ (compareOrderingKeys(pkToOk(a), pkToOk(b)) = -1) <=> a < b
           /\ (compareOrderingKeys(pkToOk(a), pkToOk(b)) = 0) <=> a = b
  OBVIOUS
<1>1. SignBit \in Nat \ {0}
  BY SignBitAssumption
<1>2. pkToOk(a) = a + SignBit /\ pkToOk(b) = b + SignBit
  BY KeyMoved
<1>. QED
  BY <1>1, <1>2 DEF Signed, compareOrderingKeys

\* So of some keys there is a first.
LEMMA FirstKey ==
  ASSUME NEW S, S \subseteq Key, S # {}
  PROVE  First(S) \in S
<1>1. S \in SUBSET Nat
  <2>1. ASSUME NEW k \in Key PROVE k \in Nat
    <3>1. PICK pk \in Signed : k = pkToOk(pk)
      BY KeyAssumption
    <3>2. pkToOk(pk) \in 0 .. 2 * SignBit - 1
      BY KeysKeepTheirOrder
    <3>. QED
      BY <3>1, <3>2, SignBitAssumption
  <2>. QED
    BY <2>1
<1>2. PICK k \in S : \A j \in S : k <= j
  BY <1>1, LeastNumber
<1>3. \A j \in S : compareOrderingKeys(k, j) # 1
  BY <1>1, <1>2 DEF compareOrderingKeys
<1>. QED
  BY <1>3 DEF First
-----------------------------------------------------------------------------
(* The inductive invariant: the machine.                                   *)

IsMachine(m) ==
  m = [code |-> m.code, ip |-> m.ip, stack |-> m.stack, rows |-> m.rows,
       print |-> m.print, failed |-> m.failed, cursor |-> m.cursor, ddl |-> m.ddl]

\* A scan's place, given the scanner.
Placed(place, sc) ==
  /\ place.place \in {"unstarted", "row", "end"}
  /\ place.place = "row" => sc # Nil /\ place.key \in Key

\* The operands are data, but for a name on top where one is known to be.
Operands(stack, named) ==
  /\ ~named => stack \in Seq(Datum)
  /\ named => \E front \in Seq(Datum), t \in Table : stack = Append(front, NameVal(t))

\* What is known of the machine before an instruction is so.
Fits(stack, place, sc, shape) ==
  /\ Len(stack) = shape.depth
  /\ Operands(stack, shape.named)
  /\ shape.scan => sc # Nil
  /\ ~shape.scan => sc = Nil
  /\ shape.row => place.place = "row"

\* The code of CREATE TABLE and DROP TABLE, and that of CREATE and DROP of
\* anything else.
TableCode ==
  {<<[op |-> op, arg |-> t], [op |-> "HALT", arg |-> 0]>> :
     op \in {"CREATE_TABLE", "DROP_TABLE"}, t \in Table}
  \union {<<[op |-> "HALT", arg |-> 0]>>}

Running(m, sc) ==
  /\ m.ip \in DOMAIN m.code /\ m.ip \in Int
  /\ Placed(m.cursor, sc)
  /\ m.ddl => m.code \in TableCode /\ sc = Nil /\ m.stack = <<>>
  /\ ~m.ddl => Sound(Table, m.code)
  /\ ~m.ddl /\ ~m.failed => Fits(m.stack, m.cursor, sc, Shapes(Table, m.code)[m.ip])

MachineInv ==
  /\ IsMachine(vm)
  /\ vm.cursor.place \in {"unstarted", "row", "end"}
  /\ phase = "run" => Running(vm, scanner)
  /\ phase # "run" => scanner = Nil
-----------------------------------------------------------------------------
(* The machine's data.                                                     *)

LEMMA Data ==
  /\ NullVal \in Datum
  /\ \A b \in BOOLEAN : BoolVal(b) \in Datum
  /\ \A n \in Int : IntVal(n) \in Datum
  /\ Storable \subseteq Datum /\ Stray \subseteq Datum
  /\ \A v \in Datum : IsInt(v) => v[2] \in Int
BY MachineAssumption DEF Datum, Storable, NullVal, BoolVal, IntVal, IsInt

\* A row keeps what can be kept.
LEMMA StoredValue ==
  ASSUME NEW v \in Datum
  PROVE  Stored(v) \in Storable
<1>1. CASE v \in {"int"} \X Int
  <2>1. v[1] = "int" /\ v[2] \in Int
    BY <1>1
  <2>2. Truncate(v[2]) \in Int
    BY <2>1, HalfRangeAssumption DEF Truncate
  <2>. QED
    BY <2>1, <2>2 DEF Stored, IsInt, IntVal, Storable
<1>2. CASE v \in {"text"} \X Seq(STRING)
  BY <1>2 DEF Stored, IsInt, Storable
<1>3. CASE v = NullVal
  BY <1>3 DEF Stored, IsInt, Storable, NullVal
<1>4. CASE v \in {"bool"} \X BOOLEAN
  BY <1>4 DEF Stored, IsInt, IntVal, Storable
<1>. QED
  BY <1>1, <1>2, <1>3, <1>4 DEF Datum, Storable

\* The stack without its top operands.
LEMMA BelowTop ==
  ASSUME NEW S, NEW stack \in Seq(S), NEW n \in Nat, Len(stack) >= n
  PROVE  /\ SubSeq(stack, 1, Len(stack) - n) \in Seq(S)
         /\ Len(SubSeq(stack, 1, Len(stack) - n)) = Len(stack) - n
         /\ n = 0 => SubSeq(stack, 1, Len(stack) - n) = stack
         /\ \A i \in 0 .. Len(stack) - 1 : stack[Len(stack) - i] \in S
OBVIOUS
-----------------------------------------------------------------------------
(* What an instruction takes and leaves.                                   *)

LEMMA Effects ==
  ASSUME NEW i
  PROVE  /\ i.op \in Binaries => Pops(i) = 2 /\ Results(i) = 1
         /\ i.op \in Unaries => Pops(i) = 1 /\ Results(i) = 1
         /\ i.op \in Pushes => Pops(i) = 0 /\ Results(i) = 1
         /\ i.op \in Consumers => Pops(i) = 1 /\ Results(i) = 0
         /\ i.op \in RowsOf => Pops(i) = i.arg /\ Results(i) = 0
         /\ i.op \in Bare \union {"JUMP", "NEXT"} => Pops(i) = 0 /\ Results(i) = 0
BY DEF Pops, Results, Binaries, Unaries, Pushes, Consumers, RowsOf, Bare

\* What is known after an instruction, and where another comes after it.
AfterHere(jumps) ==
  After(Table, vm.code[vm.ip], Shapes(Table, vm.code)[vm.ip], jumps)
Before == Shapes(Table, vm.code)[vm.ip]
Executing == Running(vm, scanner) /\ ~vm.ddl /\ ~vm.failed

LEMMA Here ==
  ASSUME Executing
  PROVE  /\ WellFormed(Table, vm.code[vm.ip]) /\ Ready(vm.code[vm.ip], Before)
         /\ Fits(vm.stack, vm.cursor, scanner, Before) /\ Placed(vm.cursor, scanner)
         /\ \A next \in Successors(vm.code[vm.ip], vm.ip) :
              LET s == AfterHere(next.jumps)
                  t == Shapes(Table, vm.code)[next.to]
              IN  /\ next.to \in DOMAIN vm.code
                  /\ t.depth = s.depth /\ t.named = s.named /\ t.scan = s.scan
                  /\ t.row => s.row
<1>1. Fits(vm.stack, vm.cursor, scanner, Before) /\ Placed(vm.cursor, scanner)
  BY DEF Executing, Running, Before
<1>2. Before # Unreached
  <2>1. Before.depth = Len(vm.stack) /\ Len(vm.stack) \in Nat
    <3>1. vm.stack \in Seq(Datum) \/ \E front \in Seq(Datum), t \in Table :
                                       vm.stack = Append(front, NameVal(t))
      BY <1>1 DEF Fits, Operands
    <3>2. Len(vm.stack) \in Nat
      BY <3>1
    <3>. QED
      BY <1>1, <3>2 DEF Fits
  <2>2. Unreached.depth = -1
    BY DEF Unreached, AtStart
  <2>. QED
    BY <2>1, <2>2
<1>3. SoundAs(Table, vm.code, Shapes(Table, vm.code)) /\ vm.ip \in DOMAIN vm.code
  BY DEF Executing, Running, Sound
<1>. QED
  BY <1>1, <1>2, <1>3 DEF SoundAs, Before, AfterHere

\* The operands there are.
LEMMA OperandsHere ==
  ASSUME Executing, NEW i, i = vm.code[vm.ip]
  PROVE  /\ Len(vm.stack) = Before.depth /\ Len(vm.stack) \in Nat
         /\ i.op # "OPEN_SCAN" => vm.stack \in Seq(Datum)
         /\ i.op = "OPEN_SCAN" => \E front \in Seq(Datum), t \in Table :
                                    vm.stack = Append(front, NameVal(t))
         /\ Len(vm.stack) >= Pops(i)
<1>1. Ready(i, Before) /\ Fits(vm.stack, vm.cursor, scanner, Before)
  BY Here
<1>2. /\ i.op # "OPEN_SCAN" => ~Before.named
      /\ i.op = "OPEN_SCAN" => Before.named
  BY <1>1 DEF Ready
<1>3. /\ i.op # "OPEN_SCAN" => vm.stack \in Seq(Datum)
      /\ i.op = "OPEN_SCAN" => \E front \in Seq(Datum), t \in Table :
                                 vm.stack = Append(front, NameVal(t))
  BY <1>1, <1>2 DEF Fits, Operands
<1>4. Len(vm.stack) \in Nat
  BY <1>3
<1>. QED
  BY <1>1, <1>3, <1>4 DEF Fits, Ready

\* The next instruction after this one, or after a jump, finds what it needs.
LEMMA Follows ==
  ASSUME Executing, NEW i, i = vm.code[vm.ip], NEW jumps \in BOOLEAN,
         jumps => i.op \in Jumps, ~jumps => i.op \notin {"JUMP", "HALT"},
         NEW m, NEW sc, m.code = vm.code, ~m.ddl,
         m.ip = IF jumps THEN vm.ip + 1 + i.arg ELSE vm.ip + 1,
         Placed(m.cursor, sc), Fits(m.stack, m.cursor, sc, AfterHere(jumps))
  PROVE  Running(m, sc)
<1> DEFINE next == [to |-> m.ip, jumps |-> jumps]
           s == AfterHere(jumps)
           t == Shapes(Table, vm.code)[m.ip]
<1>1. next \in Successors(i, vm.ip)
  BY DEF Successors
<1>2. next.jumps = jumps /\ next.to = m.ip
  OBVIOUS
<1>. HIDE DEF next
<1>3. /\ m.ip \in DOMAIN vm.code
      /\ t.depth = s.depth /\ t.named = s.named /\ t.scan = s.scan
      /\ t.row => s.row
  BY <1>1, <1>2, Here
<1>4. Fits(m.stack, m.cursor, sc, t)
  <2>. HIDE DEF s, t
  <2>1. Fits(m.stack, m.cursor, sc, s)
    BY DEF s
  <2>. QED
    BY <1>3, <2>1 DEF Fits, Operands
<1>5. Sound(Table, m.code) /\ vm.ip \in Int
  BY DEF Executing, Running
<1>6. m.ip \in Int
  <2>1. CASE jumps
    <3>1. i.op \in Jumps /\ WellFormed(Table, i)
      BY <2>1, Here
    <3>2. i.arg \in Int
      BY <3>1 DEF WellFormed, Jumps
    <3>. QED
      BY <1>5, <2>1, <3>2
  <2>2. CASE ~jumps
    BY <1>5, <2>2
  <2>. QED
    BY <2>1, <2>2
<1>. QED
  BY <1>3, <1>4, <1>5, <1>6 DEF Running

LEMMA AfterIs ==
  ASSUME NEW jumps \in BOOLEAN, NEW i, i = vm.code[vm.ip]
  PROVE  /\ AfterHere(jumps).depth = (Before.depth - Pops(i)) + Results(i)
         /\ AfterHere(jumps).named <=> IsName(Table, i)
         /\ AfterHere(jumps).scan <=>
              (i.op = "OPEN_SCAN" \/ (Before.scan /\ i.op # "CLOSE_SCAN"))
         /\ i.op \in {"NEXT", "KEY_SEARCH"} => (AfterHere(jumps).row <=> ~jumps)
         /\ i.op \notin {"NEXT", "KEY_SEARCH"} =>
              (AfterHere(jumps).row <=>
                 (Before.row /\ i.op \notin {"REWIND", "DELETE_ROW", "CLOSE_SCAN"}))
BY DEF AfterHere, After, Before

\* After an instruction that leaves a value.
LEMMA Computed ==
  ASSUME Executing, NEW i, i = vm.code[vm.ip],
         i.op \in Binaries \union Unaries \union Pushes,
         NEW v, ~IsName(Table, i) => v \in Datum, IsName(Table, i) => v = i.arg,
         NEW m, m.code = vm.code, ~m.ddl, m.ip = vm.ip + 1, m.cursor = vm.cursor,
         m.stack = Append(SubSeq(vm.stack, 1, Len(vm.stack) - Pops(i)), v)
  PROVE  Running(m, scanner)
<1>1. i.op \notin {"JUMP", "HALT", "OPEN_SCAN", "CLOSE_SCAN", "NEXT", "KEY_SEARCH",
                   "REWIND", "DELETE_ROW"}
  BY DEF Binaries, Unaries, Pushes
<1>2. Results(i) = 1 /\ Pops(i) \in Nat
  BY Effects
<1>3. /\ vm.stack \in Seq(Datum) /\ Len(vm.stack) = Before.depth
      /\ Len(vm.stack) >= Pops(i)
  BY <1>1, OperandsHere
<1>4. Fits(vm.stack, vm.cursor, scanner, Before) /\ Placed(vm.cursor, scanner)
  BY Here
<1> DEFINE front == SubSeq(vm.stack, 1, Len(vm.stack) - Pops(i))
<1>5. front \in Seq(Datum) /\ Len(front) = Len(vm.stack) - Pops(i)
  BY <1>2, <1>3, BelowTop
<1>. HIDE DEF front
<1>6. m.stack = Append(front, v) /\ Len(m.stack) = Len(front) + 1
  BY <1>5 DEF front
<1>7. Operands(m.stack, AfterHere(FALSE).named)
  <2>1. CASE IsName(Table, i)
    <3>1. PICK t \in Table : v = NameVal(t)
      BY <2>1 DEF IsName
    <3>. QED
      BY <1>5, <1>6, <2>1, <3>1, AfterIs DEF Operands
  <2>2. CASE ~IsName(Table, i)
    <3>1. v \in Datum
      BY <2>2
    <3>2. Append(front, v) \in Seq(Datum)
      BY <1>5, <3>1
    <3>3. m.stack \in Seq(Datum)
      BY <1>6, <3>2
    <3>. QED
      BY <2>2, <3>3, AfterIs DEF Operands
  <2>. QED
    BY <2>1, <2>2
<1>8. Len(m.stack) = AfterHere(FALSE).depth
  BY <1>2, <1>3, <1>5, <1>6, AfterIs
<1>9. /\ AfterHere(FALSE).scan <=> Before.scan
      /\ AfterHere(FALSE).row <=> Before.row
  BY <1>1, AfterIs
<1>10. Fits(m.stack, m.cursor, scanner, AfterHere(FALSE))
  BY <1>4, <1>7, <1>8, <1>9 DEF Fits
<1>. QED
  BY <1>1, <1>4, <1>10, Follows

\* After an instruction that leaves none.
LEMMA Consumed ==
  ASSUME Executing, NEW i, i = vm.code[vm.ip],
         i.op \notin Binaries \union Unaries \union Pushes,
         NEW jumps \in BOOLEAN,
         jumps => i.op \in Jumps, ~jumps => i.op \notin {"JUMP", "HALT"},
         NEW m, NEW sc, m.code = vm.code, ~m.ddl,
         m.ip = IF jumps THEN vm.ip + 1 + i.arg ELSE vm.ip + 1,
         m.stack = SubSeq(vm.stack, 1, Len(vm.stack) - Pops(i)),
         Placed(m.cursor, sc),
         i.op = "OPEN_SCAN" => sc # Nil,
         i.op = "CLOSE_SCAN" => sc = Nil,
         i.op \notin {"OPEN_SCAN", "CLOSE_SCAN"} => sc = scanner,
         i.op \in {"NEXT", "KEY_SEARCH"} /\ ~jumps => m.cursor.place = "row",
         i.op \notin {"OPEN_SCAN", "CLOSE_SCAN", "NEXT", "KEY_SEARCH", "REWIND",
                      "DELETE_ROW"} => m.cursor = vm.cursor
  PROVE  Running(m, sc)
<1>1. i.op # "CONSTANT" /\ Results(i) = 0
  BY DEF Binaries, Unaries, Pushes, Results
<1>2. ~IsName(Table, i)
  BY <1>1 DEF IsName
<1>3. /\ Fits(vm.stack, vm.cursor, scanner, Before) /\ Placed(vm.cursor, scanner)
      /\ Ready(i, Before) /\ WellFormed(Table, i)
  BY Here
<1>4. Len(vm.stack) = Before.depth /\ Len(vm.stack) \in Nat /\ Len(vm.stack) >= Pops(i)
  BY OperandsHere
<1>5. Pops(i) \in Nat
  <2>1. CASE i.op \in RowsOf
    <3>1. i.arg \in Nat
      BY <1>3, <2>1 DEF WellFormed, RowsOf, Jumps
    <3>. QED
      BY <2>1, <3>1, Effects
  <2>2. CASE i.op \notin RowsOf
    BY <2>2 DEF Pops
  <2>. QED
    BY <2>1, <2>2
<1>6. m.stack \in Seq(Datum) /\ Len(m.stack) = Len(vm.stack) - Pops(i)
  <2>1. CASE i.op = "OPEN_SCAN"
    <3>1. PICK front \in Seq(Datum), t \in Table : vm.stack = Append(front, NameVal(t))
      BY <2>1, OperandsHere
    <3>2. Pops(i) = 1
      BY <2>1, Effects DEF Consumers
    <3>3. m.stack = front /\ Len(vm.stack) = Len(front) + 1
      BY <3>1, <3>2
    <3>. QED
      BY <3>1, <3>2, <3>3
  <2>2. CASE i.op # "OPEN_SCAN"
    <3>1. vm.stack \in Seq(Datum)
      BY <2>2, OperandsHere
    <3>. QED
      BY <1>4, <1>5, <3>1, BelowTop
  <2>. QED
    BY <2>1, <2>2
<1>7. Len(m.stack) = AfterHere(jumps).depth /\ Operands(m.stack, AfterHere(jumps).named)
  <2>1. AfterHere(jumps).depth = Before.depth - Pops(i)
    <3>1. AfterHere(jumps).depth = (Before.depth - Pops(i)) + Results(i)
      BY AfterIs
    <3>2. Before.depth - Pops(i) \in Int
      BY <1>4, <1>5
    <3>. QED
      BY <1>1, <3>1, <3>2
  <2>2. ~AfterHere(jumps).named
    BY <1>2, AfterIs
  <2>. QED
    BY <1>4, <1>6, <2>1, <2>2 DEF Operands
<1>8. /\ AfterHere(jumps).scan => sc # Nil
      /\ ~AfterHere(jumps).scan => sc = Nil
  BY <1>3, AfterIs DEF Fits
<1>9. AfterHere(jumps).row => m.cursor.place = "row"
  <2>1. CASE i.op \in {"NEXT", "KEY_SEARCH"}
    BY <2>1, AfterIs
  <2>2. CASE i.op \notin {"NEXT", "KEY_SEARCH"}
    <3>1. CASE i.op = "OPEN_SCAN"
      <4>1. ~Before.scan
        BY <1>3, <3>1 DEF Ready
      <4>2. ~Before.row
        BY <1>3, <4>1 DEF Fits, Placed
      <4>. QED
        BY <2>2, <4>2, AfterIs
    <3>2. CASE i.op # "OPEN_SCAN"
      BY <1>3, <2>2, <3>2, AfterIs DEF Fits
    <3>. QED
      BY <3>1, <3>2
  <2>. QED
    BY <2>1, <2>2
<1>10. Fits(m.stack, m.cursor, sc, AfterHere(jumps))
  BY <1>7, <1>8, <1>9 DEF Fits
<1>. QED
  BY <1>10, Follows
-----------------------------------------------------------------------------
(* Instructions that touch only the machine.                               *)

\* Tables are created and dropped only by code that does nothing else.
LEMMA Kinds ==
  ASSUME MachineInv, phase = "run", ~vm.failed
  PROVE  /\ vm.code[vm.ip].op \in Changers => vm.ddl
         /\ vm.code[vm.ip].op \notin Changers \union {"HALT"} => ~vm.ddl
         /\ ~vm.ddl => Executing
<1>1. Running(vm, scanner)
  BY DEF MachineInv
<1>2. ASSUME vm.ddl PROVE vm.code[vm.ip].op \in Changers \union {"HALT"}
  <2>1. vm.code \in TableCode /\ vm.ip \in DOMAIN vm.code
    BY <1>1, <1>2 DEF Running
  <2>. QED
    BY <2>1 DEF TableCode, Changers
<1>3. ASSUME ~vm.ddl PROVE Executing /\ vm.code[vm.ip].op \notin Changers
  <2>1. Executing
    BY <1>1, <1>3 DEF Executing
  <2>2. WellFormed(Table, vm.code[vm.ip])
    BY <2>1, Here
  <2>3. vm.code[vm.ip].op \notin Changers
    BY <2>2 DEF WellFormed, Changers, Binaries, Unaries, Pushes, Bare, Jumps, RowsOf
  <2>. QED
    BY <2>1, <2>3
<1>. QED
  BY <1>2, <1>3

\* A machine's fields after an instruction.
LEMMA MachineFields ==
  ASSUME IsMachine(vm)
  PROVE  /\ \A d : /\ IsMachine(Moved(d)) /\ Moved(d).ip = vm.ip + 1 + d
                   /\ Moved(d).code = vm.code /\ Moved(d).stack = vm.stack
                   /\ Moved(d).failed = vm.failed /\ Moved(d).cursor = vm.cursor
                   /\ Moved(d).ddl = vm.ddl
         /\ IsMachine(Failed) /\ Failed.ip = vm.ip /\ Failed.code = vm.code
         /\ Failed.stack = vm.stack /\ Failed.failed /\ Failed.cursor = vm.cursor
         /\ Failed.ddl = vm.ddl
<1>1. ASSUME NEW d
      PROVE  /\ IsMachine(Moved(d)) /\ Moved(d).ip = vm.ip + 1 + d
             /\ Moved(d).code = vm.code /\ Moved(d).stack = vm.stack
             /\ Moved(d).failed = vm.failed /\ Moved(d).cursor = vm.cursor
             /\ Moved(d).ddl = vm.ddl
  BY DEF IsMachine, Moved
<1>2. /\ IsMachine(Failed) /\ Failed.ip = vm.ip /\ Failed.code = vm.code
      /\ Failed.stack = vm.stack /\ Failed.failed /\ Failed.cursor = vm.cursor
      /\ Failed.ddl = vm.ddl
  <2>1. PICK f : f = [vm EXCEPT !.failed = TRUE]
    OBVIOUS
  <2>2. /\ IsMachine(f) /\ f.ip = vm.ip /\ f.code = vm.code
        /\ f.stack = vm.stack /\ f.failed /\ f.cursor = vm.cursor
        /\ f.ddl = vm.ddl
    BY <2>1 DEF IsMachine
  <2>. QED
    BY <2>1, <2>2 DEF Failed
<1>. QED
  BY <1>1, <1>2

\* An instruction that fails leaves a machine that has failed.
LEMMA Fails ==
  ASSUME MachineInv, phase = "run", vm' = Failed, UNCHANGED <<phase, scanner>>
  PROVE  MachineInv'
<1>1. /\ IsMachine(Failed) /\ Failed.ip = vm.ip /\ Failed.code = vm.code
      /\ Failed.stack = vm.stack /\ Failed.failed /\ Failed.cursor = vm.cursor
      /\ Failed.ddl = vm.ddl
  BY MachineFields DEF MachineInv
<1>. HIDE DEF Failed
<1>2. Running(Failed, scanner)
  BY <1>1 DEF MachineInv, Running
<1>. QED
  BY <1>1, <1>2 DEF MachineInv

\* An instruction that finds its operands goes on.
LEMMA Operates ==
  ASSUME MachineInv, phase = "run", Executing, NEW n, n = Pops(vm.code[vm.ip]),
         NEW next, Computes(n, next),
         next = Failed \/ (IsMachine(next) /\ Running(next, scanner))
  PROVE  MachineInv' /\ UNCHANGED sessionVars
<1>1. Len(vm.stack) >= n /\ Len(vm.stack) \in Nat
  BY OperandsHere
<1>2. n \in Nat
  <2>1. WellFormed(Table, vm.code[vm.ip])
    BY Here
  <2>. QED
    BY <2>1 DEF Pops, WellFormed, RowsOf, Jumps
<1>3. vm' = next /\ UNCHANGED sessionVars /\ phase' = phase
  BY <1>1, <1>2 DEF Computes
<1>4. scanner' = scanner
  BY <1>3 DEF sessionVars
<1>5. CASE next = Failed
  BY <1>3, <1>4, <1>5, Fails
<1>6. CASE IsMachine(next) /\ Running(next, scanner)
  BY <1>3, <1>4, <1>6 DEF MachineInv, Running, Placed
<1>. QED
  BY <1>3, <1>5, <1>6

\* One that leaves a value.
LEMMA Leaves ==
  ASSUME MachineInv, phase = "run", Executing, NEW i, i = vm.code[vm.ip],
         i.op \in Binaries \union Unaries \union Pushes, NEW n, n = Pops(i),
         NEW v, ~IsName(Table, i) => v \in Datum, IsName(Table, i) => v = i.arg
  PROVE  IsMachine(Replaced(n, v)) /\ Running(Replaced(n, v), scanner)
<1>1. IsMachine(vm) /\ ~vm.ddl
  BY DEF MachineInv, Executing
<1>2. /\ IsMachine(Moved(0)) /\ Moved(0).ip = vm.ip + 1 + 0 /\ Moved(0).code = vm.code
      /\ Moved(0).cursor = vm.cursor /\ Moved(0).ddl = vm.ddl
  BY <1>1, MachineFields
<1>. HIDE DEF Moved
<1> DEFINE m == Replaced(n, v)
<1>3. /\ IsMachine(m) /\ m.ip = Moved(0).ip /\ m.code = Moved(0).code
      /\ m.cursor = Moved(0).cursor /\ m.ddl = Moved(0).ddl
      /\ m.stack = Append(Below(n), v)
  BY <1>2 DEF Replaced, IsMachine
<1>. HIDE DEF m
<1>4. /\ m.ip = vm.ip + 1 /\ m.code = vm.code /\ m.cursor = vm.cursor /\ ~m.ddl
      /\ m.stack = Append(SubSeq(vm.stack, 1, Len(vm.stack) - Pops(i)), v)
  <2>1. vm.ip + 1 + 0 = vm.ip + 1
    BY DEF Executing, Running
  <2>2. m.stack = Append(SubSeq(vm.stack, 1, Len(vm.stack) - Pops(i)), v)
    BY <1>3 DEF Below
  <2>. QED
    BY <1>1, <1>2, <1>3, <2>1, <2>2
<1>5. Running(m, scanner)
  BY <1>4, Computed
<1>. QED
  BY <1>3, <1>5 DEF m

\* What each of these instructions does.
LEMMA PushKeeps ==
  ASSUME MachineInv, Push
  PROVE  MachineInv' /\ UNCHANGED sessionVars
<1> DEFINE i == vm.code[vm.ip]
           v == CASE i.op = "CONSTANT" -> i.arg
                  [] i.op = "NULL" -> NullVal
                  [] i.op = "TRUE" -> BoolVal(TRUE)
                  [] i.op = "FALSE" -> BoolVal(FALSE)
<1>1. /\ phase = "run" /\ ~vm.failed /\ i.op \in {"CONSTANT", "NULL", "TRUE", "FALSE"}
      /\ Computes(0, Replaced(0, v))
  BY DEF Push, Executes, Arg
<1>2. Executing /\ i.op \in Pushes
  BY <1>1, Kinds DEF Changers, Pushes
<1>3. Pops(i) = 0
  BY <1>2, Effects
<1>4. IsName(Table, i) => v = i.arg
  BY DEF IsName
<1>5. ~IsName(Table, i) => v \in Datum
  <2>1. CASE i.op = "CONSTANT"
    <3>1. WellFormed(Table, i)
      BY <1>2, Here
    <3>. QED
      BY <2>1, <3>1 DEF WellFormed, Jumps, RowsOf
  <2>2. CASE i.op # "CONSTANT"
    BY <1>1, <2>2, Data
  <2>. QED
    BY <2>1, <2>2
<1>. HIDE DEF v
<1>6. IsMachine(Replaced(0, v)) /\ Running(Replaced(0, v), scanner)
  BY <1>1, <1>2, <1>3, <1>4, <1>5, Leaves
<1>. QED
  BY <1>1, <1>2, <1>3, <1>6, Operates

\* An operator with data to work on leaves a value, or fails.
LEMMA Reckons ==
  ASSUME MachineInv, NEW i, i = vm.code[vm.ip], i.op \in Binaries \union Unaries,
         phase = "run", ~vm.failed
  PROVE  /\ Executing /\ vm.stack \in Seq(Datum)
         /\ Pops(i) = IF i.op \in Binaries THEN 2 ELSE 1
         /\ Top(0) \in Datum /\ (i.op \in Binaries => Top(1) \in Datum)
         /\ \A n, next : n = Pops(i) /\ Computes(n, next)
                         /\ (next = Failed \/ \E v \in Datum : next = Replaced(n, v))
              => MachineInv' /\ UNCHANGED sessionVars
<1>1. Executing
  BY Kinds DEF Changers, Binaries, Unaries
<1>2. /\ vm.stack \in Seq(Datum) /\ Len(vm.stack) >= Pops(i)
      /\ ~IsName(Table, i)
  BY <1>1, OperandsHere DEF Binaries, Unaries, IsName
<1>3. Pops(i) = IF i.op \in Binaries THEN 2 ELSE 1
  BY Effects
<1>4. Top(0) \in Datum /\ (i.op \in Binaries => Top(1) \in Datum)
  BY <1>2, <1>3 DEF Top
<1>5. ASSUME NEW n, NEW next, n = Pops(i), Computes(n, next),
             next = Failed \/ \E v \in Datum : next = Replaced(n, v)
      PROVE  MachineInv' /\ UNCHANGED sessionVars
  <2>1. next = Failed \/ (IsMachine(next) /\ Running(next, scanner))
    BY <1>1, <1>2, <1>5, Leaves
  <2>. QED
    BY <1>1, <1>5, <2>1, Operates
<1>. QED
  BY <1>1, <1>2, <1>3, <1>4, <1>5

LEMMA IntegerType ==
  ASSUME NEW v \in Datum
  PROVE  Integer(v) \in Int
<1>0. \A b : BoolVal(b)[1] = "bool"
  BY DEF BoolVal
<1>1. CASE IsInt(v)
  <2>1. v[2] \in Int
    BY <1>1, Data
  <2>2. ~IsText(v) /\ v # BoolVal(TRUE)
    BY <1>0, <1>1 DEF IsInt, IsText
  <2>. QED
    BY <1>1, <2>1, <2>2 DEF Integer
<1>2. CASE ~IsInt(v) /\ IsText(v)
  <2>1. v # BoolVal(TRUE)
    BY <1>0, <1>2 DEF IsText
  <2>. QED
    BY <1>2, <2>1, MachineAssumption DEF Integer
<1>3. CASE ~IsInt(v) /\ ~IsText(v)
  BY <1>3 DEF Integer
<1>. QED
  BY <1>1, <1>2, <1>3

LEMMA DividedType ==
  ASSUME NEW m \in Int, NEW n \in Int, n # 0
  PROVE  Divided(m, n) \in Int
<1> DEFINE abs(i) == IF i < 0 THEN 0 - i ELSE i
<1>1. abs(m) \in Nat /\ abs(n) \in Nat \ {0}
  OBVIOUS
<1>. HIDE DEF abs
<1>2. abs(m) \div abs(n) \in Int
  BY <1>1
<1>. QED
  BY <1>2 DEF Divided, abs

LEMMA BinaryKeeps ==
  ASSUME MachineInv, Binary
  PROVE  MachineInv' /\ UNCHANGED sessionVars
<1> DEFINE i == vm.code[vm.ip]
           a == Integer(Top(1))
           b == Integer(Top(0))
<1>1. /\ phase = "run" /\ ~vm.failed
      /\ i.op \in {"ADD", "SUBTRACT", "MULTIPLY", "DIVIDE"}
  BY DEF Binary, Executes
<1>2. PICK next :
        /\ Computes(2, next)
        /\ \/ next = Replaced(2, IntVal(a + b)) \/ next = Replaced(2, IntVal(a - b))
           \/ next = Replaced(2, IntVal(a * b))
           \/ b # 0 /\ next = Replaced(2, IntVal(Divided(a, b)))
           \/ next = Replaced(2, IntVal(0))
           \/ next = Failed
  BY <1>1 DEF Binary
<1>3. i.op \in Binaries
  BY <1>1 DEF Binaries
<1>4. Pops(i) = 2 /\ a \in Int /\ b \in Int
  BY <1>1, <1>3, Reckons, IntegerType
<1>. HIDE DEF a, b
<1>5. next = Failed \/ \E v \in Datum : next = Replaced(2, v)
  BY <1>2, <1>4, Data, DividedType
<1>. QED
  BY <1>1, <1>2, <1>3, <1>4, <1>5, Reckons

LEMMA NegateKeeps ==
  ASSUME MachineInv, Negate
  PROVE  MachineInv' /\ UNCHANGED sessionVars
<1> DEFINE i == vm.code[vm.ip]
<1>1. phase = "run" /\ ~vm.failed /\ i.op = "NEGATE"
  BY DEF Negate, Executes
<1>2. PICK next : /\ Computes(1, next)
                  /\ \/ IsInt(Top(0)) /\ next = Replaced(1, IntVal(0 - Top(0)[2]))
                     \/ next = Failed
  BY DEF Negate
<1>3. i.op \in Unaries /\ i.op \notin Binaries
  BY <1>1 DEF Unaries, Binaries
<1>4. Pops(i) = 1 /\ Top(0) \in Datum
  BY <1>1, <1>3, Reckons
<1>5. IsInt(Top(0)) => IntVal(0 - Top(0)[2]) \in Datum
  BY <1>4, Data
<1>6. next = Failed \/ \E v \in Datum : next = Replaced(1, v)
  BY <1>2, <1>5
<1>. QED
  BY <1>1, <1>2, <1>3, <1>4, <1>6, Reckons

LEMMA CompareKeeps ==
  ASSUME MachineInv, Compare
  PROVE  MachineInv' /\ UNCHANGED sessionVars
<1> DEFINE i == vm.code[vm.ip]
           a == Top(1)
           b == Top(0)
           same == a = b
           less == Rank(a) < Rank(b)
           more == Rank(a) > Rank(b)
           answer == CASE i.op = "EQUAL" -> same
                       [] i.op = "NOT_EQUAL" -> ~same
                       [] i.op = "LESS" -> less
                       [] i.op = "LESS_EQUAL" -> ~more
                       [] i.op = "GREATER" -> more
                       [] i.op = "GREATER_EQUAL" -> ~less
           next == IF i.op \in {"EQUAL", "NOT_EQUAL"} \/ Ordered(a, b)
                   THEN Replaced(2, BoolVal(answer)) ELSE Failed
<1>1. /\ phase = "run" /\ ~vm.failed
      /\ i.op \in {"EQUAL", "NOT_EQUAL", "LESS", "LESS_EQUAL", "GREATER", "GREATER_EQUAL"}
      /\ Computes(2, next)
  BY DEF Compare, Executes
<1>2. i.op \in Binaries
  BY <1>1 DEF Binaries
<1>3. Pops(i) = 2
  BY <1>1, <1>2, Reckons
<1>4. answer \in BOOLEAN
  <2>1. same \in BOOLEAN /\ less \in BOOLEAN /\ more \in BOOLEAN
    OBVIOUS
  <2>2. i.op \in {"EQUAL", "NOT_EQUAL", "LESS", "LESS_EQUAL", "GREATER", "GREATER_EQUAL"}
    BY <1>1
  <2>. HIDE DEF i, same, less, more
  <2>. QED
    BY <2>1, <2>2
<1>. HIDE DEF answer
<1>5. next = Failed \/ \E v \in Datum : next = Replaced(2, v)
  BY <1>4, Data
<1>. HIDE DEF next
<1>. QED
  BY <1>1, <1>2, <1>3, <1>5, Reckons

LEMMA LikeKeeps ==
  ASSUME MachineInv, Like
  PROVE  MachineInv' /\ UNCHANGED sessionVars
<1> DEFINE i == vm.code[vm.ip]
           v == IF NullVal \in {Top(0), Top(1)} THEN NullVal
                ELSE IF likeMatch(Top(1)[2], Top(0)[2]) THEN BoolVal(TRUE) ELSE BoolVal(FALSE)
<1>1. phase = "run" /\ ~vm.failed /\ i.op = "LIKE" /\ Computes(2, Replaced(2, v))
  BY DEF Like, Executes
<1>2. i.op \in Binaries
  BY <1>1 DEF Binaries
<1>3. Pops(i) = 2
  BY <1>1, <1>2, Reckons
<1>4. v \in Datum
  <2>1. BoolVal(TRUE) \in Datum /\ BoolVal(FALSE) \in Datum /\ NullVal \in Datum
    BY Data
  <2>. QED
    BY <2>1
<1>. HIDE DEF v
<1>. QED
  BY <1>1, <1>2, <1>3, <1>4, Reckons

LEMMA TestKeeps ==
  ASSUME MachineInv, Test
  PROVE  MachineInv' /\ UNCHANGED sessionVars
<1> DEFINE i == vm.code[vm.ip]
           b == CASE i.op = "IS_NULL" -> Top(0) = NullVal
                  [] i.op = "NOT_NULL" -> Top(0) # NullVal
                  [] i.op = "NOT" -> ~IsTrue(Top(0))
<1>1. /\ phase = "run" /\ ~vm.failed /\ i.op \in {"IS_NULL", "NOT_NULL", "NOT"}
      /\ Computes(1, Replaced(1, BoolVal(b)))
  BY DEF Test, Executes
<1>2. i.op \in Unaries /\ i.op \notin Binaries
  BY <1>1 DEF Unaries, Binaries
<1>3. Pops(i) = 1
  BY <1>1, <1>2, Reckons
<1>4. b \in BOOLEAN
  BY <1>1
<1>. HIDE DEF b
<1>5. BoolVal(b) \in Datum
  BY <1>4, Data
<1>. QED
  BY <1>1, <1>2, <1>3, <1>5, Reckons

\* After an instruction that leaves no value, the machine at the next one.
LEMMA Drops ==
  ASSUME MachineInv, phase = "run", ~vm.failed, NEW i, i = vm.code[vm.ip],
         i.op \notin Binaries \union Unaries \union Pushes \union Changers \union {"HALT"},
         NEW jumps \in BOOLEAN, jumps => i.op \in Jumps, ~jumps => i.op # "JUMP",
         NEW m, IsMachine(m), m.code = vm.code, ~m.ddl,
         m.ip = vm.ip + 1 + (IF jumps THEN i.arg ELSE 0),
         m.stack = SubSeq(vm.stack, 1, Len(vm.stack) - Pops(i)),
         i.op \notin {"OPEN_SCAN", "CLOSE_SCAN"},
         Placed(m.cursor, scanner),
         i.op \in {"NEXT", "KEY_SEARCH"} /\ ~jumps => m.cursor.place = "row",
         i.op \notin {"NEXT", "KEY_SEARCH", "REWIND", "DELETE_ROW"} => m.cursor = vm.cursor
  PROVE  Executing /\ Running(m, scanner)
<1>1. Executing
  BY Kinds
<1>2. vm.ip \in Int
  BY <1>1 DEF Executing, Running
<1>3. m.ip = IF jumps THEN vm.ip + 1 + i.arg ELSE vm.ip + 1
  BY <1>2
<1>. QED
  BY <1>1, <1>3, Consumed

LEMMA JumpKeepsMachine ==
  ASSUME MachineInv, Jump
  PROVE  MachineInv' /\ UNCHANGED sessionVars
<1> DEFINE i == vm.code[vm.ip]
           To(jumps, next) ==
             /\ jumps \in BOOLEAN
             /\ Computes(IF i.op = "JUMP" THEN 0 ELSE 1, next)
             /\ next = IF i.op = "JUMP" THEN Moved(i.arg)
                       ELSE [Moved(IF jumps THEN i.arg ELSE 0) EXCEPT !.stack = Below(1)]
             /\ i.op = "JUMP" => jumps
<1>1. /\ phase = "run" /\ ~vm.failed /\ i.op \in {"JUMP", "JUMP_FALSE", "JUMP_TRUE"}
      /\ IsMachine(vm)
  BY DEF Jump, Executes, MachineInv
<1>2. PICK jumps, next : To(jumps, next)
  <2>1. CASE i.op = "JUMP"
    <3>1. Computes(0, Moved(i.arg))
      BY <2>1 DEF Jump, Arg
    <3>2. To(TRUE, Moved(i.arg))
      BY <2>1, <3>1
    <3>. HIDE DEF To
    <3>. QED
      BY <3>2
  <2>2. CASE i.op # "JUMP"
    <3> DEFINE no == Top(0) \in {BoolVal(FALSE), NullVal}
               yes == IsTrue(Top(0))
               taken == CASE i.op = "JUMP_FALSE" -> no [] i.op = "JUMP_TRUE" -> yes
               to(d) == [Moved(d) EXCEPT !.stack = Below(1)]
    <3>1. Computes(1, IF taken THEN to(i.arg) ELSE to(0))
      BY <2>2 DEF Jump, Arg
    <3>2. taken \in BOOLEAN
      <4>1. no \in BOOLEAN /\ yes \in BOOLEAN
        BY DEF IsTrue
      <4>2. i.op \in {"JUMP_FALSE", "JUMP_TRUE"}
        BY <1>1, <2>2
      <4>. HIDE DEF i, no, yes
      <4>. QED
        BY <4>1, <4>2
    <3>. HIDE DEF taken, to, Computes
    <3>3. \E next : Computes(1, next) /\ next = to(IF taken THEN i.arg ELSE 0)
      <4>1. CASE taken
        BY <3>1, <4>1
      <4>2. CASE ~taken
        BY <3>1, <4>2
      <4>. QED
        BY <4>1, <4>2
    <3>4. PICK next : Computes(1, next) /\ next = to(IF taken THEN i.arg ELSE 0)
      BY <3>3
    <3>5. To(taken, next)
      BY <2>2, <3>2, <3>4 DEF to
    <3>. HIDE DEF To
    <3>. QED
      BY <3>5
  <2>. QED
    BY <2>1, <2>2
<1>3. Pops(i) = IF i.op = "JUMP" THEN 0 ELSE 1
  BY <1>1, Effects DEF Consumers
<1>4. i.op \notin Binaries \union Unaries \union Pushes \union Changers \union {"HALT"}
      /\ i.op \in Jumps
  BY <1>1 DEF Binaries, Unaries, Pushes, Changers, Jumps
<1>5. Executing
  BY <1>1, <1>4, Kinds
<1>6. vm.stack \in Seq(Datum) /\ Len(vm.stack) >= Pops(i)
  BY <1>1, <1>5, OperandsHere
<1>7. /\ IsMachine(next) /\ next.code = vm.code /\ ~next.ddl /\ next.cursor = vm.cursor
      /\ next.ip = vm.ip + 1 + (IF jumps THEN i.arg ELSE 0)
      /\ next.stack = SubSeq(vm.stack, 1, Len(vm.stack) - Pops(i))
  <2> DEFINE d == IF jumps THEN i.arg ELSE 0
  <2>1. /\ IsMachine(Moved(d)) /\ Moved(d).ip = vm.ip + 1 + d
        /\ Moved(d).code = vm.code /\ Moved(d).stack = vm.stack
        /\ Moved(d).cursor = vm.cursor /\ Moved(d).ddl = vm.ddl
    BY <1>1, MachineFields
  <2>2. ~vm.ddl
    BY <1>5 DEF Executing
  <2>3. CASE i.op = "JUMP"
    <3>1. next = Moved(d)
      BY <1>2, <2>3
    <3>2. vm.stack = SubSeq(vm.stack, 1, Len(vm.stack) - 0)
      BY <1>6
    <3>. HIDE DEF Moved, d
    <3>3. next.stack = SubSeq(vm.stack, 1, Len(vm.stack) - Pops(i))
      BY <1>3, <2>1, <2>3, <3>1, <3>2
    <3>. QED
      BY <2>1, <2>2, <3>1, <3>3 DEF d
  <2>4. CASE i.op # "JUMP"
    <3>1. next = [Moved(d) EXCEPT !.stack = Below(1)]
      BY <1>2, <2>4
    <3>. HIDE DEF Moved, d
    <3>2. /\ IsMachine(next) /\ next.code = Moved(d).code /\ next.ddl = Moved(d).ddl
          /\ next.cursor = Moved(d).cursor /\ next.ip = Moved(d).ip
          /\ next.stack = Below(1)
      BY <2>1, <3>1 DEF IsMachine
    <3>3. next.stack = SubSeq(vm.stack, 1, Len(vm.stack) - Pops(i))
      BY <1>3, <2>4, <3>2 DEF Below
    <3>. QED
      BY <2>1, <2>2, <3>2, <3>3 DEF d
  <2>. QED
    BY <2>3, <2>4
<1>8. Placed(next.cursor, scanner)
  BY <1>5, <1>7, Here
<1>9. i.op \notin {"OPEN_SCAN", "CLOSE_SCAN", "NEXT", "KEY_SEARCH", "REWIND", "DELETE_ROW"}
  BY <1>1
<1>10. Running(next, scanner)
  BY <1>1, <1>2, <1>4, <1>7, <1>8, <1>9, Drops
<1>. QED
  BY <1>1, <1>2, <1>3, <1>5, <1>7, <1>10, Operates

LEMMA AdvanceKeeps ==
  ASSUME MachineInv, Advance
  PROVE  MachineInv' /\ UNCHANGED sessionVars
<1> DEFINE i == vm.code[vm.ip]
           some == Ahead # {}
           there == [Moved(0) EXCEPT !.cursor = On(First(Ahead))]
           past == [Moved(i.arg) EXCEPT !.cursor = AtEnd]
<1>1. /\ phase = "run" /\ ~vm.failed /\ i.op = "NEXT" /\ IsMachine(vm)
      /\ Computes(0, IF some THEN there ELSE past)
  BY DEF Advance, Executes, Arg, MachineInv
<1>2. i.op \notin Binaries \union Unaries \union Pushes \union Changers \union {"HALT"}
      /\ i.op \in Jumps
  BY <1>1 DEF Binaries, Unaries, Pushes, Changers, Jumps
<1>3. Executing /\ ~vm.ddl
  BY <1>1, <1>2, Kinds
<1>4. Pops(i) = 0
  BY <1>1, Effects
<1>5. vm.stack \in Seq(Datum) /\ vm.stack = SubSeq(vm.stack, 1, Len(vm.stack) - Pops(i))
  <2>1. vm.stack \in Seq(Datum)
    BY <1>1, <1>3, OperandsHere
  <2>. QED
    BY <1>4, <2>1
<1>6. scanner # Nil
  <2>1. Ready(i, Before) /\ Fits(vm.stack, vm.cursor, scanner, Before)
    BY <1>3, Here
  <2>. QED
    BY <1>1, <2>1 DEF Ready, Fits
<1>7. some => First(Ahead) \in Key
  <2>1. Ahead \subseteq Key
    BY DEF Ahead, Present
  <2>. QED
    BY <2>1, FirstKey
<1>8. CASE some
  <2>1. /\ IsMachine(there) /\ there.ip = vm.ip + 1 + 0 /\ there.code = vm.code
        /\ there.stack = vm.stack /\ there.cursor = On(First(Ahead)) /\ there.ddl = vm.ddl
    <3>1. PICK n : n = Moved(0)
      OBVIOUS
    <3>2. /\ IsMachine(n) /\ n.ip = vm.ip + 1 + 0 /\ n.code = vm.code
          /\ n.stack = vm.stack /\ n.cursor = vm.cursor /\ n.ddl = vm.ddl
      BY <1>1, <3>1, MachineFields
    <3>. QED
      BY <3>1, <3>2 DEF IsMachine
  <2>2. Placed(there.cursor, scanner) /\ there.cursor.place = "row"
    BY <1>6, <1>7, <1>8, <2>1 DEF Placed, On
  <2>3. Computes(0, there)
    BY <1>1, <1>8
  <2>. HIDE DEF there
  <2>4. Running(there, scanner)
    BY <1>1, <1>2, <1>3, <1>5, <2>1, <2>2, Drops
  <2>. QED
    BY <1>1, <1>3, <1>4, <2>1, <2>3, <2>4, Operates
<1>9. CASE ~some
  <2>1. /\ IsMachine(past) /\ past.ip = vm.ip + 1 + i.arg /\ past.code = vm.code
        /\ past.stack = vm.stack /\ past.cursor = AtEnd /\ past.ddl = vm.ddl
    <3>1. PICK n : n = Moved(i.arg)
      OBVIOUS
    <3>2. /\ IsMachine(n) /\ n.ip = vm.ip + 1 + i.arg /\ n.code = vm.code
          /\ n.stack = vm.stack /\ n.cursor = vm.cursor /\ n.ddl = vm.ddl
      BY <1>1, <3>1, MachineFields
    <3>. QED
      BY <3>1, <3>2 DEF IsMachine
  <2>2. Placed(past.cursor, scanner)
    BY <2>1 DEF Placed, AtEnd
  <2>3. Computes(0, past)
    BY <1>1, <1>9
  <2>. HIDE DEF past
  <2>4. Running(past, scanner)
    BY <1>1, <1>2, <1>3, <1>5, <2>1, <2>2, Drops
  <2>. QED
    BY <1>1, <1>3, <1>4, <2>1, <2>3, <2>4, Operates
<1>. QED
  BY <1>8, <1>9

LEMMA KeySearchKeeps ==
  ASSUME MachineInv, KeySearch
  PROVE  MachineInv' /\ UNCHANGED sessionVars
<1> DEFINE i == vm.code[vm.ip]
           key == pkToOk(Top(0)[2])
           found == IsInt(Top(0)) /\ key \in Present(Current)
           there == [Moved(0) EXCEPT !.stack = Below(1), !.cursor = On(key)]
           past == [Moved(i.arg) EXCEPT !.stack = Below(1)]
<1>1. /\ phase = "run" /\ ~vm.failed /\ i.op = "KEY_SEARCH" /\ IsMachine(vm)
      /\ Computes(1, IF found THEN there ELSE past)
  BY DEF KeySearch, Executes, Arg, MachineInv
<1>2. i.op \notin Binaries \union Unaries \union Pushes \union Changers \union {"HALT"}
      /\ i.op \in Jumps /\ i.op \in Consumers
  BY <1>1 DEF Binaries, Unaries, Pushes, Changers, Jumps, Consumers
<1>3. Executing /\ ~vm.ddl
  BY <1>1, <1>2, Kinds
<1>4. Pops(i) = 1
  BY <1>2, Effects
<1>5. Below(1) = SubSeq(vm.stack, 1, Len(vm.stack) - Pops(i))
  BY <1>4 DEF Below
<1>6. scanner # Nil /\ Placed(vm.cursor, scanner)
  <2>1. Ready(i, Before) /\ Fits(vm.stack, vm.cursor, scanner, Before)
    BY <1>3, Here
  <2>. QED
    BY <1>1, <1>3, <2>1, Here DEF Ready, Fits
<1>7. found => key \in Key
  BY DEF Present
<1>8. CASE found
  <2>1. /\ IsMachine(there) /\ there.ip = vm.ip + 1 + 0 /\ there.code = vm.code
        /\ there.stack = Below(1) /\ there.cursor = On(key) /\ there.ddl = vm.ddl
    <3>1. PICK n : n = Moved(0)
      OBVIOUS
    <3>2. /\ IsMachine(n) /\ n.ip = vm.ip + 1 + 0 /\ n.code = vm.code
          /\ n.stack = vm.stack /\ n.cursor = vm.cursor /\ n.ddl = vm.ddl
      BY <1>1, <3>1, MachineFields
    <3>3. PICK p : p = [n EXCEPT !.stack = Below(1)]
      OBVIOUS
    <3>4. /\ IsMachine(p) /\ p.ip = n.ip /\ p.code = n.code /\ p.stack = Below(1)
          /\ p.ddl = n.ddl
      BY <3>2, <3>3 DEF IsMachine
    <3>5. there = [p EXCEPT !.cursor = On(key)]
      BY <3>1, <3>3
    <3>. HIDE DEF there
    <3>. QED
      BY <3>2, <3>4, <3>5 DEF IsMachine
  <2>2. Placed(there.cursor, scanner) /\ there.cursor.place = "row"
    BY <1>6, <1>7, <1>8, <2>1 DEF Placed, On
  <2>3. Computes(1, there)
    BY <1>1, <1>8
  <2>. HIDE DEF there
  <2>4. Running(there, scanner)
    BY <1>1, <1>2, <1>3, <1>5, <2>1, <2>2, Drops
  <2>. QED
    BY <1>1, <1>3, <1>4, <2>1, <2>3, <2>4, Operates
<1>9. CASE ~found
  <2>1. /\ IsMachine(past) /\ past.ip = vm.ip + 1 + i.arg /\ past.code = vm.code
        /\ past.stack = Below(1) /\ past.cursor = vm.cursor /\ past.ddl = vm.ddl
    <3>1. PICK n : n = Moved(i.arg)
      OBVIOUS
    <3>2. /\ IsMachine(n) /\ n.ip = vm.ip + 1 + i.arg /\ n.code = vm.code
          /\ n.stack = vm.stack /\ n.cursor = vm.cursor /\ n.ddl = vm.ddl
      BY <1>1, <3>1, MachineFields
    <3>. QED
      BY <3>1, <3>2 DEF IsMachine
  <2>2. Placed(past.cursor, scanner)
    BY <1>6, <2>1
  <2>3. Computes(1, past)
    BY <1>1, <1>9
  <2>. HIDE DEF past
  <2>4. Running(past, scanner)
    BY <1>1, <1>2, <1>3, <1>5, <2>1, <2>2, Drops
  <2>. QED
    BY <1>1, <1>3, <1>4, <2>1, <2>3, <2>4, Operates
<1>. QED
  BY <1>8, <1>9

LEMMA RewindKeeps ==
  ASSUME MachineInv, Rewind
  PROVE  MachineInv' /\ UNCHANGED sessionVars
<1> DEFINE i == vm.code[vm.ip]
           m == [Moved(0) EXCEPT !.cursor = Unstarted]
<1>1. /\ phase = "run" /\ ~vm.failed /\ i.op = "REWIND" /\ IsMachine(vm) /\ Computes(0, m)
  BY DEF Rewind, Executes, MachineInv
<1>2. i.op \notin Binaries \union Unaries \union Pushes \union Changers \union {"HALT"}
      /\ i.op \in Bare
  BY <1>1 DEF Binaries, Unaries, Pushes, Changers, Bare
<1>3. Executing /\ ~vm.ddl
  BY <1>1, <1>2, Kinds
<1>4. Pops(i) = 0
  BY <1>2, Effects
<1>5. vm.stack = SubSeq(vm.stack, 1, Len(vm.stack) - Pops(i))
  <2>1. vm.stack \in Seq(Datum)
    BY <1>1, <1>3, OperandsHere
  <2>. QED
    BY <1>4, <2>1
<1>6. /\ IsMachine(m) /\ m.ip = vm.ip + 1 + 0 /\ m.code = vm.code
      /\ m.stack = vm.stack /\ m.cursor = Unstarted /\ m.ddl = vm.ddl
  <2>1. PICK n : n = Moved(0)
    OBVIOUS
  <2>2. /\ IsMachine(n) /\ n.ip = vm.ip + 1 + 0 /\ n.code = vm.code
        /\ n.stack = vm.stack /\ n.cursor = vm.cursor /\ n.ddl = vm.ddl
    BY <1>1, <2>1, MachineFields
  <2>. QED
    BY <2>1, <2>2 DEF IsMachine
<1>7. Placed(m.cursor, scanner)
  BY <1>6 DEF Placed, Unstarted
<1>. HIDE DEF m
<1>8. Running(m, scanner)
  BY <1>1, <1>2, <1>3, <1>5, <1>6, <1>7, Drops
<1>. QED
  BY <1>1, <1>3, <1>4, <1>6, <1>8, Operates

LEMMA EmitRowKeeps ==
  ASSUME MachineInv, EmitRow
  PROVE  MachineInv' /\ UNCHANGED sessionVars
<1> DEFINE i == vm.code[vm.ip]
           m == [Moved(0) EXCEPT !.stack = Below(i.arg),
                   !.rows = Append(@, SubSeq(vm.stack, Len(vm.stack) - i.arg + 1,
                                             Len(vm.stack)))]
<1>1. /\ phase = "run" /\ ~vm.failed /\ i.op = "EMIT_ROW" /\ IsMachine(vm)
      /\ Computes(i.arg, m)
  BY DEF EmitRow, Executes, MachineInv, Arg
<1>2. i.op \notin Binaries \union Unaries \union Pushes \union Changers \union {"HALT"}
      /\ i.op \in RowsOf
  BY <1>1 DEF Binaries, Unaries, Pushes, Changers, RowsOf
<1>3. Executing /\ ~vm.ddl
  BY <1>1, <1>2, Kinds
<1>4. Pops(i) = i.arg
  BY <1>2, Effects
<1>5. Below(i.arg) = SubSeq(vm.stack, 1, Len(vm.stack) - Pops(i))
  BY <1>4 DEF Below
<1>6. /\ IsMachine(m) /\ m.ip = vm.ip + 1 + 0 /\ m.code = vm.code
      /\ m.stack = Below(i.arg) /\ m.cursor = vm.cursor /\ m.ddl = vm.ddl
  <2>1. PICK n : n = Moved(0)
    OBVIOUS
  <2>2. /\ IsMachine(n) /\ n.ip = vm.ip + 1 + 0 /\ n.code = vm.code
        /\ n.stack = vm.stack /\ n.cursor = vm.cursor /\ n.ddl = vm.ddl
    BY <1>1, <2>1, MachineFields
  <2>3. PICK p : p = [n EXCEPT !.stack = Below(i.arg)]
    OBVIOUS
  <2>4. /\ IsMachine(p) /\ p.ip = n.ip /\ p.code = n.code /\ p.stack = Below(i.arg)
        /\ p.ddl = n.ddl /\ p.cursor = n.cursor
    BY <2>2, <2>3 DEF IsMachine
  <2>5. PICK r : m = [p EXCEPT !.rows = r]
    BY <2>1, <2>3
  <2>. HIDE DEF m
  <2>. QED
    BY <2>2, <2>4, <2>5 DEF IsMachine
<1>7. Placed(m.cursor, scanner)
  BY <1>3, <1>6, Here
<1>. HIDE DEF m
<1>8. Running(m, scanner)
  BY <1>1, <1>2, <1>3, <1>5, <1>6, <1>7, Drops
<1>. QED
  BY <1>1, <1>3, <1>4, <1>6, <1>8, Operates

LEMMA SetResultKeeps ==
  ASSUME MachineInv, SetResult
  PROVE  MachineInv' /\ UNCHANGED sessionVars
<1> DEFINE i == vm.code[vm.ip]
           m == [Moved(0) EXCEPT !.print = TRUE]
<1>1. /\ phase = "run" /\ ~vm.failed /\ i.op = "SET_RESULT" /\ IsMachine(vm)
      /\ Computes(0, m)
  BY DEF SetResult, Executes, MachineInv
<1>2. i.op \notin Binaries \union Unaries \union Pushes \union Changers \union {"HALT"}
      /\ i.op \in Bare
  BY <1>1 DEF Binaries, Unaries, Pushes, Changers, Bare
<1>3. Executing /\ ~vm.ddl
  BY <1>1, <1>2, Kinds
<1>4. Pops(i) = 0
  BY <1>2, Effects
<1>5. vm.stack = SubSeq(vm.stack, 1, Len(vm.stack) - Pops(i))
  <2>1. vm.stack \in Seq(Datum)
    BY <1>1, <1>3, OperandsHere
  <2>. QED
    BY <1>4, <2>1
<1>6. /\ IsMachine(m) /\ m.ip = vm.ip + 1 + 0 /\ m.code = vm.code
      /\ m.stack = vm.stack /\ m.cursor = vm.cursor /\ m.ddl = vm.ddl
  <2>1. PICK n : n = Moved(0)
    OBVIOUS
  <2>2. /\ IsMachine(n) /\ n.ip = vm.ip + 1 + 0 /\ n.code = vm.code
        /\ n.stack = vm.stack /\ n.cursor = vm.cursor /\ n.ddl = vm.ddl
    BY <1>1, <2>1, MachineFields
  <2>3. PICK p : p = [n EXCEPT !.print = TRUE]
    OBVIOUS
  <2>4. /\ IsMachine(p) /\ p.ip = n.ip /\ p.code = n.code /\ p.stack = n.stack
        /\ p.ddl = n.ddl /\ p.cursor = n.cursor
    BY <2>2, <2>3 DEF IsMachine
  <2>5. m = p
    BY <2>1, <2>3
  <2>. HIDE DEF m
  <2>. QED
    BY <2>2, <2>4, <2>5
<1>7. Placed(m.cursor, scanner)
  BY <1>3, <1>6, Here
<1>. HIDE DEF m
<1>8. Running(m, scanner)
  BY <1>1, <1>2, <1>3, <1>5, <1>6, <1>7, Drops
<1>. QED
  BY <1>1, <1>3, <1>4, <1>6, <1>8, Operates
-----------------------------------------------------------------------------
(* Instructions on the row of a scan, when a table holds Rows.             *)

LEMMA TableHere ==
  ASSUME SessionInv, Contents = Rows, scanner # Nil
  PROVE  /\ heap[scanner.tbl] \in TableObject /\ scanner.tbl \in TableId
         /\ Current \in Rows
BY ScannerObject DEF TableObject, Current

LEMMA RowHere ==
  ASSUME SessionInv, Contents = Rows, Executing, Before.row
  PROVE  /\ scanner # Nil /\ vm.cursor.key \in Key /\ Current \in Rows
         /\ Current[vm.cursor.key] \in Seq(Storable)
<1>1. scanner # Nil /\ vm.cursor.key \in Key
  BY Here DEF Fits, Placed
<1>2. Current \in Rows
  BY <1>1, TableHere
<1>. QED
  BY <1>1, <1>2 DEF Rows

LEMMA ColumnKeeps ==
  ASSUME MachineInv, SessionInv, Contents = Rows, Column
  PROVE  MachineInv' /\ UNCHANGED sessionVars
<1> DEFINE i == vm.code[vm.ip]
<1>1. phase = "run" /\ ~vm.failed /\ i.op = "COLUMN"
  BY DEF Column, Executes
<1>2. PICK v \in Entries(Current[vm.cursor.key], i.arg) : Computes(0, Replaced(0, v))
  BY DEF Column, Arg
<1>3. i.op \in Pushes /\ i.op \notin Changers \union {"HALT"}
  BY <1>1 DEF Pushes, Changers
<1>4. Executing
  BY <1>1, <1>3, Kinds
<1>5. Pops(i) = 0 /\ ~IsName(Table, i)
  BY <1>1, <1>3, Effects DEF IsName
<1>6. Before.row
  BY <1>1, <1>4, Here DEF Ready
<1>7. v \in Datum
  <2> DEFINE row == Current[vm.cursor.key]
  <2>1. row \in Seq(Storable)
    BY <1>4, <1>6, RowHere
  <2>. HIDE DEF row
  <2>2. \A j \in DOMAIN row : row[j] \in Storable
    BY <2>1
  <2>3. v \in Storable \union Stray
    BY <1>2, <2>2 DEF Entries, row
  <2>. QED
    BY <2>3, Data
<1>8. IsMachine(Replaced(0, v)) /\ Running(Replaced(0, v), scanner)
  BY <1>1, <1>3, <1>4, <1>5, <1>7, Leaves
<1>. QED
  BY <1>1, <1>2, <1>4, <1>5, <1>8, Operates

\* The table is changed, or the statement fails.
LEMMA ChangesKeep ==
  ASSUME MachineInv, SessionInv, Contents = Rows, phase = "run", ~vm.failed,
         NEW i, i = vm.code[vm.ip], i.op \in {"INSERT_ROW", "UPDATE_COL", "DELETE_ROW"},
         NEW n, n = Pops(i), NEW possible \in BOOLEAN,
         NEW rows, rows \in Rows, Changes(n, possible, rows)
  PROVE  MachineInv' /\ (ChangeTable \/ UNCHANGED sessionVars)
<1> DEFINE m == [Moved(0) EXCEPT !.stack = Below(n)]
<1>1. i.op \notin Binaries \union Unaries \union Pushes \union Changers \union {"HALT"}
  BY DEF Binaries, Unaries, Pushes, Changers
<1>2. Executing /\ IsMachine(vm) /\ ~vm.ddl
  BY <1>1, Kinds DEF MachineInv
<1>3. phase' = phase
  BY DEF Changes
<1>4. CASE changeTable(rows) /\ vm' = m
  <2>1. PICK p : p = Moved(0)
    OBVIOUS
  <2>2. /\ IsMachine(p) /\ p.ip = vm.ip + 1 + 0 /\ p.code = vm.code
        /\ p.stack = vm.stack /\ p.cursor = vm.cursor /\ p.ddl = vm.ddl
    BY <1>2, <2>1, MachineFields
  <2>3. /\ IsMachine(m) /\ m.ip = vm.ip + 1 + 0 /\ m.code = vm.code
        /\ m.stack = Below(n) /\ m.cursor = vm.cursor /\ m.ddl = vm.ddl
    BY <2>1, <2>2 DEF IsMachine
  <2>4. Placed(m.cursor, scanner)
    BY <1>2, <2>3, Here
  <2>5. Below(n) = SubSeq(vm.stack, 1, Len(vm.stack) - Pops(i))
    BY DEF Below
  <2>. HIDE DEF m
  <2>6. Running(m, scanner)
    BY <1>1, <1>2, <2>3, <2>4, <2>5, Drops
  <2>7. scanner # Nil /\ scanner' = scanner
        /\ heap' = [heap EXCEPT ![scanner.tbl].rows = rows, ![scanner.tbl].dirty = TRUE]
    BY <1>4 DEF changeTable
  <2>8. MachineInv'
    BY <1>3, <1>4, <2>3, <2>4, <2>6, <2>7 DEF MachineInv, Running, Placed
  <2>9. heap'[scanner.tbl] \in TableObject /\ heap'[scanner.tbl].rows = rows
    <3>1. /\ heap[scanner.tbl] \in TableObject /\ scanner.tbl \in TableId
          /\ heap \in [TableId -> TableObject \union {Nil}]
      BY <2>7, TableHere DEF SessionInv, SessionTypeOK
    <3>2. heap'[scanner.tbl] = [[heap[scanner.tbl] EXCEPT !.rows = rows] EXCEPT !.dirty = TRUE]
      BY <2>7, <3>1
    <3> DEFINE o == heap[scanner.tbl]
               c == [[o EXCEPT !.rows = rows] EXCEPT !.dirty = TRUE]
    <3>3. c \in TableObject /\ c.rows = rows
      BY <3>1, ObjectWith
    <3>. HIDE DEF c
    <3>. QED
      BY <3>2, <3>3 DEF c
  <2>10. ChangeTable
    <3>1. heap'[scanner.tbl] # Nil
      BY <2>9, NilAssumption
    <3>2. changeTable(heap'[scanner.tbl].rows)
      BY <1>4, <2>9
    <3>. QED
      BY <2>7, <2>9, <3>1, <3>2 DEF ChangeTable
  <2>. QED
    BY <2>8, <2>10
<1>5. CASE UNCHANGED sessionVars /\ vm' = Failed
  <2>1. scanner' = scanner
    BY <1>5 DEF sessionVars
  <2>. QED
    BY <1>3, <1>5, <2>1, Fails
<1>. QED
  BY <1>4, <1>5 DEF Changes

\* A table with another row.
LEMMA RowsWith ==
  ASSUME NEW rows \in Rows, NEW row \in Seq(Storable), NEW k
  PROVE  [rows EXCEPT ![k] = row] \in Rows
BY DEF Rows

LEMMA InsertRowKeeps ==
  ASSUME MachineInv, SessionInv, Contents = Rows, InsertRow
  PROVE  MachineInv' /\ (ChangeTable \/ UNCHANGED sessionVars)
<1> DEFINE i == vm.code[vm.ip]
           values == SubSeq(vm.stack, Len(vm.stack) - i.arg + 1, Len(vm.stack))
           row == [j \in DOMAIN values |-> Stored(values[j])]
           pk == values[getPkIdx(readHT(scanner.name, schemaCache).cols)]
           k == pkToOk(pk[2])
           possible == IsInt(pk) /\ k \notin Present(Current) /\ RowSize(row) <= PageRoom
           rows == [Current EXCEPT ![k] = row]
<1>1. phase = "run" /\ ~vm.failed /\ i.op = "INSERT_ROW"
  BY DEF InsertRow, Executes
<1>2. Changes(i.arg, possible, rows)
  BY DEF InsertRow, Arg
<1>3. i.op \notin Changers \union {"HALT"} /\ i.op \in RowsOf
  BY <1>1 DEF RowsOf, Changers
<1>4. Executing
  BY <1>1, <1>3, Kinds
<1>5. Pops(i) = i.arg /\ i.arg \in Nat
  <2>1. WellFormed(Table, i)
    BY <1>4, Here
  <2>. QED
    BY <1>1, <1>3, <2>1, Effects DEF WellFormed, Jumps
<1>6. vm.stack \in Seq(Datum) /\ Len(vm.stack) >= i.arg
  BY <1>1, <1>4, <1>5, OperandsHere
<1>7. values \in Seq(Datum)
  BY <1>5, <1>6
<1>8. row \in Seq(Storable)
  <2>. HIDE DEF values
  <2>1. \A j \in DOMAIN values : Stored(values[j]) \in Storable
    <3>1. ASSUME NEW j \in DOMAIN values PROVE Stored(values[j]) \in Storable
      <4>1. values[j] \in Datum
        BY <1>7
      <4>. QED
        BY <4>1, StoredValue
    <3>. QED
      BY <3>1
  <2>2. DOMAIN values = 1 .. Len(values) /\ Len(values) \in Nat
    BY <1>7
  <2>. QED
    BY <2>1, <2>2
<1>9. scanner # Nil
  BY <1>1, <1>4, Here DEF Ready, Fits
<1>10. Current \in Rows
  BY <1>9, TableHere
<1>11. rows \in Rows
  <2>. HIDE DEF row, k
  <2>. QED
    BY <1>8, <1>10, RowsWith
<1>. HIDE DEF rows
<1>12. possible \in BOOLEAN
  OBVIOUS
<1>. HIDE DEF possible
<1>. QED
  BY <1>1, <1>2, <1>5, <1>11, <1>12, ChangesKeep

LEMMA UpdateColKeeps ==
  ASSUME MachineInv, SessionInv, Contents = Rows, UpdateCol
  PROVE  MachineInv' /\ (ChangeTable \/ UNCHANGED sessionVars)
<1> DEFINE i == vm.code[vm.ip]
           old == Current[vm.cursor.key]
           row == [old EXCEPT ![i.arg] = Stored(Top(0))]
           possible == RowSize(row) <= PageRoom
           rows == [Current EXCEPT ![vm.cursor.key] = row]
<1>1. phase = "run" /\ ~vm.failed /\ i.op = "UPDATE_COL" /\ Changes(1, possible, rows)
  BY DEF UpdateCol, Executes, Arg
<1>2. i.op \notin Changers \union {"HALT"} /\ i.op \in Consumers
  BY <1>1 DEF Consumers, Changers
<1>3. Executing
  BY <1>1, <1>2, Kinds
<1>4. Pops(i) = 1
  BY <1>2, Effects
<1>5. Stored(Top(0)) \in Storable
  <2>1. vm.stack \in Seq(Datum) /\ Len(vm.stack) >= 1
    BY <1>1, <1>3, <1>4, OperandsHere
  <2>2. Top(0) \in Datum
    BY <2>1 DEF Top
  <2>. QED
    BY <2>2, StoredValue
<1>6. Current \in Rows /\ old \in Seq(Storable)
  <2>1. Before.row
    BY <1>1, <1>3, Here DEF Ready
  <2>. QED
    BY <1>3, <2>1, RowHere
<1>7. row \in Seq(Storable)
  <2>1. PICK v \in Storable : v = Stored(Top(0))
    BY <1>5
  <2>2. row = [old EXCEPT ![i.arg] = v]
    BY <2>1
  <2>. HIDE DEF row, old
  <2>3. PICK L \in Nat : old \in [1 .. L -> Storable]
    BY <1>6
  <2>4. row \in [1 .. L -> Storable]
    BY <2>2, <2>3
  <2>. QED
    BY <2>4
<1>8. rows \in Rows
  <2>. HIDE DEF row
  <2>. QED
    BY <1>6, <1>7, RowsWith
<1>. HIDE DEF rows
<1>9. possible \in BOOLEAN
  OBVIOUS
<1>. HIDE DEF possible
<1>. QED
  BY <1>1, <1>4, <1>8, <1>9, ChangesKeep

LEMMA DeleteRowKeeps ==
  ASSUME MachineInv, SessionInv, Contents = Rows, DeleteRow
  PROVE  MachineInv' /\ (ChangeTable \/ UNCHANGED sessionVars)
<1> DEFINE i == vm.code[vm.ip]
           rows == [Current EXCEPT ![vm.cursor.key] = NoRow]
<1>1. phase = "run" /\ ~vm.failed /\ i.op = "DELETE_ROW" /\ Changes(0, TRUE, rows)
  BY DEF DeleteRow, Executes
<1>2. i.op \notin Changers \union {"HALT"} /\ i.op \in Bare
  BY <1>1 DEF Bare, Changers
<1>3. Executing
  BY <1>1, <1>2, Kinds
<1>4. Pops(i) = 0
  BY <1>2, Effects
<1>5. Current \in Rows
  <2>1. Before.row
    BY <1>1, <1>3, Here DEF Ready
  <2>. QED
    BY <1>3, <2>1, RowHere
<1>6. rows \in Rows
  <2>1. <<>> \in Seq(Storable)
    OBVIOUS
  <2>. QED
    BY <1>5, <2>1 DEF Rows, NoRow
<1>. HIDE DEF rows
<1>. QED
  BY <1>1, <1>4, <1>6, ChangesKeep
-----------------------------------------------------------------------------
(* Instructions that open and close scans.                                 *)

LEMMA OpenScanKeeps ==
  ASSUME MachineInv, OpenScan
  PROVE  MachineInv' /\ SessionNext
<1> DEFINE i == vm.code[vm.ip]
           m == Opened
<1>1. /\ phase = "run" /\ ~vm.failed /\ i.op = "OPEN_SCAN" /\ IsMachine(vm)
      /\ vm' = m /\ phase' = phase
      /\ openOpenTable(Top(0)[2]) \/ \E n \in Malloc : openNewTable(Top(0)[2], n)
  BY DEF OpenScan, Executes, MachineInv
<1>2. i.op \notin Changers \union {"HALT"} /\ i.op \in Consumers
      /\ i.op \notin Binaries \union Unaries \union Pushes
  BY <1>1 DEF Changers, Consumers, Binaries, Unaries, Pushes
<1>3. Executing /\ ~vm.ddl
  BY <1>1, <1>2, Kinds
<1>4. Pops(i) = 1
  BY <1>2, Effects
<1>5. Top(0)[2] \in Table
  <2>1. PICK front \in Seq(Datum), t \in Table : vm.stack = Append(front, NameVal(t))
    BY <1>1, <1>3, OperandsHere
  <2>2. Top(0) = NameVal(t)
    <3>1. Len(vm.stack) = Len(front) + 1 /\ Len(front) \in Nat
      BY <2>1
    <3>2. Len(vm.stack) - 0 = Len(front) + 1
      BY <3>1
    <3>. QED
      BY <2>1, <3>1, <3>2 DEF Top
  <2>. QED
    BY <2>2 DEF NameVal
<1>6. SessionNext
  BY <1>1, <1>5 DEF SessionNext, Malloc
<1>7. PICK f : f = (scanner' = Nil)
  OBVIOUS
<1>8. /\ IsMachine(m) /\ m.ip = vm.ip + 1 /\ m.code = vm.code /\ m.ddl = vm.ddl
      /\ m.stack = Below(1) /\ m.cursor = Unstarted /\ m.failed = f
  <2>1. PICK n : n = Moved(0)
    OBVIOUS
  <2>2. /\ IsMachine(n) /\ n.ip = vm.ip + 1 + 0 /\ n.code = vm.code
        /\ n.stack = vm.stack /\ n.cursor = vm.cursor /\ n.ddl = vm.ddl
    BY <1>1, <2>1, MachineFields
  <2>3. PICK p : p = [n EXCEPT !.stack = Below(1)]
    OBVIOUS
  <2>4. /\ IsMachine(p) /\ p.ip = n.ip /\ p.code = n.code /\ p.stack = Below(1)
        /\ p.ddl = n.ddl
    BY <2>2, <2>3 DEF IsMachine
  <2>5. PICK q : q = [p EXCEPT !.failed = f]
    OBVIOUS
  <2>6. /\ IsMachine(q) /\ q.ip = n.ip /\ q.code = n.code /\ q.stack = Below(1)
        /\ q.ddl = n.ddl /\ q.failed = f
    BY <2>4, <2>5 DEF IsMachine
  <2>7. m = [q EXCEPT !.cursor = Unstarted]
    BY <1>7, <2>1, <2>3, <2>5 DEF Opened
  <2>8. vm.ip + 1 + 0 = vm.ip + 1
    BY <1>3 DEF Executing, Running
  <2>. HIDE DEF m
  <2>. QED
    BY <2>2, <2>6, <2>7, <2>8 DEF IsMachine
<1>9. /\ \A sc : Placed(m.cursor, sc)
      /\ m.stack = SubSeq(vm.stack, 1, Len(vm.stack) - Pops(i))
  BY <1>4, <1>8 DEF Placed, Unstarted, Below
<1>. HIDE DEF m
<1>10. ASSUME NEW sc, sc # Nil PROVE Running(m, sc)
  <2>1. PICK p : p = m
    OBVIOUS
  <2>2. /\ p.ip = vm.ip + 1 /\ p.code = vm.code /\ ~p.ddl
        /\ p.stack = SubSeq(vm.stack, 1, Len(vm.stack) - Pops(i)) /\ Placed(p.cursor, sc)
    BY <1>3, <1>8, <1>9, <2>1
  <2>3. PICK j : j = i
    OBVIOUS
  <2>4. /\ j = vm.code[vm.ip] /\ j.op = "OPEN_SCAN" /\ Executing
        /\ j.op \notin Binaries \union Unaries \union Pushes
        /\ p.stack = SubSeq(vm.stack, 1, Len(vm.stack) - Pops(j))
    BY <1>1, <1>2, <1>3, <2>2, <2>3
  <2>5. Running(p, sc)
    <3>1. PICK jumps \in BOOLEAN : jumps = FALSE
      OBVIOUS
    <3>2. /\ j.op \notin {"JUMP", "HALT", "CLOSE_SCAN", "NEXT", "KEY_SEARCH"}
          /\ jumps => j.op \in Jumps
          /\ p.ip = IF jumps THEN vm.ip + 1 + j.arg ELSE vm.ip + 1
      BY <2>2, <2>4, <3>1
    <3>. QED
      BY ONLY <1>10, <2>2, <2>4, <3>2, Consumed
  <2>. QED
    BY <2>1, <2>5
<1>11. Running(m, scanner')
  <2>1. CASE scanner' # Nil
    BY <1>10, <2>1
  <2>2. CASE scanner' = Nil
    <3>1. \E sc : sc # Nil
      <4>1. CASE Nil = 0
        <5>1. 1 # Nil
          BY <4>1
        <5>. QED
          BY <5>1
      <4>2. CASE Nil # 0
        BY <4>2
      <4>. QED
        BY <4>1, <4>2
    <3>2. PICK sc : sc # Nil
      BY <3>1
    <3>3. Running(m, sc)
      BY <1>10, <3>2
    <3>4. m.failed
      BY <1>7, <1>8, <2>2
    <3>5. ~m.ddl
      BY <1>3, <1>8
    <3>. QED
      BY <1>9, <3>3, <3>4, <3>5 DEF Running
  <2>. QED
    BY <2>1, <2>2
<1>. QED
  BY <1>1, <1>6, <1>8, <1>11 DEF MachineInv, Placed, Running

LEMMA NoMachine == IsMachine(NoVM) /\ NoVM.cursor.place = "unstarted"
BY DEF IsMachine, NoVM, FreshVM, Unstarted

\* Where run() returns, or the process ends.
LEMMA Stops ==
  ASSUME MachineInv, phase' # "run", scanner' = Nil, vm' = vm \/ vm' = NoVM
  PROVE  MachineInv'
<1>. HIDE DEF NoVM
<1>. QED
  BY NoMachine DEF MachineInv

\* After a commit on the way.
LEMMA CommitsKeep ==
  ASSUME MachineInv, phase = "run", NEW outcome \in Outcome, NEW next,
         Commits(outcome, next), scanner' = Nil,
         outcome = "done" => IsMachine(next) /\ Running(next, Nil)
  PROVE  MachineInv'
<1>1. CASE outcome = "done"
  BY <1>1 DEF Commits, MachineInv, Running, Placed
<1>2. CASE outcome = "failed"
  <2>1. phase' = "reply" /\ vm' = vm
    BY <1>2 DEF Commits, Returns
  <2>. QED
    BY <2>1, Stops
<1>3. CASE outcome = "exited"
  <2>1. phase' = "off" /\ vm' = NoVM
    BY <1>3 DEF Commits, Off
  <2>. QED
    BY <2>1, Stops
<1>. QED
  BY <1>1, <1>2, <1>3 DEF Outcome

LEMMA CloseScanKeeps ==
  ASSUME MachineInv, NEW outcome \in Outcome, CloseScan(outcome)
  PROVE  MachineInv' /\ SessionNext
<1> DEFINE i == vm.code[vm.ip]
           m == [Moved(0) EXCEPT !.cursor = Unstarted]
<1>1. /\ phase = "run" /\ ~vm.failed /\ i.op = "CLOSE_SCAN" /\ IsMachine(vm)
      /\ closeScanner(outcome) /\ Commits(outcome, m)
  BY DEF CloseScan, ExecutesCommit, MachineInv
<1>2. i.op \notin Changers \union {"HALT"} /\ i.op \in Bare
      /\ i.op \notin Binaries \union Unaries \union Pushes
  BY <1>1 DEF Changers, Bare, Binaries, Unaries, Pushes
<1>3. Executing /\ ~vm.ddl
  BY <1>1, <1>2, Kinds
<1>4. Pops(i) = 0
  BY <1>2, Effects
<1>5. SessionNext
  BY <1>1 DEF SessionNext
<1>6. scanner' = Nil
  BY <1>1 DEF closeScanner, ProcessEnds
<1>7. vm.stack = SubSeq(vm.stack, 1, Len(vm.stack) - Pops(i))
  <2>1. vm.stack \in Seq(Datum)
    BY <1>1, <1>3, OperandsHere
  <2>. QED
    BY <1>4, <2>1
<1>8. /\ IsMachine(m) /\ m.ip = vm.ip + 1 /\ m.code = vm.code
      /\ m.stack = vm.stack /\ m.cursor = Unstarted /\ m.ddl = vm.ddl
  <2>1. PICK n : n = Moved(0)
    OBVIOUS
  <2>2. /\ IsMachine(n) /\ n.ip = vm.ip + 1 + 0 /\ n.code = vm.code
        /\ n.stack = vm.stack /\ n.cursor = vm.cursor /\ n.ddl = vm.ddl
    BY <1>1, <2>1, MachineFields
  <2>3. vm.ip + 1 + 0 = vm.ip + 1
    BY <1>3 DEF Executing, Running
  <2>. QED
    BY <2>1, <2>2, <2>3 DEF IsMachine
<1>9. Placed(m.cursor, Nil)
  BY <1>8 DEF Placed, Unstarted
<1>. HIDE DEF m
<1>10. Running(m, Nil)
  BY <1>1, <1>2, <1>3, <1>7, <1>8, <1>9, Consumed
<1>. QED
  BY <1>1, <1>5, <1>6, <1>8, <1>10, CommitsKeep

-----------------------------------------------------------------------------
(* Transactions.                                                           *)

\* The next instruction after one that leaves the machine and the scanner.
LEMMA Passes ==
  ASSUME MachineInv, phase = "run", ~vm.failed, NEW i, i = vm.code[vm.ip],
         i.op \in {"BEGIN", "COMMIT", "DISCARD"}
  PROVE  IsMachine(Moved(0)) /\ Running(Moved(0), Nil) /\ scanner = Nil
<1>1. i.op \notin Binaries \union Unaries \union Pushes \union Changers \union {"HALT"}
      /\ i.op \in Bare
  BY DEF Binaries, Unaries, Pushes, Changers, Bare
<1>2. Executing /\ ~vm.ddl
  BY <1>1, Kinds
<1>3. Pops(i) = 0
  BY <1>1, Effects
<1>4. vm.stack = SubSeq(vm.stack, 1, Len(vm.stack) - Pops(i))
  <2>1. vm.stack \in Seq(Datum)
    BY <1>2, OperandsHere
  <2>. QED
    BY <1>3, <2>1
<1>5. PICK n : n = Moved(0)
  OBVIOUS
<1>6. /\ IsMachine(n) /\ n.ip = vm.ip + 1 + 0 /\ n.code = vm.code
      /\ n.stack = vm.stack /\ n.cursor = vm.cursor /\ n.ddl = vm.ddl
  BY <1>5, MachineFields DEF MachineInv
<1>7. scanner = Nil
  BY <1>2, Here DEF Ready, Fits
<1>8. Placed(n.cursor, scanner)
  BY <1>2, <1>6, Here
<1>9. Running(n, scanner)
  BY <1>1, <1>2, <1>4, <1>6, <1>8, Drops
<1>. QED
  BY <1>5, <1>6, <1>7, <1>9

\* The machine and the scanner are as an instruction that passes leaves them.
LEMMA PassesTo ==
  ASSUME MachineInv, phase = "run", ~vm.failed, NEW i, i = vm.code[vm.ip],
         i.op \in {"BEGIN", "COMMIT", "DISCARD"}, vm' = Moved(0), scanner' = scanner,
         phase' = phase
  PROVE  MachineInv'
<1>1. IsMachine(Moved(0)) /\ Running(Moved(0), Nil) /\ scanner = Nil
  BY Passes
<1>. HIDE DEF Moved
<1>. QED
  BY <1>1 DEF MachineInv, Running, Placed

LEMMA BeginKeeps ==
  ASSUME MachineInv, Begin
  PROVE  MachineInv' /\ (SessionNext \/ UNCHANGED sessionVars)
<1>1. /\ phase = "run" /\ ~vm.failed /\ vm.code[vm.ip].op = "BEGIN"
      /\ phase' = phase
      /\ IF active THEN vm' = Failed /\ UNCHANGED sessionVars
         ELSE vm' = Moved(0) /\ beginTransaction
  BY DEF Begin, Executes
<1>2. CASE active
  <2>1. vm' = Failed /\ UNCHANGED sessionVars /\ scanner' = scanner
    BY <1>1, <1>2 DEF sessionVars
  <2>. QED
    BY <1>1, <2>1, Fails
<1>3. CASE ~active
  <2>1. vm' = Moved(0) /\ beginTransaction /\ scanner' = scanner
    BY <1>1, <1>3 DEF beginTransaction
  <2>2. MachineInv'
    BY <1>1, <2>1, PassesTo
  <2>. QED
    BY <2>1, <2>2 DEF SessionNext
<1>. QED
  BY <1>2, <1>3

LEMMA CommitKeepsMachine ==
  ASSUME MachineInv, NEW outcome \in Outcome, Commit(outcome)
  PROVE  MachineInv' /\ SessionNext
<1>1. /\ phase = "run" /\ ~vm.failed /\ vm.code[vm.ip].op = "COMMIT"
      /\ commitTransaction(outcome) /\ Commits(outcome, Moved(0))
  BY DEF Commit, ExecutesCommit
<1>2. scanner' = Nil
  BY <1>1 DEF commitTransaction, ProcessEnds
<1>3. IsMachine(Moved(0)) /\ Running(Moved(0), Nil)
  BY <1>1, Passes
<1>. QED
  BY <1>1, <1>2, <1>3, CommitsKeep DEF SessionNext

LEMMA DiscardKeeps ==
  ASSUME MachineInv, Discard
  PROVE  MachineInv' /\ SessionNext
<1>1. /\ phase = "run" /\ ~vm.failed /\ vm.code[vm.ip].op = "DISCARD"
      /\ phase' = phase /\ vm' = Moved(0) /\ discardTransaction
  BY DEF Discard, Executes
<1>2. scanner' = scanner
  BY <1>1 DEF discardTransaction
<1>. QED
  BY <1>1, <1>2, PassesTo DEF SessionNext

\* Instructions that fail.
LEMMA Failures ==
  ASSUME MachineInv,
         CannotLoadTable \/ CannotCreateTable \/ CannotDropTable \/ NoTransaction
  PROVE  MachineInv' /\ UNCHANGED sessionVars
<1>1. phase = "run" /\ vm' = Failed /\ phase' = phase /\ UNCHANGED sessionVars
  BY DEF CannotLoadTable, CannotCreateTable, CannotDropTable, NoTransaction, Computes,
         Executes
<1>2. scanner' = scanner
  BY <1>1 DEF sessionVars
<1>. QED
  BY <1>1, <1>2, Fails

LEMMA HaltKeeps ==
  ASSUME MachineInv, Halt
  PROVE  MachineInv' /\ UNCHANGED sessionVars
<1>1. /\ phase = "run" /\ ~vm.failed /\ vm.code[vm.ip].op = "HALT"
      /\ phase' = "reply" /\ vm' = vm /\ UNCHANGED sessionVars
  BY DEF Halt, Executes, Returns
<1>2. scanner = Nil
  <2>1. CASE vm.ddl
    BY <1>1, <2>1 DEF MachineInv, Running
  <2>2. CASE ~vm.ddl
    <3>1. Executing
      BY <1>1, <2>2, Kinds
    <3>. QED
      BY <1>1, <3>1, Here DEF Ready, Fits
  <2>. QED
    BY <2>1, <2>2
<1>3. scanner' = Nil
  BY <1>1, <1>2 DEF sessionVars
<1>. QED
  BY <1>1, <1>3, Stops

\* Undoing a statement.
LEMMA AbortKeeps ==
  ASSUME MachineInv, Abort
  PROVE  MachineInv' /\ (SessionNext \/ UNCHANGED sessionVars)
<1>1. /\ phase' = "reply" /\ vm' = vm
      /\ IF scanner = Nil THEN UNCHANGED sessionVars ELSE abortStatement
  BY DEF Abort, Returns
<1>2. scanner' = Nil
  BY <1>1 DEF sessionVars, abortStatement
<1>3. MachineInv'
  BY <1>1, <1>2, Stops
<1>. QED
  BY <1>1, <1>3 DEF SessionNext
-----------------------------------------------------------------------------
(* Statements that create and drop tables.                                 *)

LEMMA ChangesTable ==
  ASSUME MachineInv, phase = "run", ~vm.failed, NEW i, i = vm.code[vm.ip],
         i.op \in Changers
  PROVE  /\ vm.ip = 1 /\ i.arg \in Table /\ scanner = Nil /\ vm.ddl
         /\ IsMachine(Moved(0)) /\ Running(Moved(0), Nil) /\ Moved(0).ip = 2
<1>1. vm.ddl /\ Running(vm, scanner) /\ IsMachine(vm)
  BY Kinds DEF MachineInv
<1>2. /\ vm.code \in TableCode /\ vm.ip \in DOMAIN vm.code /\ scanner = Nil
      /\ vm.stack = <<>> /\ vm.cursor.place \in {"unstarted", "row", "end"}
  BY <1>1 DEF Running, Placed
<1>3. vm.code # <<[op |-> "HALT", arg |-> 0]>>
  <2>1. \A n \in DOMAIN <<[op |-> "HALT", arg |-> 0]>> :
          <<[op |-> "HALT", arg |-> 0]>>[n].op = "HALT"
    OBVIOUS
  <2>. QED
    BY <1>2, <2>1 DEF Changers
<1>4. PICK op \in {"CREATE_TABLE", "DROP_TABLE"}, t \in Table :
        vm.code = <<[op |-> op, arg |-> t], [op |-> "HALT", arg |-> 0]>>
  BY <1>2, <1>3 DEF TableCode
<1>5. vm.ip = 1 /\ i.arg \in Table
  <2>1. DOMAIN vm.code = {1, 2} /\ vm.code[2].op = "HALT" /\ vm.code[1].arg = t
    BY <1>4
  <2>. QED
    BY <1>2, <2>1 DEF Changers
<1>6. PICK n : n = Moved(0)
  OBVIOUS
<1>7. /\ IsMachine(n) /\ n.ip = vm.ip + 1 + 0 /\ n.code = vm.code
      /\ n.stack = vm.stack /\ n.cursor = vm.cursor /\ n.ddl = vm.ddl
  BY <1>1, <1>6, MachineFields
<1>8. n.ip = 2 /\ 2 \in DOMAIN vm.code
  BY <1>4, <1>5, <1>7
<1>9. Running(n, Nil)
  BY <1>1, <1>2, <1>7, <1>8 DEF Running, Placed
<1>. QED
  BY <1>1, <1>2, <1>5, <1>6, <1>7, <1>8, <1>9

\* A commit of a table's file is one of Session's, whatever it is to hold.
LEMMA CommitsFileKeeps ==
  ASSUME MachineInv, SessionInv, NEW outcome \in Outcome, phase = "run", ~vm.failed,
         NEW i, i = vm.code[vm.ip], i.op \in Changers,
         NEW rows, rows \in Contents \union {Nil}, NEW ht,
         CommitsFile(i.arg, rows, ht, outcome)
  PROVE  MachineInv' /\ SessionNext
<1>1. changeFile(i.arg, rows, outcome) /\ Commits(outcome, Moved(0))
  BY DEF CommitsFile
<1>2. /\ i.arg \in Table /\ scanner = Nil
      /\ IsMachine(Moved(0)) /\ Running(Moved(0), Nil)
  BY ChangesTable
<1>3. scanner' = Nil
  BY <1>1, <1>2 DEF changeFile, ProcessEnds
<1>4. MachineInv'
  BY <1>1, <1>2, <1>3, CommitsKeep
<1>5. ChangeFile(i.arg, outcome)
  <2>1. files \in [Table -> Contents \union {Nil}]
    BY DEF SessionInv, SessionTypeOK
  <2>2. CASE files' = [files EXCEPT ![i.arg] = rows]
    <3>1. files'[i.arg] = rows
      BY <1>2, <2>1, <2>2
    <3>. QED
      BY <1>1, <3>1 DEF ChangeFile
  <2>3. CASE files' = files /\ outcome # "done"
    <3>1. files'[i.arg] \in Contents \union {Nil}
      BY <1>2, <2>1, <2>3
    <3>2. outcome \in {"failed", "exited"}
      BY <2>3 DEF Outcome
    <3>3. changeFile(i.arg, files'[i.arg], outcome)
      BY <1>1, <2>3, <3>2 DEF changeFile
    <3>. QED
      BY <3>1, <3>3 DEF ChangeFile
  <2>4. files' = [files EXCEPT ![i.arg] = rows] \/ (files' = files /\ outcome # "done")
    BY <1>1 DEF changeFile, Outcome
  <2>. QED
    BY <2>2, <2>3, <2>4
<1>. QED
  BY <1>2, <1>4, <1>5 DEF SessionNext

\* The table that is created is empty.
NoRows == [k \in Key |-> NoRow]

LEMMA FileKeeps ==
  ASSUME MachineInv, SessionInv, Contents = Rows, NEW outcome \in Outcome,
         CreateTable(outcome) \/ DropTable(outcome)
  PROVE  MachineInv' /\ SessionNext
<1> DEFINE i == vm.code[vm.ip]
<1>1. /\ phase = "run" /\ ~vm.failed /\ i.op \in Changers
      /\ \/ CommitsFile(i.arg, NoRows, schemaCache, outcome)
         \/ CommitsFile(i.arg, Nil, deleteHT(i.arg, schemaCache), outcome)
  BY DEF CreateTable, DropTable, ExecutesCommit, Arg, Changers, NoRows
<1>2. NoRows \in Contents
  BY DEF Rows, NoRow, NoRows
<1>. QED
  BY <1>1, <1>2, CommitsFileKeeps

-----------------------------------------------------------------------------
(* The shell and interpret().                                              *)

\* A step of the shell, with no statement running before or after it.
LEMMA ShellKeeps ==
  ASSUME MachineInv,
         Start \/ Quit \/ Crash \/ (\E p \in Programs : Submit(p))
           \/ CannotLoadSchema \/ Continue
  PROVE  MachineInv' /\ (SessionNext \/ UNCHANGED sessionVars)
<1>1. CASE Start \/ (\E p \in Programs : Submit(p)) \/ CannotLoadSchema
  <2>1. /\ phase # "run" /\ phase' # "run" /\ UNCHANGED sessionVars /\ vm' = vm
    BY <1>1 DEF Start, Submit, CannotLoadSchema
  <2>2. scanner' = Nil
    BY <2>1 DEF sessionVars, MachineInv
  <2>. QED
    BY <2>1, <2>2, Stops
<1>2. ASSUME endSession, Off PROVE MachineInv' /\ SessionNext
  <2>1. phase' = "off" /\ scanner' = Nil /\ vm' = NoVM
    BY <1>2 DEF Off, endSession, ProcessEnds
  <2>. QED
    BY <1>2, <2>1, Stops DEF SessionNext
<1>3. CASE Quit \/ Crash
  BY <1>2, <1>3 DEF Quit, Crash
<1>4. CASE Continue
  <2>1. CASE endSession /\ Off
    BY <1>2, <2>1
  <2>2. CASE ~(endSession /\ Off)
    <3>1. /\ phase' \in {"ready", "idle"} /\ vm' = NoVM /\ UNCHANGED sessionVars
          /\ phase = "reply"
      BY <1>4, <2>2 DEF Continue
    <3>2. scanner' = Nil
      BY <3>1 DEF sessionVars, MachineInv
    <3>. QED
      BY <3>1, <3>2, Stops
  <2>. QED
    BY <2>1, <2>2
<1>. QED
  BY <1>1, <1>3, <1>4

\* The trees of the programs' queries.
LEMMA HeadQuery ==
  ASSUME source \in Seq(Segment), source # <<>>
  PROVE  /\ Head(source).query \in Query /\ Tail(source) \in Seq(Segment)
<1>1. Head(source) \in Segment
  OBVIOUS
<1>. QED
  BY <1>1 DEF Query

LEMMA Joined ==
  ASSUME NEW a, NEW b
  PROVE  <<a>> \o <<b>> = <<a, b>>
<1> DEFINE s == <<a>> \o <<b>>
<1>1. s \in Seq({a, b}) /\ Len(s) = 2 /\ s[1] = a /\ s[2] = b
  OBVIOUS
<1>. HIDE DEF s
<1>2. s = <<a, b>>
  BY <1>1
<1>. QED
  BY <1>2 DEF s

\* What is generated for CREATE and DROP.
LEMMA TableStatement ==
  ASSUME NEW q \in Query, NEW ht, Parse(q).kind \in {"CREATE", "DROP"}, NEW g,
         g = generate(Parse(q), ht)
  PROVE  /\ g.code \in TableCode /\ 1 \in DOMAIN g.code /\ g.ok
         /\ Parse(q).object # "TABLE" =>
              g.code[1].op = "HALT" /\ g.schema = ht
         /\ Parse(q).object = "TABLE" =>
              /\ g.code[1].arg = Parse(q).table /\ Parse(q).table \in Table
              /\ Parse(q).kind = "DROP" => g.code[1].op = "DROP_TABLE" /\ g.schema = ht
              /\ Parse(q).kind = "CREATE" =>
                   g.code[1].op = "CREATE_TABLE" /\ g.schema = createEntry(Parse(q), ht)
<1> DEFINE tree == Parse(q)
<1>1. tree.kind \notin {"SELECT", "INSERT", "UPDATE", "DELETE", "BEGIN", "COMMIT", "DISCARD"}
  OBVIOUS
<1>2. tree.object = "TABLE" => tree.table \in Table
  BY TreesAssumption
<1>. HIDE DEF tree
<1>3. CASE tree.object = "TABLE" /\ tree.kind = "CREATE"
  <2>1. g = Compiled(InstrArg("CREATE_TABLE", tree.table), createEntry(tree, ht))
    BY <1>1, <1>3 DEF generate, tree
  <2>2. /\ g.ok /\ g.schema = createEntry(tree, ht)
        /\ g.code = InstrArg("CREATE_TABLE", tree.table) \o Instr("HALT")
    BY <2>1 DEF Compiled
  <2>3. g.code = <<[op |-> "CREATE_TABLE", arg |-> tree.table], [op |-> "HALT", arg |-> 0]>>
    BY <2>2, Joined DEF InstrArg, Instr
  <2>4. g.code \in TableCode
    BY <1>2, <1>3, <2>3 DEF TableCode
  <2>. QED
    BY <1>2, <1>3, <2>2, <2>3, <2>4 DEF tree
<1>4. CASE tree.object = "TABLE" /\ tree.kind = "DROP"
  <2>1. g = Compiled(InstrArg("DROP_TABLE", tree.table), ht)
    BY <1>1, <1>4 DEF generate, tree
  <2>2. /\ g.ok /\ g.schema = ht
        /\ g.code = InstrArg("DROP_TABLE", tree.table) \o Instr("HALT")
    BY <2>1 DEF Compiled
  <2>3. g.code = <<[op |-> "DROP_TABLE", arg |-> tree.table], [op |-> "HALT", arg |-> 0]>>
    BY <2>2, Joined DEF InstrArg, Instr
  <2>4. g.code \in TableCode
    BY <1>2, <1>4, <2>3 DEF TableCode
  <2>. QED
    BY <1>2, <1>4, <2>2, <2>3, <2>4 DEF tree
<1>5. CASE tree.object # "TABLE"
  <2>1. g = Compiled(<<>>, ht)
    BY <1>1, <1>5 DEF generate, tree
  <2>2. g.ok /\ g.schema = ht /\ g.code = <<>> \o Instr("HALT")
    BY <2>1 DEF Compiled
  <2>3. g.code = <<[op |-> "HALT", arg |-> 0]>>
    BY <2>2 DEF Instr
  <2>4. g.code \in TableCode
    BY <2>3 DEF TableCode
  <2>. QED
    BY <1>5, <2>2, <2>3, <2>4 DEF tree
<1>. QED
  BY <1>3, <1>4, <1>5 DEF tree

\* A machine that starts.
LEMMA Starts ==
  ASSUME NEW code, NEW ddl \in BOOLEAN,
         ddl => code \in TableCode /\ 1 \in DOMAIN code, ~ddl => Sound(Table, code)
  PROVE  IsMachine(FreshVM(code, ddl)) /\ Running(FreshVM(code, ddl), Nil)
<1> DEFINE m == FreshVM(code, ddl)
<1>1. /\ IsMachine(m) /\ m.code = code /\ m.ip = 1 /\ m.stack = <<>>
      /\ m.cursor = Unstarted /\ m.ddl = ddl
  BY DEF FreshVM, IsMachine
<1>. HIDE DEF m
<1>2. Placed(m.cursor, Nil)
  BY <1>1 DEF Placed, Unstarted
<1>3. Running(m, Nil)
  <2>1. CASE ddl
    BY <1>1, <1>2, <2>1 DEF Running
  <2>2. CASE ~ddl
    <3>1. 1 \in DOMAIN code /\ Shapes(Table, code)[1] = AtStart
      BY <2>2 DEF Sound, SoundAs
    <3>2. Fits(m.stack, m.cursor, Nil, AtStart)
      BY <1>1 DEF Fits, AtStart, Operands
    <3>. QED
      BY <1>1, <1>2, <2>2, <3>1, <3>2 DEF Running
  <2>. QED
    BY <2>1, <2>2
<1>. QED
  BY <1>1, <1>3 DEF m

LEMMA InterpretKeeps ==
  ASSUME MachineInv, source \in Seq(Segment), source # <<>>, Interpret, CodeIsSound'
  PROVE  MachineInv' /\ (SessionNext \/ UNCHANGED sessionVars)
<1> DEFINE q == Head(source).query
           tree == Parse(q)
           ht == IF schemaCache = NoSchema THEN loadSchema(schemaFile) ELSE schemaCache
           ddl == tree.kind \in {"CREATE", "DROP"}
           g == generate(tree, ht)
<1>1. phase = "ready" /\ Handles(tree, ht) /\ q \in Query
  BY HeadQuery DEF Interpret
<1>2. scanner = Nil
  BY <1>1 DEF MachineInv
<1>3. CASE tree.kind = Exited
  <2>1. endSession /\ Off
    BY <1>1, <1>3 DEF Handles
  <2>2. phase' = "off" /\ scanner' = Nil /\ vm' = NoVM
    BY <2>1 DEF Off, endSession, ProcessEnds
  <2>. QED
    BY <2>1, <2>2, Stops DEF SessionNext
<1>4. CASE tree.kind # Exited
  <2>1. /\ UNCHANGED sessionVars
        /\ \/ Returns(TRUE, ht, FALSE) /\ UNCHANGED vm
           \/ Returns(FALSE, ht, FALSE) /\ UNCHANGED vm
           \/ Accepts(g, ddl)
    BY <1>1, <1>4 DEF Handles
  <2>2. scanner' = Nil
    BY <1>2, <2>1 DEF sessionVars
  <2>3. CASE \E r, s, d : Returns(r, s, d) /\ UNCHANGED vm
    <3>1. phase' = "reply" /\ vm' = vm
      BY <2>3 DEF Returns
    <3>. QED
      BY <2>1, <2>2, <3>1, Stops
  <2>4. CASE g.ok /\ phase' = "run" /\ vm' = FreshVM(g.code, ddl)
    <3>1. ddl => g.code \in TableCode /\ 1 \in DOMAIN g.code
      BY <1>1, TableStatement
    <3>2. ~ddl => Sound(Table, g.code)
      BY <2>4 DEF CodeIsSound, FreshVM
    <3>3. ddl \in BOOLEAN
      OBVIOUS
    <3>. HIDE DEF ddl, g
    <3>4. IsMachine(FreshVM(g.code, ddl)) /\ Running(FreshVM(g.code, ddl), Nil)
      BY <3>1, <3>2, <3>3, Starts
    <3>5. FreshVM(g.code, ddl).cursor.place = "unstarted"
      BY DEF FreshVM, Unstarted
    <3>. QED
      BY <2>1, <2>2, <2>4, <3>4, <3>5 DEF MachineInv
  <2>5. (\E r, s, d : Returns(r, s, d) /\ UNCHANGED vm)
        \/ (g.ok /\ phase' = "run" /\ vm' = FreshVM(g.code, ddl))
    <3>. HIDE DEF g, ddl, ht
    <3>. QED
      BY <2>1 DEF Accepts
  <2>. QED
    BY <2>3, <2>4, <2>5
<1>. QED
  BY <1>3, <1>4
-----------------------------------------------------------------------------
(* What a step leaves alone.                                               *)

\* An instruction that stays in the code of a statement on rows.
LEMMA SameKind ==
  ASSUME IsMachine(vm),
         \/ Push \/ Binary \/ Negate \/ Compare \/ Like \/ Test \/ Jump
         \/ OpenScan \/ CannotLoadTable
         \/ Advance \/ KeySearch \/ Rewind \/ Column \/ EmitRow
         \/ InsertRow \/ UpdateCol \/ DeleteRow
         \/ CannotCreateTable \/ CannotDropTable
         \/ Begin \/ Discard \/ NoTransaction \/ SetResult
  PROVE  vm'.ddl = vm.ddl
<1> DEFINE m(d) == Moved(d)
<1>1. /\ \A d : IsMachine(m(d)) /\ m(d).ddl = vm.ddl
      /\ Failed.ddl = vm.ddl
  BY MachineFields
<1>2. \A n, v : Replaced(n, v).ddl = vm.ddl
  <2>1. ASSUME NEW n, NEW v PROVE Replaced(n, v).ddl = vm.ddl
    <3>1. PICK p : p = m(0)
      OBVIOUS
    <3>2. Replaced(n, v) = [p EXCEPT !.stack = Append(Below(n), v)]
      BY <3>1 DEF Replaced
    <3>3. IsMachine(p) /\ p.ddl = vm.ddl
      BY <1>1, <3>1
    <3>. QED
      BY <3>2, <3>3 DEF IsMachine
  <2>. QED
    BY <2>1
<1>3. CASE Push
  BY <1>1, <1>2, <1>3 DEF Push, Computes
<1>4. CASE Binary
  BY <1>1, <1>2, <1>4 DEF Binary, Computes, Executes
<1>5. CASE Negate
  BY <1>1, <1>2, <1>5 DEF Negate, Computes
<1>6. CASE Compare
  BY <1>1, <1>2, <1>6 DEF Compare, Computes
<1>7. CASE Like
  BY <1>1, <1>2, <1>7 DEF Like, Computes
<1>8. CASE Test
  BY <1>1, <1>2, <1>8 DEF Test, Computes
<1>9. CASE Jump
  <2>1. \A d : [Moved(d) EXCEPT !.stack = Below(1)].ddl = vm.ddl
    <3>1. ASSUME NEW d PROVE [Moved(d) EXCEPT !.stack = Below(1)].ddl = vm.ddl
      BY <1>1 DEF IsMachine
    <3>. QED
      BY <3>1
  <2>2. Moved(Arg).ddl = vm.ddl
    BY <1>1
  <2>3. \/ vm' = Failed \/ vm' = Moved(Arg)
        \/ \E d : vm' = [Moved(d) EXCEPT !.stack = Below(1)]
    BY <1>9 DEF Jump, Computes
  <2>. QED
    BY <1>1, <2>1, <2>2, <2>3
<1>10. CASE OpenScan
  BY <1>1, <1>10 DEF OpenScan, Opened, IsMachine
<1>11. CASE Advance
  BY <1>1, <1>11 DEF Advance, Computes, IsMachine
<1>12. CASE KeySearch
  BY <1>1, <1>12 DEF KeySearch, Computes, IsMachine
<1>13. CASE Rewind
  BY <1>1, <1>13 DEF Rewind, Computes, IsMachine
<1>14. CASE Column
  BY <1>1, <1>2, <1>14 DEF Column, Computes
<1>15. CASE EmitRow
  BY <1>1, <1>15 DEF EmitRow, Computes, IsMachine
<1>16. CASE InsertRow
  BY <1>1, <1>16 DEF InsertRow, Changes, IsMachine
<1>17. CASE UpdateCol \/ DeleteRow
  BY <1>1, <1>17 DEF UpdateCol, DeleteRow, Changes, IsMachine
<1>18. CASE CannotCreateTable \/ CannotDropTable \/ NoTransaction
  BY <1>1, <1>18 DEF CannotCreateTable, CannotDropTable, NoTransaction, Computes
<1>19. CASE Begin \/ Discard \/ CannotLoadTable
  BY <1>1, <1>19 DEF Begin, Discard, CannotLoadTable
<1>20. CASE SetResult
  BY <1>1, <1>20 DEF SetResult, Computes, IsMachine
<1>. QED
  BY <1>3, <1>4, <1>5, <1>6, <1>7, <1>8, <1>9, <1>10, <1>11, <1>12, <1>13, <1>14, <1>15,
     <1>16, <1>17, <1>18, <1>19, <1>20

\* The statement runs on, or its result is returned.
RunsOn == UNCHANGED <<phase, schemaCache, ok, mode, source, script>>
ReturnsOk ==
  /\ phase' = "reply" /\ ok' \in BOOLEAN
  /\ schemaCache' = SchemaAfter(schemaCache, vm.ddl)
  /\ UNCHANGED <<mode, source, script>>

LEMMA CommitFrame ==
  ASSUME NEW outcome \in Outcome, NEW next, Commits(outcome, next)
  PROVE  (Calm \/ Disturbed) /\ ((RunsOn /\ vm' = next) \/ ReturnsOk \/ Off)
<1>1. CASE outcome = "done"
  BY <1>1 DEF Commits, RunsOn
<1>2. CASE outcome = "failed"
  BY <1>2 DEF Commits, ReturnsOk, Returns
<1>3. CASE outcome = "exited"
  BY <1>3 DEF Commits
<1>. QED
  BY <1>1, <1>2, <1>3 DEF Outcome

LEMMA RunFrame ==
  ASSUME Run
  PROVE  /\ phase = "run" /\ UNCHANGED cost /\ (Calm \/ Disturbed)
         /\ RunsOn \/ ReturnsOk \/ Off
<1>1. CASE Push \/ Binary \/ Negate \/ Compare \/ Like \/ Test \/ Advance \/ KeySearch
           \/ Rewind \/ Column \/ EmitRow \/ SetResult \/ CannotCreateTable
           \/ CannotDropTable \/ NoTransaction
  <2>1. Executes({vm.code[vm.ip].op}) /\ \E n, next : Computes(n, next)
    BY <1>1 DEF Push, Binary, Negate, Compare, Like, Test, Advance, KeySearch, Rewind,
       Column, EmitRow, SetResult, CannotCreateTable, CannotDropTable, NoTransaction,
       Executes
  <2>. QED
    BY <2>1 DEF Executes, Computes, RunsOn
<1>2. CASE Jump
  <2>1. Executes({vm.code[vm.ip].op}) /\ \E n, next : Computes(n, next)
    BY <1>2 DEF Jump, Executes
  <2>. QED
    BY <2>1 DEF Executes, Computes, RunsOn
<1>3. CASE InsertRow \/ UpdateCol \/ DeleteRow
  <2>1. Executes({vm.code[vm.ip].op}) /\ \E n, possible, rows : Changes(n, possible, rows)
    BY <1>3 DEF InsertRow, UpdateCol, DeleteRow, Executes
  <2>. QED
    BY <2>1 DEF Executes, Changes, RunsOn
<1>4. CASE OpenScan \/ CannotLoadTable \/ Begin \/ Discard
  BY <1>4 DEF OpenScan, CannotLoadTable, Begin, Discard, Executes, RunsOn
<1>5. CASE Halt
  BY <1>5 DEF Halt, Executes, Returns, ReturnsOk
<1>6. CASE Abort
  BY <1>6 DEF Abort, Returns, ReturnsOk, shellVars, Calm
<1>7. ASSUME NEW o \in Outcome, CloseScan(o) \/ CreateTable(o) \/ DropTable(o) \/ Commit(o)
      PROVE  /\ phase = "run" /\ UNCHANGED cost /\ (Calm \/ Disturbed)
             /\ RunsOn \/ ReturnsOk \/ Off
  <2>1. phase = "run" /\ UNCHANGED cost /\ \E next : Commits(o, next)
    BY <1>7 DEF CloseScan, CreateTable, DropTable, Commit, ExecutesCommit, CommitsFile
  <2>. QED
    BY <2>1, CommitFrame
<1>. QED
  BY <1>1, <1>2, <1>3, <1>4, <1>5, <1>6, <1>7 DEF Run, Instruction

-----------------------------------------------------------------------------
(* The inductive invariant: the shell.                                     *)

ShellInv ==
  /\ phase \in {"off", "idle", "ready", "run", "reply"}
  /\ mode \in {"repl", "file"} /\ ok \in BOOLEAN
  /\ source \in Seq(Segment)
  /\ phase = "ready" => source # <<>>
  /\ cost \in 0 .. MaxCost /\ faults \in 0 .. MaxFaults

LEMMA FaultsBounded ==
  ASSUME ShellInv, Calm \/ Disturbed
  PROVE  faults' \in 0 .. MaxFaults
BY BoundsAssumption DEF ShellInv, Calm, Disturbed

LEMMA EndsOff ==
  ASSUME ShellInv, Off, UNCHANGED cost, Calm \/ Disturbed
  PROVE  ShellInv'
<1>1. faults' \in 0 .. MaxFaults
  BY FaultsBounded
<1>2. <<>> \in Seq(Segment)
  OBVIOUS
<1>. QED
  BY <1>1, <1>2 DEF ShellInv, Off

LEMMA ShellInvKeeps ==
  ASSUME ShellInv, Next
  PROVE  ShellInv'
<1>1. CASE Run
  <2>1. /\ phase = "run" /\ UNCHANGED cost /\ (Calm \/ Disturbed)
        /\ RunsOn \/ ReturnsOk \/ Off
    BY <1>1, RunFrame
  <2>2. faults' \in 0 .. MaxFaults
    BY <2>1, FaultsBounded
  <2>3. CASE RunsOn
    BY <2>1, <2>2, <2>3 DEF RunsOn, ShellInv
  <2>4. CASE ReturnsOk
    BY <2>1, <2>2, <2>4 DEF ReturnsOk, ShellInv
  <2>5. CASE Off
    BY <2>1, <2>5, EndsOff
  <2>. QED
    BY <2>1, <2>3, <2>4, <2>5
<1>2. CASE Start
  BY <1>2 DEF Start, ShellInv, shellVars
<1>3. CASE Quit
  BY <1>3, EndsOff DEF Quit, Calm
<1>4. CASE Crash
  BY <1>4, EndsOff DEF Crash
<1>5. ASSUME NEW p \in Programs, Submit(p)
      PROVE  ShellInv'
  <2>1. /\ p.mode \in {"repl", "file"} /\ p.cost \in Nat
        /\ Queries(p) \in Seq(Segment) /\ Queries(p) # <<>>
    BY ProgramsAssumption
  <2>2. cost' \in 0 .. MaxCost
    BY <1>5, <2>1, BoundsAssumption DEF Submit, ShellInv
  <2>. QED
    BY <1>5, <2>1, <2>2 DEF Submit, ShellInv
<1>6. CASE CannotLoadSchema
  <2>1. faults' \in 0 .. MaxFaults
    BY <1>6, FaultsBounded DEF CannotLoadSchema
  <2>. QED
    BY <1>6, <2>1 DEF CannotLoadSchema, ShellInv
<1>7. CASE Continue
  <2>1. CASE mode = "file" /\ (~ok \/ source = <<>>)
    BY <1>7, <2>1, EndsOff DEF Continue, Calm
  <2>2. CASE ~(mode = "file" /\ (~ok \/ source = <<>>))
    BY <1>7, <2>2 DEF Continue, ShellInv
  <2>. QED
    BY <2>1, <2>2
<1>8. CASE Interpret
  <2> DEFINE tree == Parse(Head(source).query)
             ht == IF schemaCache = NoSchema THEN loadSchema(schemaFile) ELSE schemaCache
             ddl == tree.kind \in {"CREATE", "DROP"}
             g == generate(tree, ht)
  <2>1. phase = "ready" /\ Handles(tree, ht) /\ UNCHANGED cost /\ Calm
    BY <1>8 DEF Interpret
  <2>2. CASE tree.kind = Exited
    <3>1. Off
      BY <2>1, <2>2 DEF Handles
    <3>. QED
      BY <2>1, <3>1, EndsOff
  <2>3. CASE tree.kind # Exited
    <3>1. /\ source' = Tail(source) /\ mode' = mode
          /\ \/ Returns(TRUE, ht, FALSE)
             \/ Returns(FALSE, ht, FALSE)
             \/ Accepts(g, ddl)
      BY <2>1, <2>3 DEF Handles
    <3>. HIDE DEF g, ddl, ht
    <3>2. phase' \in {"run", "reply"} /\ (ok' = ok \/ ok' \in BOOLEAN)
      BY <3>1 DEF Accepts, Returns
    <3>3. Tail(source) \in Seq(Segment)
      BY <2>1, HeadQuery DEF ShellInv
    <3>. QED
      BY <2>1, <3>1, <3>2, <3>3 DEF ShellInv, Calm
  <2>. QED
    BY <2>2, <2>3
<1>. QED
  BY <1>1, <1>2, <1>3, <1>4, <1>5, <1>6, <1>7, <1>8 DEF Next

-----------------------------------------------------------------------------
(* The inductive invariant: the schema and the tables' files.              *)

\* The columns a table can have.
Columns ==
  (UNION {{d[t].cols : t \in DOMAIN d} : d \in Databases})
  \union {Parse(q).columns : q \in {r \in Query : /\ Parse(r).kind = "CREATE"
                                                  /\ Parse(r).object = "TABLE"}}

Tabled == {schemaFile[i] : i \in DOMAIN schemaFile}
Filed == {t \in Table : files[t] # Nil}

\* The cached schema is true, or, for a CREATE or a DROP about to be run, as
\* generating its code left it.
CacheHolds(E) == HoldsTable(schemaCache, Table, Columns, E)
CacheInv ==
  /\ schemaCache # NoSchema /\ ~(phase = "run" /\ vm.ddl) => CacheHolds(Tabled)
  /\ phase = "run" /\ vm.ddl /\ vm.ip = 1 =>
       /\ vm.code[1].op = "DROP_TABLE" => CacheHolds(Tabled)
       /\ vm.code[1].op = "CREATE_TABLE" /\ vm.code[1].arg \notin Filed =>
            \E cols \in Columns :
              CacheHolds(Tabled \union {[name |-> vm.code[1].arg, cols |-> cols]})

FilesInv ==
  /\ FileOf(schemaFile, Table, Columns, Tabled)
  /\ {e.name : e \in Tabled} = Filed

SchemaInv == FilesInv /\ CacheInv

LEMMA NamesHashed == Hashed(Table)
BY NamesAssumption DEF Hashed

\* Only CREATE and DROP change which tables have files.
LEMMA WrittenTables ==
  ASSUME SessionInv, NEW N, N \subseteq TableId, NEW t \in Table
  PROVE  Written(N)[t] = Nil <=> files[t] = Nil
<1>1. CASE \E n \in Pending(N) : heap[n].name = t
  <2>1. PICK n \in Pending(N) : heap[n].name = t
    BY <1>1
  <2>2. n \in TableId /\ heap[n] # Nil /\ heap[n] \in TableObject
    BY <2>1 DEF Pending, SessionInv, SessionTypeOK
  <2>3. files[t] # Nil
    BY <2>1, <2>2 DEF SessionInv, ObjectsMatch
  <2>4. Written(N)[t] = heap[n].rows
    BY <2>1, WrittenFiles DEF SessionInv
  <2>5. heap[n].rows \in Contents
    BY <2>2 DEF TableObject
  <2>. QED
    BY <2>3, <2>4, <2>5, NilAssumption
<1>2. CASE ~\E n \in Pending(N) : heap[n].name = t
  BY <1>2 DEF Written
<1>. QED
  BY <1>1, <1>2

LEMMA CommitFiled ==
  ASSUME SessionInv, NEW N, N \subseteq TableId, NEW outcome \in Outcome,
         commitTables(N, outcome)
  PROVE  Filed' = Filed
<1>1. files' = files \/ files' = Written(N)
  BY DEF commitTables, Outcome
<1>. QED
  BY <1>1, WrittenTables DEF Filed

\* The steps of a session that change no file of CREATE and DROP.
LEMMA SessionFiled ==
  ASSUME SessionInv,
         \/ \E t : openOpenTable(t) \/ \E n \in Malloc : openNewTable(t, n)
         \/ \E rows : changeTable(rows)
         \/ \E o \in Outcome : closeScanner(o) \/ commitTransaction(o)
         \/ abortStatement \/ beginTransaction \/ discardTransaction \/ endSession
         \/ UNCHANGED sessionVars
  PROVE  Filed' = Filed
<1>1. ASSUME UNCHANGED files PROVE Filed' = Filed
  BY <1>1 DEF Filed
<1>2. CASE \E t : openOpenTable(t) \/ \E n \in Malloc : openNewTable(t, n)
  BY <1>1, <1>2 DEF openOpenTable, openNewTable, Insert, sessionVars
<1>3. CASE \/ \E rows : changeTable(rows)
           \/ abortStatement \/ beginTransaction \/ discardTransaction \/ endSession
           \/ UNCHANGED sessionVars
  BY <1>1, <1>3 DEF changeTable, abortStatement, beginTransaction, discardTransaction,
     endSession, sessionVars
<1>4. ASSUME NEW o \in Outcome, closeScanner(o) PROVE Filed' = Filed
  <2>1. UNCHANGED files \/ commitTables({scanner.tbl}, o)
    BY <1>4 DEF closeScanner
  <2>2. scanner.tbl \in TableId
    BY <1>4, ScannerObject DEF closeScanner
  <2>. QED
    BY <1>1, <2>1, <2>2, CommitFiled
<1>5. ASSUME NEW o \in Outcome, commitTransaction(o) PROVE Filed' = Filed
  BY <1>5, CommitFiled, TransactionObjects DEF commitTransaction
<1>. QED
  BY <1>2, <1>3, <1>4, <1>5

LEMMA RunFiled ==
  ASSUME SessionInv, Run, \A o \in Outcome : ~CreateTable(o) /\ ~DropTable(o)
  PROVE  Filed' = Filed /\ schemaFile' = schemaFile
<1>1. CASE Push \/ Binary \/ Negate \/ Compare \/ Like \/ Test \/ Advance \/ KeySearch
           \/ Rewind \/ Column \/ EmitRow \/ SetResult \/ CannotCreateTable
           \/ CannotDropTable \/ NoTransaction
  <2>1. \E n, next : Computes(n, next)
    BY <1>1 DEF Push, Binary, Negate, Compare, Like, Test, Advance, KeySearch, Rewind,
       Column, EmitRow, SetResult, CannotCreateTable, CannotDropTable, NoTransaction
  <2>. QED
    BY <2>1, SessionFiled DEF Computes
<1>2. CASE Jump
  <2>1. \E n, next : Computes(n, next)
    BY <1>2 DEF Jump
  <2>. QED
    BY <2>1, SessionFiled DEF Computes
<1>3. CASE InsertRow \/ UpdateCol \/ DeleteRow
  <2>1. \E n, possible, rows : Changes(n, possible, rows)
    BY <1>3 DEF InsertRow, UpdateCol, DeleteRow
  <2>2. (UNCHANGED sessionVars \/ \E rows : changeTable(rows)) /\ schemaFile' = schemaFile
    BY <2>1 DEF Changes
  <2>. QED
    BY <2>2, SessionFiled
<1>4. CASE OpenScan
  <2>1. schemaFile' = schemaFile
        /\ \E t : openOpenTable(t) \/ \E n \in Malloc : openNewTable(t, n)
    BY <1>4 DEF OpenScan
  <2>. QED
    BY <2>1, SessionFiled
<1>5. CASE CannotLoadTable \/ Halt
  BY <1>5, SessionFiled DEF CannotLoadTable, Halt
<1>6. CASE Begin
  BY <1>6, SessionFiled DEF Begin
<1>7. CASE Discard
  BY <1>7, SessionFiled DEF Discard
<1>8. CASE Abort
  BY <1>8, SessionFiled DEF Abort
<1>9. ASSUME NEW o \in Outcome, CloseScan(o) \/ Commit(o)
      PROVE  Filed' = Filed /\ schemaFile' = schemaFile
  BY <1>9, SessionFiled DEF CloseScan, Commit
<1>. QED
  BY <1>1, <1>2, <1>3, <1>4, <1>5, <1>6, <1>7, <1>8, <1>9 DEF Run, Instruction

\* A step after which no statement that changes the schema is about to run.
LEMMA SchemaRests ==
  ASSUME FilesInv, Filed' = Filed, schemaFile' = schemaFile,
         ~(phase' = "run" /\ vm'.ddl),
         \/ schemaCache' = NoSchema
         \/ schemaCache' = schemaCache /\ CacheHolds(Tabled)
         \/ HoldsTable(schemaCache', Table, Columns, Tabled)
  PROVE  SchemaInv'
<1>1. Tabled' = Tabled
  BY DEF Tabled
<1>. QED
  BY <1>1 DEF SchemaInv, FilesInv, CacheInv, CacheHolds

LEMMA RunKeepsSchema ==
  ASSUME SessionInv, MachineInv, SchemaInv, Run,
         \A o \in Outcome : ~CreateTable(o) /\ ~DropTable(o)
  PROVE  SchemaInv'
<1>1. /\ phase = "run"
      /\ RunsOn \/ ReturnsOk \/ Off
      /\ Filed' = Filed /\ schemaFile' = schemaFile
  BY RunFrame, RunFiled
<1>2. IsMachine(vm)
  BY DEF MachineInv
<1>3. ~vm.ddl /\ schemaCache # NoSchema => CacheHolds(Tabled)
  BY DEF SchemaInv, CacheInv
<1>4. CASE Off
  BY <1>1, <1>4, SchemaRests DEF Off, SchemaInv
<1>5. CASE ReturnsOk
  <2>1. schemaCache' = NoSchema \/ (schemaCache' = schemaCache /\ ~vm.ddl)
    BY <1>5 DEF ReturnsOk, SchemaAfter
  <2>2. phase' # "run"
    BY <1>5 DEF ReturnsOk
  <2>. QED
    BY <1>1, <1>3, <2>1, <2>2, SchemaRests DEF SchemaInv
<1>6. CASE RunsOn
  <2>1. phase' = "run" /\ schemaCache' = schemaCache
    BY <1>1, <1>6 DEF RunsOn
  <2>2. vm'.ddl = vm.ddl /\ (vm.ddl => vm' = Failed)
    <3>1. CASE Abort \/ Halt
      BY <2>1, <3>1 DEF Abort, Halt, Returns
    <3>2. ASSUME NEW o \in Outcome, CloseScan(o) \/ Commit(o)
          PROVE  vm'.ddl = vm.ddl /\ (vm.ddl => vm' = Failed)
      <4>1. /\ ~vm.failed /\ vm.code[vm.ip].op \in {"CLOSE_SCAN", "COMMIT"}
            /\ Commits(o, [Moved(0) EXCEPT !.cursor = Unstarted]) \/ Commits(o, Moved(0))
        BY <3>2 DEF CloseScan, Commit, ExecutesCommit
      <4>2. ~vm.ddl
        BY <1>1, <4>1, Kinds DEF Changers
      <4>3. \/ vm' = [Moved(0) EXCEPT !.cursor = Unstarted] \/ vm' = Moved(0)
        BY <2>1, <4>1 DEF Commits, Returns, Off, Outcome
      <4>4. IsMachine(Moved(0)) /\ Moved(0).ddl = vm.ddl
        BY <1>2, MachineFields
      <4>5. vm'.ddl = vm.ddl
        <5>1. PICK n : n = Moved(0)
          OBVIOUS
        <5>. QED
          BY <4>3, <4>4, <5>1 DEF IsMachine
      <4>. QED
        BY <4>2, <4>5
    <3>3. CASE \/ Push \/ Binary \/ Negate \/ Compare \/ Like \/ Test \/ Jump
               \/ OpenScan \/ CannotLoadTable
               \/ Advance \/ KeySearch \/ Rewind \/ Column \/ EmitRow
               \/ InsertRow \/ UpdateCol \/ DeleteRow
               \/ CannotCreateTable \/ CannotDropTable
               \/ Begin \/ Discard \/ NoTransaction \/ SetResult
      <4>1. vm'.ddl = vm.ddl
        BY <1>2, <3>3, SameKind
      <4>2. CASE CannotCreateTable \/ CannotDropTable
        BY <4>1, <4>2 DEF CannotCreateTable, CannotDropTable, Computes
      <4>3. CASE ~(CannotCreateTable \/ CannotDropTable)
        <5>1. ~vm.failed /\ vm.code[vm.ip].op \notin Changers \union {"HALT"}
          BY <3>3, <4>3 DEF Push, Binary, Negate, Compare, Like, Test, Jump, OpenScan,
             CannotLoadTable, Advance, KeySearch, Rewind, Column, EmitRow, InsertRow,
             UpdateCol, DeleteRow, Begin, Discard, NoTransaction, SetResult, Executes,
             Changers
        <5>. QED
          BY <1>1, <4>1, <5>1, Kinds
      <4>. QED
        BY <4>2, <4>3
    <3>. QED
      BY <3>1, <3>2, <3>3 DEF Run, Instruction
  <2>3. CASE vm.ddl
    <3>1. /\ vm'.ip = vm.ip /\ vm'.code = vm.code
      BY <1>2, <2>2, <2>3, MachineFields
    <3>2. Tabled' = Tabled
      BY <1>1 DEF Tabled
    <3>. QED
      BY <1>1, <2>1, <2>2, <2>3, <3>1, <3>2 DEF SchemaInv, FilesInv, CacheInv, CacheHolds
  <2>4. CASE ~vm.ddl
    BY <1>1, <1>3, <2>1, <2>2, <2>4, SchemaRests DEF SchemaInv
  <2>. QED
    BY <2>3, <2>4
<1>. QED
  BY <1>1, <1>4, <1>5, <1>6

\* After the schema's file is written with the table's, or neither is.
LEMMA FileKeepsSchema ==
  ASSUME SessionInv, MachineInv, SchemaInv, Contents = Rows, NEW outcome \in Outcome,
         CreateTable(outcome) \/ DropTable(outcome)
  PROVE  SchemaInv'
<1> DEFINE i == vm.code[vm.ip]
           t == i.arg
           rows == IF CreateTable(outcome) THEN NoRows ELSE Nil
           ht == IF CreateTable(outcome) THEN schemaCache ELSE deleteHT(t, schemaCache)
<1>1. /\ phase = "run" /\ ~vm.failed /\ i.op \in Changers
      /\ CreateTable(outcome) => i.op = "CREATE_TABLE" /\ t \notin Filed
      /\ ~CreateTable(outcome) => i.op = "DROP_TABLE"
      /\ CommitsFile(t, rows, ht, outcome)
  BY DEF CreateTable, DropTable, ExecutesCommit, Arg, Changers, NoRows, MayCreate, Filed
<1>2. /\ vm.ip = 1 /\ t \in Table /\ vm.ddl /\ IsMachine(Moved(0)) /\ Moved(0).ip = 2
  BY <1>1, ChangesTable
<1>3. /\ files' = files \/ files' = [files EXCEPT ![t] = rows]
      /\ schemaFile' = IF files' = files THEN schemaFile ELSE serializeSchema(ht)
      /\ Commits(outcome, Moved(0))
  BY <1>1 DEF CommitsFile, changeFile, Outcome
<1>4. CacheInv'
  <2>1. \/ vm' = Moved(0) /\ phase' = phase
        \/ phase' # "run" /\ schemaCache' = NoSchema
    <3>1. (RunsOn /\ vm' = Moved(0)) \/ ReturnsOk \/ Off
      BY <1>3, CommitFrame
    <3>. QED
      BY <1>2, <3>1 DEF RunsOn, ReturnsOk, Off, SchemaAfter
  <2>2. CASE vm' = Moved(0) /\ phase' = phase
    <3>1. vm'.ddl = vm.ddl /\ vm'.ip = 2
      BY <1>2, <2>2, MachineFields DEF MachineInv
    <3>2. phase' = "run"
      BY <1>1, <2>2
    <3>3. vm'.ddl
      BY <1>2, <3>1
    <3>4. vm'.ip # 1
      BY <3>1
    <3>. QED
      BY <3>2, <3>3, <3>4 DEF CacheInv
  <2>3. CASE phase' # "run" /\ schemaCache' = NoSchema
    BY <2>3 DEF CacheInv
  <2>. QED
    BY <2>1, <2>2, <2>3
<1>5. files \in [Table -> Contents \union {Nil}]
  BY DEF SessionInv, SessionTypeOK
<1>6. CASE files' = files
  <2>1. Filed' = Filed /\ Tabled' = Tabled /\ schemaFile' = schemaFile
    BY <1>3, <1>6 DEF Filed, Tabled
  <2>. QED
    BY <1>4, <2>1 DEF SchemaInv, FilesInv
<1>7. CASE files' # files
  <2>1. files' = [files EXCEPT ![t] = rows] /\ schemaFile' = serializeSchema(ht)
    BY <1>3, <1>7
  <2>2. CASE CreateTable(outcome)
    <3>1. PICK cols \in Columns : CacheHolds(Tabled \union {[name |-> t, cols |-> cols]})
      BY <1>1, <1>2, <2>2 DEF SchemaInv, CacheInv
    <3> DEFINE e == [name |-> t, cols |-> cols]
    <3>2. FileOf(schemaFile', Table, Columns, Tabled \union {e})
      <4>1. HoldsTable(schemaCache, Table, Columns, Tabled \union {e})
        BY <3>1 DEF CacheHolds
      <4>2. schemaFile' = serializeSchema(schemaCache)
        BY <2>1, <2>2
      <4>. QED
        BY <4>1, <4>2, NamesHashed, FileWritten
    <3>3. Tabled' = Tabled \union {e}
      BY <3>2 DEF FileOf, Tabled
    <3>4. Filed' = Filed \union {t}
      <4>1. NoRows # Nil
        <5>1. NoRows \in Contents
          BY DEF Rows, NoRow, NoRows
        <5>. QED
          BY <5>1, NilAssumption
      <4>2. files' = [files EXCEPT ![t] = NoRows]
        BY <2>1, <2>2
      <4>. QED
        BY <1>2, <1>5, <4>1, <4>2 DEF Filed
    <3>5. {x.name : x \in Tabled \union {e}} = {x.name : x \in Tabled} \union {t}
      <4>1. e.name = t
        OBVIOUS
      <4>. HIDE DEF e, t
      <4>. QED
        BY <4>1
    <3>6. {x.name : x \in Tabled} = Filed
      BY DEF SchemaInv, FilesInv
    <3>7. FilesInv'
      BY <3>2, <3>3, <3>4, <3>5, <3>6 DEF FilesInv
    <3>. QED
      BY <1>4, <3>7 DEF SchemaInv
  <2>3. CASE ~CreateTable(outcome)
    <3> DEFINE D == {e \in Tabled : e.name # t}
    <3>1. HoldsTable(schemaCache, Table, Columns, Tabled)
      BY <1>1, <1>2, <2>3 DEF SchemaInv, CacheInv, CacheHolds
    <3>2. FileOf(schemaFile', Table, Columns, D)
      <4>1. schemaFile' = serializeSchema(deleteHT(t, schemaCache))
        BY <2>1, <2>3
      <4>. QED
        BY <1>2, <3>1, <4>1, NamesHashed, FileWrittenWithout
    <3>3. Tabled' = D
      BY <3>2 DEF FileOf, Tabled
    <3>4. Filed' = Filed \ {t}
      <4>1. files' = [files EXCEPT ![t] = Nil]
        BY <2>1, <2>3
      <4>. QED
        BY <1>2, <1>5, <4>1 DEF Filed
    <3>5. {x.name : x \in D} = {x.name : x \in Tabled} \ {t}
      OBVIOUS
    <3>6. {x.name : x \in Tabled} = Filed
      BY DEF SchemaInv, FilesInv
    <3>7. FilesInv'
      BY <3>2, <3>3, <3>4, <3>5, <3>6 DEF FilesInv
    <3>. QED
      BY <1>4, <3>7 DEF SchemaInv
  <2>. QED
    BY <2>2, <2>3
<1>. QED
  BY <1>6, <1>7

\* The schema that interpret() works with.
LEMMA SchemaLoaded ==
  ASSUME SchemaInv, phase # "run", NEW ht,
         ht = IF schemaCache = NoSchema THEN loadSchema(schemaFile) ELSE schemaCache
  PROVE  HoldsTable(ht, Table, Columns, Tabled)
<1>1. CASE schemaCache = NoSchema
  BY <1>1, NamesHashed, Loaded DEF SchemaInv, FilesInv
<1>2. CASE schemaCache # NoSchema
  BY <1>2 DEF SchemaInv, CacheInv, CacheHolds
<1>. QED
  BY <1>1, <1>2

\* Generating CREATE TABLE adds its entry to a schema without one.
LEMMA EntryCreated ==
  ASSUME NEW q \in Query, Parse(q).kind = "CREATE", Parse(q).object = "TABLE",
         NEW ht, NEW E, HoldsTable(ht, Table, Columns, E), FileOf(schemaFile, Table, Columns, E),
         NEW t, t = Parse(q).table, t \in Table, \A e \in E : e.name # t
  PROVE  /\ Parse(q).columns \in Columns
         /\ HoldsTable(createEntry(Parse(q), ht), Table, Columns,
                       E \union {[name |-> t, cols |-> Parse(q).columns]})
<1>1. Parse(q).columns \in Columns
  <2> DEFINE R == {r \in Query : Parse(r).kind = "CREATE" /\ Parse(r).object = "TABLE"}
  <2>1. q \in R
    OBVIOUS
  <2>. HIDE DEF R
  <2> DEFINE A == UNION {{d[u].cols : u \in DOMAIN d} : d \in Databases}
             B == {Parse(r).columns : r \in R}
  <2>2. Parse(q).columns \in B
    BY <2>1
  <2>3. Columns = A \union B
    BY DEF Columns, R
  <2>. HIDE DEF A, B
  <2>. QED
    BY <2>2, <2>3
<1> DEFINE e == [name |-> t, cols |-> Parse(q).columns]
<1>2. e \in Entry(Table, Columns) /\ e.name = t
  BY <1>1 DEF Entry
<1>3. readHT(t, ht) = Vacant
  BY NamesHashed, ReadsIt
<1>4. createEntry(Parse(q), ht) = insertHT(e, ht)
  BY <1>3 DEF createEntry
<1>. HIDE DEF e
<1>5. HoldsTable(insertHT(e, ht), Table, Columns, E \union {e})
  BY <1>2, NamesHashed, Inserted
<1>. QED
  BY <1>1, <1>4, <1>5 DEF e

LEMMA OtherStatement ==
  ASSUME NEW tree, NEW ht, tree.kind \notin {"CREATE", "DROP"}
  PROVE  generate(tree, ht).schema = ht
<1>1. CASE tree.kind \in {"SELECT", "INSERT", "UPDATE", "DELETE"}
  BY <1>1 DEF generate, Rejected, Compiled
<1>2. CASE tree.kind \notin {"SELECT", "INSERT", "UPDATE", "DELETE"}
  BY <1>2 DEF generate, Compiled
<1>. QED
  BY <1>1, <1>2

LEMMA InterpretKeepsSchema ==
  ASSUME MachineInv, SchemaInv, source \in Seq(Segment), source # <<>>, Interpret
  PROVE  SchemaInv'
<1> DEFINE q == Head(source).query
           tree == Parse(q)
           ht == IF schemaCache = NoSchema THEN loadSchema(schemaFile) ELSE schemaCache
           ddl == tree.kind \in {"CREATE", "DROP"}
           g == generate(tree, ht)
<1>1. phase = "ready" /\ Handles(tree, ht) /\ q \in Query /\ schemaFile' = schemaFile
  BY HeadQuery DEF Interpret
<1>2. HoldsTable(ht, Table, Columns, Tabled)
  BY <1>1, SchemaLoaded
<1>3. FilesInv /\ Tabled' = Tabled
  BY <1>1 DEF SchemaInv, Tabled
<1>4. Filed' = Filed
  BY <1>1 DEF Handles, endSession, sessionVars, Filed
<1>5. ASSUME phase' # "run", schemaCache' = NoSchema \/ schemaCache' = ht PROVE SchemaInv'
  BY <1>1, <1>2, <1>3, <1>4, <1>5, SchemaRests
<1>6. ~ddl => g.schema = ht
  BY OtherStatement
<1>7. CASE tree.kind = Exited
  BY <1>1, <1>5, <1>7 DEF Handles, Off
<1>8. CASE tree.kind # Exited
  <2>1. \/ Returns(TRUE, ht, FALSE)
        \/ Returns(FALSE, ht, FALSE)
        \/ Accepts(g, ddl)
    BY <1>1, <1>8 DEF Handles
  <2>2. CASE \E r : Returns(r, ht, FALSE)
    <3>1. phase' = "reply" /\ schemaCache' = ht
      BY <2>2 DEF Returns, SchemaAfter
    <3>. QED
      BY <1>5, <3>1
  <2>3. CASE ~g.ok /\ Accepts(g, ddl)
    <3>. HIDE DEF g, ddl, ht
    <3>1. phase' = "reply" /\ schemaCache' = IF ddl THEN NoSchema ELSE g.schema
      BY <2>3 DEF Accepts, Returns, SchemaAfter
    <3>. QED
      BY <1>5, <1>6, <3>1
  <2>4. CASE g.ok /\ Accepts(g, ddl)
    <3>1. phase' = "run" /\ vm' = FreshVM(g.code, ddl) /\ schemaCache' = g.schema
      <4>. HIDE DEF g, ddl, ht
      <4>. QED
        BY <2>4 DEF Accepts
    <3>2. vm'.ddl = ddl /\ vm'.code = g.code
      BY <3>1 DEF FreshVM
    <3>3. CASE ~ddl
      BY <1>1, <1>2, <1>3, <1>4, <1>6, <3>1, <3>2, <3>3, SchemaRests
    <3>4. CASE ddl
      <4>1. /\ tree.object # "TABLE" => g.code[1].op = "HALT"
            /\ tree.object = "TABLE" =>
              /\ g.code[1].arg = tree.table /\ tree.table \in Table
              /\ tree.kind = "DROP" => g.code[1].op = "DROP_TABLE" /\ g.schema = ht
              /\ tree.kind = "CREATE" =>
                   g.code[1].op = "CREATE_TABLE" /\ g.schema = createEntry(tree, ht)
        BY <1>1, <3>4, TableStatement
      <4>2. CASE tree.object # "TABLE"
        BY <1>3, <1>4, <3>1, <3>2, <3>4, <4>1, <4>2, <1>1
           DEF SchemaInv, FilesInv, CacheInv
      <4>3. CASE tree.object = "TABLE" /\ tree.kind = "DROP"
        BY <1>1, <1>2, <1>3, <1>4, <3>1, <3>2, <3>4, <4>1, <4>3
           DEF SchemaInv, FilesInv, CacheInv, CacheHolds
      <4>4. CASE tree.object = "TABLE" /\ tree.kind = "CREATE"
        <5>1. ASSUME tree.table \notin Filed
              PROVE  \E cols \in Columns :
                       HoldsTable(createEntry(tree, ht), Table, Columns,
                                  Tabled \union {[name |-> tree.table, cols |-> cols]})
          <6>1. \A e \in Tabled : e.name # tree.table
            BY <1>3, <5>1 DEF FilesInv
          <6>2. FileOf(schemaFile, Table, Columns, Tabled)
            BY <1>3 DEF FilesInv
          <6>. HIDE DEF ht
          <6>. QED
            BY <1>1, <1>2, <4>1, <4>4, <6>1, <6>2, EntryCreated
        <5>2. /\ vm'.code[1].op = "CREATE_TABLE" /\ vm'.code[1].arg = tree.table
              /\ schemaCache' = createEntry(tree, ht)
          BY <3>1, <3>2, <4>1, <4>4
        <5>. HIDE DEF ht, g
        <5>. QED
          BY <1>1, <1>3, <1>4, <3>1, <3>2, <3>4, <5>1, <5>2
             DEF SchemaInv, FilesInv, CacheInv, CacheHolds
      <4>. QED
        BY <3>4, <4>2, <4>3, <4>4
    <3>. QED
      BY <3>3, <3>4
  <2>. QED
    BY <2>1, <2>2, <2>3, <2>4
<1>. QED
  BY <1>7, <1>8

LEMMA ShellKeepsSchema ==
  ASSUME SessionInv, MachineInv, SchemaInv,
         Start \/ Quit \/ Crash \/ (\E p \in Programs : Submit(p))
           \/ CannotLoadSchema \/ Continue
  PROVE  SchemaInv'
<1>1. schemaFile' = schemaFile /\ FilesInv
  BY DEF Start, Quit, Crash, Submit, CannotLoadSchema, Continue, SchemaInv
<1>2. UNCHANGED sessionVars \/ endSession
  BY DEF Start, Quit, Crash, Submit, CannotLoadSchema, Continue
<1>3. Filed' = Filed
  BY <1>2, SessionFiled
<1>4. CASE Off
  BY <1>1, <1>3, <1>4, SchemaRests DEF Off
<1>5. CASE ~Off
  <2>1. /\ phase # "run" /\ phase' # "run" /\ schemaCache' = schemaCache
    BY <1>5 DEF Start, Quit, Crash, Submit, CannotLoadSchema, Continue
  <2>. QED
    BY <1>1, <1>3, <2>1, SchemaRests DEF SchemaInv, CacheInv
<1>. QED
  BY <1>4, <1>5

LEMMA InstructionKeeps ==
  ASSUME SessionInv, MachineInv, Contents = Rows, Instruction
  PROVE  MachineInv' /\ (SessionNext \/ UNCHANGED sessionVars)
<1>1. CASE Push \/ Binary \/ Negate \/ Compare \/ Like \/ Test \/ Jump
  BY <1>1, PushKeeps, BinaryKeeps, NegateKeeps, CompareKeeps, LikeKeeps, TestKeeps,
     JumpKeepsMachine
<1>2. CASE Advance \/ KeySearch \/ Rewind \/ Column \/ EmitRow \/ SetResult \/ Halt
  BY <1>2, AdvanceKeeps, KeySearchKeeps, RewindKeeps, ColumnKeeps, EmitRowKeeps,
     SetResultKeeps, HaltKeeps
<1>3. CASE OpenScan
  BY <1>3, OpenScanKeeps
<1>4. CASE InsertRow \/ UpdateCol \/ DeleteRow
  BY <1>4, InsertRowKeeps, UpdateColKeeps, DeleteRowKeeps DEF SessionNext
<1>5. CASE CannotLoadTable \/ CannotCreateTable \/ CannotDropTable \/ NoTransaction
  BY <1>5, Failures
<1>6. ASSUME NEW o \in Outcome, CloseScan(o) \/ CreateTable(o) \/ DropTable(o) \/ Commit(o)
      PROVE  MachineInv' /\ SessionNext
  BY <1>6, CloseScanKeeps, FileKeeps, CommitKeepsMachine
<1>7. CASE Begin \/ Discard
  BY <1>7, BeginKeeps, DiscardKeeps
<1>. QED
  BY <1>1, <1>2, <1>3, <1>4, <1>5, <1>6, <1>7 DEF Instruction

-----------------------------------------------------------------------------
(* The parts of the invariant together.                                    *)

IInv == SessionInv /\ ShellInv /\ MachineInv /\ SchemaInv

\* A step of the program is one of its session, or leaves the session alone.
LEMMA StepKeeps ==
  ASSUME IInv, Contents = Rows, Next, CodeIsSound'
  PROVE  MachineInv' /\ (SessionNext \/ UNCHANGED sessionVars)
<1>1. CASE Start \/ Quit \/ Crash \/ (\E p \in Programs : Submit(p))
           \/ CannotLoadSchema \/ Continue
  BY <1>1, ShellKeeps DEF IInv
<1>2. CASE Interpret
  <2>1. source \in Seq(Segment) /\ source # <<>>
    BY <1>2 DEF IInv, ShellInv, Interpret
  <2>. QED
    BY <1>2, <2>1, InterpretKeeps DEF IInv
<1>3. CASE Run
  BY <1>3, InstructionKeeps, AbortKeeps DEF Run, IInv
<1>. QED
  BY <1>1, <1>2, <1>3 DEF Next

LEMMA SchemaKeeps ==
  ASSUME IInv, Contents = Rows, Next
  PROVE  SchemaInv'
<1>1. CASE Start \/ Quit \/ Crash \/ (\E p \in Programs : Submit(p))
           \/ CannotLoadSchema \/ Continue
  BY <1>1, ShellKeepsSchema DEF IInv
<1>2. CASE Interpret
  <2>1. source \in Seq(Segment) /\ source # <<>>
    BY <1>2 DEF IInv, ShellInv, Interpret
  <2>. QED
    BY <1>2, <2>1, InterpretKeepsSchema DEF IInv
<1>3. CASE Run
  BY <1>3, RunKeepsSchema, FileKeepsSchema DEF IInv
<1>. QED
  BY <1>1, <1>2, <1>3 DEF Next

LEMMA IInvKeeps ==
  ASSUME IInv, Contents = Rows, [Next]_vars, CodeIsSound'
  PROVE  IInv' /\ [SessionNext]_sessionVars
<1>1. CASE Next
  <2>1. MachineInv' /\ [SessionNext]_sessionVars
    BY <1>1, StepKeeps
  <2>2. SessionInv'
    BY <2>1, NextKeeps DEF IInv
  <2>3. ShellInv' /\ SchemaInv'
    BY <1>1, ShellInvKeeps, SchemaKeeps DEF IInv
  <2>. QED
    BY <2>1, <2>2, <2>3 DEF IInv
<1>2. CASE UNCHANGED vars
  <2>1. UNCHANGED sessionVars
    BY <1>2 DEF vars
  <2>2. SessionInv'
    BY <2>1, NextKeeps DEF IInv
  <2>3. ShellInv'
    BY <1>2 DEF vars, shellVars, ShellInv, IInv
  <2>4. MachineInv'
    BY <1>2, <2>1 DEF vars, sessionVars, MachineInv, IInv
  <2>5. FilesInv'
    BY <1>2, <2>1 DEF vars, sessionVars, SchemaInv, FilesInv, Tabled, Filed, IInv
  <2>6. CacheInv'
    BY <1>2, <2>1 DEF vars, sessionVars, SchemaInv, CacheInv, CacheHolds, Tabled, Filed, IInv
  <2>. QED
    BY <2>1, <2>2, <2>3, <2>4, <2>5, <2>6 DEF IInv, SchemaInv
<1>. QED
  BY <1>1, <1>2

-----------------------------------------------------------------------------
(* The first states.                                                       *)

\* The schema's file lists the tables there are, each once.
LEMMA FirstSchema ==
  ASSUME NEW d \in Databases
  PROVE  /\ FileOf(SchemaOf(d), Table, Columns,
                   {[name |-> t, cols |-> d[t].cols] : t \in DOMAIN d})
         /\ Len(SchemaOf(d)) \in Nat
<1> DEFINE D == DOMAIN d
           n == Cardinality(D)
           E == {[name |-> t, cols |-> d[t].cols] : t \in D}
           Lists(s) == \A t \in D : \E i \in DOMAIN s : s[i].name = t
           s0 == SchemaOf(d)
<1>1. D \subseteq Table /\ IsFiniteSet(D)
  BY DatabasesAssumption
<1>2. n \in Nat /\ ExistsBijection(1 .. n, D)
  BY <1>1, FS_CardinalityType
<1>3. E \subseteq Entry(Table, Columns)
  <2>1. ASSUME NEW t \in D PROVE d[t].cols \in Columns
    <3> DEFINE A == UNION {{x[u].cols : u \in DOMAIN x} : x \in Databases}
               B == {Parse(q).columns : q \in {r \in Query : /\ Parse(r).kind = "CREATE"
                                                  /\ Parse(r).object = "TABLE"}}
    <3>1. d[t].cols \in A
      OBVIOUS
    <3>2. Columns = A \union B
      BY DEF Columns
    <3>. HIDE DEF A, B
    <3>. QED
      BY <3>1, <3>2
  <2>. QED
    BY <1>1, <2>1 DEF Entry
<1>4. \E s \in [1 .. n -> E] : Lists(s)
  <2>1. PICK f \in [1 .. n -> D] : \A t \in D : \E i \in 1 .. n : f[i] = t
    <3>1. PICK f : f \in Bijection(1 .. n, D)
      BY <1>2 DEF ExistsBijection
    <3>. HIDE DEF n, D
    <3>2. f \in [1 .. n -> D]
      BY <3>1, Fun_BijectionProperties
    <3>3. \A t \in D : \E i \in 1 .. n : f[i] = t
      BY <3>1 DEF Bijection, Surjection
    <3>. QED
      BY <3>2, <3>3
  <2> DEFINE s == [i \in 1 .. n |-> [name |-> f[i], cols |-> d[f[i]].cols]]
  <2>2. s \in [1 .. n -> E]
    BY <2>1
  <2>3. Lists(s)
    BY <2>1
  <2>. QED
    BY <2>2, <2>3
<1>5. s0 \in [1 .. n -> E] /\ Lists(s0)
  BY <1>4 DEF SchemaOf
<1>. HIDE DEF s0
<1>6. DOMAIN s0 = 1 .. n /\ \A i \in 1 .. n : s0[i] \in E /\ s0[i].name \in D
  BY <1>5
<1>7. s0 \in Seq(Entry(Table, Columns)) /\ Len(s0) = n
  <2>1. s0 \in [1 .. n -> Entry(Table, Columns)]
    BY <1>3, <1>5
  <2>2. s0 \in Seq(Entry(Table, Columns))
    BY <1>2, <2>1
  <2>. QED
    BY <1>2, <1>6, <2>2
<1>8. \A i, j \in 1 .. n : s0[i].name = s0[j].name => i = j
  <2> DEFINE g == [i \in 1 .. n |-> s0[i].name]
  <2>1. g \in [1 .. n -> D] /\ \A t \in D : \E i \in 1 .. n : g[i] = t
    BY <1>5, <1>6
  <2>2. g \in Surjection(1 .. n, D)
    BY <2>1, Fun_IsSurj
  <2>3. IsFiniteSet(1 .. n) /\ Cardinality(1 .. n) = n
    BY <1>2, FS_Interval
  <2>4. g \in Injection(1 .. n, D)
    BY <2>2, <2>3, FS_SurjSameCardinalityImpliesInj
  <2>5. \A i, j \in 1 .. n : g[i] = g[j] => i = j
    <3>. HIDE DEF g, n, D
    <3>. QED
      BY <2>4, Fun_InjectionProperties
  <2>. QED
    BY <2>5
<1>9. E = {s0[i] : i \in 1 .. n}
  <2>1. ASSUME NEW t \in D
        PROVE  \E i \in 1 .. n : s0[i] = [name |-> t, cols |-> d[t].cols]
    <3>1. PICK i \in 1 .. n : s0[i].name = t
      BY <1>5, <1>6
    <3>2. PICK u \in D : s0[i] = [name |-> u, cols |-> d[u].cols]
      BY <1>6
    <3>. QED
      BY <3>1, <3>2
  <2>. QED
    BY <1>6, <2>1
<1>10. FileOf(s0, Table, Columns, E)
  BY <1>6, <1>7, <1>8, <1>9 DEF FileOf
<1>. QED
  BY <1>2, <1>7, <1>10 DEF s0

LEMMA InitIInv ==
  ASSUME Init, Contents = Rows
  PROVE  IInv /\ SessionInit
<1>1. PICK d \in Databases :
        /\ files = [t \in Table |->
                      IF t \in DOMAIN d
                      THEN [k \in Key |-> IF PkOf[k] \in DOMAIN d[t].rows
                                        THEN d[t].rows[PkOf[k]] ELSE NoRow]
                      ELSE Nil]
        /\ schemaFile = SchemaOf(d)
  BY DEF Init
<1>2. SessionInit /\ SessionInv
  BY InitInv DEF Init
<1>3. ShellInv
  BY BoundsAssumption DEF Init, ShellInv
<1>4. MachineInv
  <2>1. scanner = Nil
    BY <1>2 DEF SessionInit
  <2>. QED
    BY <2>1, NoMachine DEF Init, MachineInv
<1>5. FilesInv
  <2> DEFINE E == {[name |-> t, cols |-> d[t].cols] : t \in DOMAIN d}
  <2>1. FileOf(schemaFile, Table, Columns, E)
    BY <1>1, FirstSchema
  <2>2. Tabled = E
    BY <2>1 DEF FileOf, Tabled
  <2>3. {e.name : e \in E} = DOMAIN d
    <3>1. \A e \in E : \E t \in DOMAIN d : e.name = t
      OBVIOUS
    <3>2. ASSUME NEW t \in DOMAIN d PROVE \E e \in E : e.name = t
      <4>1. [name |-> t, cols |-> d[t].cols] \in E
        OBVIOUS
      <4>2. [name |-> t, cols |-> d[t].cols].name = t
        OBVIOUS
      <4>. QED
        BY <4>1, <4>2
    <3>. HIDE DEF E
    <3>. QED
      BY <3>1, <3>2
  <2>4. \A t \in Table : t \in DOMAIN d => files[t] \in Rows
    <3>1. ASSUME NEW t \in Table, t \in DOMAIN d PROVE files[t] \in Rows
      <4>1. \A pk \in DOMAIN d[t].rows : d[t].rows[pk] \in Seq(Storable)
        BY <3>1, DatabasesAssumption
      <4>2. NoRow \in Seq(Storable)
        BY DEF NoRow
      <4>3. files[t] = [k \in Key |-> IF PkOf[k] \in DOMAIN d[t].rows
                                    THEN d[t].rows[PkOf[k]] ELSE NoRow]
        BY <1>1, <3>1
      <4>. QED
        BY <4>1, <4>2, <4>3 DEF Rows
    <3>. QED
      BY <3>1
  <2>5. \A t \in Table : t \notin DOMAIN d => files[t] = Nil
    BY <1>1
  <2>6. DOMAIN d \subseteq Table
    BY DatabasesAssumption
  <2>7. Filed = DOMAIN d
    BY <2>4, <2>5, <2>6, NilAssumption DEF Filed
  <2>. QED
    BY <2>1, <2>2, <2>3, <2>7 DEF FilesInv
<1>6. CacheInv
  BY DEF Init, CacheInv
<1>. QED
  BY <1>2, <1>3, <1>4, <1>5, <1>6 DEF IInv, SchemaInv

-----------------------------------------------------------------------------
(* What the invariant says.                                                *)

LEMMA Typed == IInv /\ CodeIsSound => TypeOK
<1>. SUFFICES ASSUME IInv, CodeIsSound PROVE TypeOK
  OBVIOUS
<1>1. SessionTypeOK
  BY DEF IInv, SessionInv
<1>2. phase = "run" => vm.ip \in DOMAIN vm.code
  BY DEF IInv, MachineInv, Running
<1>3. phase = "run" /\ vm.cursor.place = "row" => scanner # Nil
  BY DEF IInv, MachineInv, Running, Placed
<1>4. \A i \in DOMAIN schemaFile : schemaFile[i].name \in Table
  <2>1. \A e \in Tabled : e.name \in Table
    BY DEF IInv, SchemaInv, FilesInv, Filed
  <2>. QED
    BY <2>1 DEF Tabled
<1>. QED
  BY <1>1, <1>2, <1>3, <1>4 DEF TypeOK, IInv, ShellInv, MachineInv

LEMMA Balanced == IInv => StackIsBalanced
<1>. SUFFICES ASSUME IInv, phase = "run", ~vm.failed, NEW i, i = vm.code[vm.ip]
     PROVE  /\ i.op \in {"NEXT", "CLOSE_SCAN", "SET_RESULT", "HALT"} => vm.stack = <<>>
            /\ i.op = "EMIT_ROW" => Len(vm.stack) = i.arg
  BY DEF StackIsBalanced
<1>1. Running(vm, scanner)
  BY DEF IInv, MachineInv
<1>2. CASE vm.ddl
  <2>1. vm.stack = <<>> /\ vm.code \in TableCode /\ vm.ip \in DOMAIN vm.code
    BY <1>1, <1>2 DEF Running
  <2>2. i.op # "EMIT_ROW"
    BY <2>1 DEF TableCode
  <2>. QED
    BY <2>1, <2>2
<1>3. CASE ~vm.ddl
  <2>1. Executing
    BY <1>1, <1>3 DEF Executing
  <2>2. Ready(i, Before) /\ Len(vm.stack) = Before.depth
    BY <2>1, Here, OperandsHere
  <2>3. i.op # "OPEN_SCAN" => vm.stack \in Seq(Datum)
    BY <2>1, OperandsHere
  <2>. QED
    BY <2>2, <2>3 DEF Ready
<1>. QED
  BY <1>2, <1>3

LEMMA FilesMatched == IInv => SchemaMatchesFiles
<1>. SUFFICES ASSUME IInv PROVE SchemaMatchesFiles
  OBVIOUS
<1>1. FileOf(schemaFile, Table, Columns, Tabled) /\ {e.name : e \in Tabled} = Filed
  BY DEF IInv, SchemaInv, FilesInv
<1>2. Cardinality({e.name : e \in Tabled}) = Len(schemaFile)
  BY <1>1, FileLength
<1>3. {schemaFile[i].name : i \in DOMAIN schemaFile} = {e.name : e \in Tabled}
  BY DEF Tabled
<1>. QED
  BY <1>1, <1>2, <1>3 DEF SchemaMatchesFiles, Filed

LEMMA CacheTrue == IInv => CachedSchemaIsTrue
<1> DEFINE kept == serializeSchema(schemaCache)
<1>. SUFFICES ASSUME IInv, phase \in {"idle", "ready", "reply"}, schemaCache # NoSchema
     PROVE  /\ Findable(schemaCache)
            /\ SearchEnds(schemaCache, Table)
            /\ Len(kept) = Len(schemaFile)
            /\ {kept[i] : i \in DOMAIN kept} = {schemaFile[i] : i \in DOMAIN schemaFile}
  BY DEF CachedSchemaIsTrue
<1>1. HoldsTable(schemaCache, Table, Columns, Tabled)
  BY DEF IInv, SchemaInv, CacheInv, CacheHolds
<1>2. Findable(schemaCache) /\ SearchEnds(schemaCache, Table)
  BY <1>1, NamesHashed, SearchesEnd
<1>3. FileOf(kept, Table, Columns, Tabled)
  BY <1>1, NamesHashed, FileWritten
<1>4. FileOf(schemaFile, Table, Columns, Tabled)
  BY DEF IInv, SchemaInv, FilesInv
<1>. HIDE DEF kept
<1>5. Cardinality(Tabled) = Len(kept) /\ Cardinality(Tabled) = Len(schemaFile)
  BY <1>3, <1>4, FileLength
<1>6. Tabled = {kept[i] : i \in DOMAIN kept}
  BY <1>3 DEF FileOf
<1>. QED
  BY <1>2, <1>5, <1>6 DEF Tabled

-----------------------------------------------------------------------------
(***************************************************************************)
(* The invariant holds throughout: of any number of statements, in any     *)
(* mode, whatever fails and wherever the process crashes.                  *)
(***************************************************************************)
THEOREM Invariance ==
  ASSUME Contents = Rows
  PROVE  Spec /\ []CodeIsSound => []IInv
<1>1. Init => IInv
  BY InitIInv
<1>2. IInv /\ [Next]_vars /\ CodeIsSound' => IInv'
  BY IInvKeeps
<1>. QED
  BY <1>1, <1>2, PTL DEF Spec

(***************************************************************************)
(* Statements open, change and close the tables of a session only as       *)
(* Session says, whichever instructions they are made of: run() calls what *)
(* it calls with a scanner, on a row, outside a transaction, when the      *)
(* callee takes that for granted.                                          *)
(***************************************************************************)
THEOREM SessionImplemented ==
  ASSUME Contents = Rows
  PROVE  Spec /\ []CodeIsSound => ImplementsSession
<1>1. Init => SessionInit
  BY InitIInv
<1>2. IInv /\ [Next]_vars /\ CodeIsSound' => [SessionNext]_sessionVars
  BY IInvKeeps
<1>. QED
  BY <1>1, <1>2, Invariance, PTL DEF Spec, ImplementsSession, SessionSpec

(***************************************************************************)
(* The interpreter's variables keep their types: the code runs inside its  *)
(* bounds, and a scan on a row has a scanner.                              *)
(***************************************************************************)
THEOREM TypeCorrect ==
  ASSUME Contents = Rows
  PROVE  Spec /\ []CodeIsSound => []TypeOK
BY Typed, Invariance, PTL

(***************************************************************************)
(* No statement leaves an operand on the stack, on any way through its     *)
(* code, at any row of a scan of any length.                               *)
(***************************************************************************)
THEOREM StackBalanced ==
  ASSUME Contents = Rows
  PROVE  Spec /\ []CodeIsSound => []StackIsBalanced
BY Balanced, Invariance, PTL

(***************************************************************************)
(* The schema's file lists exactly the tables that have a file, each once, *)
(* whatever CREATE and DROP were cut short by.                             *)
(***************************************************************************)
THEOREM SchemaMatches ==
  ASSUME Contents = Rows
  PROVE  Spec /\ []CodeIsSound => []SchemaMatchesFiles
BY FilesMatched, Invariance, PTL

(***************************************************************************)
(* Between statements the cached schema is the file's, and probing it      *)
(* finds each entry and ends for a name it does not have, for any number   *)
(* of tables and any hashes of their names.                                *)
(***************************************************************************)
THEOREM SchemaCacheTrue ==
  ASSUME Contents = Rows
  PROVE  Spec /\ []CodeIsSound => []CachedSchemaIsTrue
BY CacheTrue, Invariance, PTL
=============================================================================
