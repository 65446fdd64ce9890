------------------------------ MODULE AddrTable ------------------------------
(***************************************************************************)
(* The hash table from addresses to objects that holds a table's dirty     *)
(* pages, its dirty nodes, its delete marks and a statement's undo record  *)
(* (addr_table in tableIO.c): linear probing, address 0 for an empty slot, *)
(* deletion by shifting the rest of the probe run back.                    *)
(*                                                                         *)
(* A table is its entries, a function on 0 .. capacity - 1, and its count. *)
(* What FNV-1a makes of an address is a choice made once for each address. *)
(***************************************************************************)
EXTENDS Integers, FiniteSets

CONSTANTS
  FirstCapacity,  \* GROW_CAPACITY(0)
  NULL            \* no object

ASSUME CapacityAssumption == FirstCapacity \in Nat /\ FirstCapacity >= 2

VARIABLE hashAddress  \* [addresses -> Nat]

EmptySlot == [key |-> 0, value |-> NULL]
Slots(capacity) == [i \in 0 .. capacity - 1 |-> EmptySlot]

initAddrTable == [entries |-> Slots(0), count |-> 0]

Capacity(at) == Cardinality(DOMAIN at.entries)

\* The loop over the slots of a table that passes the empty ones by.
ForEach(Op(_, _), start, entries) ==
  LET capacity == Cardinality(DOMAIN entries)
      after[i \in 0 .. capacity] ==
        IF i = 0 THEN start
        ELSE IF entries[i - 1].key = 0 THEN after[i - 1]
        ELSE Op(after[i - 1], entries[i - 1])
  IN  after[capacity]

\* The first slot from start on that holds the key or is empty.
FirstStop(start, key, entries) ==
  LET capacity == Cardinality(DOMAIN entries)
      Slot(i)  == (start + i) % capacity
      stops    == {i \in 0 .. capacity - 1 : entries[Slot(i)].key \in {key, 0}}
  IN  Slot(CHOOSE i \in stops : \A j \in stops : i <= j)

findAddrEntry(key, entries) == FirstStop(hashAddress[key], key, entries)

containsAddrTable(key, at) ==
  Capacity(at) > 0 /\ at.entries[findAddrEntry(key, at.entries)].key # 0

findAddrTable(key, at) ==
  IF containsAddrTable(key, at)
  THEN at.entries[findAddrEntry(key, at.entries)].value ELSE NULL

Put(entries, e) == [entries EXCEPT ![findAddrEntry(e.key, entries)] = e]

adjustAddrCapacity(at, capacity) ==
  [at EXCEPT !.entries = ForEach(Put, Slots(capacity), at.entries)]

GROW_CAPACITY(capacity) ==
  IF capacity < FirstCapacity THEN FirstCapacity ELSE 2 * capacity

\* The load factor is 0.8.
insertAddrTable(key, value, at) ==
  LET room  == IF 10 * (at.count + 1) > 8 * Capacity(at)
               THEN adjustAddrCapacity(at, GROW_CAPACITY(Capacity(at))) ELSE at
      isNew == room.entries[findAddrEntry(key, room.entries)].key = 0
  IN  [entries |-> Put(room.entries, [key |-> key, value |-> value]),
       count   |-> IF isNew THEN room.count + 1 ELSE room.count]

\* Variant: the range is not taken to wrap around the end of the table.
homeInStraightRange(home, hole, i) == home > hole /\ home <= i

\* Whether an entry at i whose way starts at home would be lost in the hole.
homeInRange(home, hole, i) ==
  IF hole < i THEN home > hole /\ home <= i ELSE home > hole \/ home <= i

\* Moves the entry at slot i into the hole, if a search would find it there.
ShiftBack(shifted, i) ==
  LET home == hashAddress[shifted.entries[i].key]
                % Cardinality(DOMAIN shifted.entries)
  IN  IF homeInRange(home, shifted.hole, i) THEN shifted
      ELSE [entries |-> [shifted.entries EXCEPT ![shifted.hole] =
                           shifted.entries[i]],
            hole    |-> i]

\* How far the probe run goes on after the hole.
RunLength(hole, entries) ==
  LET capacity == Cardinality(DOMAIN entries)
      ends     == {k \in 1 .. capacity : entries[(hole + k) % capacity].key = 0}
  IN  (CHOOSE k \in ends : \A j \in ends : k <= j) - 1

\* The entries after the hole, each moved into the hole there then is if a
\* search would find it there.
Shifted(hole, entries) ==
  LET after[k \in 0 .. RunLength(hole, entries)] ==
        IF k = 0 THEN [entries |-> entries, hole |-> hole]
        ELSE ShiftBack(after[k - 1], (hole + k) % Cardinality(DOMAIN entries))
  IN  after[RunLength(hole, entries)]

removeAddrTable(key, at) ==
  IF ~containsAddrTable(key, at) THEN at
  ELSE LET shifted == Shifted(findAddrEntry(key, at.entries), at.entries)
       IN  [entries |-> [shifted.entries EXCEPT ![shifted.hole] = EmptySlot],
            count   |-> at.count - 1]
=============================================================================
