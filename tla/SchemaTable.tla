----------------------------- MODULE SchemaTable ----------------------------
(***************************************************************************)
(* The schema (schema.c): a hash table from a table's name hash to its     *)
(* columns, with triangular probing, no tombstones and a count that        *)
(* insertions raise and deletions do not lower.                            *)
(*                                                                         *)
(* A name stands for its hash (two names never hash alike here) and Home   *)
(* gives the hash's value, which with the capacity decides the first slot. *)
(* A table is a record of its slots, a sequence, and its count.            *)
(***************************************************************************)
EXTENDS Integers, Sequences, FiniteSets

CONSTANTS
  Home,            \* [names -> Nat]
  FirstCapacity    \* the capacity of a table that held nothing (a power of 2)

Triangle(steps) == (steps * (steps + 1)) \div 2

\* Within as many steps as there are slots, probing comes to each of them.
Covers(capacity) ==
  \A slot \in 0 .. capacity - 1 : \E steps \in 0 .. capacity - 1 :
    Triangle(steps) % capacity = slot

\* What a power of 2 is chosen for.
ASSUME CapacityAssumption ==
  FirstCapacity \in Nat \ {0, 1} /\ Covers(FirstCapacity)

NoName == ""
Vacant == [name |-> NoName, cols |-> <<>>]
EmptyTable == [slots |-> <<>>, count |-> 0]
Capacity(ht) == Len(ht.slots)

\* The slot reached after the given number of steps.
Probe(name, capacity, steps) ==
  ((Home[name] + Triangle(steps)) % capacity) + 1

\* The first slot on the name's way that holds it or is vacant.  The code
\* probes for ever if there is none, here CHOOSE then has no answer.
findEntry(name, slots) ==
  LET stops == {s \in 0 .. 2 * Len(slots) :
                  slots[Probe(name, Len(slots), s)].name \in {name, NoName}}
  IN  Probe(name, Len(slots), CHOOSE s \in stops : \A r \in stops : s <= r)

Put(slots, e) == [slots EXCEPT ![findEntry(e.name, slots)] = e]

\* The entries of ht, in the order of their slots, put into a larger array.
adjustCapacity(ht, capacity) ==
  LET slots[i \in 0 .. Capacity(ht)] ==
        IF i = 0 THEN [j \in 1 .. capacity |-> Vacant]
        ELSE IF ht.slots[i] = Vacant THEN slots[i - 1]
        ELSE Put(slots[i - 1], ht.slots[i])
  IN  [ht EXCEPT !.slots = slots[Capacity(ht)]]

Grown(capacity) == IF capacity < FirstCapacity THEN FirstCapacity ELSE 2 * capacity

\* The load factor is 0.8.
insertHT(e, ht) ==
  LET roomy == IF 10 * (ht.count + 1) > 8 * Capacity(ht)
               THEN adjustCapacity(ht, Grown(Capacity(ht))) ELSE ht
  IN  [slots |-> Put(roomy.slots, e), count |-> roomy.count + 1]

\* The entry, or Vacant when the name is not found.
readHT(name, ht) ==
  IF Capacity(ht) = 0 THEN Vacant ELSE ht.slots[findEntry(name, ht.slots)]

\* The slot is cleared, with nothing left to show that a probe passed it.
deleteHT(name, ht) ==
  IF Capacity(ht) = 0 THEN ht
  ELSE [ht EXCEPT !.slots[findEntry(name, ht.slots)] = Vacant]

\* The schema file: the entries in the order of their slots.
serializeSchema(ht) ==
  LET file[i \in 0 .. Capacity(ht)] ==
        IF i = 0 THEN <<>>
        ELSE IF ht.slots[i] = Vacant THEN file[i - 1]
        ELSE Append(file[i - 1], ht.slots[i])
  IN  file[Capacity(ht)]

\* Each entry of the file is inserted into a table that is empty at first.
loadSchema(file) ==
  LET ht[i \in 0 .. Len(file)] ==
        IF i = 0 THEN EmptyTable ELSE insertHT(file[i], ht[i - 1])
  IN  ht[Len(file)]

\* Every entry can be found again.
Findable(ht) ==
  \A i \in DOMAIN ht.slots :
    ht.slots[i] # Vacant => findEntry(ht.slots[i].name, ht.slots) = i
\* A search for an absent name ends.
SearchEnds(ht, names) ==
  Capacity(ht) > 0 =>
    \A n \in names : \E s \in 0 .. 2 * Capacity(ht) :
      ht.slots[Probe(n, Capacity(ht), s)].name \in {n, NoName}
=============================================================================
