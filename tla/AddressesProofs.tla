-------------------------- MODULE AddressesProofs ---------------------------
(***************************************************************************)
(* Proofs about AddrTable: whatever the addresses hash to and however many *)
(* there are, the hash table is a map from addresses to values, and its    *)
(* count is the number of the addresses it holds.  And about Addresses,    *)
(* for every geometry of a table's file: any sizes of its header, nodes,   *)
(* pages and stripes, and any number of page stripes in a unit.            *)
(***************************************************************************)
EXTENDS Addresses, Loops, FiniteSetTheorems, TLAPS

(* The slots of a table, as a circle.                                      *)

\* The slot i steps after h, and how many steps after h slot s is.
After(h, i, C) == IF h + i < C THEN h + i ELSE h + i - C
Dist(h, s, C) == IF s >= h THEN s - h ELSE s - h + C

\* The remainder of a sum with what is less than the divisor.
LEMMA Around ==
  ASSUME NEW C \in Nat \ {0}, NEW n \in Nat, NEW i \in 0 .. C - 1
  PROVE  /\ n % C \in 0 .. C - 1
         /\ (n + i) % C = After(n % C, i, C)
<1> DEFINE q == n \div C
           r == n % C
<1>1. q \in Nat /\ r \in 0 .. C - 1 /\ n = C * q + r
  OBVIOUS
<1> DEFINE p == (n + i) \div C
           t == (n + i) % C
<1>2. p \in Nat /\ t \in 0 .. C - 1 /\ n + i = C * p + t
  <2>1. n + i \in Nat
    OBVIOUS
  <2>. QED
    BY <2>1
<1>. HIDE DEF q, r, p, t
<1>3. C * (q + 1) = C * q + C /\ C * q \in Int /\ C * p \in Int
  BY <1>1, <1>2
<1>4. CASE p = q
  BY <1>1, <1>2, <1>4 DEF After, r, t
<1>5. CASE p = q + 1
  BY <1>1, <1>2, <1>3, <1>5 DEF After, r, t
<1>6. CASE p < q
  <2>1. PICK d \in Nat : q = p + 1 + d
    <3>1. q - p - 1 \in Nat /\ q = p + 1 + (q - p - 1)
      BY <1>1, <1>2, <1>6
    <3>. QED
      BY <3>1
  <2>2. C * (p + 1 + d) = C * p + C + C * d /\ C * d \in Nat
    BY <1>2
  <2>. QED
    BY <1>1, <1>2, <1>3, <2>1, <2>2
<1>7. CASE p > q + 1
  <2>1. PICK d \in Nat : p = q + 2 + d
    <3>1. p - q - 2 \in Nat /\ p = q + 2 + (p - q - 2)
      BY <1>1, <1>2, <1>7
    <3>. QED
      BY <3>1
  <2>2. C * (q + 2 + d) = C * q + 2 * C + C * d /\ C * d \in Nat
    BY <1>1
  <2>. QED
    BY <1>1, <1>2, <1>3, <2>1, <2>2
<1>. QED
  BY <1>1, <1>2, <1>4, <1>5, <1>6, <1>7 DEF r

\* The two are each other's inverse.
LEMMA Circle ==
  ASSUME NEW C \in Nat \ {0}, NEW h \in 0 .. C - 1
  PROVE  /\ \A i \in 0 .. C - 1 : /\ After(h, i, C) \in 0 .. C - 1
                                  /\ Dist(h, After(h, i, C), C) = i
         /\ \A s \in 0 .. C - 1 : /\ Dist(h, s, C) \in 0 .. C - 1
                                  /\ After(h, Dist(h, s, C), C) = s
BY DEF After, Dist
-----------------------------------------------------------------------------
(* Searching.                                                              *)

\* The addresses a table is for: none is 0, and all have a hash.
Hashed(K) == K \subseteq Nat \ {0} /\ \A k \in K : hashAddress[k] \in Nat

Entry(K, V) == [key : K, value : V] \union {EmptySlot}
Entries(C, K, V) == [0 .. C - 1 -> Entry(K, V)]

\* Where the search for k starts.
Home(k, C) == hashAddress[k] % C

\* Slot j comes before slot s on k's way.
Passes(k, j, s, C) == Dist(Home(k, C), j, C) < Dist(Home(k, C), s, C)

\* A search that has not met k stops at no slot before s.
Leads(k, s, entries, C) ==
  \A j \in 0 .. C - 1 : Passes(k, j, s, C) => entries[j].key \notin {k, 0}

\* Probing finds every entry.
Searchable(entries, C) ==
  \A s \in 0 .. C - 1 : entries[s].key # 0 => Leads(entries[s].key, s, entries, C)

\* A function on the slots has as many slots as its capacity.
LEMMA Capacities ==
  ASSUME NEW C \in Nat, NEW X, NEW e \in [0 .. C - 1 -> X]
  PROVE  DOMAIN e = 0 .. C - 1 /\ Cardinality(DOMAIN e) = C
<1>1. Cardinality(0 .. C - 1) = C
  BY FS_Interval
<1>. QED
  BY <1>1

\* A search starts at a slot of the table.
LEMMA HomeSlot ==
  ASSUME NEW C \in Nat \ {0}, NEW K, Hashed(K), NEW k \in K
  PROVE  Home(k, C) \in 0 .. C - 1
BY DEF Hashed, Home

\* The search ends at the first slot on the way that has the key or is empty.
LEMMA Search ==
  ASSUME NEW C \in Nat \ {0}, NEW K, NEW V, NEW e \in Entries(C, K, V),
         Hashed(K), NEW k \in K,
         \E s \in 0 .. C - 1 : e[s].key \in {k, 0}
  PROVE  LET s == findAddrEntry(k, e)
         IN  s \in 0 .. C - 1 /\ e[s].key \in {k, 0} /\ Leads(k, s, e, C)
<1> DEFINE h == hashAddress[k]
           Slot(i) == (h + i) % C
           stops == {i \in 0 .. C - 1 : e[Slot(i)].key \in {k, 0}}
           first == CHOOSE i \in stops : \A j \in stops : i <= j
<1>1. h \in Nat /\ Home(k, C) \in 0 .. C - 1
  BY HomeSlot DEF Hashed
<1>2. findAddrEntry(k, e) = Slot(first)
  <2>1. Cardinality(DOMAIN e) = C
    BY Capacities DEF Entries
  <2>. QED
    BY <2>1 DEF findAddrEntry, FirstStop
<1>3. ASSUME NEW i \in 0 .. C - 1
      PROVE  Slot(i) = After(Home(k, C), i, C)
  BY <1>1, Around DEF Home
<1>. HIDE DEF Slot
<1>4. stops \subseteq 0 .. C - 1 /\ stops # {}
  <2>1. PICK s \in 0 .. C - 1 : e[s].key \in {k, 0}
    OBVIOUS
  <2>2. Dist(Home(k, C), s, C) \in stops
    BY <1>1, <1>3, <2>1, Circle
  <2>. QED
    BY <2>2
<1>5. first \in stops /\ \A j \in stops : first <= j
  <2>1. stops \in SUBSET Nat
    BY <1>4
  <2>. HIDE DEF stops
  <2>2. \E i \in stops : \A j \in stops : i <= j
    BY <1>4, <2>1, LeastNumber
  <2>. QED
    BY <2>2
<1>. HIDE DEF first
<1>6. first \in 0 .. C - 1 /\ e[Slot(first)].key \in {k, 0}
  BY <1>5
<1>7. Slot(first) \in 0 .. C - 1 /\ Dist(Home(k, C), Slot(first), C) = first
  <2>1. Slot(first) = After(Home(k, C), first, C)
    BY <1>3, <1>6
  <2>. QED
    BY <1>1, <1>6, <2>1, Circle
<1>8. ASSUME NEW j \in 0 .. C - 1, Passes(k, j, Slot(first), C)
      PROVE  e[j].key \notin {k, 0}
  <2> DEFINE d == Dist(Home(k, C), j, C)
  <2>1. d \in 0 .. C - 1 /\ Slot(d) = j /\ d < first
    BY <1>1, <1>3, <1>7, <1>8, Circle DEF Passes
  <2>. HIDE DEF d
  <2>2. d \notin stops
    BY <1>5, <1>6, <2>1
  <2>. QED
    BY <2>1, <2>2
<1>. QED
  BY <1>2, <1>6, <1>7, <1>8 DEF Leads

\* No two slots are as far on the way.
LEMMA OneWay ==
  ASSUME NEW C \in Nat \ {0}, NEW K, Hashed(K), NEW k \in K,
         NEW s \in 0 .. C - 1, NEW t \in 0 .. C - 1, s # t
  PROVE  Passes(k, s, t, C) \/ Passes(k, t, s, C)
<1>1. Home(k, C) \in 0 .. C - 1
  BY HomeSlot
<1>. QED
  BY <1>1 DEF Passes, Dist

\* There is one slot where the search may end.
LEMMA SearchEnd ==
  ASSUME NEW C \in Nat \ {0}, NEW K, NEW V, NEW e \in Entries(C, K, V),
         Hashed(K), NEW k \in K,
         NEW s \in 0 .. C - 1, e[s].key \in {k, 0}, Leads(k, s, e, C)
  PROVE  findAddrEntry(k, e) = s
<1> DEFINE f == findAddrEntry(k, e)
<1>1. f \in 0 .. C - 1 /\ e[f].key \in {k, 0} /\ Leads(k, f, e, C)
  BY Search
<1>. HIDE DEF f
<1>2. CASE f # s
  BY <1>1, <1>2, OneWay DEF Leads
<1>. QED
  BY <1>2 DEF f

\* An address has at most one entry, which the search finds.
LEMMA Found ==
  ASSUME NEW C \in Nat \ {0}, NEW K, NEW V, NEW e \in Entries(C, K, V),
         Hashed(K), Searchable(e, C), NEW s \in 0 .. C - 1, e[s].key # 0
  PROVE  /\ e[s].key \in K /\ findAddrEntry(e[s].key, e) = s
         /\ \A t \in 0 .. C - 1 : e[t].key = e[s].key => t = s
<1>1. ASSUME NEW t \in 0 .. C - 1, e[t].key # 0
      PROVE  e[t].key \in K /\ findAddrEntry(e[t].key, e) = t
  <2>1. e[t].key \in K
    BY <1>1 DEF Entries, Entry, EmptySlot
  <2>2. Leads(e[t].key, t, e, C)
    BY <1>1 DEF Searchable
  <2>. QED
    BY <2>1, <2>2, SearchEnd
<1>. QED
  BY <1>1
-----------------------------------------------------------------------------
(* What a table holds.                                                     *)

\* The entries of a table, without its empty slots.
Held(entries, C) == {entries[s] : s \in {t \in 0 .. C - 1 : entries[t].key # 0}}

\* What a table holds is an entry of one of its slots.
LEMMA HeldEntry ==
  ASSUME NEW C \in Nat, NEW K, NEW V, NEW e \in Entries(C, K, V), NEW x \in Held(e, C)
  PROVE  /\ x.key \in K /\ x.key # 0 /\ x.value \in V
         /\ x = [key |-> x.key, value |-> x.value]
         /\ \E s \in 0 .. C - 1 : e[s] = x
BY DEF Held, Entries, Entry, EmptySlot

\* One entry for each address.
LEMMA HeldOnce ==
  ASSUME NEW C \in Nat, NEW K, NEW V, NEW e \in Entries(C, K, V),
         Hashed(K), Searchable(e, C),
         NEW x \in Held(e, C), NEW y \in Held(e, C), x.key = y.key
  PROVE  x = y
<1>1. PICK s \in 0 .. C - 1 : e[s] = x
  BY HeldEntry
<1>2. PICK t \in 0 .. C - 1 : e[t] = y
  BY HeldEntry
<1>3. C \in Nat \ {0} /\ e[s].key # 0
  BY <1>1, HeldEntry
<1>. QED
  BY <1>1, <1>2, <1>3, Found

\* It holds finitely many entries.
LEMMA HeldFinite ==
  ASSUME NEW C \in Nat, NEW e
  PROVE  IsFiniteSet(Held(e, C))
<1> DEFINE S == {t \in 0 .. C - 1 : e[t].key # 0}
           f == [t \in S |-> e[t]]
<1>1. IsFiniteSet(S)
  <2>1. IsFiniteSet(0 .. C - 1)
    BY FS_Interval
  <2>. QED
    BY <2>1, FS_Subset
<1>2. f \in Surjection(S, Held(e, C))
  BY DEF Surjection, Held
<1>. HIDE DEF S, f
<1>. QED
  BY <1>1, <1>2, FS_Surjection

\* A table that holds fewer entries than it has slots has an empty one.
LEMMA EmptySlots ==
  ASSUME NEW C \in Nat, NEW K, NEW V, NEW e \in Entries(C, K, V),
         Hashed(K), Searchable(e, C), Cardinality(Held(e, C)) < C
  PROVE  \E s \in 0 .. C - 1 : e[s].key = 0
<1> SUFFICES ASSUME \A s \in 0 .. C - 1 : e[s].key # 0 PROVE FALSE
  OBVIOUS
<1>1. /\ IsFiniteSet(0 .. C - 1) /\ Cardinality(0 .. C - 1) = C
      /\ IsFiniteSet(Held(e, C))
  <2>1. IsFiniteSet(0 .. C - 1) /\ Cardinality(0 .. C - 1) = C
    BY FS_Interval
  <2>. QED
    BY <2>1, HeldFinite
<1>2. e \in [0 .. C - 1 -> Held(e, C)]
  BY DEF Held, Entries
<1>3. PICK s, t \in 0 .. C - 1 : s # t /\ e[s] = e[t]
  BY <1>1, <1>2, FS_PigeonHole
<1>. QED
  BY <1>3, Found

\* Emptiness, and the table that is all empty slots.
LEMMA NoEntries ==
  ASSUME NEW C \in Nat, NEW K, NEW V
  PROVE  /\ Slots(C) \in Entries(C, K, V) /\ Searchable(Slots(C), C)
         /\ Held(Slots(C), C) = {}
         /\ \A s \in 0 .. C - 1 : Slots(C)[s].key = 0
BY DEF Slots, EmptySlot, Entries, Entry, Searchable, Held
-----------------------------------------------------------------------------
(* Putting an entry in.                                                    *)

\* Putting an entry into a table with an empty slot replaces the one with its
\* key, if any, and hides no other.
LEMMA PutEntry ==
  ASSUME NEW C \in Nat, NEW K, NEW V, NEW e \in Entries(C, K, V),
         Hashed(K), Searchable(e, C), NEW x \in Entry(K, V), x.key \in K,
         \E s \in 0 .. C - 1 : e[s].key = 0
  PROVE  /\ Put(e, x) \in Entries(C, K, V) /\ Searchable(Put(e, x), C)
         /\ Held(Put(e, x), C) = {y \in Held(e, C) : y.key # x.key} \union {x}
<1> DEFINE s == findAddrEntry(x.key, e)
           p == Put(e, x)
<1>0. C \in Nat \ {0} /\ x.key # 0
  BY DEF Hashed
<1>1. s \in 0 .. C - 1 /\ e[s].key \in {x.key, 0} /\ Leads(x.key, s, e, C)
  BY <1>0, Search
<1>2. p \in Entries(C, K, V) /\ p[s] = x /\ \A t \in 0 .. C - 1 : t # s => p[t] = e[t]
  BY <1>1 DEF Put, Entries
<1>3. ASSUME NEW t \in 0 .. C - 1, e[t].key = x.key PROVE t = s
  BY <1>0, <1>3, Found
<1>. HIDE DEF s, p
<1>4. ASSUME NEW t \in 0 .. C - 1, p[t].key # 0, NEW j \in 0 .. C - 1,
             Passes(p[t].key, j, t, C)
      PROVE  p[j].key \notin {p[t].key, 0}
  <2>1. CASE t = s
    <3>1. j # s
      <4>1. Home(x.key, C) \in 0 .. C - 1
        BY <1>0, HomeSlot
      <4>. QED
        BY <1>2, <1>4, <2>1, <4>1 DEF Passes, Dist
    <3>. QED
      BY <1>1, <1>2, <1>4, <2>1, <3>1 DEF Leads
  <2>2. CASE t # s
    <3>1. p[t] = e[t] /\ e[j].key \notin {e[t].key, 0}
      BY <1>2, <1>4, <2>2 DEF Searchable, Leads
    <3>2. j = s => e[j].key = x.key
      BY <1>1, <3>1
    <3>3. j = s => p[j].key = e[j].key
      BY <1>2, <3>2
    <3>. QED
      BY <1>2, <3>1, <3>3
  <2>. QED
    BY <2>1, <2>2
<1>5. Searchable(p, C)
  BY <1>4 DEF Searchable, Leads
<1>6. ASSUME NEW y PROVE y \in Held(p, C) <=> (y \in Held(e, C) /\ y.key # x.key) \/ y = x
  <2>1. y = x => y \in Held(p, C)
    BY <1>0, <1>1, <1>2 DEF Held
  <2>2. ASSUME y \in Held(e, C), y.key # x.key PROVE y \in Held(p, C)
    <3>1. PICK t \in 0 .. C - 1 : e[t] = y /\ e[t].key # 0
      BY <2>2 DEF Held
    <3>2. t # s
      BY <1>1, <2>2, <3>1
    <3>. QED
      BY <1>2, <3>1, <3>2 DEF Held
  <2>3. ASSUME y \in Held(p, C), y # x PROVE y \in Held(e, C) /\ y.key # x.key
    <3>1. PICK t \in 0 .. C - 1 : p[t] = y /\ p[t].key # 0
      BY <2>3 DEF Held
    <3>2. t # s
      BY <1>2, <2>3, <3>1
    <3>. QED
      BY <1>2, <1>3, <3>1, <3>2 DEF Held
  <2>. QED
    BY <2>1, <2>2, <2>3
<1>. QED
  BY <1>2, <1>5, <1>6 DEF p
-----------------------------------------------------------------------------
(* Growing.                                                                *)

\* The loop over the old slots, slot by slot.
Puts(f, C, start, e) ==
  /\ f[0] = start /\ ForEach(Put, start, e) = f[C]
  /\ \A i \in 1 .. C : f[i] = IF e[i - 1].key = 0 THEN f[i - 1]
                             ELSE Put(f[i - 1], e[i - 1])

\* The loop that fills the slots of a larger table has its states.
LEMMA PutLoop ==
  ASSUME NEW C \in Nat, NEW D \in Nat, NEW K, NEW V,
         NEW e \in Entries(C, K, V), NEW start \in Entries(D, K, V)
  PROVE  \E f : f \in [0 .. C -> Entries(D, K, V)] /\ Puts(f, C, start, e)
<1> DEFINE S == Entries(D, K, V)
           Step(i, x) == IF e[i - 1].key = 0 THEN x ELSE Put(x, e[i - 1])
           Loop(g) == g = [i \in 0 .. C |-> IF i = 0 THEN start
                                            ELSE IF e[i - 1].key = 0 THEN g[i - 1]
                                            ELSE Put(g[i - 1], e[i - 1])]
           g == CHOOSE g : Loop(g)
           step == [i \in 1 .. C |-> [x \in S |-> Step(i, x)]]
<1>1. ASSUME NEW i \in 1 .. C, NEW x \in S PROVE Step(i, x) \in S
  <2>1. e[i - 1] \in Entry(K, V)
    BY i - 1 \in 0 .. C - 1 DEF Entries
  <2>. QED
    BY <2>1 DEF Put, Entries
<1>. HIDE DEF S, Step
<1>2. PICK f : Runs(f, C, S, start, step)
  <2>1. step \in Steps(C, S) /\ start \in S
    BY <1>1 DEF S, Steps
  <2>. HIDE DEF step
  <2>. QED
    BY <2>1, Iteration
<1>3. ASSUME NEW i \in 1 .. C PROVE f[i] = Step(i, f[i - 1])
  BY <1>2, i - 1 \in 0 .. C DEF Runs
<1>4. Loop(f)
  BY <1>2, <1>3 DEF Step, Runs
<1>. HIDE DEF Loop
<1>5. Loop(g)
  BY <1>4
<1>6. ASSUME NEW i \in 0 .. C PROVE g[i] = IF i = 0 THEN start ELSE Step(i, g[i - 1])
  BY <1>5 DEF Loop, Step
<1>7. DOMAIN g = 0 .. C /\ g = [i \in 0 .. C |-> g[i]]
  BY <1>5 DEF Loop
<1>8. ForEach(Put, start, e) = g[C]
  <2>1. Cardinality(DOMAIN e) = C
    BY Capacities DEF Entries
  <2>. QED
    BY <2>1 DEF ForEach, Loop
<1>. HIDE DEF g
<1>9. \A i \in 0 .. C : g[i] \in S
  <2> DEFINE T == {i \in 0 .. C : g[i] \in S}
  <2>1. 0 \in T
    BY <1>6 DEF S
  <2>2. ASSUME NEW i \in 1 .. C, i - 1 \in T PROVE i \in T
    BY <1>1, <1>6, <2>2
  <2>. HIDE DEF T
  <2>3. 0 .. C \subseteq T
    BY <2>1, <2>2, CountingUpTo
  <2>. QED
    BY <2>3 DEF T
<1>10. g \in [0 .. C -> S] /\ g[0] = start
  BY <1>6, <1>7, <1>9
<1>11. \A i \in 1 .. C : g[i] = Step(i, g[i - 1])
  BY <1>6
<1>. QED
  BY <1>8, <1>10, <1>11 DEF S, Step, Puts

\* Putting the entries of one table into an empty one, large enough for them.
LEMMA Grown ==
  ASSUME NEW C \in Nat, NEW D \in Nat, NEW K, NEW V, NEW e \in Entries(C, K, V),
         Hashed(K), Searchable(e, C), Cardinality(Held(e, C)) < D
  PROVE  LET g == ForEach(Put, Slots(D), e)
         IN  g \in Entries(D, K, V) /\ Searchable(g, D) /\ Held(g, D) = Held(e, C)
<1>1. PICK f : f \in [0 .. C -> Entries(D, K, V)] /\ Puts(f, C, Slots(D), e)
  <2>1. Slots(D) \in Entries(D, K, V)
    BY NoEntries
  <2>. QED
    BY <2>1, PutLoop
<1>0. /\ f[0] = Slots(D) /\ ForEach(Put, Slots(D), e) = f[C]
      /\ \A i \in 1 .. C : f[i] = IF e[i - 1].key = 0 THEN f[i - 1]
                                 ELSE Put(f[i - 1], e[i - 1])
  BY <1>1 DEF Puts
<1> DEFINE Sofar(i) == {e[s] : s \in {t \in 0 .. i - 1 : e[t].key # 0}}
           Good(i) == Searchable(f[i], D) /\ Held(f[i], D) = Sofar(i)
           T == {i \in 0 .. C : Good(i)}
<1>2. 0 \in T
  <2>1. Sofar(0) = {}
    OBVIOUS
  <2>. QED
    BY <1>0, <2>1, NoEntries
<1>3. ASSUME NEW i \in 1 .. C, i - 1 \in T PROVE i \in T
  <2>1. /\ f[i - 1] \in Entries(D, K, V) /\ f[i] \in Entries(D, K, V)
        /\ i - 1 \in 0 .. C - 1 /\ Good(i - 1)
    BY <1>1, <1>3
  <2>2. CASE e[i - 1].key = 0
    <3>1. f[i] = f[i - 1]
      BY <1>0, <2>2
    <3>2. Sofar(i) = Sofar(i - 1)
      <4>1. {t \in 0 .. i - 1 : e[t].key # 0} = {t \in 0 .. (i - 1) - 1 : e[t].key # 0}
        BY <2>1, <2>2
      <4>. QED
        BY <4>1
    <3>. QED
      BY <2>1, <3>1, <3>2
  <2>3. CASE e[i - 1].key # 0
    <3> DEFINE x == e[i - 1]
    <3>1. x \in Entry(K, V) /\ x.key \in K /\ x \in Held(e, C)
      BY <2>1, <2>3 DEF Entries, Entry, EmptySlot, Held
    <3>2. \E s \in 0 .. D - 1 : f[i - 1][s].key = 0
      <4>1. Held(f[i - 1], D) \subseteq Held(e, C)
        <5>1. Sofar(i - 1) \subseteq Held(e, C)
          BY <2>1 DEF Held
        <5>. QED
          BY <2>1, <5>1
      <4>2. Cardinality(Held(f[i - 1], D)) <= Cardinality(Held(e, C))
        BY <4>1, HeldFinite, FS_Subset
      <4>3. /\ Cardinality(Held(f[i - 1], D)) \in Nat
            /\ Cardinality(Held(e, C)) \in Nat
        BY HeldFinite, FS_CardinalityType
      <4>4. Cardinality(Held(f[i - 1], D)) < D
        BY <4>2, <4>3
      <4>5. Searchable(f[i - 1], D)
        BY <2>1
      <4>6. f[i - 1] \in Entries(D, K, V)
        BY <2>1
      <4> DEFINE w == f[i - 1]
      <4>7. w \in Entries(D, K, V) /\ Searchable(w, D) /\ Cardinality(Held(w, D)) < D
        BY <4>4, <4>5, <4>6
      <4>. HIDE DEF w
      <4>8. \E s \in 0 .. D - 1 : w[s].key = 0
        BY <4>7, EmptySlots
      <4>. QED
        BY <4>8 DEF w
    <3>3. f[i] = Put(f[i - 1], x)
      BY <1>0, <2>3
    <3>4. /\ Searchable(f[i], D)
          /\ Held(f[i], D) = {y \in Sofar(i - 1) : y.key # x.key} \union {x}
      BY <2>1, <3>1, <3>2, <3>3, PutEntry
    <3>5. ASSUME NEW y \in Sofar(i - 1) PROVE y.key # x.key
      <4>1. PICK t \in 0 .. i - 2 : e[t] = y /\ e[t].key # 0
        OBVIOUS
      <4>2. t \in 0 .. C - 1 /\ t # i - 1 /\ C \in Nat \ {0}
        BY <2>1
      <4>. QED
        BY <2>1, <2>3, <4>1, <4>2, Found
    <3>6. Sofar(i) = Sofar(i - 1) \union {x}
      <4>1. {t \in 0 .. i - 1 : e[t].key # 0}
              = {t \in 0 .. (i - 1) - 1 : e[t].key # 0} \union {i - 1}
        BY <2>1, <2>3
      <4>. QED
        BY <4>1
    <3>7. Held(f[i], D) = Sofar(i)
      <4>. HIDE DEF Sofar, x
      <4>. QED
        BY <3>4, <3>5, <3>6
    <3>. QED
      BY <3>4, <3>7
  <2>. QED
    BY <2>2, <2>3
<1>4. 0 .. C \subseteq T
  <2>. HIDE DEF T
  <2>. QED
    BY <1>2, <1>3, CountingUpTo
<1>5. Good(C)
  BY <1>4
<1>6. Sofar(C) = Held(e, C)
  BY DEF Held
<1>. QED
  BY <1>0, <1>1, <1>5, <1>6
-----------------------------------------------------------------------------
(* The table as a map.                                                     *)

\* A table whose entries are found, counted, and leave a slot empty.
Table(at, K, V) ==
  /\ at = [entries |-> at.entries, count |-> at.count]
  /\ Capacity(at) \in Nat
  /\ Capacity(at) = 0 \/ Capacity(at) >= FirstCapacity
  /\ at.entries \in Entries(Capacity(at), K, V)
  /\ Searchable(at.entries, Capacity(at))
  /\ at.count = Cardinality(Held(at.entries, Capacity(at)))
  /\ 10 * at.count <= 8 * Capacity(at)

Rows(at) == Held(at.entries, Capacity(at))

\* The empty table.
LEMMA EmptyTable ==
  ASSUME NEW K, NEW V
  PROVE  /\ Table(initAddrTable, K, V) /\ Rows(initAddrTable) = {}
         /\ \A C \in Nat : C = 0 \/ C >= FirstCapacity =>
              /\ Table([entries |-> Slots(C), count |-> 0], K, V)
              /\ Rows([entries |-> Slots(C), count |-> 0]) = {}
<1> SUFFICES ASSUME NEW C \in Nat, C = 0 \/ C >= FirstCapacity
             PROVE  /\ Table([entries |-> Slots(C), count |-> 0], K, V)
                    /\ Rows([entries |-> Slots(C), count |-> 0]) = {}
  BY DEF initAddrTable
<1> DEFINE at == [entries |-> Slots(C), count |-> 0]
<1>1. /\ Slots(C) \in Entries(C, K, V) /\ Searchable(Slots(C), C)
      /\ Held(Slots(C), C) = {}
  BY NoEntries
<1>2. Capacity(at) = C
  BY <1>1, Capacities DEF Capacity, Entries
<1>3. Cardinality(Held(Slots(C), C)) = 0
  BY <1>1, FS_EmptySet
<1>4. at.entries = Slots(C) /\ at.count = 0 /\ C \in Int
  OBVIOUS
<1>5. at = [entries |-> at.entries, count |-> at.count]
  OBVIOUS
<1>. HIDE DEF at
<1>6. Table(at, K, V) /\ Rows(at) = {}
  BY <1>1, <1>2, <1>3, <1>4, <1>5 DEF Table, Rows
<1>. QED
  BY <1>6 DEF at

\* The count is zero only for a table with no entries.
LEMMA RowCount ==
  ASSUME NEW K, NEW V, NEW at, Table(at, K, V)
  PROVE  IsFiniteSet(Rows(at)) /\ at.count \in Nat /\ (at.count = 0 <=> Rows(at) = {})
<1>1. IsFiniteSet(Rows(at))
  BY HeldFinite DEF Rows, Table
<1>. QED
  BY <1>1, FS_CardinalityType, FS_EmptySet DEF Table, Rows

\* What the search of the table answers.
LEMMA Lookup ==
  ASSUME NEW K, NEW V, NEW at, Hashed(K), Table(at, K, V), NEW k \in K
  PROVE  /\ containsAddrTable(k, at) <=> \E x \in Rows(at) : x.key = k
         /\ \A x \in Rows(at) : x.key = k => findAddrTable(k, at) = x.value
         /\ ~containsAddrTable(k, at) => findAddrTable(k, at) = NULL
<1> DEFINE C == Capacity(at)
           e == at.entries
           s == findAddrEntry(k, e)
<1>1. C \in Nat /\ e \in Entries(C, K, V) /\ Searchable(e, C) /\ Rows(at) = Held(e, C)
  BY DEF Table, Rows
<1>2. CASE C = 0
  <2>1. Held(e, C) = {}
    BY <1>2 DEF Held
  <2>. QED
    BY <1>1, <1>2, <2>1 DEF containsAddrTable, findAddrTable
<1>3. CASE C > 0
  <2>1. Cardinality(Held(e, C)) < C
    BY <1>1, <1>3, RowCount DEF Table
  <2>2. \E t \in 0 .. C - 1 : e[t].key = 0
    BY <1>1, <2>1, EmptySlots
  <2>3. s \in 0 .. C - 1 /\ e[s].key \in {k, 0} /\ k # 0
    <3>1. C \in Nat \ {0} /\ \E t \in 0 .. C - 1 : e[t].key \in {k, 0}
      BY <1>1, <1>3, <2>2
    <3>2. e \in Entries(C, K, V)
      BY <1>1
    <3>. HIDE DEF C, e
    <3>3. s \in 0 .. C - 1 /\ e[s].key \in {k, 0}
      BY <3>1, <3>2, Search
    <3>. QED
      BY <3>3 DEF Hashed
  <2>4. containsAddrTable(k, at) <=> e[s].key # 0
    BY <1>3 DEF containsAddrTable
  <2>5. e[s].key # 0 => e[s] \in Rows(at) /\ e[s].key = k
    BY <1>1, <2>3 DEF Held
  <2>6. ASSUME NEW x \in Rows(at), x.key = k PROVE e[s] = x
    <3>1. PICK t \in 0 .. C - 1 : e[t] = x
      BY <1>1, HeldEntry
    <3>. QED
      BY <1>1, <1>3, <2>3, <2>6, <3>1, Found
  <2>7. findAddrTable(k, at) = IF containsAddrTable(k, at) THEN e[s].value ELSE NULL
    BY DEF findAddrTable
  <2>. HIDE DEF s, e, C
  <2>. QED
    BY <2>3, <2>4, <2>5, <2>6, <2>7
<1>. QED
  BY <1>1, <1>2, <1>3

\* Room for one more.
LEMMA Roomy ==
  ASSUME NEW K, NEW V, NEW at, Hashed(K), Table(at, K, V)
  PROVE  LET room == IF 10 * (at.count + 1) > 8 * Capacity(at)
                     THEN adjustAddrCapacity(at, GROW_CAPACITY(Capacity(at))) ELSE at
         IN  /\ Table(room, K, V) /\ Rows(room) = Rows(at) /\ room.count = at.count
             /\ 10 * (room.count + 1) <= 8 * Capacity(room)
<1> DEFINE C == Capacity(at)
           D == GROW_CAPACITY(C)
           grown == adjustAddrCapacity(at, D)
           g == ForEach(Put, Slots(D), at.entries)
<1>0. FirstCapacity \in Nat /\ FirstCapacity >= 2
  BY CapacityAssumption
<1>1. /\ C \in Nat /\ (C = 0 \/ C >= FirstCapacity) /\ at.count \in Nat
      /\ 10 * at.count <= 8 * C /\ at.entries \in Entries(C, K, V)
      /\ Searchable(at.entries, C) /\ Rows(at) = Held(at.entries, C)
      /\ at.count = Cardinality(Rows(at))
  BY RowCount DEF Table, Rows
<1>. HIDE DEF C
<1>2. /\ D \in Nat /\ D >= FirstCapacity /\ at.count < D
      /\ 10 * (at.count + 1) <= 8 * D
  BY <1>0, <1>1 DEF GROW_CAPACITY
<1>. HIDE DEF D
<1>3. g \in Entries(D, K, V) /\ Searchable(g, D) /\ Held(g, D) = Rows(at)
  BY <1>1, <1>2, Grown
<1>4. /\ grown = [entries |-> grown.entries, count |-> grown.count]
      /\ grown.entries = g /\ grown.count = at.count
  <2>1. at = [entries |-> at.entries, count |-> at.count]
    BY DEF Table
  <2>2. grown = [at EXCEPT !.entries = g]
    BY DEF adjustAddrCapacity
  <2>. HIDE DEF g, grown
  <2>. QED
    BY <2>1, <2>2
<1>5. Capacity(grown) = D
  <2>1. Cardinality(DOMAIN g) = D
    BY <1>2, <1>3, Capacities DEF Entries
  <2>. QED
    BY <1>4, <2>1 DEF Capacity
<1>. HIDE DEF g, grown
<1>6. Table(grown, K, V) /\ Rows(grown) = Rows(at)
  BY <1>1, <1>2, <1>3, <1>4, <1>5 DEF Table, Rows
<1>7. CASE 10 * (at.count + 1) > 8 * C
  BY <1>2, <1>4, <1>5, <1>6, <1>7 DEF grown, D, C
<1>8. CASE ~(10 * (at.count + 1) > 8 * C)
  BY <1>1, <1>8 DEF C
<1>. QED
  BY <1>7, <1>8 DEF C, D, grown

\* insertAddrTable adds or replaces the address's entry.
LEMMA Insertion ==
  ASSUME NEW K, NEW V, NEW at, Hashed(K), Table(at, K, V),
         NEW k \in K, NEW v \in V
  PROVE  LET n == insertAddrTable(k, v, at)
             x == [key |-> k, value |-> v]
         IN  /\ Table(n, K, V)
             /\ Rows(n) = {y \in Rows(at) : y.key # k} \union {x}
<1> DEFINE room == IF 10 * (at.count + 1) > 8 * Capacity(at)
                   THEN adjustAddrCapacity(at, GROW_CAPACITY(Capacity(at))) ELSE at
           C == Capacity(room)
           e == room.entries
           x == [key |-> k, value |-> v]
           s == findAddrEntry(k, e)
           p == Put(e, x)
           isNew == e[s].key = 0
           n == insertAddrTable(k, v, at)
<1>1. /\ Table(room, K, V) /\ Rows(room) = Rows(at)
      /\ 10 * (room.count + 1) <= 8 * Capacity(room)
  BY Roomy
<1>2. n = [entries |-> p, count |-> IF isNew THEN room.count + 1 ELSE room.count]
  BY DEF insertAddrTable
<1>. HIDE DEF room, n
<1>3. /\ C \in Nat /\ (C = 0 \/ C >= FirstCapacity) /\ room.count \in Nat
      /\ e \in Entries(C, K, V) /\ Searchable(e, C) /\ Rows(room) = Held(e, C)
      /\ room.count = Cardinality(Held(e, C)) /\ IsFiniteSet(Held(e, C))
      /\ 10 * (room.count + 1) <= 8 * C /\ 10 * room.count <= 8 * C
  BY <1>1, RowCount DEF Table, Rows
<1>. HIDE DEF C, e
<1>4. C \in Nat \ {0} /\ \E t \in 0 .. C - 1 : e[t].key = 0
  <2>1. room.count < C /\ C \in Nat \ {0}
    BY <1>3
  <2>. QED
    BY <1>3, <2>1, EmptySlots
<1>5. x \in Entry(K, V) /\ x.key = k
  BY DEF Entry
<1>6. /\ p \in Entries(C, K, V) /\ Searchable(p, C)
      /\ Held(p, C) = {y \in Held(e, C) : y.key # k} \union {x}
  BY <1>3, <1>4, <1>5, PutEntry
<1>7. Cardinality(Held(p, C)) = IF isNew THEN room.count + 1 ELSE room.count
  <2>1. s \in 0 .. C - 1 /\ e[s].key \in {k, 0} /\ k # 0
    BY <1>3, <1>4, Search DEF Hashed
  <2>2. CASE isNew
    <3>1. ASSUME NEW y \in Held(e, C), y.key = k PROVE FALSE
      <4>1. PICK t \in 0 .. C - 1 : e[t] = y
        BY <1>3, HeldEntry
      <4>. QED
        BY <1>3, <1>4, <2>1, <2>2, <3>1, <4>1, Found
    <3>2. Held(p, C) = Held(e, C) \union {x} /\ x \notin Held(e, C)
      BY <1>5, <1>6, <3>1
    <3>3. Cardinality(Held(e, C) \union {x}) = Cardinality(Held(e, C)) + 1
      BY <1>3, <3>2, FS_AddElement
    <3>. QED
      BY <1>3, <2>2, <3>2, <3>3
  <2>3. CASE ~isNew
    <3> DEFINE y == e[s]
    <3>1. y \in Held(e, C) /\ y.key = k
      BY <2>1, <2>3 DEF Held
    <3>2. Held(e, C) \ {y} = {z \in Held(e, C) : z.key # k}
      BY <1>3, <3>1, HeldOnce
    <3>. HIDE DEF y
    <3>3. /\ IsFiniteSet(Held(e, C) \ {y})
          /\ Cardinality(Held(e, C) \ {y}) = Cardinality(Held(e, C)) - 1
      BY <1>3, <3>1, FS_RemoveElement
    <3>4. x \notin Held(e, C) \ {y}
      BY <1>5, <3>2
    <3>5. Held(p, C) = (Held(e, C) \ {y}) \union {x}
      BY <1>6, <3>2
    <3>6. Cardinality(Held(p, C)) = Cardinality(Held(e, C) \ {y}) + 1
      BY <3>3, <3>4, <3>5, FS_AddElement
    <3>. QED
      BY <1>3, <2>3, <3>3, <3>6
  <2>. QED
    BY <2>2, <2>3
<1>8. Capacity(n) = C
  <2>1. Cardinality(DOMAIN p) = C
    BY <1>4, <1>6, Capacities DEF Entries
  <2>. QED
    BY <1>2, <2>1 DEF Capacity
<1>9. n.entries = p /\ n.count = Cardinality(Held(p, C))
      /\ n = [entries |-> n.entries, count |-> n.count]
  BY <1>2, <1>7
<1>. HIDE DEF p, x, isNew
<1>10. 10 * n.count <= 8 * C
  BY <1>3, <1>7, <1>9
<1>. QED
  BY <1>1, <1>3, <1>6, <1>8, <1>9, <1>10 DEF Table, Rows, n, x
-----------------------------------------------------------------------------
(* Removing an entry.                                                      *)

\* The run of entries after slot h, up to the empty slot that ends it.
RunTo(L, h, e, C) ==
  /\ L \in 0 .. C - 2
  /\ \A k \in 0 .. L : e[After(h, k, C)].key # 0
  /\ e[After(h, L + 1, C)].key = 0

\* Slots are counted around the end of the table.
LEMMA SlotsAround ==
  ASSUME NEW C \in Nat \ {0}, NEW h \in 0 .. C - 1, NEW k \in 0 .. C - 1
  PROVE  (h + k) % C = After(h, k, C) /\ (h + C) % C = h
<1>1. h % C = h
  OBVIOUS
<1>2. (h + k) % C = After(h, k, C)
  <2>1. h \in Nat
    OBVIOUS
  <2>2. (h + k) % C = After(h % C, k, C)
    BY <2>1, Around
  <2>. QED
    BY <1>1, <2>2
<1>3. (h + C) % C = h
  OBVIOUS
<1>. QED
  BY <1>2, <1>3

\* A probe run ends before the first empty slot after the hole.
LEMMA Run ==
  ASSUME NEW C \in Nat \ {0}, NEW K, NEW V, NEW e \in Entries(C, K, V),
         NEW h \in 0 .. C - 1, e[h].key # 0, \E s \in 0 .. C - 1 : e[s].key = 0
  PROVE  RunTo(RunLength(h, e), h, e, C)
<1> DEFINE ends == {k \in 1 .. C : e[(h + k) % C].key = 0}
           end == CHOOSE k \in ends : \A j \in ends : k <= j
<1>1. RunLength(h, e) = end - 1
  <2>1. Cardinality(DOMAIN e) = C
    BY Capacities DEF Entries
  <2>. QED
    BY <2>1 DEF RunLength
<1>2. ASSUME NEW k \in 1 .. C PROVE k \in ends <=> k < C /\ e[After(h, k, C)].key = 0
  <2>1. CASE k = C
    BY <2>1, SlotsAround
  <2>2. CASE k < C
    BY <2>2, SlotsAround
  <2>. QED
    BY <2>1, <2>2
<1>3. ends \in SUBSET Nat /\ ends # {}
  <2>1. PICK s \in 0 .. C - 1 : e[s].key = 0
    OBVIOUS
  <2>2. Dist(h, s, C) \in 1 .. C - 1 /\ After(h, Dist(h, s, C), C) = s
    <3>1. s # h
      BY <2>1
    <3>. QED
      BY <3>1 DEF Dist, After
  <2>3. Dist(h, s, C) \in ends
    BY <1>2, <2>1, <2>2
  <2>. QED
    BY <2>3
<1>4. end \in ends /\ \A j \in ends : end <= j
  <2>. HIDE DEF ends
  <2>1. \E k \in ends : \A j \in ends : k <= j
    BY <1>3, LeastNumber
  <2>. QED
    BY <2>1
<1>5. end \in 1 .. C
  BY <1>4
<1>. HIDE DEF end, ends
<1>6. end \in 1 .. C - 1 /\ e[After(h, end, C)].key = 0
  BY <1>2, <1>4, <1>5
<1>7. ASSUME NEW k \in 0 .. end - 1 PROVE e[After(h, k, C)].key # 0
  <2>1. CASE k = 0
    BY <2>1 DEF After
  <2>2. CASE k # 0
    <3>1. k \in 1 .. C /\ k < C /\ k \notin ends
      BY <1>4, <1>6, <2>2
    <3>. QED
      BY <1>2, <3>1
  <2>. QED
    BY <2>1, <2>2
<1>8. end - 1 \in 0 .. C - 2 /\ (end - 1) + 1 = end
  BY <1>6
<1>. QED
  BY <1>1, <1>6, <1>7, <1>8 DEF RunTo

\* The loop over the run, entry by entry.
Shifts(f, L, h, e, C) ==
  /\ f[0] = [entries |-> e, hole |-> h] /\ Shifted(h, e) = f[L]
  /\ \A k \in 1 .. L : f[k] = ShiftBack(f[k - 1], After(h, k, C))

Holed(C, K, V) == [entries : Entries(C, K, V), hole : 0 .. C - 1]

\* The loop that shifts a probe run back has its states.
LEMMA ShiftLoop ==
  ASSUME NEW C \in Nat \ {0}, NEW K, NEW V, NEW e \in Entries(C, K, V),
         NEW h \in 0 .. C - 1, RunLength(h, e) \in 0 .. C - 2
  PROVE  \E f : /\ f \in [0 .. RunLength(h, e) -> Holed(C, K, V)]
                /\ Shifts(f, RunLength(h, e), h, e, C)
<1> DEFINE L == RunLength(h, e)
           S == Holed(C, K, V)
           start == [entries |-> e, hole |-> h]
           Step(k, x) == ShiftBack(x, (h + k) % C)
           Loop(g) == g = [k \in 0 .. L |-> IF k = 0 THEN start
                                            ELSE ShiftBack(g[k - 1], (h + k) % C)]
           g == CHOOSE g : Loop(g)
           step == [k \in 1 .. L |-> [x \in S |-> Step(k, x)]]
<1>0. start \in S
  BY DEF Holed
<1>1. ASSUME NEW k \in 1 .. L, NEW x \in S
      PROVE  Step(k, x) \in S /\ Step(k, x) = ShiftBack(x, After(h, k, C))
  <2>1. (h + k) % C = After(h, k, C) /\ After(h, k, C) \in 0 .. C - 1
    BY SlotsAround, Circle
  <2>2. x.entries[After(h, k, C)] \in Entry(K, V) /\ x.entries \in Entries(C, K, V)
    BY <2>1 DEF Holed, Entries
  <2>3. [x.entries EXCEPT ![x.hole] = x.entries[After(h, k, C)]] \in Entries(C, K, V)
    BY <2>2 DEF Entries
  <2>. QED
    BY <2>1, <2>3 DEF ShiftBack, Holed
<1>5. Cardinality(DOMAIN e) = C
  BY Capacities DEF Entries
<1>6. L \in Nat
  OBVIOUS
<1>13. Shifted(h, e) = g[L]
  BY <1>5 DEF Shifted
<1>. HIDE DEF S, Step, start, L
<1>2. PICK f : Runs(f, L, S, start, step)
  <2>1. step \in Steps(L, S) /\ L \in Nat
    BY <1>1 DEF Steps, L
  <2>. HIDE DEF step
  <2>. QED
    BY <1>0, <2>1, Iteration
<1>3. ASSUME NEW k \in 1 .. L PROVE f[k] = Step(k, f[k - 1])
  <2>1. k - 1 \in 0 .. L
    BY <1>6
  <2>. QED
    BY <1>2, <2>1 DEF Runs
<1>4. Loop(f)
  BY <1>2, <1>3 DEF Step, Runs
<1>. HIDE DEF Loop
<1>7. Loop(g)
  BY <1>4
<1>8. ASSUME NEW k \in 0 .. L PROVE g[k] = IF k = 0 THEN start ELSE Step(k, g[k - 1])
  BY <1>7 DEF Loop, Step
<1>9. DOMAIN g = 0 .. L /\ g = [k \in 0 .. L |-> g[k]]
  BY <1>7 DEF Loop
<1>. HIDE DEF g
<1>10. \A k \in 0 .. L : g[k] \in S
  <2> DEFINE T == {k \in 0 .. L : g[k] \in S}
  <2>1. 0 \in T /\ L \in Nat
    BY <1>0, <1>6, <1>8
  <2>2. ASSUME NEW k \in 1 .. L, k - 1 \in T PROVE k \in T
    BY <1>1, <1>8, <2>2
  <2>. HIDE DEF T
  <2>3. 0 .. L \subseteq T
    BY <2>1, <2>2, CountingUpTo
  <2>. QED
    BY <2>3 DEF T
<1>11. g \in [0 .. L -> S] /\ g[0] = start
  <2>1. g \in [0 .. L -> S]
    BY <1>9, <1>10
  <2>2. 0 \in 0 .. L
    BY <1>6
  <2>. QED
    BY <1>8, <2>1, <2>2
<1>12. ASSUME NEW k \in 1 .. L PROVE g[k] = ShiftBack(g[k - 1], After(h, k, C))
  <2>1. g[k - 1] \in S /\ g[k] = Step(k, g[k - 1])
    BY <1>6, <1>8, <1>10
  <2>. QED
    BY <1>1, <2>1
<1>. QED
  BY <1>11, <1>12, <1>13 DEF S, start, L, Shifts

\* What the loop keeps, k steps after slot h.  Nothing beyond was touched;
\* the empty slots are where they were; the entries but for the hole's are
\* the table's but for the removed one; and probing finds them if it passes
\* the hole by, which only entries beyond still need.
Shifting(E, hole, k, h, e, C) ==
  /\ Dist(h, hole, C) <= k
  /\ \A s \in 0 .. C - 1 : Dist(h, s, C) > k => E[s] = e[s]
  /\ \A s \in 0 .. C - 1 : E[s].key = 0 <=> e[s].key = 0
  /\ {E[s] : s \in (0 .. C - 1) \ {hole}} = {e[s] : s \in (0 .. C - 1) \ {h}}
  /\ \A s \in (0 .. C - 1) \ {hole} : E[s].key # 0 =>
       \A j \in 0 .. C - 1 : Passes(E[s].key, j, s, C) =>
         \/ j # hole /\ E[j].key \notin {E[s].key, 0}
         \/ j = hole /\ Dist(h, s, C) > k

\* The entry at i may stay where it is if its way does not pass the hole.
LEMMA StaysPut ==
  ASSUME NEW C \in Nat \ {0}, NEW home \in 0 .. C - 1, NEW hole \in 0 .. C - 1,
         NEW i \in 0 .. C - 1, i # hole
  PROVE  homeInRange(home, hole, i) <=> ~(Dist(home, hole, C) < Dist(home, i, C))
<1>1. CASE hole < i
  BY <1>1 DEF homeInRange, Dist
<1>2. CASE i < hole
  BY <1>2 DEF homeInRange, Dist
<1>. QED
  BY <1>1, <1>2

\* A way from before i to a slot before i goes round the whole table.
LEMMA GoesRound ==
  ASSUME NEW C \in Nat \ {0}, NEW h \in 0 .. C - 1, NEW home \in 0 .. C - 1,
         NEW i \in 0 .. C - 1, NEW s \in 0 .. C - 1, NEW z \in 0 .. C - 1,
         Dist(home, i, C) < Dist(home, s, C),
         \/ Dist(h, s, C) < Dist(h, i, C) /\ Dist(h, i, C) < Dist(h, z, C)
         \/ Dist(h, i, C) < Dist(h, z, C) /\ Dist(h, z, C) < Dist(h, s, C)
  PROVE  Dist(home, z, C) < Dist(home, s, C)
BY DEF Dist

\* One step of the shifting keeps what the entries and the hole are to be.
LEMMA ShiftStep ==
  ASSUME NEW C \in Nat \ {0}, NEW K, NEW V, NEW e \in Entries(C, K, V), Hashed(K),
         NEW h \in 0 .. C - 1, NEW L, RunTo(L, h, e, C),
         NEW x \in Holed(C, K, V), NEW k \in 1 .. L,
         Shifting(x.entries, x.hole, k - 1, h, e, C)
  PROVE  LET n == ShiftBack(x, After(h, k, C))
         IN  Shifting(n.entries, n.hole, k, h, e, C)
<1> DEFINE i == After(h, k, C)
           z == After(h, L + 1, C)
           key == e[i].key
           home == Home(key, C)
           E == x.entries
           hole == x.hole
           D(s) == Dist(h, s, C)
           n == ShiftBack(x, i)
<1> SUFFICES Shifting(n.entries, n.hole, k, h, e, C)
  OBVIOUS
<1>1. /\ L \in 0 .. C - 2 /\ k \in 0 .. C - 2 /\ L + 1 \in 0 .. C - 1
      /\ k \in 0 .. L /\ k \in 0 .. C - 1
  BY DEF RunTo
<1>2. /\ i \in 0 .. C - 1 /\ D(i) = k /\ z \in 0 .. C - 1 /\ D(z) = L + 1
      /\ key # 0 /\ e[z].key = 0
  <2>1. i \in 0 .. C - 1 /\ D(i) = k
    BY <1>1, Circle
  <2>2. z \in 0 .. C - 1 /\ D(z) = L + 1
    BY <1>1, Circle
  <2>3. key # 0 /\ e[z].key = 0
    BY <1>1 DEF RunTo
  <2>. QED
    BY <2>1, <2>2, <2>3
<1>3. E \in Entries(C, K, V) /\ hole \in 0 .. C - 1
  BY DEF Holed
<1>4. /\ D(hole) <= k - 1
      /\ \A s \in 0 .. C - 1 : D(s) > k - 1 => E[s] = e[s]
      /\ \A s \in 0 .. C - 1 : E[s].key = 0 <=> e[s].key = 0
      /\ {E[s] : s \in (0 .. C - 1) \ {hole}} = {e[s] : s \in (0 .. C - 1) \ {h}}
  BY DEF Shifting
<1>5. ASSUME NEW s \in (0 .. C - 1) \ {hole}, E[s].key # 0,
             NEW j \in 0 .. C - 1, Passes(E[s].key, j, s, C)
      PROVE  \/ j # hole /\ E[j].key \notin {E[s].key, 0}
             \/ j = hole /\ D(s) > k - 1
  BY <1>5 DEF Shifting
<1>6. ASSUME NEW s \in 0 .. C - 1 PROVE D(s) \in 0 .. C - 1
  BY Circle
<1>. HIDE DEF i, z, E, hole
<1>7. i # hole /\ E[i] = e[i] /\ E[i].key = key
  BY <1>1, <1>2, <1>3, <1>4, <1>6
<1>8. E[hole].key # 0
  <2>1. D(hole) \in 0 .. L /\ After(h, D(hole), C) = hole
    <3>1. D(hole) \in 0 .. L
      BY <1>1, <1>3, <1>4, <1>6
    <3>2. After(h, D(hole), C) = hole
      BY <1>3, Circle
    <3>. QED
      BY <3>1, <3>2
  <2>2. e[hole].key # 0
    BY <2>1 DEF RunTo
  <2>. QED
    BY <1>3, <1>4, <2>2
<1>9. key \in K /\ home \in 0 .. C - 1
  <2>1. key \in K
    BY <1>2 DEF Entries, Entry, EmptySlot
  <2>. QED
    BY <2>1, HomeSlot
<1>10. n = IF ~Passes(key, hole, i, C) THEN x
           ELSE [entries |-> [E EXCEPT ![hole] = E[i]], hole |-> i]
  <2>1. Cardinality(DOMAIN E) = C
    BY <1>3, Capacities DEF Entries
  <2>2. homeInRange(home, hole, i) <=> ~Passes(key, hole, i, C)
    BY <1>2, <1>3, <1>7, <1>9, StaysPut DEF Passes
  <2>3. hashAddress[E[i].key] % C = home
    BY <1>7 DEF Home
  <2>. HIDE DEF home, key
  <2>. QED
    BY <2>1, <2>2, <2>3 DEF ShiftBack, E, hole
<1>. HIDE DEF key, n
<1>11. CASE ~Passes(key, hole, i, C)
  <2>1. n = x
    BY <1>10, <1>11
  <2>2. D(hole) <= k
    BY <1>1, <1>3, <1>4, <1>6
  <2>3. ASSUME NEW s \in 0 .. C - 1, D(s) > k PROVE E[s] = e[s]
    BY <1>1, <1>4, <1>6, <2>3
  <2>4. ASSUME NEW s \in (0 .. C - 1) \ {hole}, E[s].key # 0,
               NEW j \in 0 .. C - 1, Passes(E[s].key, j, s, C)
        PROVE  \/ j # hole /\ E[j].key \notin {E[s].key, 0}
               \/ j = hole /\ D(s) > k
    <3>1. CASE j = hole
      <4>1. D(s) > k - 1
        BY <1>5, <2>4, <3>1
      <4>2. s # i
        BY <1>7, <1>11, <2>4, <3>1
      <4>3. D(s) # k
        BY <1>1, <1>2, <4>2, Circle
      <4>. QED
        BY <1>1, <1>6, <3>1, <4>1, <4>3
    <3>2. CASE j # hole
      BY <1>5, <2>4, <3>2
    <3>. QED
      BY <3>1, <3>2
  <2>5. n.entries = E /\ n.hole = hole
    BY <2>1 DEF E, hole
  <2>. QED
    BY <1>4, <2>2, <2>3, <2>4, <2>5 DEF Shifting
<1>12. CASE Passes(key, hole, i, C)
  <2> DEFINE M == [E EXCEPT ![hole] = E[i]]
  <2>1. n = [entries |-> M, hole |-> i]
    BY <1>10, <1>12
  <2>2. M[hole] = E[i] /\ \A s \in 0 .. C - 1 : s # hole => M[s] = E[s]
    BY <1>3 DEF Entries
  <2>. HIDE DEF M
  <2>3. D(i) <= k
    BY <1>1, <1>2
  <2>4. ASSUME NEW s \in 0 .. C - 1, D(s) > k PROVE M[s] = e[s]
    BY <1>1, <1>3, <1>4, <1>6, <2>2, <2>4
  <2>5. ASSUME NEW s \in 0 .. C - 1 PROVE M[s].key = 0 <=> e[s].key = 0
    <3>1. M[hole].key # 0 /\ E[hole].key # 0
      BY <1>2, <1>7, <1>8, <2>2
    <3>. QED
      BY <1>3, <1>4, <2>2, <3>1
  <2>6. {M[s] : s \in (0 .. C - 1) \ {i}} = {E[s] : s \in (0 .. C - 1) \ {hole}}
    <3>1. ASSUME NEW s \in (0 .. C - 1) \ {i}
          PROVE  \E t \in (0 .. C - 1) \ {hole} : M[s] = E[t]
      BY <1>2, <1>7, <2>2
    <3>2. ASSUME NEW s \in (0 .. C - 1) \ {hole}
          PROVE  \E t \in (0 .. C - 1) \ {i} : M[t] = E[s]
      BY <1>3, <1>7, <2>2
    <3>. QED
      BY <3>1, <3>2
  <2>7. ASSUME NEW s \in (0 .. C - 1) \ {i}, M[s].key # 0,
               NEW j \in 0 .. C - 1, Passes(M[s].key, j, s, C)
        PROVE  \/ j # i /\ M[j].key \notin {M[s].key, 0}
               \/ j = i /\ D(s) > k
    <3>1. CASE s = hole
      <4>1. M[s].key = key /\ Passes(key, j, i, C) /\ j # hole /\ j # i
        <5>1. M[s].key = key /\ Passes(key, j, hole, C)
          BY <1>7, <2>2, <2>7, <3>1
        <5>. QED
          BY <1>2, <1>3, <1>9, <1>12, <5>1 DEF Passes, Dist
      <4>2. E[j].key \notin {key, 0}
        BY <1>2, <1>5, <1>7, <4>1
      <4>. QED
        BY <2>2, <4>1, <4>2
    <3>2. CASE s # hole
      <4>1. M[s] = E[s]
        BY <2>2, <3>2
      <4>2. E[s].key # key
        <5>1. CASE E[s].key = key
          <6>1. Passes(key, s, i, C) \/ Passes(key, i, s, C)
            BY <1>2, <1>9, <2>7, OneWay
          <6>2. CASE Passes(key, s, i, C)
            BY <1>2, <1>5, <1>7, <3>2, <5>1, <6>2
          <6>3. CASE Passes(key, i, s, C)
            BY <1>2, <1>5, <1>7, <2>7, <3>2, <4>1, <5>1, <6>3
          <6>. QED
            BY <6>1, <6>2, <6>3
        <5>. QED
          BY <5>1
      <4>3. CASE j = hole
        BY <1>2, <1>7, <2>2, <4>1, <4>2, <4>3
      <4>4. CASE j # hole /\ j # i
        BY <1>5, <2>2, <2>7, <3>2, <4>1, <4>4
      <4>5. CASE j = i
        <5>1. CASE D(s) < k
          <6>1. E[s].key \in K /\ Home(E[s].key, C) \in 0 .. C - 1
            <7>1. E[s].key \in K
              BY <1>3, <2>7, <4>1 DEF Entries, Entry, EmptySlot
            <7>. QED
              BY <7>1, HomeSlot
          <6>2. Passes(E[s].key, z, s, C)
            <7>1. Dist(Home(E[s].key, C), i, C) < Dist(Home(E[s].key, C), s, C)
              BY <2>7, <4>1, <4>5 DEF Passes
            <7>2. D(s) < D(i) /\ D(i) < D(z)
              BY <1>1, <1>2, <5>1
            <7>. QED
              BY <1>2, <6>1, <7>1, <7>2, GoesRound DEF Passes
          <6>3. z # hole /\ E[z].key = 0
            BY <1>1, <1>2, <1>3, <1>4
          <6>. QED
            BY <1>2, <1>5, <2>7, <3>2, <4>1, <6>2, <6>3
        <5>2. D(s) # k
          BY <1>1, <1>2, <2>7, Circle
        <5>. QED
          BY <1>1, <1>6, <4>5, <5>1, <5>2
      <4>. QED
        BY <4>3, <4>4, <4>5
    <3>. QED
      BY <3>1, <3>2
  <2>8. n.entries = M /\ n.hole = i
    BY <2>1
  <2>9. {M[s] : s \in (0 .. C - 1) \ {i}} = {e[s] : s \in (0 .. C - 1) \ {h}}
    BY <1>4, <2>6
  <2>10. Shifting(M, i, k, h, e, C)
    BY <2>3, <2>4, <2>5, <2>7, <2>9 DEF Shifting
  <2>. QED
    BY <2>8, <2>10
<1>. QED
  BY <1>11, <1>12 DEF n, i

\* What is left when the loop has emptied the last hole.
Closed(x) == [x.entries EXCEPT ![x.hole] = EmptySlot]

\* Shifting the run back and emptying the last hole removes one entry, and
\* probing still finds every other.
LEMMA HoleClosed ==
  ASSUME NEW C \in Nat \ {0}, NEW K, NEW V, NEW e \in Entries(C, K, V),
         Hashed(K), Searchable(e, C),
         NEW h \in 0 .. C - 1, e[h].key # 0, \E s \in 0 .. C - 1 : e[s].key = 0
  PROVE  LET n == Closed(Shifted(h, e))
         IN  /\ n \in Entries(C, K, V) /\ Searchable(n, C)
             /\ Held(n, C) = Held(e, C) \ {e[h]}
<1> DEFINE L == RunLength(h, e)
           x == Shifted(h, e)
           E == x.entries
           hole == x.hole
           z == After(h, L + 1, C)
           n == [E EXCEPT ![hole] = EmptySlot]
<1>1. RunTo(L, h, e, C) /\ L \in 0 .. C - 2
  <2>1. RunTo(L, h, e, C)
    BY Run
  <2>. QED
    BY <2>1 DEF RunTo
<1>2. PICK f : f \in [0 .. L -> Holed(C, K, V)] /\ Shifts(f, L, h, e, C)
  BY <1>1, ShiftLoop
<1>. HIDE DEF L, x
<1>3. /\ f[0] = [entries |-> e, hole |-> h] /\ x = f[L]
      /\ \A k \in 1 .. L : f[k] = ShiftBack(f[k - 1], After(h, k, C))
  BY <1>2 DEF Shifts, x
<1> DEFINE Kept(k) == Shifting(f[k].entries, f[k].hole, k, h, e, C)
           T == {k \in 0 .. L : Kept(k)}
<1>4. 0 \in T
  <2>1. f[0].entries = e /\ f[0].hole = h /\ Dist(h, h, C) = 0
    BY <1>3 DEF Dist
  <2>2. ASSUME NEW s \in (0 .. C - 1) \ {h}, e[s].key # 0,
               NEW j \in 0 .. C - 1, Passes(e[s].key, j, s, C)
        PROVE  e[j].key \notin {e[s].key, 0} /\ Dist(h, s, C) > 0
    BY <2>2 DEF Searchable, Leads, Dist
  <2>3. Shifting(e, h, 0, h, e, C)
    BY <2>1, <2>2 DEF Shifting
  <2>. QED
    BY <1>1, <2>1, <2>3
<1>5. ASSUME NEW k \in 1 .. L, k - 1 \in T PROVE k \in T
  <2>1. f[k - 1] \in Holed(C, K, V) /\ Kept(k - 1) /\ k \in 0 .. L
    BY <1>1, <1>2, <1>5
  <2>2. Kept(k)
    BY <1>1, <1>3, <2>1, ShiftStep
  <2>. QED
    BY <2>1, <2>2
<1>6. Shifting(E, hole, L, h, e, C) /\ E \in Entries(C, K, V) /\ hole \in 0 .. C - 1
  <2>1. 0 .. L \subseteq T
    <3>. HIDE DEF T
    <3>. QED
      BY <1>1, <1>4, <1>5, CountingUpTo
  <2>2. L \in 0 .. L
    BY <1>1
  <2>3. Kept(L) /\ f[L] \in Holed(C, K, V)
    BY <1>2, <2>1, <2>2
  <2>. QED
    BY <1>3, <2>3 DEF Holed
<1>. HIDE DEF E, hole
<1>7. /\ n \in Entries(C, K, V) /\ n[hole] = EmptySlot /\ EmptySlot.key = 0
      /\ \A s \in 0 .. C - 1 : s # hole => n[s] = E[s]
  <2>1. EmptySlot \in Entry(K, V) /\ EmptySlot.key = 0
    BY DEF EmptySlot, Entry
  <2>. QED
    BY <1>6, <2>1 DEF Entries
<1>8. z \in 0 .. C - 1 /\ Dist(h, z, C) = L + 1 /\ e[z].key = 0
  <2>1. L + 1 \in 0 .. C - 1
    BY <1>1
  <2>2. z \in 0 .. C - 1 /\ Dist(h, z, C) = L + 1
    BY <2>1, Circle
  <2>. QED
    BY <1>1, <2>2 DEF RunTo
<1>. HIDE DEF n, z
<1>9. Dist(h, hole, C) <= L /\ E[z].key = 0 /\ z # hole /\ Dist(h, hole, C) \in Nat
  <2>1. Dist(h, hole, C) <= L /\ Dist(h, hole, C) \in Nat
    BY <1>6, Circle DEF Shifting
  <2>2. E[z].key = 0
    BY <1>6, <1>8 DEF Shifting
  <2>. QED
    BY <1>1, <1>8, <2>1, <2>2
<1>10. ASSUME NEW s \in 0 .. C - 1, n[s].key # 0, NEW j \in 0 .. C - 1,
              Passes(n[s].key, j, s, C)
       PROVE  n[j].key \notin {n[s].key, 0}
  <2>1. s # hole /\ n[s] = E[s]
    BY <1>7, <1>10
  <2>2. \/ j # hole /\ E[j].key \notin {E[s].key, 0}
        \/ j = hole /\ Dist(h, s, C) > L
    BY <1>6, <1>10, <2>1 DEF Shifting
  <2>3. CASE j # hole
    BY <1>7, <2>1, <2>2, <2>3
  <2>4. CASE j = hole
    <3>1. E[s].key \in K /\ Home(E[s].key, C) \in 0 .. C - 1
      <4>1. E[s].key \in K
        BY <1>6, <1>10, <2>1 DEF Entries, Entry, EmptySlot
      <4>. QED
        BY <4>1, HomeSlot
    <3>2. Dist(Home(E[s].key, C), hole, C) < Dist(Home(E[s].key, C), s, C)
      BY <1>10, <2>1, <2>4 DEF Passes
    <3>3. Dist(h, s, C) > L + 1
      <4>1. s # z /\ Dist(h, s, C) > L
        BY <1>9, <1>10, <2>1, <2>2, <2>4
      <4>2. Dist(h, s, C) # L + 1 /\ Dist(h, s, C) \in Nat
        BY <1>8, <4>1, Circle
      <4>. QED
        BY <1>1, <4>1, <4>2
    <3>4. Dist(h, hole, C) < Dist(h, z, C) /\ Dist(h, z, C) < Dist(h, s, C)
      BY <1>1, <1>8, <1>9, <3>3
    <3>5. Passes(E[s].key, z, s, C)
      BY <1>6, <1>8, <3>1, <3>2, <3>4, GoesRound DEF Passes
    <3>6. E[z].key # 0
      <4>1. \A t \in 0 .. C - 1 : Passes(E[s].key, t, s, C) /\ t # hole => E[t].key # 0
        BY <1>6, <1>10, <2>1 DEF Shifting
      <4>. QED
        BY <1>8, <1>9, <3>5, <4>1
    <3>. QED
      BY <1>9, <3>6
  <2>. QED
    BY <2>3, <2>4
<1>11. {E[s] : s \in (0 .. C - 1) \ {hole}} = {e[s] : s \in (0 .. C - 1) \ {h}}
  BY <1>6 DEF Shifting
<1>12. ASSUME NEW y PROVE y \in Held(n, C) <=> y \in Held(e, C) /\ y # e[h]
  <2>1. y \in Held(n, C) <=>
          y.key # 0 /\ y \in {E[s] : s \in (0 .. C - 1) \ {hole}}
    <3>1. ASSUME y \in Held(n, C)
          PROVE  y.key # 0 /\ y \in {E[s] : s \in (0 .. C - 1) \ {hole}}
      <4>1. PICK s \in 0 .. C - 1 : n[s] = y /\ n[s].key # 0
        BY <3>1 DEF Held
      <4>. QED
        BY <1>7, <4>1
    <3>2. ASSUME y.key # 0, y \in {E[s] : s \in (0 .. C - 1) \ {hole}}
          PROVE  y \in Held(n, C)
      <4>1. PICK s \in (0 .. C - 1) \ {hole} : E[s] = y
        BY <3>2
      <4>. QED
        BY <1>7, <3>2, <4>1 DEF Held
    <3>. QED
      BY <3>1, <3>2
  <2>2. y.key # 0 /\ y \in {e[s] : s \in (0 .. C - 1) \ {h}}
          <=> y \in Held(e, C) /\ y # e[h]
    <3>1. ASSUME y.key # 0, y \in {e[s] : s \in (0 .. C - 1) \ {h}}
          PROVE  y \in Held(e, C) /\ y # e[h]
      <4>1. PICK s \in (0 .. C - 1) \ {h} : e[s] = y
        BY <3>1
      <4>2. y \in Held(e, C)
        BY <3>1, <4>1 DEF Held
      <4>3. y # e[h]
        BY <3>1, <4>1, Found
      <4>. QED
        BY <4>2, <4>3
    <3>2. ASSUME y \in Held(e, C), y # e[h]
          PROVE  y.key # 0 /\ y \in {e[s] : s \in (0 .. C - 1) \ {h}}
      <4>1. PICK s \in 0 .. C - 1 : e[s] = y /\ e[s].key # 0
        BY <3>2 DEF Held
      <4>. QED
        BY <3>2, <4>1
    <3>. QED
      BY <3>1, <3>2
  <2>. QED
    BY <1>11, <2>1, <2>2
<1>13. Searchable(n, C)
  BY <1>10 DEF Searchable, Leads
<1>14. Held(n, C) = Held(e, C) \ {e[h]}
  BY <1>12
<1>. QED
  BY <1>7, <1>13, <1>14 DEF n, E, hole, x, Closed

\* removeAddrTable takes the address's entry out, and no other.
LEMMA Removal ==
  ASSUME NEW K, NEW V, NEW at, Hashed(K), Table(at, K, V), NEW k \in K
  PROVE  LET n == removeAddrTable(k, at)
         IN  Table(n, K, V) /\ Rows(n) = {y \in Rows(at) : y.key # k}
<1> DEFINE C == Capacity(at)
           e == at.entries
           h == findAddrEntry(k, e)
           x == Shifted(h, e)
           m == Closed(x)
           n == removeAddrTable(k, at)
<1>1. /\ C \in Nat /\ (C = 0 \/ C >= FirstCapacity) /\ at.count \in Nat
      /\ e \in Entries(C, K, V) /\ Searchable(e, C) /\ Rows(at) = Held(e, C)
      /\ at.count = Cardinality(Held(e, C)) /\ IsFiniteSet(Held(e, C))
      /\ 10 * at.count <= 8 * C
  BY RowCount DEF Table, Rows
<1>2. CASE ~containsAddrTable(k, at)
  <2>1. n = at
    BY <1>2 DEF removeAddrTable
  <2>2. ASSUME NEW y \in Rows(at) PROVE y.key # k
    BY <1>2, Lookup
  <2>. QED
    BY <2>1, <2>2
<1>3. CASE containsAddrTable(k, at)
  <2>1. C > 0 /\ e[h].key # 0
    BY <1>3 DEF containsAddrTable
  <2>2. n = [entries |-> m, count |-> at.count - 1]
    BY <1>3 DEF removeAddrTable, Closed
  <2>. HIDE DEF C, e, n
  <2>3. C \in Nat \ {0} /\ \E s \in 0 .. C - 1 : e[s].key = 0
    <3>1. C \in Nat \ {0} /\ Cardinality(Held(e, C)) < C
      BY <1>1, <2>1
    <3>. QED
      BY <1>1, <3>1, EmptySlots
  <2>4. h \in 0 .. C - 1 /\ e[h].key = k /\ e[h] \in Held(e, C)
    <3>1. h \in 0 .. C - 1 /\ e[h].key \in {k, 0}
      BY <1>1, <2>3, Search
    <3>. QED
      BY <2>1, <3>1 DEF Held
  <2>. HIDE DEF h
  <2>5. /\ m \in Entries(C, K, V) /\ Searchable(m, C)
        /\ Held(m, C) = Held(e, C) \ {e[h]}
    BY <1>1, <2>1, <2>3, <2>4, HoleClosed
  <2>6. Held(e, C) \ {e[h]} = {y \in Held(e, C) : y.key # k}
    BY <1>1, <2>4, HeldOnce
  <2>. HIDE DEF m
  <2>7. Cardinality(Held(m, C)) = at.count - 1 /\ at.count - 1 \in Nat
    <3>1. Cardinality(Held(m, C)) = at.count - 1
      BY <1>1, <2>4, <2>5, FS_RemoveElement
    <3>2. Cardinality(Held(m, C)) \in Nat
      BY <1>1, HeldFinite, FS_CardinalityType
    <3>. QED
      BY <3>1, <3>2
  <2>8. /\ n.entries = m /\ n.count = Cardinality(Held(m, C))
        /\ n = [entries |-> n.entries, count |-> n.count] /\ n.count = at.count - 1
    BY <2>2, <2>7
  <2>9. Capacity(n) = C
    <3>1. Cardinality(DOMAIN m) = C
      BY <2>3, <2>5, Capacities DEF Entries
    <3>. QED
      BY <2>8, <3>1 DEF Capacity
  <2>10. 10 * n.count <= 8 * C
    BY <1>1, <2>7, <2>8
  <2>. QED
    BY <1>1, <2>5, <2>6, <2>8, <2>9, <2>10 DEF Table, Rows, n
<1>. QED
  BY <1>2, <1>3
-----------------------------------------------------------------------------
(* The table as a map: what its operations mean to its searches.           *)

\* Tables with the same entry for an address look it up alike.
LEMMA SameRows ==
  ASSUME NEW K, NEW V, NEW at, NEW b, Hashed(K), Table(at, K, V), Table(b, K, V),
         NEW a \in K, \A y : y.key = a => (y \in Rows(b) <=> y \in Rows(at))
  PROVE  /\ containsAddrTable(a, b) <=> containsAddrTable(a, at)
         /\ findAddrTable(a, b) = findAddrTable(a, at)
<1>1. containsAddrTable(a, b) <=> containsAddrTable(a, at)
  BY Lookup
<1>2. CASE containsAddrTable(a, at)
  <2>1. PICK y \in Rows(at) : y.key = a
    BY <1>2, Lookup
  <2>. QED
    BY <1>1, <2>1, Lookup
<1>3. CASE ~containsAddrTable(a, at)
  BY <1>1, <1>3, Lookup
<1>. QED
  BY <1>1, <1>2, <1>3

(***************************************************************************)
(* Inserting an address binds it and leaves every other address as it was, *)
(* whether the table grows or not, and whatever the addresses hash to:     *)
(* probing still finds every entry (insertAddrTable, adjustAddrCapacity).  *)
(***************************************************************************)
THEOREM InsertIsUpdate ==
  ASSUME NEW K, NEW V, NEW at, Hashed(K), Table(at, K, V),
         NEW k \in K, NEW v \in V
  PROVE  LET n == insertAddrTable(k, v, at)
         IN  /\ Table(n, K, V)
             /\ \A a \in K :
                  /\ containsAddrTable(a, n) <=> a = k \/ containsAddrTable(a, at)
                  /\ findAddrTable(a, n) = IF a = k THEN v ELSE findAddrTable(a, at)
<1> DEFINE n == insertAddrTable(k, v, at)
           x == [key |-> k, value |-> v]
<1>1. Table(n, K, V) /\ Rows(n) = {y \in Rows(at) : y.key # k} \union {x}
  BY Insertion
<1>. HIDE DEF n
<1>2. containsAddrTable(k, n) /\ findAddrTable(k, n) = v
  <2>1. x \in Rows(n) /\ x.key = k /\ x.value = v
    BY <1>1
  <2>. HIDE DEF x
  <2>. QED
    BY <1>1, <2>1, Lookup
<1>3. ASSUME NEW a \in K, a # k
      PROVE  /\ containsAddrTable(a, n) <=> containsAddrTable(a, at)
             /\ findAddrTable(a, n) = findAddrTable(a, at)
  <2>1. \A y : y.key = a => (y \in Rows(n) <=> y \in Rows(at))
    BY <1>1, <1>3
  <2>. QED
    BY <1>1, <2>1, SameRows
<1>. QED
  BY <1>1, <1>2, <1>3 DEF n

(***************************************************************************)
(* Removing an address unbinds it alone: shifting the rest of its probe    *)
(* run back, around the end of the table too, hides no other entry and     *)
(* leaves none twice (removeAddrTable).                                    *)
(***************************************************************************)
THEOREM RemoveIsUpdate ==
  ASSUME NEW K, NEW V, NEW at, Hashed(K), Table(at, K, V), NEW k \in K
  PROVE  LET n == removeAddrTable(k, at)
         IN  /\ Table(n, K, V)
             /\ \A a \in K :
                  /\ containsAddrTable(a, n) <=> a # k /\ containsAddrTable(a, at)
                  /\ findAddrTable(a, n) = IF a = k THEN NULL ELSE findAddrTable(a, at)
<1> DEFINE n == removeAddrTable(k, at)
<1>1. Table(n, K, V) /\ Rows(n) = {y \in Rows(at) : y.key # k}
  BY Removal
<1>. HIDE DEF n
<1>2. ~containsAddrTable(k, n) /\ findAddrTable(k, n) = NULL
  BY <1>1, Lookup
<1>3. ASSUME NEW a \in K, a # k
      PROVE  /\ containsAddrTable(a, n) <=> containsAddrTable(a, at)
             /\ findAddrTable(a, n) = findAddrTable(a, at)
  <2>1. \A y : y.key = a => (y \in Rows(n) <=> y \in Rows(at))
    BY <1>1, <1>3
  <2>. QED
    BY <1>1, <2>1, SameRows
<1>. QED
  BY <1>1, <1>2, <1>3 DEF n

(***************************************************************************)
(* The count is above zero exactly when some address is bound: isDirty may *)
(* go by it, however entries were inserted, replaced and removed.          *)
(***************************************************************************)
THEOREM CountTellsEmpty ==
  ASSUME NEW K, NEW V, NEW at, Hashed(K), Table(at, K, V)
  PROVE  at.count > 0 <=> \E a \in K : containsAddrTable(a, at)
<1>1. at.count \in Nat /\ (at.count = 0 <=> Rows(at) = {})
  BY RowCount
<1>2. ASSUME NEW y \in Rows(at) PROVE y.key \in K
  BY HeldEntry DEF Rows, Table
<1>3. Rows(at) # {} <=> \E a \in K : containsAddrTable(a, at)
  BY <1>2, Lookup
<1>. QED
  BY <1>1, <1>3

\* What a search finds is one of the values, or nothing.
LEMMA FoundValue ==
  ASSUME NEW K, NEW V, NEW at, Hashed(K), Table(at, K, V), NEW a \in K
  PROVE  /\ containsAddrTable(a, at) => findAddrTable(a, at) \in V
         /\ ~containsAddrTable(a, at) => findAddrTable(a, at) = NULL
         /\ NULL \notin V => (containsAddrTable(a, at) <=> findAddrTable(a, at) # NULL)
<1>1. CASE containsAddrTable(a, at)
  <2>1. PICK y \in Rows(at) : y.key = a
    BY <1>1, Lookup
  <2>2. findAddrTable(a, at) = y.value
    BY <2>1, Lookup
  <2>3. y.value \in V
    BY HeldEntry DEF Rows, Table
  <2>. QED
    BY <1>1, <2>2, <2>3
<1>2. CASE ~containsAddrTable(a, at)
  BY <1>2, Lookup
<1>. QED
  BY <1>1, <1>2

\* Whether one of the first i slots is a's.
Seen(a, i, at) == \E j \in 0 .. i - 1 : at.entries[j].key = a

\* A loop over the slots visits each entry once, and no other.
LEMMA Visit ==
  ASSUME NEW K, NEW V, NEW at, Hashed(K), Table(at, K, V)
  PROVE  /\ Capacity(at) \in Nat
         /\ \A a \in K : ~Seen(a, 0, at) /\ (Seen(a, Capacity(at), at) <=> containsAddrTable(a, at))
         /\ \A i \in 1 .. Capacity(at) :
              LET e == at.entries[i - 1]
              IN  /\ \A a \in K : Seen(a, i, at) <=> Seen(a, i - 1, at) \/ e.key = a
                  /\ e.key # 0 => /\ e.key \in K /\ e.value \in V
                                  /\ findAddrTable(e.key, at) = e.value
                                  /\ ~Seen(e.key, i - 1, at)
<1> DEFINE C == Capacity(at)
<1>1. /\ C \in Nat /\ at.entries \in Entries(C, K, V) /\ Searchable(at.entries, C)
      /\ Rows(at) = Held(at.entries, C)
  BY DEF Table, Rows
<1>. HIDE DEF C
<1>2. ASSUME NEW a \in K
      PROVE  ~Seen(a, 0, at) /\ (Seen(a, C, at) <=> containsAddrTable(a, at))
  <2>1. ~Seen(a, 0, at)
    BY DEF Seen
  <2>2. Seen(a, C, at) <=> \E y \in Rows(at) : y.key = a
    <3>1. a # 0
      BY DEF Hashed
    <3>. QED
      BY <1>1, <3>1 DEF Held, Seen
  <2>. QED
    BY <2>1, <2>2, Lookup
<1>3. ASSUME NEW i \in 1 .. C, NEW a \in K
      PROVE  Seen(a, i, at) <=> Seen(a, i - 1, at) \/ at.entries[i - 1].key = a
  <2>1. 0 .. i - 1 = (0 .. (i - 1) - 1) \union {i - 1}
    BY <1>1
  <2>. QED
    BY <2>1 DEF Seen
<1>4. ASSUME NEW i \in 1 .. C, at.entries[i - 1].key # 0
      PROVE  LET e == at.entries[i - 1]
             IN  /\ e.key \in K /\ e.value \in V
                 /\ findAddrTable(e.key, at) = e.value
                 /\ ~Seen(e.key, i - 1, at)
  <2> DEFINE e == at.entries[i - 1]
  <2>1. i - 1 \in 0 .. C - 1 /\ C \in Nat \ {0}
    BY <1>1
  <2>2. e \in Rows(at)
    BY <1>1, <1>4, <2>1 DEF Held
  <2>3. e.key \in K /\ e.value \in V
    BY <1>1, <2>2, HeldEntry
  <2>4. findAddrTable(e.key, at) = e.value
    <3>. HIDE DEF e
    <3>. QED
      BY <2>2, <2>3, Lookup
  <2>5. ASSUME NEW j \in 0 .. (i - 1) - 1, at.entries[j].key = e.key PROVE FALSE
    <3>1. j \in 0 .. C - 1 /\ j # i - 1
      BY <1>1
    <3>. QED
      BY <1>1, <1>4, <2>1, <2>5, <3>1, Found
  <2>. QED
    BY <2>3, <2>4, <2>5 DEF Seen
<1>. QED
  BY <1>1, <1>2, <1>3, <1>4 DEF C

\* The tables as a set.
TableSet(K, V) ==
  {at \in [entries : UNION {Entries(C, K, V) : C \in Nat}, count : Nat] : Table(at, K, V)}

\* That set is of the tables.
LEMMA TablesAreInSet ==
  ASSUME NEW K, NEW V, NEW at
  PROVE  at \in TableSet(K, V) <=> Table(at, K, V)
<1>1. ASSUME Table(at, K, V)
      PROVE  at \in [entries : UNION {Entries(C, K, V) : C \in Nat}, count : Nat]
  <2>1. at.entries \in UNION {Entries(C, K, V) : C \in Nat}
    BY <1>1 DEF Table
  <2>2. at.count \in Nat /\ at = [entries |-> at.entries, count |-> at.count]
    BY <1>1, RowCount DEF Table
  <2>. QED
    BY <2>1, <2>2
<1>. QED
  BY <1>1 DEF TableSet

(***************************************************************************)
(* The file and the open table.                                            *)
(***************************************************************************)
(* Arithmetic.                                                             *)

\* More of the same is no less.
LEMMA TimesMonotone ==
  ASSUME NEW a \in Nat, NEW b \in Nat, NEW c \in Nat, a <= b
  PROVE  a * c <= b * c
<1>1. PICK d \in Nat : b = a + d
  <2>1. b - a \in Nat /\ b = a + (b - a)
    OBVIOUS
  <2>. QED
    BY <2>1
<1>2. (a + d) * c = a * c + d * c
  OBVIOUS
<1>3. d * c >= 0
  OBVIOUS
<1>. QED
  BY <1>1, <1>2, <1>3

\* And less of the same, fewer.
LEMMA LessTimes ==
  ASSUME NEW a \in Nat, NEW b \in Nat, NEW c \in Nat, a * c < b * c
  PROVE  a < b
BY TimesMonotone

\* Quotient and remainder.
LEMMA Division ==
  ASSUME NEW n \in Nat, NEW d \in Nat \ {0}
  PROVE  /\ n \div d \in Nat /\ n % d \in 0 .. d - 1
         /\ n = d * (n \div d) + (n % d)
OBVIOUS

\* A stripe is in the unit of the one before it, or in a later one.
LEMMA DivisionMonotone ==
  ASSUME NEW n \in Nat, NEW d \in Nat \ {0}
  PROVE  n \div d <= (n + 1) \div d
<1> DEFINE q == n \div d
           p == (n + 1) \div d
<1>1. q \in Nat /\ p \in Nat /\ d * q <= n /\ n + 1 < d * p + d
  <2>1. q \in Nat /\ n % d >= 0 /\ n = d * q + (n % d)
    BY Division
  <2>2. p \in Nat /\ (n + 1) % d < d /\ n + 1 = d * p + ((n + 1) % d)
    BY n + 1 \in Nat, Division
  <2>3. n % d \in Nat /\ (n + 1) % d \in Nat
    BY Division
  <2>. HIDE DEF q, p
  <2>. QED
    BY <2>1, <2>2, <2>3
<1>. HIDE DEF q, p
<1>2. d * q < d * (p + 1)
  BY <1>1
<1>3. q < p + 1
  <2>1. d * q = q * d /\ d * (p + 1) = (p + 1) * d
    BY <1>1
  <2>. QED
    BY <1>1, <1>2, <2>1, LessTimes
<1>4. q <= p
  BY <1>1, <1>3
<1>. QED
  BY <1>4 DEF q, p
-----------------------------------------------------------------------------
(* The layout of the file.                                                 *)

\* Where the page stripe s starts, and the unit it is in.
UnitOf(s) == s \div PageNodeRatio
PageStripeStart(s) ==
  unitStart(UnitOf(s)) + NodeStripeBytes + (s % PageNodeRatio) * PageStripeBytes

\* Every unit starts behind the header.
LEMMA Sizes ==
  /\ NodeStripeBytes \in Nat /\ PageStripeBytes \in Nat /\ unitByteSize \in Nat
  /\ \A u \in Nat : unitStart(u) \in Nat /\ unitStart(u) >= MetaLen
  /\ \A s \in Nat : UnitOf(s) \in Nat /\ PageStripeStart(s) \in Nat
<1>1. NodeStripeBytes \in Nat /\ PageStripeBytes \in Nat
  BY GeometryAssumption DEF NodeStripeBytes, PageStripeBytes
<1>2. unitByteSize \in Nat
  BY <1>1, GeometryAssumption DEF unitByteSize
<1>3. ASSUME NEW u \in Nat PROVE unitStart(u) \in Nat /\ unitStart(u) >= MetaLen
  <2>1. u * unitByteSize \in Nat
    BY <1>2
  <2>. QED
    BY <2>1, GeometryAssumption DEF unitStart
<1>4. ASSUME NEW s \in Nat PROVE UnitOf(s) \in Nat /\ PageStripeStart(s) \in Nat
  <2>1. UnitOf(s) \in Nat /\ s % PageNodeRatio \in Nat
    BY Division, GeometryAssumption DEF UnitOf
  <2>2. (s % PageNodeRatio) * PageStripeBytes \in Nat
    BY <1>1, <2>1
  <2>. QED
    BY <1>1, <1>3, <2>1, <2>2 DEF PageStripeStart
<1>. QED
  BY <1>1, <1>2, <1>3, <1>4

\* A unit ends before the next one starts.
LEMMA UnitsAreApart ==
  ASSUME NEW u \in Nat, NEW v \in Nat, u < v
  PROVE  unitStart(u) + unitByteSize <= unitStart(v)
<1>1. (u + 1) * unitByteSize <= v * unitByteSize
  BY TimesMonotone, Sizes
<1>2. (u + 1) * unitByteSize = u * unitByteSize + unitByteSize
  BY Sizes
<1>3. u * unitByteSize \in Nat /\ v * unitByteSize \in Nat
  BY Sizes
<1>. QED
  BY <1>1, <1>2, <1>3, Sizes, GeometryAssumption DEF unitStart

\* A page stripe is in its unit, behind the node stripe.
LEMMA StripeInUnit ==
  ASSUME NEW s \in Nat
  PROVE  /\ unitStart(UnitOf(s)) + NodeStripeBytes <= PageStripeStart(s)
         /\ PageStripeStart(s) + PageStripeBytes <= unitStart(UnitOf(s)) + unitByteSize
<1> DEFINE r == s % PageNodeRatio
<1>1. r \in Nat /\ r + 1 <= PageNodeRatio
  BY Division, GeometryAssumption
<1>. HIDE DEF r
<1>2. /\ r * PageStripeBytes \in Nat
      /\ (r + 1) * PageStripeBytes = r * PageStripeBytes + PageStripeBytes
  BY <1>1, Sizes
<1>3. (r + 1) * PageStripeBytes <= PageNodeRatio * PageStripeBytes
  BY <1>1, Sizes, TimesMonotone, GeometryAssumption
<1>4. PageNodeRatio * PageStripeBytes \in Nat
  BY Sizes, GeometryAssumption
<1>5. PageStripeStart(s) = unitStart(UnitOf(s)) + NodeStripeBytes + r * PageStripeBytes
  BY DEF PageStripeStart, r
<1>6. unitStart(UnitOf(s)) \in Nat
  BY Sizes
<1>. QED
  BY <1>2, <1>3, <1>4, <1>5, <1>6, Sizes DEF unitByteSize

\* The next page stripe starts behind it.
LEMMA StripesAreApart ==
  ASSUME NEW s \in Nat
  PROVE  PageStripeStart(s) + PageStripeBytes <= PageStripeStart(s + 1)
<1>1. CASE UnitOf(s) = UnitOf(s + 1)
  <2> DEFINE r == s % PageNodeRatio
             q == (s + 1) % PageNodeRatio
  <2>1. /\ r \in Nat /\ s = PageNodeRatio * UnitOf(s) + r
        /\ q \in Nat /\ s + 1 = PageNodeRatio * UnitOf(s + 1) + q
    BY s + 1 \in Nat, Division, GeometryAssumption DEF UnitOf
  <2>2. PageNodeRatio * UnitOf(s) \in Nat
    BY Sizes, GeometryAssumption
  <2>. HIDE DEF r, q
  <2>3. q = r + 1
    BY <1>1, <2>1, <2>2
  <2>4. (r + 1) * PageStripeBytes = r * PageStripeBytes + PageStripeBytes
    BY <2>1, Sizes
  <2>5. r * PageStripeBytes \in Nat /\ unitStart(UnitOf(s)) \in Nat
    BY <2>1, Sizes
  <2>6. /\ PageStripeStart(s) = unitStart(UnitOf(s)) + NodeStripeBytes + r * PageStripeBytes
        /\ PageStripeStart(s + 1) =
             unitStart(UnitOf(s)) + NodeStripeBytes + (r + 1) * PageStripeBytes
    BY <1>1, <2>3 DEF PageStripeStart, r, q
  <2>. QED
    BY <2>4, <2>5, <2>6, Sizes
<1>2. CASE UnitOf(s) # UnitOf(s + 1)
  <2>1. UnitOf(s) \in Nat /\ UnitOf(s + 1) \in Nat /\ UnitOf(s) <= UnitOf(s + 1)
    BY DivisionMonotone, Sizes, GeometryAssumption, s + 1 \in Nat DEF UnitOf
  <2>2. unitStart(UnitOf(s)) + unitByteSize <= unitStart(UnitOf(s + 1))
    BY <1>2, <2>1, UnitsAreApart
  <2>3. /\ PageStripeStart(s) + PageStripeBytes <= unitStart(UnitOf(s)) + unitByteSize
        /\ unitStart(UnitOf(s + 1)) + NodeStripeBytes <= PageStripeStart(s + 1)
    BY StripeInUnit, s + 1 \in Nat
  <2>4. /\ PageStripeStart(s) \in Nat /\ PageStripeStart(s + 1) \in Nat
        /\ unitStart(UnitOf(s)) \in Nat /\ unitStart(UnitOf(s + 1)) \in Nat
    BY <2>1, Sizes, s + 1 \in Nat
  <2>. QED
    BY <2>2, <2>3, <2>4, Sizes
<1>. QED
  BY <1>1, <1>2
-----------------------------------------------------------------------------
(* The allocation fields of a header, and what they have handed out.       *)

HeaderFields ==
  [pageStripes : Nat \ {0}, nodeStripes : Nat \ {0}, pageFree : Nat, nodeFree : Nat,
   root : Nat, pages : SUBSET Nat, nodes : SUBSET Nat]

InPageStripe(a) ==
  \E u \in Nat : /\ unitStart(u) + NodeStripeBytes <= a
                /\ a + PageSize <= unitStart(u) + unitByteSize
InNodeStripe(a) ==
  \E u \in Nat : unitStart(u) <= a /\ a + NodeSize <= unitStart(u) + NodeStripeBytes

Apart(S, size) == \A a, b \in S : a = b \/ a + size <= b \/ b + size <= a

\* Objects lie in their own kind's stripes and before the free byte, which is
\* a whole number of objects into the last stripe in use.
PagesLaidOut(h) ==
  /\ \E j \in 0 .. PageStripeLen :
       h.pageFree = PageStripeStart(h.pageStripes - 1) + j * PageSize
  /\ \A a \in h.pages : InPageStripe(a) /\ a + PageSize <= h.pageFree
  /\ Apart(h.pages, PageSize)
NodesLaidOut(h) ==
  /\ \E j \in 0 .. NodeStripeLen :
       h.nodeFree = unitStart(h.nodeStripes - 1) + j * NodeSize
  /\ \A a \in h.nodes : InNodeStripe(a) /\ a + NodeSize <= h.nodeFree
  /\ Apart(h.nodes, NodeSize)
LaidOut(h) == h \in HeaderFields /\ PagesLaidOut(h) /\ NodesLaidOut(h)

\* The next page goes behind the others, with room left in its stripe.
LEMMA PageFree ==
  ASSUME NEW h \in HeaderFields, PagesLaidOut(h)
  PROVE  LET r == PageRoom(h)
         IN  /\ r \in HeaderFields /\ r.pages = h.pages /\ r.nodes = h.nodes
             /\ r.nodeFree = h.nodeFree /\ r.nodeStripes = h.nodeStripes
             /\ h.pageFree <= r.pageFree
             /\ \E j \in 0 .. PageStripeLen - 1 :
                  r.pageFree = PageStripeStart(r.pageStripes - 1) + j * PageSize
<1> DEFINE s == h.pageStripes - 1
<1>1. s \in Nat /\ h.pageStripes = s + 1 /\ h.pageFree \in Nat
  BY DEF HeaderFields
<1>2. currentPageStripeStart(h) = PageStripeStart(s)
  BY DEF currentPageStripeStart, PageStripeStart, UnitOf
<1>3. PICK j \in 0 .. PageStripeLen : h.pageFree = PageStripeStart(s) + j * PageSize
  BY DEF PagesLaidOut
<1>4. PageStripeStart(s) \in Nat /\ PageStripeBytes \in Nat /\ j \in Nat /\ j * PageSize \in Nat
  BY <1>1, Sizes, GeometryAssumption
<1>5. CASE h.pageFree >= PageStripeStart(s) + PageStripeBytes
  <2> DEFINE n == [h EXCEPT !.pageStripes = @ + 1]
             f == PageStripeStart(s + 1)
             r == [n EXCEPT !.pageFree = f]
  <2>1. n \in HeaderFields /\ n.pageStripes = s + 2
    BY <1>1 DEF HeaderFields
  <2>2. currentPageStripeStart(n) = f
    <3>1. n.pageStripes - 1 = s + 1
      BY <1>1, <2>1
    <3>. QED
      BY <3>1 DEF currentPageStripeStart, PageStripeStart, UnitOf
  <2>3. PageRoom(h) = r
    BY <1>2, <1>5, <2>2 DEF PageRoom, newPageStripe
  <2>4. f \in Nat
    BY <1>1, Sizes, s + 1 \in Nat
  <2>5. h.pageFree <= f
    <3>1. j * PageSize <= PageStripeLen * PageSize
      BY <1>4, TimesMonotone, GeometryAssumption
    <3>2. h.pageFree <= PageStripeStart(s) + PageStripeBytes
      BY <1>3, <1>4, <3>1, GeometryAssumption DEF PageStripeBytes
    <3>3. PageStripeStart(s) + PageStripeBytes <= f
      BY <1>1, StripesAreApart
    <3>. QED
      BY <1>1, <1>4, <2>4, <3>2, <3>3
  <2>. HIDE DEF f
  <2>6. /\ r \in HeaderFields /\ r.pages = h.pages /\ r.nodes = h.nodes
        /\ r.nodeFree = h.nodeFree /\ r.nodeStripes = h.nodeStripes
        /\ r.pageFree = f /\ r.pageStripes = s + 2
    BY <1>1, <2>1, <2>4 DEF HeaderFields
  <2>7. r.pageFree = PageStripeStart(r.pageStripes - 1) + 0 * PageSize
    <3>1. r.pageStripes - 1 = s + 1 /\ 0 * PageSize = 0
      BY <1>1, <2>6, GeometryAssumption
    <3>. QED
      BY <2>4, <2>6, <3>1 DEF f
  <2>8. 0 \in 0 .. PageStripeLen - 1
    BY GeometryAssumption
  <2>. HIDE DEF r
  <2>. QED
    BY <2>3, <2>5, <2>6, <2>7, <2>8
<1>6. CASE ~(h.pageFree >= PageStripeStart(s) + PageStripeBytes)
  <2>1. PageRoom(h) = h
    BY <1>2, <1>6 DEF PageRoom
  <2>2. j * PageSize < PageStripeLen * PageSize
    BY <1>1, <1>3, <1>4, <1>6, GeometryAssumption DEF PageStripeBytes
  <2>3. j \in 0 .. PageStripeLen - 1
    BY <1>4, <2>2, LessTimes, GeometryAssumption
  <2>. QED
    BY <1>1, <1>3, <2>1, <2>3
<1>. QED
  BY <1>5, <1>6

\* A page is allocated where it fits into the stripe, behind the other pages.
LEMMA PageAllocated ==
  ASSUME NEW h, LaidOut(h)
  PROVE  LaidOut(WithPage(h))
<1> DEFINE r == PageRoom(h)
           a == r.pageFree
           s == r.pageStripes - 1
<1>1. /\ r \in HeaderFields /\ r.pages = h.pages /\ r.nodes = h.nodes
      /\ r.nodeFree = h.nodeFree /\ r.nodeStripes = h.nodeStripes
      /\ h.pageFree <= a
  BY PageFree DEF LaidOut
<1>2. PICK j \in 0 .. PageStripeLen - 1 : a = PageStripeStart(s) + j * PageSize
  BY PageFree DEF LaidOut
<1>. HIDE DEF r
<1>3. s \in Nat /\ a \in Nat /\ h.pageFree \in Nat /\ h \in HeaderFields
  BY <1>1 DEF HeaderFields, LaidOut
<1>4. /\ (j + 1) * PageSize = j * PageSize + PageSize
      /\ (j + 1) * PageSize <= PageStripeBytes
      /\ j * PageSize \in Nat /\ j + 1 \in 0 .. PageStripeLen
  BY TimesMonotone, GeometryAssumption DEF PageStripeBytes
<1>5. InPageStripe(a)
  <2>1. UnitOf(s) \in Nat /\ PageStripeStart(s) \in Nat /\ unitStart(UnitOf(s)) \in Nat
    BY <1>3, Sizes
  <2>2. unitStart(UnitOf(s)) + NodeStripeBytes <= a
    BY <1>2, <1>3, <1>4, <2>1, StripeInUnit, Sizes
  <2>3. a + PageSize <= unitStart(UnitOf(s)) + unitByteSize
    BY <1>2, <1>3, <1>4, <2>1, StripeInUnit, Sizes, GeometryAssumption
  <2>. QED
    BY <2>1, <2>2, <2>3 DEF InPageStripe
<1> DEFINE n == WithPage(h)
<1>6. /\ n \in HeaderFields /\ n.pages = h.pages \union {a} /\ n.nodes = h.nodes
      /\ n.pageFree = a + PageSize /\ n.pageStripes = r.pageStripes
      /\ n.nodeFree = h.nodeFree /\ n.nodeStripes = h.nodeStripes
  <2>1. n = [[r EXCEPT !.pageFree = a + PageSize] EXCEPT !.pages = @ \union {a}]
    BY <1>1 DEF WithPage, allocPage, HeaderFields, r
  <2>2. a + PageSize \in Nat
    BY <1>3, GeometryAssumption
  <2> DEFINE m == [r EXCEPT !.pageFree = a + PageSize]
  <2>3. /\ m \in HeaderFields /\ m.pages = r.pages /\ m.nodes = r.nodes
        /\ m.pageFree = a + PageSize /\ m.pageStripes = r.pageStripes
        /\ m.nodeFree = r.nodeFree /\ m.nodeStripes = r.nodeStripes
    BY <1>1, <2>2 DEF HeaderFields
  <2>. HIDE DEF m
  <2>4. m.pages \union {a} \in SUBSET Nat
    BY <1>3, <2>3 DEF HeaderFields
  <2>5. n = [m EXCEPT !.pages = @ \union {a}]
    BY <2>1 DEF m
  <2>. HIDE DEF n
  <2>. QED
    BY <1>1, <2>3, <2>4, <2>5 DEF HeaderFields
<1>. HIDE DEF n
<1>7. n.pageFree = PageStripeStart(n.pageStripes - 1) + (j + 1) * PageSize
  <2>1. PageStripeStart(s) \in Nat
    BY <1>3, Sizes
  <2>. QED
    BY <1>2, <1>4, <1>6, <2>1, GeometryAssumption
<1>8. ASSUME NEW b \in h.pages
      PROVE  b \in Nat /\ InPageStripe(b) /\ b + PageSize <= a
  BY <1>1, <1>3, GeometryAssumption DEF LaidOut, PagesLaidOut, HeaderFields
<1>9. PagesLaidOut(n)
  <2>1. ASSUME NEW b \in n.pages PROVE InPageStripe(b) /\ b + PageSize <= n.pageFree
    BY <1>3, <1>5, <1>6, <1>8, GeometryAssumption
  <2>2. Apart(n.pages, PageSize)
    BY <1>6, <1>8 DEF Apart, LaidOut, PagesLaidOut
  <2>. QED
    BY <1>4, <1>7, <2>1, <2>2 DEF PagesLaidOut
<1>10. NodesLaidOut(n)
  BY <1>6 DEF LaidOut, NodesLaidOut
<1>. QED
  BY <1>6, <1>9, <1>10 DEF LaidOut, n

\* So does the next node.
LEMMA NodeFree ==
  ASSUME NEW h \in HeaderFields, NodesLaidOut(h)
  PROVE  LET r == NodeRoom(h)
         IN  /\ r \in HeaderFields /\ r.pages = h.pages /\ r.nodes = h.nodes
             /\ r.pageFree = h.pageFree /\ r.pageStripes = h.pageStripes
             /\ h.nodeFree <= r.nodeFree
             /\ \E j \in 0 .. NodeStripeLen - 1 :
                  r.nodeFree = unitStart(r.nodeStripes - 1) + j * NodeSize
<1> DEFINE s == h.nodeStripes - 1
<1>1. s \in Nat /\ h.nodeStripes = s + 1 /\ h.nodeFree \in Nat
  BY DEF HeaderFields
<1>2. currentNodeStripeStart(h) = unitStart(s)
  BY DEF currentNodeStripeStart
<1>3. PICK j \in 0 .. NodeStripeLen : h.nodeFree = unitStart(s) + j * NodeSize
  BY DEF NodesLaidOut
<1>4. unitStart(s) \in Nat /\ NodeStripeBytes \in Nat /\ j \in Nat /\ j * NodeSize \in Nat
  BY <1>1, Sizes, GeometryAssumption
<1>5. CASE h.nodeFree >= unitStart(s) + NodeStripeBytes
  <2> DEFINE n == [h EXCEPT !.nodeStripes = @ + 1]
             f == unitStart(s + 1)
             r == [n EXCEPT !.nodeFree = f]
  <2>1. n \in HeaderFields /\ n.nodeStripes = s + 2
    BY <1>1 DEF HeaderFields
  <2>2. currentNodeStripeStart(n) = f
    <3>1. n.nodeStripes - 1 = s + 1
      BY <1>1, <2>1
    <3>. QED
      BY <3>1 DEF currentNodeStripeStart
  <2>3. NodeRoom(h) = r
    BY <1>2, <1>5, <2>2 DEF NodeRoom, newNodeStripe
  <2>4. f \in Nat
    BY <1>1, Sizes, s + 1 \in Nat
  <2>5. h.nodeFree <= f
    <3>1. j * NodeSize <= NodeStripeLen * NodeSize
      BY <1>4, TimesMonotone, GeometryAssumption
    <3>2. h.nodeFree <= unitStart(s) + NodeStripeBytes
      BY <1>3, <1>4, <3>1, GeometryAssumption DEF NodeStripeBytes
    <3>3. NodeStripeBytes <= unitByteSize
      BY Sizes, GeometryAssumption DEF unitByteSize
    <3>4. unitStart(s) + unitByteSize <= f
      BY <1>1, UnitsAreApart, s + 1 \in Nat
    <3>. QED
      BY <1>1, <1>4, <2>4, <3>2, <3>3, <3>4, Sizes
  <2>. HIDE DEF f
  <2>6. /\ r \in HeaderFields /\ r.pages = h.pages /\ r.nodes = h.nodes
        /\ r.pageFree = h.pageFree /\ r.pageStripes = h.pageStripes
        /\ r.nodeFree = f /\ r.nodeStripes = s + 2
    BY <1>1, <2>1, <2>4 DEF HeaderFields
  <2>7. r.nodeFree = unitStart(r.nodeStripes - 1) + 0 * NodeSize
    <3>1. r.nodeStripes - 1 = s + 1 /\ 0 * NodeSize = 0
      BY <1>1, <2>6, GeometryAssumption
    <3>. QED
      BY <2>4, <2>6, <3>1 DEF f
  <2>8. 0 \in 0 .. NodeStripeLen - 1
    BY GeometryAssumption
  <2>. HIDE DEF r
  <2>. QED
    BY <2>3, <2>5, <2>6, <2>7, <2>8
<1>6. CASE ~(h.nodeFree >= unitStart(s) + NodeStripeBytes)
  <2>1. NodeRoom(h) = h
    BY <1>2, <1>6 DEF NodeRoom
  <2>2. j * NodeSize < NodeStripeLen * NodeSize
    BY <1>1, <1>3, <1>4, <1>6, GeometryAssumption DEF NodeStripeBytes
  <2>3. j \in 0 .. NodeStripeLen - 1
    BY <1>4, <2>2, LessTimes, GeometryAssumption
  <2>. QED
    BY <1>1, <1>3, <2>1, <2>3
<1>. QED
  BY <1>5, <1>6

\* And a node behind the other nodes.
LEMMA NodeAllocated ==
  ASSUME NEW h, LaidOut(h)
  PROVE  LaidOut(WithNode(h))
<1> DEFINE r == NodeRoom(h)
           a == r.nodeFree
           s == r.nodeStripes - 1
<1>1. /\ r \in HeaderFields /\ r.pages = h.pages /\ r.nodes = h.nodes
      /\ r.pageFree = h.pageFree /\ r.pageStripes = h.pageStripes
      /\ h.nodeFree <= a
  BY NodeFree DEF LaidOut
<1>2. PICK j \in 0 .. NodeStripeLen - 1 : a = unitStart(s) + j * NodeSize
  BY NodeFree DEF LaidOut
<1>. HIDE DEF r
<1>3. s \in Nat /\ a \in Nat /\ h.nodeFree \in Nat /\ h \in HeaderFields
  BY <1>1 DEF HeaderFields, LaidOut
<1>4. /\ (j + 1) * NodeSize = j * NodeSize + NodeSize
      /\ (j + 1) * NodeSize <= NodeStripeBytes
      /\ j * NodeSize \in Nat /\ j + 1 \in 0 .. NodeStripeLen
  BY TimesMonotone, GeometryAssumption DEF NodeStripeBytes
<1>5. InNodeStripe(a)
  <2>1. unitStart(s) \in Nat
    BY <1>3, Sizes
  <2>2. unitStart(s) <= a /\ a + NodeSize <= unitStart(s) + NodeStripeBytes
    BY <1>2, <1>3, <1>4, <2>1, Sizes, GeometryAssumption
  <2>. QED
    BY <1>3, <2>2 DEF InNodeStripe
<1> DEFINE n == WithNode(h)
<1>6. /\ n \in HeaderFields /\ n.nodes = h.nodes \union {a} /\ n.pages = h.pages
      /\ n.nodeFree = a + NodeSize /\ n.nodeStripes = r.nodeStripes
      /\ n.pageFree = h.pageFree /\ n.pageStripes = h.pageStripes
  <2>1. n = [[r EXCEPT !.nodeFree = a + NodeSize] EXCEPT !.nodes = @ \union {a}]
    BY <1>1 DEF WithNode, allocNode, HeaderFields, r
  <2>2. a + NodeSize \in Nat
    BY <1>3, GeometryAssumption
  <2> DEFINE m == [r EXCEPT !.nodeFree = a + NodeSize]
  <2>3. /\ m \in HeaderFields /\ m.pages = r.pages /\ m.nodes = r.nodes
        /\ m.nodeFree = a + NodeSize /\ m.nodeStripes = r.nodeStripes
        /\ m.pageFree = r.pageFree /\ m.pageStripes = r.pageStripes
    BY <1>1, <2>2 DEF HeaderFields
  <2>. HIDE DEF m
  <2>4. m.nodes \union {a} \in SUBSET Nat
    BY <1>3, <2>3 DEF HeaderFields
  <2>5. n = [m EXCEPT !.nodes = @ \union {a}]
    BY <2>1 DEF m
  <2>. HIDE DEF n
  <2>. QED
    BY <1>1, <2>3, <2>4, <2>5 DEF HeaderFields
<1>. HIDE DEF n
<1>7. n.nodeFree = unitStart(n.nodeStripes - 1) + (j + 1) * NodeSize
  <2>1. unitStart(s) \in Nat
    BY <1>3, Sizes
  <2>. QED
    BY <1>2, <1>4, <1>6, <2>1, GeometryAssumption
<1>8. ASSUME NEW b \in h.nodes
      PROVE  b \in Nat /\ InNodeStripe(b) /\ b + NodeSize <= a
  BY <1>1, <1>3, GeometryAssumption DEF LaidOut, NodesLaidOut, HeaderFields
<1>9. NodesLaidOut(n)
  <2>1. ASSUME NEW b \in n.nodes PROVE InNodeStripe(b) /\ b + NodeSize <= n.nodeFree
    BY <1>3, <1>5, <1>6, <1>8, GeometryAssumption
  <2>2. Apart(n.nodes, NodeSize)
    BY <1>6, <1>8 DEF Apart, LaidOut, NodesLaidOut
  <2>. QED
    BY <1>4, <1>7, <2>1, <2>2 DEF NodesLaidOut
<1>10. PagesLaidOut(n)
  BY <1>6 DEF LaidOut, PagesLaidOut
<1>. QED
  BY <1>6, <1>9, <1>10 DEF LaidOut, n

\* A page and a node are in stripes that do not meet.
LEMMA KindsAreApart ==
  ASSUME NEW a \in Nat, NEW b \in Nat, InPageStripe(a), InNodeStripe(b)
  PROVE  a >= MetaLen /\ b >= MetaLen /\ (a + PageSize <= b \/ b + NodeSize <= a)
<1>1. PICK u \in Nat : /\ unitStart(u) + NodeStripeBytes <= a
                       /\ a + PageSize <= unitStart(u) + unitByteSize
  BY DEF InPageStripe
<1>2. PICK v \in Nat : unitStart(v) <= b /\ b + NodeSize <= unitStart(v) + NodeStripeBytes
  BY DEF InNodeStripe
<1>3. /\ unitStart(u) \in Nat /\ unitStart(v) \in Nat
      /\ unitStart(u) >= MetaLen /\ unitStart(v) >= MetaLen
      /\ NodeStripeBytes \in Nat /\ unitByteSize \in Nat
      /\ NodeStripeBytes <= unitByteSize
  BY Sizes, GeometryAssumption DEF unitByteSize
<1>4. CASE u < v
  BY <1>1, <1>2, <1>3, <1>4, UnitsAreApart, GeometryAssumption
<1>5. CASE v < u
  BY <1>1, <1>2, <1>3, <1>5, UnitsAreApart, GeometryAssumption
<1>6. CASE u = v
  BY <1>1, <1>2, <1>3, <1>6, GeometryAssumption
<1>. QED
  BY <1>1, <1>2, <1>3, <1>4, <1>5, <1>6, GeometryAssumption

\* So no two objects of the table meet.
LEMMA ObjectsLaidOut ==
  ASSUME LaidOut(header)
  PROVE  ObjectsAreApart
<1> DEFINE P == {[first |-> a, last |-> a + PageSize - 1] : a \in header.pages}
           N == {[first |-> a, last |-> a + NodeSize - 1] : a \in header.nodes}
           Clear(x, y) == /\ x.first >= MetaLen
                          /\ x = y \/ x.last < y.first \/ y.last < x.first
<1>1. header.pages \subseteq Nat /\ header.nodes \subseteq Nat
  BY DEF LaidOut, HeaderFields
<1>2. ASSUME NEW a \in header.pages PROVE InPageStripe(a) /\ a \in Nat
  BY <1>1 DEF LaidOut, PagesLaidOut
<1>3. ASSUME NEW a \in header.nodes PROVE InNodeStripe(a) /\ a \in Nat
  BY <1>1 DEF LaidOut, NodesLaidOut
<1>4. ASSUME NEW a \in header.pages PROVE a >= MetaLen
  BY <1>2, Sizes, GeometryAssumption DEF InPageStripe
<1>5. ASSUME NEW a \in header.nodes PROVE a >= MetaLen
  BY <1>3, Sizes, GeometryAssumption DEF InNodeStripe
<1>6. ASSUME NEW x \in P, NEW y \in P PROVE Clear(x, y)
  <2>1. PICK a \in header.pages : x = [first |-> a, last |-> a + PageSize - 1]
    OBVIOUS
  <2>2. PICK b \in header.pages : y = [first |-> b, last |-> b + PageSize - 1]
    OBVIOUS
  <2>3. a = b \/ a + PageSize <= b \/ b + PageSize <= a
    BY DEF LaidOut, PagesLaidOut, Apart
  <2>. QED
    BY <1>2, <1>4, <2>1, <2>2, <2>3, GeometryAssumption
<1>7. ASSUME NEW x \in N, NEW y \in N PROVE Clear(x, y)
  <2>1. PICK a \in header.nodes : x = [first |-> a, last |-> a + NodeSize - 1]
    OBVIOUS
  <2>2. PICK b \in header.nodes : y = [first |-> b, last |-> b + NodeSize - 1]
    OBVIOUS
  <2>3. a = b \/ a + NodeSize <= b \/ b + NodeSize <= a
    BY DEF LaidOut, NodesLaidOut, Apart
  <2>. QED
    BY <1>3, <1>5, <2>1, <2>2, <2>3, GeometryAssumption
<1>8. ASSUME NEW x \in P, NEW y \in N PROVE Clear(x, y) /\ Clear(y, x)
  <2>1. PICK a \in header.pages : x = [first |-> a, last |-> a + PageSize - 1]
    OBVIOUS
  <2>2. PICK b \in header.nodes : y = [first |-> b, last |-> b + NodeSize - 1]
    OBVIOUS
  <2>3. a + PageSize <= b \/ b + NodeSize <= a
    BY <1>2, <1>3, KindsAreApart
  <2>. QED
    BY <1>2, <1>3, <1>4, <1>5, <2>1, <2>2, <2>3, GeometryAssumption
<1>. HIDE DEF P, N, Clear
<1>9. \A x, y \in P \union N : Clear(x, y)
  BY <1>6, <1>7, <1>8
<1>. QED
  BY <1>9 DEF ObjectsAreApart, Bytes, P, N, Clear
-----------------------------------------------------------------------------
(* The invariant.                                                          *)

\* The undo record keeps its fields, so that its header can be replaced.
UndoRecord(u) ==
  u = [active |-> u.active, pages |-> u.pages, nodes |-> u.nodes,
       deletes |-> u.deletes, header |-> u.header]

Layout ==
  /\ LaidOut(header)
  /\ LaidOut(fileHeader)
  /\ LaidOut(undo.header)
  /\ UndoRecord(undo)

\* A table before its first objects.
LEMMA EmptyLaidOut == LaidOut(EmptyHeader)
<1> DEFINE h == EmptyHeader
<1>1. MetaLen \in Nat /\ NodeStripeBytes \in Nat /\ MetaLen + NodeStripeBytes \in Nat
  BY Sizes, GeometryAssumption
<1>2. h = [pageStripes |-> 1, nodeStripes |-> 1, nodeFree |-> MetaLen,
           pageFree |-> MetaLen + NodeStripeBytes, root |-> MetaLen,
           pages |-> {}, nodes |-> {}]
  BY DEF EmptyHeader, InitialFields
<1>. HIDE DEF h
<1>3. h \in HeaderFields
  BY <1>1, <1>2 DEF HeaderFields
<1>4. 0 * unitByteSize = 0 /\ 0 * PageStripeBytes = 0 /\ 0 * PageSize = 0 /\ 0 * NodeSize = 0
  BY Sizes, GeometryAssumption
<1>5. 0 \div PageNodeRatio = 0 /\ 0 % PageNodeRatio = 0
  BY GeometryAssumption
<1>6. unitStart(0) = MetaLen /\ PageStripeStart(0) = MetaLen + NodeStripeBytes
  BY <1>1, <1>4, <1>5 DEF unitStart, PageStripeStart, UnitOf
<1>7. 0 \in 0 .. PageStripeLen /\ 0 \in 0 .. NodeStripeLen
  BY GeometryAssumption
<1>8. PagesLaidOut(h)
  <2>1. h.pageFree = PageStripeStart(h.pageStripes - 1) + 0 * PageSize
    BY <1>1, <1>2, <1>4, <1>6
  <2>. QED
    BY <1>2, <1>7, <2>1 DEF PagesLaidOut, Apart
<1>9. NodesLaidOut(h)
  <2>1. h.nodeFree = unitStart(h.nodeStripes - 1) + 0 * NodeSize
    BY <1>1, <1>2, <1>4, <1>6
  <2>. QED
    BY <1>2, <1>7, <2>1 DEF NodesLaidOut, Apart
<1>. QED
  BY <1>3, <1>8, <1>9 DEF LaidOut, h

\* A table as it is created.
LEMMA InitLayout == Init => Layout
<1> SUFFICES ASSUME Init PROVE Layout
  OBVIOUS
<1>1. LaidOut(WithPage(WithNode(EmptyHeader)))
  BY EmptyLaidOut, NodeAllocated, PageAllocated
<1>2. /\ header = WithPage(WithNode(EmptyHeader)) /\ fileHeader = header
      /\ undo = NoUndo(header)
  BY DEF Init
<1>. HIDE DEF Init
<1>. QED
  BY <1>1, <1>2 DEF Layout, NoUndo, UndoRecord

\* The undo record with other maps has the same header.
LEMMA SameHeader ==
  ASSUME UndoRecord(undo), NEW x
  PROVE  /\ [undo EXCEPT !.pages = x].header = undo.header
         /\ UndoRecord([undo EXCEPT !.pages = x])
         /\ [undo EXCEPT !.nodes = x].header = undo.header
         /\ UndoRecord([undo EXCEPT !.nodes = x])
         /\ [undo EXCEPT !.deletes = x].header = undo.header
         /\ UndoRecord([undo EXCEPT !.deletes = x])
BY DEF UndoRecord

\* A commit writes the header, keeps it, or goes back to the file's.
LEMMA CommitLayout ==
  ASSUME commitTable
  PROVE  header' \in {header, fileHeader} /\ fileHeader' \in {header, fileHeader}
BY DEF commitTable, applyTable, Close, maps

\* Every step keeps the layout.
LEMMA NextLayout == Layout /\ [Next]_vars => Layout'
<1> SUFFICES ASSUME Layout, [Next]_vars PROVE Layout'
  OBVIOUS
<1> USE DEF Layout
<1>0. LaidOut(NoUndo(undo.header).header) /\ UndoRecord(NoUndo(undo.header))
  BY DEF NoUndo, UndoRecord
<1>1. CASE OpenScanner
  <2>1. /\ undo' = [undo EXCEPT !.active = TRUE, !.header = header]
        /\ header' = header /\ fileHeader' = fileHeader
    BY <1>1 DEF OpenScanner
  <2>2. undo'.header = header /\ UndoRecord(undo')
    BY <2>1 DEF UndoRecord
  <2>. QED
    BY <2>1, <2>2
<1>2. CASE ChangePage
  <2>1. PICK a, o : Working /\ markPage(a, o) /\ UNCHANGED header
    BY <1>2 DEF ChangePage
  <2>. QED
    BY <2>1, SameHeader DEF Working, markPage
<1>3. CASE ChangeNode
  <2>1. PICK a, o : Working /\ markNode(a, o) /\ UNCHANGED header
    BY <1>3 DEF ChangeNode
  <2>. QED
    BY <2>1, SameHeader DEF Working, markNode
<1>4. CASE AddPage
  <2>1. PICK o : /\ Working /\ header' = WithPage(header)
                 /\ markPage(PageRoom(header).pageFree, o)
    BY <1>4 DEF AddPage
  <2>. QED
    BY <2>1, SameHeader, PageAllocated DEF Working, markPage
<1>5. CASE AddNode
  <2>1. PICK o : /\ Working /\ header' = WithNode(header)
                 /\ markNode(NodeRoom(header).nodeFree, o)
    BY <1>5 DEF AddNode
  <2>. QED
    BY <2>1, SameHeader, NodeAllocated DEF Working, markNode
<1>6. CASE markDelete
  <2>1. PICK a : /\ Working /\ header' = header
                 /\ undo' = [undo EXCEPT !.deletes = RememberDelete(a)]
    BY <1>6 DEF markDelete
  <2>. QED
    BY <2>1, SameHeader DEF Working
<1>7. CASE CloseScanner
  <2>1. /\ undo' = NoUndo(undo.header)
        /\ commitTable \/ (header' = header /\ fileHeader' = fileHeader)
    BY <1>7 DEF CloseScanner
  <2>. QED
    BY <1>0, <2>1, CommitLayout
<1>8. CASE AbortStatement
  <2>1. /\ undo' = NoUndo(undo.header) /\ fileHeader' = fileHeader
        /\ header' \in {undo.header, fileHeader}
    BY <1>8 DEF AbortStatement, rollbackStatement, Close
  <2>. QED
    BY <1>0, <2>1
<1>9. CASE BeginTransaction
  BY <1>9 DEF BeginTransaction
<1>10. CASE Commit
  <2>1. /\ undo' = undo
        /\ commitTable \/ (header' = header /\ fileHeader' = fileHeader)
    BY <1>10 DEF Commit
  <2>. QED
    BY <2>1, CommitLayout
<1>11. CASE Discard
  <2>1. undo' = undo /\ fileHeader' = fileHeader /\ header' \in {header, fileHeader}
    BY <1>11 DEF Discard, Close
  <2>. QED
    BY <2>1
<1>12. CASE UNCHANGED vars
  BY <1>12 DEF vars
<1>. QED
  BY <1>1, <1>2, <1>3, <1>4, <1>5, <1>6, <1>7, <1>8, <1>9, <1>10, <1>11, <1>12
     DEF Next

(***************************************************************************)
(* Whatever is allocated, rolled back, committed or discarded, the header  *)
(* of an open table, of its file and of a statement's undo record each     *)
(* have their objects in stripes of their kind, before the free byte.      *)
(***************************************************************************)
THEOREM LayoutInvariance == ASpec => []Layout
BY InitLayout, NextLayout, PTL DEF ASpec

(***************************************************************************)
(* No two pages or nodes of a table share a byte, and none reaches into    *)
(* the header, for every geometry of the file (allocPage, allocNode).      *)
(***************************************************************************)
THEOREM NoOverlap == ASpec => []ObjectsAreApart
<1>1. Layout => ObjectsAreApart
  BY ObjectsLaidOut DEF Layout
<1>. QED
  BY <1>1, LayoutInvariance, PTL
-----------------------------------------------------------------------------
(* The loops over a table's entries, entry by entry.                       *)

VisitsWrite(f, C, start, e) ==
  /\ f[0] = start /\ ForEach(Write, start, e) = f[C]
  /\ \A i \in 1 .. C : f[i] = IF e[i - 1].key = 0 THEN f[i - 1]
                             ELSE Write(f[i - 1], e[i - 1])

\* The loop of applyTable over the dirty pages or nodes.
LEMMA WriteLoop ==
  ASSUME NEW C \in Nat, NEW K, NEW V, NEW e \in Entries(C, K, V),
         NEW S, NEW start \in S, \A x \in S, y \in Held(e, C) : Write(x, y) \in S
  PROVE  \E f : f \in [0 .. C -> S] /\ VisitsWrite(f, C, start, e)
<1> DEFINE Step(i, x) == IF e[i - 1].key = 0 THEN x ELSE Write(x, e[i - 1])
           Loop(g) == g = [i \in 0 .. C |-> IF i = 0 THEN start
                                            ELSE IF e[i - 1].key = 0 THEN g[i - 1]
                                            ELSE Write(g[i - 1], e[i - 1])]
           g == CHOOSE g : Loop(g)
           step == [i \in 1 .. C |-> [x \in S |-> Step(i, x)]]
<1>1. ASSUME NEW i \in 1 .. C, NEW x \in S PROVE Step(i, x) \in S
  <2>1. e[i - 1].key # 0 => e[i - 1] \in Held(e, C)
    BY i - 1 \in 0 .. C - 1 DEF Held
  <2>. QED
    BY <2>1
<1>2. step \in Steps(C, S) /\ \A i \in 1 .. C : \A x \in S : step[i][x] = Step(i, x)
  BY <1>1 DEF Steps
<1>3. ForEach(Write, start, e) = g[C]
  <2>1. Cardinality(DOMAIN e) = C
    BY Capacities DEF Entries
  <2>. QED
    BY <2>1 DEF ForEach
<1>. HIDE DEF Step, step
<1>4. PICK f : Runs(f, C, S, start, step)
  BY <1>2, Iteration
<1>5. Loop(f)
  <2>1. ASSUME NEW i \in 1 .. C PROVE f[i] = Step(i, f[i - 1])
    BY <1>2, <1>4, i - 1 \in 0 .. C DEF Runs
  <2>2. f \in [0 .. C -> S] /\ f[0] = start
    BY <1>4 DEF Runs
  <2>3. ASSUME NEW i \in 0 .. C
        PROVE  f[i] = IF i = 0 THEN start ELSE
                      IF e[i - 1].key = 0 THEN f[i - 1] ELSE Write(f[i - 1], e[i - 1])
    <3>1. CASE i = 0
      BY <2>2, <3>1
    <3>2. CASE i \in 1 .. C
      BY <2>1, <3>2 DEF Step
    <3>. QED
      BY <3>1, <3>2
  <2>4. f = [i \in 0 .. C |-> f[i]]
    BY <2>2
  <2>. QED
    BY <2>3, <2>4
<1>. HIDE DEF Loop
<1>6. Loop(g)
  BY <1>5
<1>7. ASSUME NEW i \in 0 .. C PROVE g[i] = IF i = 0 THEN start ELSE Step(i, g[i - 1])
  BY <1>6 DEF Loop, Step
<1>8. g = [i \in 0 .. C |-> g[i]]
  BY <1>6 DEF Loop
<1>. HIDE DEF g
<1>9. g[0] = start /\ \A i \in 1 .. C : g[i] = Step(i, g[i - 1])
  BY <1>7
<1>10. Runs(g, C, S, start, step)
  BY <1>2, <1>8, <1>9, Unwound
<1>. QED
  BY <1>3, <1>9, <1>10 DEF Runs, Step, VisitsWrite

VisitsErase(f, C, start, e) ==
  /\ f[0] = start /\ ForEach(Erase, start, e) = f[C]
  /\ \A i \in 1 .. C : f[i] = IF e[i - 1].key = 0 THEN f[i - 1]
                             ELSE Erase(f[i - 1], e[i - 1])

\* The loop of applyTable over the delete marks.
LEMMA EraseLoop ==
  ASSUME NEW C \in Nat, NEW K, NEW V, NEW e \in Entries(C, K, V),
         NEW S, NEW start \in S, \A x \in S, y \in Held(e, C) : Erase(x, y) \in S
  PROVE  \E f : f \in [0 .. C -> S] /\ VisitsErase(f, C, start, e)
<1> DEFINE Step(i, x) == IF e[i - 1].key = 0 THEN x ELSE Erase(x, e[i - 1])
           Loop(g) == g = [i \in 0 .. C |-> IF i = 0 THEN start
                                            ELSE IF e[i - 1].key = 0 THEN g[i - 1]
                                            ELSE Erase(g[i - 1], e[i - 1])]
           g == CHOOSE g : Loop(g)
           step == [i \in 1 .. C |-> [x \in S |-> Step(i, x)]]
<1>1. ASSUME NEW i \in 1 .. C, NEW x \in S PROVE Step(i, x) \in S
  <2>1. e[i - 1].key # 0 => e[i - 1] \in Held(e, C)
    BY i - 1 \in 0 .. C - 1 DEF Held
  <2>. QED
    BY <2>1
<1>2. step \in Steps(C, S) /\ \A i \in 1 .. C : \A x \in S : step[i][x] = Step(i, x)
  BY <1>1 DEF Steps
<1>3. ForEach(Erase, start, e) = g[C]
  <2>1. Cardinality(DOMAIN e) = C
    BY Capacities DEF Entries
  <2>. QED
    BY <2>1 DEF ForEach
<1>. HIDE DEF Step, step
<1>4. PICK f : Runs(f, C, S, start, step)
  BY <1>2, Iteration
<1>5. Loop(f)
  <2>1. ASSUME NEW i \in 1 .. C PROVE f[i] = Step(i, f[i - 1])
    BY <1>2, <1>4, i - 1 \in 0 .. C DEF Runs
  <2>2. f \in [0 .. C -> S] /\ f[0] = start
    BY <1>4 DEF Runs
  <2>3. ASSUME NEW i \in 0 .. C
        PROVE  f[i] = IF i = 0 THEN start ELSE
                      IF e[i - 1].key = 0 THEN f[i - 1] ELSE Erase(f[i - 1], e[i - 1])
    <3>1. CASE i = 0
      BY <2>2, <3>1
    <3>2. CASE i \in 1 .. C
      BY <2>1, <3>2 DEF Step
    <3>. QED
      BY <3>1, <3>2
  <2>4. f = [i \in 0 .. C |-> f[i]]
    BY <2>2
  <2>. QED
    BY <2>3, <2>4
<1>. HIDE DEF Loop
<1>6. Loop(g)
  BY <1>5
<1>7. ASSUME NEW i \in 0 .. C PROVE g[i] = IF i = 0 THEN start ELSE Step(i, g[i - 1])
  BY <1>6 DEF Loop, Step
<1>8. g = [i \in 0 .. C |-> g[i]]
  BY <1>6 DEF Loop
<1>. HIDE DEF g
<1>9. g[0] = start /\ \A i \in 1 .. C : g[i] = Step(i, g[i - 1])
  BY <1>7
<1>10. Runs(g, C, S, start, step)
  BY <1>2, <1>8, <1>9, Unwound
<1>. QED
  BY <1>3, <1>9, <1>10 DEF Runs, Step, VisitsErase

VisitsPutBack(f, C, start, e) ==
  /\ f[0] = start /\ ForEach(PutBack, start, e) = f[C]
  /\ \A i \in 1 .. C : f[i] = IF e[i - 1].key = 0 THEN f[i - 1]
                             ELSE PutBack(f[i - 1], e[i - 1])

\* The loops of rollbackStatement over the versions it puts back.
LEMMA PutBackLoop ==
  ASSUME NEW C \in Nat, NEW K, NEW V, NEW e \in Entries(C, K, V),
         NEW S, NEW start \in S, \A x \in S, y \in Held(e, C) : PutBack(x, y) \in S
  PROVE  \E f : f \in [0 .. C -> S] /\ VisitsPutBack(f, C, start, e)
<1> DEFINE Step(i, x) == IF e[i - 1].key = 0 THEN x ELSE PutBack(x, e[i - 1])
           Loop(g) == g = [i \in 0 .. C |-> IF i = 0 THEN start
                                            ELSE IF e[i - 1].key = 0 THEN g[i - 1]
                                            ELSE PutBack(g[i - 1], e[i - 1])]
           g == CHOOSE g : Loop(g)
           step == [i \in 1 .. C |-> [x \in S |-> Step(i, x)]]
<1>1. ASSUME NEW i \in 1 .. C, NEW x \in S PROVE Step(i, x) \in S
  <2>1. e[i - 1].key # 0 => e[i - 1] \in Held(e, C)
    BY i - 1 \in 0 .. C - 1 DEF Held
  <2>. QED
    BY <2>1
<1>2. step \in Steps(C, S) /\ \A i \in 1 .. C : \A x \in S : step[i][x] = Step(i, x)
  BY <1>1 DEF Steps
<1>3. ForEach(PutBack, start, e) = g[C]
  <2>1. Cardinality(DOMAIN e) = C
    BY Capacities DEF Entries
  <2>. QED
    BY <2>1 DEF ForEach
<1>. HIDE DEF Step, step
<1>4. PICK f : Runs(f, C, S, start, step)
  BY <1>2, Iteration
<1>5. Loop(f)
  <2>1. ASSUME NEW i \in 1 .. C PROVE f[i] = Step(i, f[i - 1])
    BY <1>2, <1>4, i - 1 \in 0 .. C DEF Runs
  <2>2. f \in [0 .. C -> S] /\ f[0] = start
    BY <1>4 DEF Runs
  <2>3. ASSUME NEW i \in 0 .. C
        PROVE  f[i] = IF i = 0 THEN start ELSE
                      IF e[i - 1].key = 0 THEN f[i - 1] ELSE PutBack(f[i - 1], e[i - 1])
    <3>1. CASE i = 0
      BY <2>2, <3>1
    <3>2. CASE i \in 1 .. C
      BY <2>1, <3>2 DEF Step
    <3>. QED
      BY <3>1, <3>2
  <2>4. f = [i \in 0 .. C |-> f[i]]
    BY <2>2
  <2>. QED
    BY <2>3, <2>4
<1>. HIDE DEF Loop
<1>6. Loop(g)
  BY <1>5
<1>7. ASSUME NEW i \in 0 .. C PROVE g[i] = IF i = 0 THEN start ELSE Step(i, g[i - 1])
  BY <1>6 DEF Loop, Step
<1>8. g = [i \in 0 .. C |-> g[i]]
  BY <1>6 DEF Loop
<1>. HIDE DEF g
<1>9. g[0] = start /\ \A i \in 1 .. C : g[i] = Step(i, g[i - 1])
  BY <1>7
<1>10. Runs(g, C, S, start, step)
  BY <1>2, <1>8, <1>9, Unwound
<1>. QED
  BY <1>3, <1>9, <1>10 DEF Runs, Step, VisitsPutBack

VisitsUnmark(f, C, start, e) ==
  /\ f[0] = start /\ ForEach(Unmark, start, e) = f[C]
  /\ \A i \in 1 .. C : f[i] = IF e[i - 1].key = 0 THEN f[i - 1]
                             ELSE Unmark(f[i - 1], e[i - 1])

\* The loop of rollbackStatement over the delete marks it takes off.
LEMMA UnmarkLoop ==
  ASSUME NEW C \in Nat, NEW K, NEW V, NEW e \in Entries(C, K, V),
         NEW S, NEW start \in S, \A x \in S, y \in Held(e, C) : Unmark(x, y) \in S
  PROVE  \E f : f \in [0 .. C -> S] /\ VisitsUnmark(f, C, start, e)
<1> DEFINE Step(i, x) == IF e[i - 1].key = 0 THEN x ELSE Unmark(x, e[i - 1])
           Loop(g) == g = [i \in 0 .. C |-> IF i = 0 THEN start
                                            ELSE IF e[i - 1].key = 0 THEN g[i - 1]
                                            ELSE Unmark(g[i - 1], e[i - 1])]
           g == CHOOSE g : Loop(g)
           step == [i \in 1 .. C |-> [x \in S |-> Step(i, x)]]
<1>1. ASSUME NEW i \in 1 .. C, NEW x \in S PROVE Step(i, x) \in S
  <2>1. e[i - 1].key # 0 => e[i - 1] \in Held(e, C)
    BY i - 1 \in 0 .. C - 1 DEF Held
  <2>. QED
    BY <2>1
<1>2. step \in Steps(C, S) /\ \A i \in 1 .. C : \A x \in S : step[i][x] = Step(i, x)
  BY <1>1 DEF Steps
<1>3. ForEach(Unmark, start, e) = g[C]
  <2>1. Cardinality(DOMAIN e) = C
    BY Capacities DEF Entries
  <2>. QED
    BY <2>1 DEF ForEach
<1>. HIDE DEF Step, step
<1>4. PICK f : Runs(f, C, S, start, step)
  BY <1>2, Iteration
<1>5. Loop(f)
  <2>1. ASSUME NEW i \in 1 .. C PROVE f[i] = Step(i, f[i - 1])
    BY <1>2, <1>4, i - 1 \in 0 .. C DEF Runs
  <2>2. f \in [0 .. C -> S] /\ f[0] = start
    BY <1>4 DEF Runs
  <2>3. ASSUME NEW i \in 0 .. C
        PROVE  f[i] = IF i = 0 THEN start ELSE
                      IF e[i - 1].key = 0 THEN f[i - 1] ELSE Unmark(f[i - 1], e[i - 1])
    <3>1. CASE i = 0
      BY <2>2, <3>1
    <3>2. CASE i \in 1 .. C
      BY <2>1, <3>2 DEF Step
    <3>. QED
      BY <3>1, <3>2
  <2>4. f = [i \in 0 .. C |-> f[i]]
    BY <2>2
  <2>. QED
    BY <2>3, <2>4
<1>. HIDE DEF Loop
<1>6. Loop(g)
  BY <1>5
<1>7. ASSUME NEW i \in 0 .. C PROVE g[i] = IF i = 0 THEN start ELSE Step(i, g[i - 1])
  BY <1>6 DEF Loop, Step
<1>8. g = [i \in 0 .. C |-> g[i]]
  BY <1>6 DEF Loop
<1>. HIDE DEF g
<1>9. g[0] = start /\ \A i \in 1 .. C : g[i] = Step(i, g[i - 1])
  BY <1>7
<1>10. Runs(g, C, S, start, step)
  BY <1>2, <1>8, <1>9, Unwound
<1>. QED
  BY <1>3, <1>9, <1>10 DEF Runs, Step, VisitsUnmark
-----------------------------------------------------------------------------
(* What the loops come to.                                                 *)

\* Draining a map writes the pending version of every address it holds.
LEMMA DrainedObjects ==
  ASSUME NEW K, NEW V, NEW at, Hashed(K), Table(at, K, V),
         NEW A, K \subseteq A, NEW W, NEW objects \in [A -> W], V \subseteq W
  PROVE  Drained(at, objects) =
           [a \in A |-> IF a \in K /\ containsAddrTable(a, at) THEN findAddrTable(a, at) ELSE objects[a]]
<1> DEFINE C == Capacity(at)
           e == at.entries
           S == [A -> W]
           New(a) == findAddrTable(a, at)
           Done(i) == [a \in A |-> IF a \in K /\ Seen(a, i, at) THEN New(a) ELSE objects[a]]
<1>1. C \in Nat /\ e \in Entries(C, K, V)
  BY DEF Table
<1>2. PICK f : f \in [0 .. C -> S] /\ VisitsWrite(f, C, objects, e)
  <2>1. ASSUME NEW x \in S, NEW y \in Held(e, C) PROVE Write(x, y) \in S
    <3>1. y.value \in V
      BY <1>1, HeldEntry
    <3>. QED
      BY <3>1 DEF Write
  <2>. HIDE DEF S, C, e
  <2>2. objects \in S
    BY DEF S
  <2>. QED
    BY <1>1, <2>1, <2>2, WriteLoop
<1>3. /\ f[0] = objects /\ ForEach(Write, objects, e) = f[C]
      /\ \A i \in 1 .. C : f[i] = IF e[i - 1].key = 0 THEN f[i - 1]
                                 ELSE Write(f[i - 1], e[i - 1])
  BY <1>2 DEF VisitsWrite
<1> DEFINE T == {i \in 0 .. C : f[i] = Done(i)}
<1>4. 0 \in T
  BY <1>1, <1>3, Visit
<1>5. ASSUME NEW i \in 1 .. C, i - 1 \in T PROVE i \in T
  <2> DEFINE y == e[i - 1]
  <2>1. f[i - 1] = Done(i - 1)
    BY <1>5
  <2>2. \A a \in K : Seen(a, i, at) <=> Seen(a, i - 1, at) \/ y.key = a
    BY Visit
  <2>3. CASE y.key = 0
    <3>1. f[i] = f[i - 1] /\ \A a \in K : a # y.key
      BY <1>3, <2>3 DEF Hashed
    <3>2. Done(i) = Done(i - 1)
      BY <2>2, <3>1
    <3>. QED
      BY <2>1, <3>1, <3>2
  <2>4. CASE y.key # 0
    <3>1. y.key \in K /\ y.value \in V /\ findAddrTable(y.key, at) = y.value
      BY <2>4, Visit
    <3>2. f[i] = Write(f[i - 1], y)
      BY <1>3, <2>4
    <3>. HIDE DEF y
    <3>3. Done(i) = Write(Done(i - 1), y)
      BY <2>2, <3>1 DEF Write
    <3>. QED
      BY <2>1, <3>2, <3>3
  <2>. QED
    BY <2>3, <2>4
<1>6. f[C] = Done(C)
  <2>1. 0 .. C \subseteq T
    <3>. HIDE DEF T, C
    <3>. QED
      BY <1>1, <1>4, <1>5, CountingUpTo
  <2>2. C \in 0 .. C
    BY <1>1
  <2>. QED
    BY <2>1, <2>2
<1>7. \A a \in K : Seen(a, C, at) <=> containsAddrTable(a, at)
  BY Visit
<1>. QED
  BY <1>3, <1>6, <1>7 DEF Drained

\* Draining the delete marks makes what they mark unreadable.
LEMMA GarbageObjects ==
  ASSUME NEW K, NEW V, NEW at, Hashed(K), Table(at, K, V),
         NEW A, K \subseteq A, NEW W, NEW objects \in [A -> W], Unreadable \in W
  PROVE  Garbage(at, objects) =
           [a \in A |-> IF a \in K /\ containsAddrTable(a, at) THEN Unreadable ELSE objects[a]]
<1> DEFINE C == Capacity(at)
           e == at.entries
           S == [A -> W]
           New(a) == Unreadable
           Done(i) == [a \in A |-> IF a \in K /\ Seen(a, i, at) THEN New(a) ELSE objects[a]]
<1>1. C \in Nat /\ e \in Entries(C, K, V)
  BY DEF Table
<1>2. PICK f : f \in [0 .. C -> S] /\ VisitsErase(f, C, objects, e)
  <2>1. ASSUME NEW x \in S, NEW y \in Held(e, C) PROVE Erase(x, y) \in S
    <3>1. y.value \in V
      BY <1>1, HeldEntry
    <3>. QED
      BY <3>1 DEF Erase
  <2>. HIDE DEF S, C, e
  <2>2. objects \in S
    BY DEF S
  <2>. QED
    BY <1>1, <2>1, <2>2, EraseLoop
<1>3. /\ f[0] = objects /\ ForEach(Erase, objects, e) = f[C]
      /\ \A i \in 1 .. C : f[i] = IF e[i - 1].key = 0 THEN f[i - 1]
                                 ELSE Erase(f[i - 1], e[i - 1])
  BY <1>2 DEF VisitsErase
<1> DEFINE T == {i \in 0 .. C : f[i] = Done(i)}
<1>4. 0 \in T
  BY <1>1, <1>3, Visit
<1>5. ASSUME NEW i \in 1 .. C, i - 1 \in T PROVE i \in T
  <2> DEFINE y == e[i - 1]
  <2>1. f[i - 1] = Done(i - 1)
    BY <1>5
  <2>2. \A a \in K : Seen(a, i, at) <=> Seen(a, i - 1, at) \/ y.key = a
    BY Visit
  <2>3. CASE y.key = 0
    <3>1. f[i] = f[i - 1] /\ \A a \in K : a # y.key
      BY <1>3, <2>3 DEF Hashed
    <3>2. Done(i) = Done(i - 1)
      BY <2>2, <3>1
    <3>. QED
      BY <2>1, <3>1, <3>2
  <2>4. CASE y.key # 0
    <3>1. y.key \in K /\ y.value \in V /\ findAddrTable(y.key, at) = y.value
      BY <2>4, Visit
    <3>2. f[i] = Erase(f[i - 1], y)
      BY <1>3, <2>4
    <3>. HIDE DEF y
    <3>3. Done(i) = Erase(Done(i - 1), y)
      BY <2>2, <3>1 DEF Erase
    <3>. QED
      BY <2>1, <3>2, <3>3
  <2>. QED
    BY <2>3, <2>4
<1>6. f[C] = Done(C)
  <2>1. 0 .. C \subseteq T
    <3>. HIDE DEF T, C
    <3>. QED
      BY <1>1, <1>4, <1>5, CountingUpTo
  <2>2. C \in 0 .. C
    BY <1>1
  <2>. QED
    BY <2>1, <2>2
<1>7. \A a \in K : Seen(a, C, at) <=> containsAddrTable(a, at)
  BY Visit
<1>. QED
  BY <1>3, <1>6, <1>7 DEF Garbage

\* Putting the undo record's versions back, in the order of its slots, gives
\* every address it holds the version it had, and leaves the others alone.
LEMMA VersionsPutBack ==
  ASSUME NEW K, NEW V, Hashed(K), NULL \notin V, NEW dirty, Table(dirty, K, V),
         NEW saved, Table(saved, K, V \union {NULL})
  PROVE  LET n == ForEach(PutBack, dirty, saved.entries)
         IN  /\ Table(n, K, V)
             /\ \A a \in K : findAddrTable(a, n) =
                  IF containsAddrTable(a, saved) THEN findAddrTable(a, saved)
                  ELSE findAddrTable(a, dirty)
<1> DEFINE C == Capacity(saved)
           e == saved.entries
           S == TableSet(K, V)
           Back(a, i) == IF Seen(a, i, saved) THEN findAddrTable(a, saved)
                         ELSE findAddrTable(a, dirty)
           Good(x, i) == \A a \in K : findAddrTable(a, x) = Back(a, i)
<1>1. C \in Nat /\ e \in Entries(C, K, V \union {NULL})
  BY DEF Table
<1>2. ASSUME NEW x, Table(x, K, V), NEW y, y.key \in K, y.value \in V \union {NULL}
      PROVE  /\ Table(PutBack(x, y), K, V)
             /\ \A a \in K : findAddrTable(a, PutBack(x, y)) =
                  IF a = y.key THEN y.value ELSE findAddrTable(a, x)
  <2> DEFINE rest == removeAddrTable(y.key, x)
  <2>1. /\ Table(rest, K, V)
        /\ \A a \in K : findAddrTable(a, rest) =
                          IF a = y.key THEN NULL ELSE findAddrTable(a, x)
    BY <1>2, RemoveIsUpdate
  <2>2. PutBack(x, y) = IF y.value = NULL THEN rest
                        ELSE insertAddrTable(y.key, y.value, rest)
    BY DEF PutBack
  <2>. HIDE DEF rest
  <2>3. CASE y.value = NULL
    BY <2>1, <2>2, <2>3
  <2>4. CASE y.value # NULL
    <3>1. y.value \in V
      BY <1>2, <2>4
    <3>2. /\ Table(insertAddrTable(y.key, y.value, rest), K, V)
          /\ \A a \in K : findAddrTable(a, insertAddrTable(y.key, y.value, rest)) =
               IF a = y.key THEN y.value ELSE findAddrTable(a, rest)
      BY <1>2, <2>1, <3>1, InsertIsUpdate
    <3>. QED
      BY <2>1, <2>2, <2>4, <3>2
  <2>. QED
    BY <2>3, <2>4
<1>3. PICK f : f \in [0 .. C -> S] /\ VisitsPutBack(f, C, dirty, e)
  <2>1. ASSUME NEW x \in S, NEW y \in Held(e, C) PROVE PutBack(x, y) \in S
    <3>1. y.key \in K /\ y.value \in V \union {NULL} /\ Table(x, K, V)
      BY <1>1, HeldEntry, TablesAreInSet
    <3>. QED
      BY <1>2, <3>1, TablesAreInSet
  <2>2. dirty \in S
    BY TablesAreInSet
  <2>. HIDE DEF S, C, e
  <2>. QED
    BY <1>1, <2>1, <2>2, PutBackLoop
<1>4. /\ f[0] = dirty /\ ForEach(PutBack, dirty, e) = f[C]
      /\ \A i \in 1 .. C : f[i] = IF e[i - 1].key = 0 THEN f[i - 1]
                                 ELSE PutBack(f[i - 1], e[i - 1])
  BY <1>3 DEF VisitsPutBack
<1>5. ASSUME NEW i \in 0 .. C PROVE Table(f[i], K, V)
  BY <1>3, TablesAreInSet
<1> DEFINE T == {i \in 0 .. C : Good(f[i], i)}
<1>6. 0 \in T
  <2>1. \A a \in K : ~Seen(a, 0, saved)
    BY Visit
  <2>. QED
    BY <1>1, <1>4, <2>1
<1>7. ASSUME NEW i \in 1 .. C, i - 1 \in T PROVE i \in T
  <2> DEFINE y == e[i - 1]
  <2>1. Good(f[i - 1], i - 1) /\ Table(f[i - 1], K, V)
    BY <1>1, <1>5, <1>7
  <2>2. \A a \in K : Seen(a, i, saved) <=> Seen(a, i - 1, saved) \/ y.key = a
    BY Visit
  <2>3. CASE y.key = 0
    <3>1. f[i] = f[i - 1] /\ \A a \in K : a # y.key
      BY <1>4, <2>3 DEF Hashed
    <3>. QED
      BY <2>1, <2>2, <3>1
  <2>4. CASE y.key # 0
    <3>1. /\ y.key \in K /\ y.value \in V \union {NULL}
          /\ findAddrTable(y.key, saved) = y.value
      BY <2>4, Visit
    <3>2. f[i] = PutBack(f[i - 1], y)
      BY <1>4, <2>4
    <3>. HIDE DEF y
    <3>3. \A a \in K : findAddrTable(a, f[i]) =
             IF a = y.key THEN y.value ELSE findAddrTable(a, f[i - 1])
      BY <1>2, <2>1, <3>1, <3>2
    <3>4. Good(f[i], i)
      BY <2>1, <2>2, <3>1, <3>3
    <3>. HIDE DEF Good
    <3>. QED
      BY <3>4
  <2>. QED
    BY <2>3, <2>4
<1>8. Good(f[C], C) /\ Table(f[C], K, V)
  <2>1. 0 .. C \subseteq T
    <3>. HIDE DEF T, C
    <3>. QED
      BY <1>1, <1>6, <1>7, CountingUpTo
  <2>2. C \in 0 .. C
    BY <1>1
  <2>. QED
    BY <1>5, <2>1, <2>2
<1>9. \A a \in K : Seen(a, C, saved) <=> containsAddrTable(a, saved)
  BY Visit
<1>. QED
  BY <1>4, <1>8, <1>9

\* Taking the statement's delete marks off leaves the others.
LEMMA MarksTakenOff ==
  ASSUME NEW K, NEW V, Hashed(K), NEW marks, Table(marks, K, V),
         NEW deletes, Table(deletes, K, {FALSE})
  PROVE  LET n == ForEach(Unmark, marks, deletes.entries)
         IN  /\ Table(n, K, V)
             /\ \A a \in K : containsAddrTable(a, n) <=>
                  containsAddrTable(a, marks) /\ ~containsAddrTable(a, deletes)
<1> DEFINE C == Capacity(deletes)
           e == deletes.entries
           S == TableSet(K, V)
           Good(x, i) == \A a \in K : containsAddrTable(a, x) <=>
                           containsAddrTable(a, marks) /\ ~Seen(a, i, deletes)
<1>1. C \in Nat /\ e \in Entries(C, K, {FALSE})
  BY DEF Table
<1>2. ASSUME NEW x, Table(x, K, V), NEW y, y.key \in K, y.value = FALSE
      PROVE  /\ Table(Unmark(x, y), K, V)
             /\ \A a \in K : containsAddrTable(a, Unmark(x, y)) <=>
                  a # y.key /\ containsAddrTable(a, x)
  <2>1. Unmark(x, y) = removeAddrTable(y.key, x)
    BY <1>2 DEF Unmark
  <2>. QED
    BY <1>2, <2>1, RemoveIsUpdate
<1>3. PICK f : f \in [0 .. C -> S] /\ VisitsUnmark(f, C, marks, e)
  <2>1. ASSUME NEW x \in S, NEW y \in Held(e, C) PROVE Unmark(x, y) \in S
    <3>1. y.key \in K /\ y.value \in {FALSE}
      BY <1>1, HeldEntry
    <3>2. Table(x, K, V)
      BY TablesAreInSet
    <3>3. y.value = FALSE
      BY <3>1, Zenon
    <3>. QED
      BY <1>2, <3>1, <3>2, <3>3, TablesAreInSet
  <2>2. marks \in S
    BY TablesAreInSet
  <2>. HIDE DEF S, C, e
  <2>. QED
    BY <1>1, <2>1, <2>2, UnmarkLoop
<1>4. /\ f[0] = marks /\ ForEach(Unmark, marks, e) = f[C]
      /\ \A i \in 1 .. C : f[i] = IF e[i - 1].key = 0 THEN f[i - 1]
                                 ELSE Unmark(f[i - 1], e[i - 1])
  BY <1>3 DEF VisitsUnmark
<1>5. ASSUME NEW i \in 0 .. C PROVE Table(f[i], K, V)
  BY <1>3, TablesAreInSet
<1> DEFINE T == {i \in 0 .. C : Good(f[i], i)}
<1>6. 0 \in T
  <2>1. \A a \in K : ~Seen(a, 0, deletes)
    BY Visit
  <2>. QED
    BY <1>1, <1>4, <2>1
<1>7. ASSUME NEW i \in 1 .. C, i - 1 \in T PROVE i \in T
  <2> DEFINE y == e[i - 1]
  <2>1. Good(f[i - 1], i - 1) /\ Table(f[i - 1], K, V)
    BY <1>1, <1>5, <1>7
  <2>2. \A a \in K : Seen(a, i, deletes) <=> Seen(a, i - 1, deletes) \/ y.key = a
    BY Visit
  <2>3. CASE y.key = 0
    <3>1. f[i] = f[i - 1] /\ \A a \in K : a # y.key
      BY <1>4, <2>3 DEF Hashed
    <3>. QED
      BY <2>1, <2>2, <3>1
  <2>4. CASE y.key # 0
    <3>0. y.key \in K /\ y.value \in {FALSE}
      BY <2>4, Visit
    <3>1. y.key \in K /\ y.value = FALSE
      BY <3>0, Zenon
    <3>2. f[i] = Unmark(f[i - 1], y)
      BY <1>4, <2>4
    <3>. HIDE DEF y
    <3>3. \A a \in K : containsAddrTable(a, f[i]) <=>
             a # y.key /\ containsAddrTable(a, f[i - 1])
      <4> DEFINE x == f[i - 1]
      <4>1. Table(x, K, V)
        BY <2>1
      <4>. HIDE DEF x
      <4>2. \A a \in K : containsAddrTable(a, Unmark(x, y)) <=>
              a # y.key /\ containsAddrTable(a, x)
        BY <1>2, <3>1, <4>1
      <4>. QED
        BY <3>2, <4>2 DEF x
    <3>4. Good(f[i], i)
      BY <2>1, <2>2, <3>3
    <3>. HIDE DEF Good
    <3>. QED
      BY <3>4
  <2>. QED
    BY <2>3, <2>4
<1>8. Good(f[C], C) /\ Table(f[C], K, V)
  <2>1. 0 .. C \subseteq T
    <3>. HIDE DEF T, C
    <3>. QED
      BY <1>1, <1>6, <1>7, CountingUpTo
  <2>2. C \in 0 .. C
    BY <1>1
  <2>. QED
    BY <1>5, <2>1, <2>2
<1>9. \A a \in K : Seen(a, C, deletes) <=> containsAddrTable(a, deletes)
  BY Visit
<1>. QED
  BY <1>4, <1>8, <1>9
-----------------------------------------------------------------------------
(* The addresses of the layout.                                            *)

\* Every stripe is at least as far into the file as its number says.
LEMMA Ascending ==
  ASSUME NEW s \in Nat
  PROVE  unitStart(s) >= s /\ PageStripeStart(s) >= s
<1>1. PageStripeBytes >= 1 /\ unitByteSize >= 1
  <2>1. PageStripeLen * PageSize >= 1
    <3>1. 1 * PageSize <= PageStripeLen * PageSize
      BY TimesMonotone, GeometryAssumption
    <3>. QED
      BY <3>1, GeometryAssumption
  <2>2. NodeStripeLen * NodeSize >= 1
    <3>1. 1 * NodeSize <= NodeStripeLen * NodeSize
      BY TimesMonotone, GeometryAssumption
    <3>. QED
      BY <3>1, GeometryAssumption
  <2>3. PageNodeRatio * PageStripeBytes \in Nat
    BY Sizes, GeometryAssumption
  <2>. QED
    BY <2>1, <2>2, <2>3, Sizes DEF PageStripeBytes, NodeStripeBytes, unitByteSize
<1>2. unitStart(s) >= s
  <2>1. s * 1 <= s * unitByteSize
    <3>1. 1 * s <= unitByteSize * s
      BY <1>1, Sizes, TimesMonotone
    <3>. QED
      BY <3>1, Sizes
  <2>2. s * unitByteSize \in Nat
    BY Sizes
  <2>. QED
    BY <2>1, <2>2, GeometryAssumption DEF unitStart
<1> DEFINE T == {n \in Nat : PageStripeStart(n) >= n}
<1>3. 0 \in T
  BY Sizes
<1>4. ASSUME NEW n \in Nat \ {0}, n - 1 \in T PROVE n \in T
  <2>1. n - 1 \in Nat /\ PageStripeStart(n - 1) >= n - 1 /\ (n - 1) + 1 = n
    BY <1>4
  <2>2. PageStripeStart(n - 1) + PageStripeBytes <= PageStripeStart(n)
    BY <2>1, StripesAreApart
  <2>3. PageStripeStart(n - 1) \in Nat /\ PageStripeStart(n) \in Nat
    BY <2>1, Sizes
  <2>. QED
    BY <1>1, <2>1, <2>2, <2>3, Sizes
<1>5. Nat \subseteq T
  BY <1>3, <1>4, Counting
<1>. QED
  BY <1>2, <1>5

\* The page stripe s as the layout's assumption has it.
LEMMA StripeOf ==
  ASSUME NEW s \in Nat \ {0}
  PROVE  /\ currentPageStripeStart([pageStripes |-> s]) = PageStripeStart(s - 1)
         /\ currentNodeStripeStart([nodeStripes |-> s]) = unitStart(s - 1)
BY DEF currentPageStripeStart, currentNodeStripeStart, PageStripeStart, UnitOf

\* An object of a stripe fits into it.
LEMMA ObjectInStripe ==
  ASSUME NEW s \in Nat
  PROVE  /\ \A j \in 0 .. PageStripeLen - 1 :
              PageStripeStart(s) + j * PageSize \in Nat
              /\ InPageStripe(PageStripeStart(s) + j * PageSize)
         /\ \A j \in 0 .. NodeStripeLen - 1 :
              unitStart(s) + j * NodeSize \in Nat
              /\ InNodeStripe(unitStart(s) + j * NodeSize)
<1>1. ASSUME NEW j \in 0 .. PageStripeLen - 1
      PROVE  LET a == PageStripeStart(s) + j * PageSize IN a \in Nat /\ InPageStripe(a)
  <2>1. /\ (j + 1) * PageSize = j * PageSize + PageSize
        /\ (j + 1) * PageSize <= PageStripeBytes
        /\ j * PageSize \in Nat
    BY TimesMonotone, GeometryAssumption DEF PageStripeBytes
  <2>2. UnitOf(s) \in Nat /\ PageStripeStart(s) \in Nat /\ unitStart(UnitOf(s)) \in Nat
    BY Sizes
  <2> DEFINE a == PageStripeStart(s) + j * PageSize
  <2>3. unitStart(UnitOf(s)) + NodeStripeBytes <= a
    BY <2>1, <2>2, StripeInUnit, Sizes
  <2>4. a + PageSize <= unitStart(UnitOf(s)) + unitByteSize
    BY <2>1, <2>2, StripeInUnit, Sizes, GeometryAssumption
  <2>. QED
    BY <2>1, <2>2, <2>3, <2>4 DEF InPageStripe
<1>2. ASSUME NEW j \in 0 .. NodeStripeLen - 1
      PROVE  LET a == unitStart(s) + j * NodeSize IN a \in Nat /\ InNodeStripe(a)
  <2>1. /\ (j + 1) * NodeSize = j * NodeSize + NodeSize
        /\ (j + 1) * NodeSize <= NodeStripeBytes
        /\ j * NodeSize \in Nat
    BY TimesMonotone, GeometryAssumption DEF NodeStripeBytes
  <2>2. unitStart(s) \in Nat
    BY Sizes
  <2> DEFINE a == unitStart(s) + j * NodeSize
  <2>3. unitStart(s) <= a /\ a + NodeSize <= unitStart(s) + NodeStripeBytes
    BY <2>1, <2>2, Sizes, GeometryAssumption
  <2>. QED
    BY <2>1, <2>2, <2>3 DEF InNodeStripe
<1>. QED
  BY <1>1, <1>2

\* Addresses are behind the header, and none is a page's and a node's.
LEMMA AddressesApart ==
  /\ Address \subseteq Nat \ {0}
  /\ PageAddress \intersect NodeAddress = {}
  /\ MetaLen \in NodeAddress
<1>1. ASSUME NEW a \in PageAddress PROVE a \in Nat /\ InPageStripe(a)
  <2>1. PICK s \in 1 .. LastAddress + 1, i \in 0 .. PageStripeLen - 1 :
          a = currentPageStripeStart([pageStripes |-> s]) + i * PageSize
    BY LayoutAssumption
  <2>2. s - 1 \in Nat /\ s \in Nat \ {0}
    BY LayoutAssumption
  <2>3. a = PageStripeStart(s - 1) + i * PageSize
    BY <2>1, <2>2, StripeOf
  <2>. QED
    BY <2>2, <2>3, ObjectInStripe
<1>2. ASSUME NEW a \in NodeAddress PROVE a \in Nat /\ InNodeStripe(a)
  <2>1. PICK s \in 1 .. LastAddress + 1, i \in 0 .. NodeStripeLen - 1 :
          a = currentNodeStripeStart([nodeStripes |-> s]) + i * NodeSize
    BY LayoutAssumption
  <2>2. s - 1 \in Nat /\ s \in Nat \ {0}
    BY LayoutAssumption
  <2>3. a = unitStart(s - 1) + i * NodeSize
    BY <2>1, <2>2, StripeOf
  <2>. QED
    BY <2>2, <2>3, ObjectInStripe
<1>3. ASSUME NEW a \in Address PROVE a \in Nat \ {0}
  <2>1. CASE a \in PageAddress
    BY <1>1, <2>1, Sizes, GeometryAssumption DEF InPageStripe
  <2>2. CASE a \in NodeAddress
    BY <1>2, <2>2, Sizes, GeometryAssumption DEF InNodeStripe
  <2>. QED
    BY <2>1, <2>2 DEF Address
<1>4. ASSUME NEW a \in PageAddress, a \in NodeAddress PROVE FALSE
  <2>1. a + PageSize <= a \/ a + NodeSize <= a
    BY <1>1, <1>2, <1>4, KindsAreApart
  <2>. QED
    BY <1>1, <2>1, GeometryAssumption
<1>5. MetaLen \in NodeAddress
  <2>1. InitialFields.pageFree = MetaLen + NodeStripeBytes
    BY DEF InitialFields
  <2>2. MetaLen \in 0 .. LastAddress
    BY <2>1, Sizes, GeometryAssumption, LayoutAssumption
  <2>3. MetaLen = currentNodeStripeStart([nodeStripes |-> 1]) + 0 * NodeSize
    <3>1. 0 * unitByteSize = 0 /\ 0 * NodeSize = 0
      BY Sizes, GeometryAssumption
    <3>. QED
      BY <3>1, GeometryAssumption DEF currentNodeStripeStart, unitStart
  <2>4. 1 \in 1 .. LastAddress + 1 /\ 0 \in 0 .. NodeStripeLen - 1
    BY GeometryAssumption, LayoutAssumption
  <2>. QED
    BY <2>2, <2>3, <2>4, LayoutAssumption
<1>. QED
  BY <1>3, <1>4, <1>5

\* The objects of a header have addresses of the layout, its root among them.
Fits(h) == h.pages \subseteq PageAddress /\ h.nodes \subseteq NodeAddress /\ h.root \in h.nodes

\* What a header has and gets with its next page.
LEMMA PageTaken ==
  ASSUME NEW h, LaidOut(h), Fits(h), PageRoom(h).pageFree <= LastAddress
  PROVE  LET a == PageRoom(h).pageFree
             n == WithPage(h)
         IN  /\ a \in PageAddress /\ a \notin Used(h)
             /\ Used(n) = Used(h) \union {a} /\ n.root = h.root /\ Fits(n)
             /\ n.nodeFree = h.nodeFree /\ n.nodeStripes = h.nodeStripes
<1> DEFINE r == PageRoom(h)
           a == r.pageFree
           n == WithPage(h)
<1>1. /\ r \in HeaderFields /\ r.pages = h.pages /\ r.nodes = h.nodes
      /\ r.nodeFree = h.nodeFree /\ r.nodeStripes = h.nodeStripes
      /\ h.pageFree <= a /\ h \in HeaderFields /\ a <= LastAddress
      /\ \E j \in 0 .. PageStripeLen - 1 :
            a = PageStripeStart(r.pageStripes - 1) + j * PageSize
  BY PageFree DEF LaidOut
<1>2. r.root = h.root
  BY <1>1 DEF PageRoom, newPageStripe, HeaderFields
<1>3. n = [[r EXCEPT !.pageFree = a + PageSize] EXCEPT !.pages = @ \union {a}]
  BY <1>1 DEF WithPage, allocPage, HeaderFields
<1>. HIDE DEF r
<1>4. /\ n.pages = h.pages \union {a} /\ n.nodes = h.nodes /\ n.root = h.root
      /\ n.nodeFree = h.nodeFree /\ n.nodeStripes = h.nodeStripes
  <2> DEFINE m == [r EXCEPT !.pageFree = a + PageSize]
  <2>1. m \in [pageStripes : Nat \ {0}, nodeStripes : Nat \ {0}, pageFree : {a + PageSize},
               nodeFree : Nat, root : Nat, pages : SUBSET Nat, nodes : SUBSET Nat]
    BY <1>1 DEF HeaderFields
  <2>2. /\ m.pages = h.pages /\ m.nodes = h.nodes /\ m.root = h.root
        /\ m.nodeFree = h.nodeFree /\ m.nodeStripes = h.nodeStripes
    BY <1>1, <1>2 DEF HeaderFields
  <2>3. n = [m EXCEPT !.pages = @ \union {a}]
    BY <1>3
  <2>. HIDE DEF m, n
  <2>. QED
    BY <2>1, <2>2, <2>3
<1>5. a \in PageAddress
  <2>1. PICK j \in 0 .. PageStripeLen - 1 :
          a = PageStripeStart(r.pageStripes - 1) + j * PageSize
    BY <1>1
  <2> DEFINE s == r.pageStripes
  <2>2. s \in Nat \ {0} /\ a \in Nat /\ s - 1 \in Nat
    BY <1>1 DEF HeaderFields
  <2>3. j * PageSize \in Nat
    BY GeometryAssumption
  <2>4. s - 1 <= LastAddress
    <3>1. PageStripeStart(s - 1) \in Nat /\ PageStripeStart(s - 1) >= s - 1
      BY <2>2, Sizes, Ascending
    <3>. HIDE DEF s, a
    <3>. QED
      BY <1>1, <2>1, <2>2, <2>3, <3>1, LayoutAssumption DEF s
  <2>5. s \in 1 .. LastAddress + 1 /\ a \in 0 .. LastAddress
    <3>. HIDE DEF s, a
    <3>. QED
      BY <1>1, <2>2, <2>4, LayoutAssumption
  <2>6. a = currentPageStripeStart([pageStripes |-> s]) + j * PageSize
    BY <2>1, <2>2, StripeOf
  <2>. HIDE DEF s, a
  <2>. QED
    BY <2>5, <2>6, LayoutAssumption
<1>6. a \notin h.pages
  <2>1. SUFFICES ASSUME a \in h.pages PROVE FALSE
    OBVIOUS
  <2>2. a + PageSize <= h.pageFree /\ a \in Nat /\ h.pageFree \in Nat
    BY <1>1, <2>1 DEF LaidOut, PagesLaidOut, HeaderFields
  <2>. HIDE DEF a
  <2>. QED
    BY <1>1, <2>2, GeometryAssumption
<1>7. a \notin h.nodes
  BY <1>5, AddressesApart DEF Fits
<1>. HIDE DEF a, n
<1>8. /\ Used(n) = Used(h) \union {a} /\ a \notin Used(h) /\ Fits(n)
  BY <1>4, <1>5, <1>6, <1>7 DEF Used, Fits
<1>. QED
  BY <1>4, <1>5, <1>8 DEF a, n, r

\* And with its next node; the first one is the root.
LEMMA NodeTaken ==
  ASSUME NEW h, LaidOut(h), h.pages \subseteq PageAddress, h.nodes \subseteq NodeAddress,
         h.root \in h.nodes \union {NodeRoom(h).nodeFree},
         NodeRoom(h).nodeFree <= LastAddress
  PROVE  LET a == NodeRoom(h).nodeFree
             n == WithNode(h)
         IN  /\ a \in NodeAddress /\ a \notin Used(h)
             /\ Used(n) = Used(h) \union {a} /\ n.root = h.root /\ Fits(n)
             /\ n.pageFree = h.pageFree /\ n.pageStripes = h.pageStripes
<1> DEFINE r == NodeRoom(h)
           a == r.nodeFree
           n == WithNode(h)
<1>1. /\ r \in HeaderFields /\ r.pages = h.pages /\ r.nodes = h.nodes
      /\ r.pageFree = h.pageFree /\ r.pageStripes = h.pageStripes
      /\ h.nodeFree <= a /\ h \in HeaderFields /\ a <= LastAddress
      /\ \E j \in 0 .. NodeStripeLen - 1 :
            a = unitStart(r.nodeStripes - 1) + j * NodeSize
  BY NodeFree DEF LaidOut
<1>2. r.root = h.root
  BY <1>1 DEF NodeRoom, newNodeStripe, HeaderFields
<1>3. n = [[r EXCEPT !.nodeFree = a + NodeSize] EXCEPT !.nodes = @ \union {a}]
  BY <1>1 DEF WithNode, allocNode, HeaderFields
<1>. HIDE DEF r
<1>4. /\ n.nodes = h.nodes \union {a} /\ n.pages = h.pages /\ n.root = h.root
      /\ n.pageFree = h.pageFree /\ n.pageStripes = h.pageStripes
  <2> DEFINE m == [r EXCEPT !.nodeFree = a + NodeSize]
  <2>1. m \in [pageStripes : Nat \ {0}, nodeStripes : Nat \ {0}, pageFree : Nat,
               nodeFree : {a + NodeSize}, root : Nat, pages : SUBSET Nat, nodes : SUBSET Nat]
    BY <1>1 DEF HeaderFields
  <2>2. /\ m.pages = h.pages /\ m.nodes = h.nodes /\ m.root = h.root
        /\ m.pageFree = h.pageFree /\ m.pageStripes = h.pageStripes
    BY <1>1, <1>2 DEF HeaderFields
  <2>3. n = [m EXCEPT !.nodes = @ \union {a}]
    BY <1>3
  <2>. HIDE DEF m, n
  <2>. QED
    BY <2>1, <2>2, <2>3
<1>5. a \in NodeAddress
  <2>1. PICK j \in 0 .. NodeStripeLen - 1 :
          a = unitStart(r.nodeStripes - 1) + j * NodeSize
    BY <1>1
  <2> DEFINE s == r.nodeStripes
  <2>2. s \in Nat \ {0} /\ a \in Nat /\ s - 1 \in Nat
    BY <1>1 DEF HeaderFields
  <2>3. j * NodeSize \in Nat
    BY GeometryAssumption
  <2>4. s - 1 <= LastAddress
    <3>1. unitStart(s - 1) \in Nat /\ unitStart(s - 1) >= s - 1
      BY <2>2, Sizes, Ascending
    <3>. HIDE DEF s, a
    <3>. QED
      BY <1>1, <2>1, <2>2, <2>3, <3>1, LayoutAssumption DEF s
  <2>5. s \in 1 .. LastAddress + 1 /\ a \in 0 .. LastAddress
    <3>. HIDE DEF s, a
    <3>. QED
      BY <1>1, <2>2, <2>4, LayoutAssumption
  <2>6. a = currentNodeStripeStart([nodeStripes |-> s]) + j * NodeSize
    BY <2>1, <2>2, StripeOf
  <2>. HIDE DEF s, a
  <2>. QED
    BY <2>5, <2>6, LayoutAssumption
<1>6. a \notin h.nodes
  <2>1. SUFFICES ASSUME a \in h.nodes PROVE FALSE
    OBVIOUS
  <2>2. a + NodeSize <= h.nodeFree /\ a \in Nat /\ h.nodeFree \in Nat
    BY <1>1, <2>1 DEF LaidOut, NodesLaidOut, HeaderFields
  <2>. HIDE DEF a
  <2>. QED
    BY <1>1, <2>2, GeometryAssumption
<1>7. a \notin h.pages
  BY <1>5, AddressesApart
<1>8. h.root \in h.nodes \union {a}
  BY DEF a, r
<1>. HIDE DEF a, n
<1>9. /\ Used(n) = Used(h) \union {a} /\ a \notin Used(h) /\ Fits(n)
  BY <1>4, <1>5, <1>6, <1>7, <1>8 DEF Used, Fits
<1>. QED
  BY <1>4, <1>5, <1>9 DEF a, n, r

\* So it is from the first objects of a new table on.
LEMMA FirstObjects == Fits(WithPage(WithNode(EmptyHeader)))
<1> DEFINE h == EmptyHeader
<1>1. MetaLen \in Nat /\ NodeStripeBytes \in Nat /\ MetaLen + NodeStripeBytes \in Nat
  BY Sizes, GeometryAssumption
<1>2. h = [pageStripes |-> 1, nodeStripes |-> 1, nodeFree |-> MetaLen,
           pageFree |-> MetaLen + NodeStripeBytes, root |-> MetaLen,
           pages |-> {}, nodes |-> {}]
  BY DEF EmptyHeader, InitialFields
<1>3. LaidOut(h)
  BY EmptyLaidOut
<1>. HIDE DEF h
<1>4. NodeStripeBytes >= 1 /\ PageStripeBytes >= 1
  <2>1. 1 * NodeSize <= NodeStripeLen * NodeSize
    BY TimesMonotone, GeometryAssumption
  <2>2. 1 * PageSize <= PageStripeLen * PageSize
    BY TimesMonotone, GeometryAssumption
  <2>. QED
    BY <2>1, <2>2, GeometryAssumption DEF NodeStripeBytes, PageStripeBytes
<1>5. 0 * unitByteSize = 0 /\ 0 \div PageNodeRatio = 0 /\ 0 % PageNodeRatio = 0
      /\ 0 * PageStripeBytes = 0
  BY Sizes, GeometryAssumption
<1>6. NodeRoom(h).nodeFree = MetaLen
  <2>1. currentNodeStripeStart(h) = MetaLen
    BY <1>1, <1>2, <1>5 DEF currentNodeStripeStart, unitStart
  <2>2. NodeRoom(h) = h
    BY <1>1, <1>2, <1>4, <2>1 DEF NodeRoom
  <2>. QED
    BY <1>2, <2>2
<1>7. InitialFields.pageFree = MetaLen + NodeStripeBytes
  BY DEF InitialFields
<1> DEFINE n == WithNode(h)
<1>8. Fits(n) /\ LaidOut(n) /\ n.pageFree = h.pageFree /\ n.pageStripes = h.pageStripes
  <2>1. h.pages \subseteq PageAddress /\ h.nodes \subseteq NodeAddress
    BY <1>2
  <2>2. h.root \in h.nodes \union {NodeRoom(h).nodeFree}
    BY <1>2, <1>6
  <2>3. NodeRoom(h).nodeFree <= LastAddress
    BY <1>1, <1>6, <1>7, LayoutAssumption
  <2>. HIDE DEF n
  <2>. QED
    BY <1>3, <2>1, <2>2, <2>3, NodeTaken, NodeAllocated DEF n
<1>. HIDE DEF n
<1>9. PageRoom(n).pageFree <= LastAddress
  <2>1. currentPageStripeStart(n) = MetaLen + NodeStripeBytes
    <3>1. n.pageStripes - 1 = 0
      BY <1>2, <1>8
    <3>. QED
      BY <1>1, <1>5, <3>1 DEF currentPageStripeStart, unitStart
  <2>2. n.pageFree = MetaLen + NodeStripeBytes
    BY <1>2, <1>8
  <2>3. PageRoom(n) = n
    BY <1>1, <1>4, <2>1, <2>2, Sizes DEF PageRoom
  <2>. QED
    BY <1>7, <2>2, <2>3, LayoutAssumption
<1>. QED
  BY <1>8, <1>9, PageTaken DEF n, h
-----------------------------------------------------------------------------
(* The maps of an open table and of its running statement.                 *)

Maps ==
  /\ hashAddress \in Hash
  /\ Table(pageDirty, PageAddress, Object)
  /\ Table(nodeDirty, NodeAddress, Object)
  /\ Table(delete, Address, {NULL})
  /\ Table(undo.pages, PageAddress, Object \union {NULL})
  /\ Table(undo.nodes, NodeAddress, Object \union {NULL})
  /\ Table(undo.deletes, Address, {FALSE})

\* Every address has a hash.
LEMMA AddressesHashed ==
  ASSUME hashAddress \in Hash
  PROVE  Hashed(Address) /\ Hashed(PageAddress) /\ Hashed(NodeAddress)
BY AddressesApart, HashAssumption DEF Hashed, Address

\* While no address changes its hash, a map is looked up in the next state as
\* it is in this one.
LEMMA SameLookups ==
  ASSUME hashAddress' = hashAddress
  PROVE  /\ \A a : Pending(a)' = IF a \in PageAddress THEN findAddrTable(a, pageDirty')
                                                     ELSE findAddrTable(a, nodeDirty')
         /\ Marked' = {a \in Address : containsAddrTable(a, delete')}
         /\ \A a : Saved(a)' =
              LET saved == IF a \in PageAddress THEN undo'.pages ELSE undo'.nodes
              IN  IF containsAddrTable(a, saved) THEN findAddrTable(a, saved) ELSE Unsaved
         /\ Unmarked' = {a \in Address : containsAddrTable(a, undo'.deletes)
                                         /\ ~findAddrTable(a, undo'.deletes)}
BY DEF Pending, Marked, Saved, Unmarked, containsAddrTable, findAddrTable,
       findAddrEntry, Capacity

\* So are the maps hash tables in the next state if they are with its values.
LEMMA SameTables ==
  ASSUME hashAddress' = hashAddress, hashAddress \in Hash,
         Table(pageDirty', PageAddress, Object),
         Table(nodeDirty', NodeAddress, Object),
         Table(delete', Address, {NULL}),
         Table(undo'.pages, PageAddress, Object \union {NULL}),
         Table(undo'.nodes, NodeAddress, Object \union {NULL}),
         Table(undo'.deletes, Address, {FALSE})
  PROVE  Maps'
<1>1. /\ \A K, V : Table(pageDirty, K, V)' <=> Table(pageDirty', K, V)
      /\ \A K, V : Table(nodeDirty, K, V)' <=> Table(nodeDirty', K, V)
      /\ \A K, V : Table(delete, K, V)' <=> Table(delete', K, V)
      /\ \A K, V : Table(undo.pages, K, V)' <=> Table(undo'.pages, K, V)
      /\ \A K, V : Table(undo.nodes, K, V)' <=> Table(undo'.nodes, K, V)
      /\ \A K, V : Table(undo.deletes, K, V)' <=> Table(undo'.deletes, K, V)
  BY DEF Table, Searchable, Leads, Passes, Home, Capacity, Held, Entries, Entry
<1>. QED
  BY <1>1 DEF Maps

\* The values the maps hold.
LEMMA Values ==
  ASSUME Maps
  PROVE  /\ \A a \in Address : Pending(a) \in Object \union {NULL}
         /\ \A a \in Address : Saved(a) \in Object \union {NULL, Unsaved}
         /\ \A a \in PageAddress : Saved(a) = Unsaved <=> ~containsAddrTable(a, undo.pages)
         /\ \A a \in NodeAddress : Saved(a) = Unsaved <=> ~containsAddrTable(a, undo.nodes)
         /\ Unmarked = {a \in Address : containsAddrTable(a, undo.deletes)}
<1>1. Hashed(Address) /\ Hashed(PageAddress) /\ Hashed(NodeAddress)
  BY AddressesHashed DEF Maps
<1>2. ASSUME NEW a \in PageAddress
      PROVE  /\ Pending(a) \in Object \union {NULL}
             /\ Saved(a) \in Object \union {NULL, Unsaved}
             /\ Saved(a) = Unsaved <=> ~containsAddrTable(a, undo.pages)
  <2>1. Pending(a) \in Object \union {NULL}
    BY <1>1, FoundValue DEF Maps, Pending
  <2>2. containsAddrTable(a, undo.pages) => findAddrTable(a, undo.pages) \in Object \union {NULL}
    BY <1>1, FoundValue DEF Maps
  <2>3. Saved(a) = IF containsAddrTable(a, undo.pages) THEN findAddrTable(a, undo.pages)
                   ELSE Unsaved
    BY DEF Saved
  <2>. QED
    BY <2>1, <2>2, <2>3, MarkersAssumption
<1>3. ASSUME NEW a \in NodeAddress
      PROVE  /\ Pending(a) \in Object \union {NULL}
             /\ Saved(a) \in Object \union {NULL, Unsaved}
             /\ Saved(a) = Unsaved <=> ~containsAddrTable(a, undo.nodes)
  <2>0. a \notin PageAddress
    BY AddressesApart
  <2>1. Pending(a) \in Object \union {NULL}
    BY <1>1, <2>0, FoundValue DEF Maps, Pending
  <2>2. containsAddrTable(a, undo.nodes) => findAddrTable(a, undo.nodes) \in Object \union {NULL}
    BY <1>1, FoundValue DEF Maps
  <2>3. Saved(a) = IF containsAddrTable(a, undo.nodes) THEN findAddrTable(a, undo.nodes)
                   ELSE Unsaved
    BY <2>0 DEF Saved
  <2>. QED
    BY <2>1, <2>2, <2>3, MarkersAssumption
<1>4. ASSUME NEW a \in Address, containsAddrTable(a, undo.deletes)
      PROVE  ~findAddrTable(a, undo.deletes)
  <2>1. findAddrTable(a, undo.deletes) \in {FALSE}
    BY <1>1, <1>4, FoundValue DEF Maps
  <2>. QED
    BY <2>1, Zenon
<1>. QED
  BY <1>2, <1>3, <1>4 DEF Unmarked, Address

\* What an undo map holds after a change to a: the version before the first.
LEMMA Remembered ==
  ASSUME NEW K, NEW W, Hashed(K), NEW saved, Table(saved, K, W),
         NEW dirty, NEW a \in K, findAddrTable(a, dirty) \in W,
         NEW n, n = Remember(a, dirty, saved)
  PROVE  /\ Table(n, K, W)
         /\ \A b \in K :
              /\ containsAddrTable(b, n) <=> b = a \/ containsAddrTable(b, saved)
              /\ b = a /\ ~containsAddrTable(a, saved) =>
                   findAddrTable(b, n) = findAddrTable(a, dirty)
              /\ b # a \/ containsAddrTable(a, saved) =>
                   findAddrTable(b, n) = findAddrTable(b, saved)
<1>1. CASE containsAddrTable(a, saved)
  BY <1>1 DEF Remember
<1>2. CASE ~containsAddrTable(a, saved)
  <2>1. n = insertAddrTable(a, findAddrTable(a, dirty), saved)
    BY <1>2 DEF Remember
  <2>. QED
    BY <1>2, <2>1, InsertIsUpdate
<1>. QED
  BY <1>1, <1>2

\* What marking an object changes.
Changed(a, o) ==
  /\ Maps'
  /\ \A b \in Address :
       /\ Pending(b)' = IF b = a THEN o ELSE Pending(b)
       /\ Saved(b)' = IF b = a /\ Saved(b) = Unsaved THEN Pending(b) ELSE Saved(b)
  /\ Marked' = Marked /\ Unmarked' = Unmarked
  /\ undo'.active = undo.active /\ undo'.header = undo.header

\* markPage changes one pending version, and remembers the first.
LEMMA PageMarked ==
  ASSUME Maps, UndoRecord(undo), hashAddress' = hashAddress,
         NEW a \in PageAddress, NEW o \in Object, markPage(a, o)
  PROVE  Changed(a, o)
<1>1. Hashed(Address) /\ Hashed(PageAddress) /\ Hashed(NodeAddress)
  BY AddressesHashed DEF Maps
<1>2. /\ pageDirty' = insertAddrTable(a, o, pageDirty)
      /\ nodeDirty' = nodeDirty /\ delete' = delete
  BY DEF markPage
<1>3. /\ undo'.pages = Remember(a, pageDirty, undo.pages) /\ undo'.nodes = undo.nodes
      /\ undo'.deletes = undo.deletes /\ undo'.active = undo.active
      /\ undo'.header = undo.header
  BY DEF markPage, UndoRecord
<1>4. /\ Table(pageDirty', PageAddress, Object)
      /\ \A b \in PageAddress : findAddrTable(b, pageDirty') =
                                  IF b = a THEN o ELSE findAddrTable(b, pageDirty)
  BY <1>1, <1>2, InsertIsUpdate DEF Maps
<1>5. /\ Table(undo'.pages, PageAddress, Object \union {NULL})
      /\ \A b \in PageAddress :
           /\ containsAddrTable(b, undo'.pages) <=> b = a \/ containsAddrTable(b, undo.pages)
           /\ findAddrTable(b, undo'.pages) =
                IF b = a /\ ~containsAddrTable(a, undo.pages) THEN findAddrTable(a, pageDirty)
                ELSE findAddrTable(b, undo.pages)
  <2> DEFINE n == Remember(a, pageDirty, undo.pages)
  <2>1. /\ Table(n, PageAddress, Object \union {NULL})
        /\ \A b \in PageAddress :
             /\ containsAddrTable(b, n) <=> b = a \/ containsAddrTable(b, undo.pages)
             /\ findAddrTable(b, n) =
                  IF b = a /\ ~containsAddrTable(a, undo.pages) THEN findAddrTable(a, pageDirty)
                  ELSE findAddrTable(b, undo.pages)
    <3> DEFINE W == Object \union {NULL}
               s == undo.pages
    <3>1. Table(s, PageAddress, W)
      BY DEF Maps
    <3>2. findAddrTable(a, pageDirty) \in W
      BY <1>1, FoundValue DEF Maps
    <3>. HIDE DEF W, s, n
    <3>3. n = Remember(a, pageDirty, s)
      BY DEF n, s
    <3>4. Table(n, PageAddress, W)
      BY <1>1, <3>1, <3>2, <3>3, Remembered
    <3>5. ASSUME NEW b \in PageAddress
          PROVE  /\ containsAddrTable(b, n) <=> b = a \/ containsAddrTable(b, s)
                 /\ b = a /\ ~containsAddrTable(a, s) =>
                      findAddrTable(b, n) = findAddrTable(a, pageDirty)
                 /\ b # a \/ containsAddrTable(a, s) =>
                      findAddrTable(b, n) = findAddrTable(b, s)
      BY <1>1, <3>1, <3>2, <3>3, Remembered
    <3>. QED
      BY <3>4, <3>5 DEF W, s
  <2>2. undo'.pages = n
    BY <1>3
  <2>. HIDE DEF n
  <2>. QED
    BY <2>1, <2>2
<1>6. Maps'
  BY <1>2, <1>3, <1>4, <1>5, SameTables DEF Maps
<1>7. ASSUME NEW b \in Address
      PROVE  /\ Pending(b)' = IF b = a THEN o ELSE Pending(b)
             /\ Saved(b)' = IF b = a /\ Saved(b) = Unsaved THEN Pending(b) ELSE Saved(b)
  <2>1. /\ Pending(b)' = IF b \in PageAddress THEN findAddrTable(b, pageDirty')
                         ELSE findAddrTable(b, nodeDirty')
        /\ Saved(b)' = LET saved == IF b \in PageAddress THEN undo'.pages ELSE undo'.nodes
                       IN  IF containsAddrTable(b, saved) THEN findAddrTable(b, saved)
                           ELSE Unsaved
    BY SameLookups
  <2>2. CASE b \in PageAddress
    <3>1. Pending(b)' = IF b = a THEN o ELSE Pending(b)
      BY <1>4, <2>1, <2>2 DEF Pending
    <3>2. Saved(b) = Unsaved <=> ~containsAddrTable(b, undo.pages)
      BY <2>2, Values
    <3>3. Saved(b)' = IF b = a /\ Saved(b) = Unsaved THEN Pending(b) ELSE Saved(b)
      BY <1>5, <2>1, <2>2, <3>2 DEF Pending, Saved
    <3>. QED
      BY <3>1, <3>3
  <2>3. CASE b \notin PageAddress
    BY <1>2, <1>3, <2>1, <2>3 DEF Pending, Saved
  <2>. QED
    BY <2>2, <2>3
<1>8. Marked' = Marked /\ Unmarked' = Unmarked
  BY <1>2, <1>3, SameLookups DEF Marked, Unmarked
<1>. QED
  BY <1>3, <1>6, <1>7, <1>8 DEF Changed

\* So does markNode.
LEMMA NodeMarked ==
  ASSUME Maps, UndoRecord(undo), hashAddress' = hashAddress,
         NEW a \in NodeAddress, NEW o \in Object, markNode(a, o)
  PROVE  Changed(a, o)
<1>1. Hashed(Address) /\ Hashed(PageAddress) /\ Hashed(NodeAddress)
  BY AddressesHashed DEF Maps
<1>2. /\ nodeDirty' = insertAddrTable(a, o, nodeDirty)
      /\ pageDirty' = pageDirty /\ delete' = delete
  BY DEF markNode
<1>3. /\ undo'.nodes = Remember(a, nodeDirty, undo.nodes) /\ undo'.pages = undo.pages
      /\ undo'.deletes = undo.deletes /\ undo'.active = undo.active
      /\ undo'.header = undo.header
  BY DEF markNode, UndoRecord
<1>4. /\ Table(nodeDirty', NodeAddress, Object)
      /\ \A b \in NodeAddress : findAddrTable(b, nodeDirty') =
                                  IF b = a THEN o ELSE findAddrTable(b, nodeDirty)
  BY <1>1, <1>2, InsertIsUpdate DEF Maps
<1>5. /\ Table(undo'.nodes, NodeAddress, Object \union {NULL})
      /\ \A b \in NodeAddress :
           /\ containsAddrTable(b, undo'.nodes) <=> b = a \/ containsAddrTable(b, undo.nodes)
           /\ findAddrTable(b, undo'.nodes) =
                IF b = a /\ ~containsAddrTable(a, undo.nodes) THEN findAddrTable(a, nodeDirty)
                ELSE findAddrTable(b, undo.nodes)
  <2> DEFINE n == Remember(a, nodeDirty, undo.nodes)
  <2>1. /\ Table(n, NodeAddress, Object \union {NULL})
        /\ \A b \in NodeAddress :
             /\ containsAddrTable(b, n) <=> b = a \/ containsAddrTable(b, undo.nodes)
             /\ findAddrTable(b, n) =
                  IF b = a /\ ~containsAddrTable(a, undo.nodes) THEN findAddrTable(a, nodeDirty)
                  ELSE findAddrTable(b, undo.nodes)
    <3> DEFINE W == Object \union {NULL}
               s == undo.nodes
    <3>1. Table(s, NodeAddress, W)
      BY DEF Maps
    <3>2. findAddrTable(a, nodeDirty) \in W
      BY <1>1, FoundValue DEF Maps
    <3>. HIDE DEF W, s, n
    <3>3. n = Remember(a, nodeDirty, s)
      BY DEF n, s
    <3>4. Table(n, NodeAddress, W)
      BY <1>1, <3>1, <3>2, <3>3, Remembered
    <3>5. ASSUME NEW b \in NodeAddress
          PROVE  /\ containsAddrTable(b, n) <=> b = a \/ containsAddrTable(b, s)
                 /\ b = a /\ ~containsAddrTable(a, s) =>
                      findAddrTable(b, n) = findAddrTable(a, nodeDirty)
                 /\ b # a \/ containsAddrTable(a, s) =>
                      findAddrTable(b, n) = findAddrTable(b, s)
      BY <1>1, <3>1, <3>2, <3>3, Remembered
    <3>. QED
      BY <3>4, <3>5 DEF W, s
  <2>2. undo'.nodes = n
    BY <1>3
  <2>. HIDE DEF n
  <2>. QED
    BY <2>1, <2>2
<1>6. Maps'
  BY <1>2, <1>3, <1>4, <1>5, SameTables DEF Maps
<1>7. ASSUME NEW b \in Address
      PROVE  /\ Pending(b)' = IF b = a THEN o ELSE Pending(b)
             /\ Saved(b)' = IF b = a /\ Saved(b) = Unsaved THEN Pending(b) ELSE Saved(b)
  <2>1. /\ Pending(b)' = IF b \in PageAddress THEN findAddrTable(b, pageDirty')
                         ELSE findAddrTable(b, nodeDirty')
        /\ Saved(b)' = LET saved == IF b \in PageAddress THEN undo'.pages ELSE undo'.nodes
                       IN  IF containsAddrTable(b, saved) THEN findAddrTable(b, saved)
                           ELSE Unsaved
    BY SameLookups
  <2>2. CASE b \in NodeAddress
    <3>0. b \notin PageAddress
      BY <2>2, AddressesApart
    <3>1. Pending(b)' = IF b = a THEN o ELSE Pending(b)
      BY <1>4, <2>1, <2>2, <3>0 DEF Pending
    <3>2. Saved(b) = Unsaved <=> ~containsAddrTable(b, undo.nodes)
      BY <2>2, Values
    <3>3. Saved(b)' = IF b = a /\ Saved(b) = Unsaved THEN Pending(b) ELSE Saved(b)
      BY <1>5, <2>1, <2>2, <3>0, <3>2 DEF Pending, Saved
    <3>. QED
      BY <3>1, <3>3
  <2>3. CASE b \notin NodeAddress
    <3>0. b \in PageAddress /\ b # a
      BY <2>3 DEF Address
    <3>. QED
      BY <1>2, <1>3, <2>1, <3>0 DEF Pending, Saved
  <2>. QED
    BY <2>2, <2>3
<1>8. Marked' = Marked /\ Unmarked' = Unmarked
  BY <1>2, <1>3, SameLookups DEF Marked, Unmarked
<1>. QED
  BY <1>3, <1>6, <1>7, <1>8 DEF Changed

\* What marking an object deleted changes.
LEMMA DeleteMarked ==
  ASSUME Maps, UndoRecord(undo), hashAddress' = hashAddress, NEW a \in Address \ Marked,
         undo' = [undo EXCEPT !.deletes = RememberDelete(a)],
         delete' = insertAddrTable(a, NULL, delete),
         pageDirty' = pageDirty, nodeDirty' = nodeDirty
  PROVE  /\ Maps'
         /\ \A b \in Address : Pending(b)' = Pending(b) /\ Saved(b)' = Saved(b)
         /\ Marked' = Marked \union {a} /\ Unmarked' = Unmarked \union {a}
         /\ undo'.active = undo.active /\ undo'.header = undo.header
<1>1. Hashed(Address)
  BY AddressesHashed DEF Maps
<1>2. /\ undo'.pages = undo.pages /\ undo'.nodes = undo.nodes
      /\ undo'.deletes = RememberDelete(a) /\ undo'.active = undo.active
      /\ undo'.header = undo.header
  BY DEF UndoRecord
<1>3. /\ Table(delete', Address, {NULL})
      /\ \A b \in Address : containsAddrTable(b, delete') <=>
                              b = a \/ containsAddrTable(b, delete)
  BY <1>1, InsertIsUpdate DEF Maps
<1>4. /\ Table(undo'.deletes, Address, {FALSE})
      /\ \A b \in Address : containsAddrTable(b, undo'.deletes) <=>
                              b = a \/ containsAddrTable(b, undo.deletes)
  <2>1. CASE containsAddrTable(a, undo.deletes)
    BY <1>2, <2>1 DEF RememberDelete, Maps
  <2>2. CASE ~containsAddrTable(a, undo.deletes)
    <3>1. ~containsAddrTable(a, delete)
      BY DEF Marked
    <3>2. containsAddrTable(a, delete) = FALSE
      BY <3>1 DEF containsAddrTable
    <3> DEFINE no == FALSE
               V == {FALSE}
               d == undo.deletes
    <3>3. undo'.deletes = insertAddrTable(a, no, d)
      BY <1>2, <2>2, <3>2 DEF RememberDelete
    <3>4. no \in V /\ Table(d, Address, V)
      <4>1. no \in V
        BY Zenon
      <4>. QED
        BY <4>1 DEF Maps
    <3>. HIDE DEF no, V, d
    <3>5. /\ Table(undo'.deletes, Address, V)
          /\ \A b \in Address : containsAddrTable(b, undo'.deletes) <=>
                                  b = a \/ containsAddrTable(b, d)
      BY <1>1, <3>3, <3>4, InsertIsUpdate
    <3>. QED
      BY <3>5 DEF V, d
  <2>. QED
    BY <2>1, <2>2
<1>5. Maps'
  BY <1>2, <1>3, <1>4, SameTables DEF Maps
<1>6. ASSUME NEW b \in Address PROVE Pending(b)' = Pending(b) /\ Saved(b)' = Saved(b)
  BY <1>2, SameLookups DEF Pending, Saved
<1>7. Marked' = Marked \union {a}
  BY <1>3, SameLookups DEF Marked
<1>8. Unmarked' = Unmarked \union {a}
  <2>1. Unmarked' = {b \in Address : containsAddrTable(b, undo'.deletes)}
    <3>1. ASSUME NEW b \in Address, containsAddrTable(b, undo'.deletes)
          PROVE  ~findAddrTable(b, undo'.deletes)
      <4>1. findAddrTable(b, undo'.deletes) \in {FALSE}
        BY <1>1, <1>4, <3>1, FoundValue
      <4>. QED
        BY <4>1, Zenon
    <3>. QED
      BY <3>1, SameLookups
  <2>2. Unmarked = {b \in Address : containsAddrTable(b, undo.deletes)}
    BY Values
  <2>. QED
    BY <1>4, <2>1, <2>2
<1>. QED
  BY <1>2, <1>5, <1>6, <1>7, <1>8

\* Nothing is in an empty map.
LEMMA NothingHeld ==
  ASSUME NEW K, NEW V, Hashed(K), NEW C \in Nat, C = 0 \/ C >= FirstCapacity,
         NEW at, at = [entries |-> Slots(C), count |-> 0]
  PROVE  /\ Table(at, K, V)
         /\ \A a \in K : ~containsAddrTable(a, at) /\ findAddrTable(a, at) = NULL
<1>1. Table(at, K, V) /\ Rows(at) = {}
  BY EmptyTable
<1>. QED
  BY <1>1, Lookup

\* Nothing is in a map that was just initialised.
LEMMA NothingInNew ==
  ASSUME NEW K, NEW V, Hashed(K)
  PROVE  /\ Table(initAddrTable, K, V)
         /\ \A a \in K : /\ ~containsAddrTable(a, initAddrTable)
                         /\ findAddrTable(a, initAddrTable) = NULL
BY NothingHeld DEF initAddrTable

\* Nothing is in one that a commit drained.
LEMMA NothingInEmptied ==
  ASSUME NEW K, NEW V, Hashed(K), NEW at, Table(at, K, V)
  PROVE  /\ Table(Emptied(at), K, V)
         /\ \A a \in K : /\ ~containsAddrTable(a, Emptied(at))
                         /\ findAddrTable(a, Emptied(at)) = NULL
BY NothingHeld DEF Emptied, Table

\* The table's maps are empty, and the undo record's.
NoneDirty ==
  /\ \A b \in Address : Pending(b)' = NULL
  /\ Marked' = {}
NoneSaved ==
  /\ \A b \in Address : Saved(b)' = Unsaved
  /\ Unmarked' = {}

\* A table that was closed or applied has nothing pending.
LEMMA MapsEmptied ==
  ASSUME Maps, hashAddress' = hashAddress,
         \/ /\ pageDirty' = initAddrTable /\ nodeDirty' = initAddrTable
            /\ delete' = initAddrTable
         \/ /\ pageDirty' = Emptied(pageDirty) /\ nodeDirty' = Emptied(nodeDirty)
            /\ delete' = Emptied(delete)
  PROVE  /\ Table(pageDirty', PageAddress, Object)
         /\ Table(nodeDirty', NodeAddress, Object)
         /\ Table(delete', Address, {NULL})
         /\ NoneDirty
<1>1. Hashed(Address) /\ Hashed(PageAddress) /\ Hashed(NodeAddress)
  BY AddressesHashed DEF Maps
<1>2. /\ Table(pageDirty', PageAddress, Object)
      /\ \A b \in PageAddress : findAddrTable(b, pageDirty') = NULL
  BY <1>1, NothingInNew, NothingInEmptied DEF Maps
<1>3. /\ Table(nodeDirty', NodeAddress, Object)
      /\ \A b \in NodeAddress : findAddrTable(b, nodeDirty') = NULL
  BY <1>1, NothingInNew, NothingInEmptied DEF Maps
<1>4. /\ Table(delete', Address, {NULL})
      /\ \A b \in Address : ~containsAddrTable(b, delete')
  BY <1>1, NothingInNew, NothingInEmptied DEF Maps
<1>. QED
  BY <1>2, <1>3, <1>4, SameLookups DEF NoneDirty, Address

\* A freed undo record holds nothing.
LEMMA UndoFreed ==
  ASSUME Maps, hashAddress' = hashAddress, undo' = NoUndo(undo.header)
  PROVE  /\ Table(undo'.pages, PageAddress, Object \union {NULL})
         /\ Table(undo'.nodes, NodeAddress, Object \union {NULL})
         /\ Table(undo'.deletes, Address, {FALSE})
         /\ NoneSaved
         /\ undo'.active = FALSE /\ undo'.header = undo.header
<1>1. Hashed(Address) /\ Hashed(PageAddress) /\ Hashed(NodeAddress)
  BY AddressesHashed DEF Maps
<1>2. /\ undo'.pages = initAddrTable /\ undo'.nodes = initAddrTable
      /\ undo'.deletes = initAddrTable /\ undo'.active = FALSE
      /\ undo'.header = undo.header
  BY DEF NoUndo
<1>3. ASSUME NEW b \in Address PROVE Saved(b)' = Unsaved
  <2>1. Saved(b)' = IF containsAddrTable(b, initAddrTable)
                    THEN findAddrTable(b, initAddrTable) ELSE Unsaved
    BY <1>2, SameLookups
  <2>. QED
    BY <1>1, <2>1, NothingInNew
<1>4. Unmarked' = {}
  BY <1>1, <1>2, SameLookups, NothingInNew
<1>. QED
  BY <1>1, <1>2, <1>3, <1>4, NothingInNew DEF NoneSaved

\* The counts say whether there is anything to commit.
LEMMA DirtyTable ==
  ASSUME Maps
  PROVE  isDirty <=> (\E a \in Address : Pending(a) # NULL) \/ Marked # {}
<1>1. Hashed(Address) /\ Hashed(PageAddress) /\ Hashed(NodeAddress)
  BY AddressesHashed DEF Maps
<1>2. pageDirty.count > 0 <=> \E a \in PageAddress : Pending(a) # NULL
  <2>1. pageDirty.count > 0 <=> \E a \in PageAddress : containsAddrTable(a, pageDirty)
    BY <1>1, CountTellsEmpty DEF Maps
  <2>2. ASSUME NEW a \in PageAddress
        PROVE  containsAddrTable(a, pageDirty) <=> Pending(a) # NULL
    <3>1. containsAddrTable(a, pageDirty) <=> findAddrTable(a, pageDirty) # NULL
      BY <1>1, FoundValue, MarkersAssumption DEF Maps
    <3>. QED
      BY <3>1 DEF Pending
  <2>. QED
    BY <2>1, <2>2
<1>3. nodeDirty.count > 0 <=> \E a \in NodeAddress : Pending(a) # NULL
  <2>1. nodeDirty.count > 0 <=> \E a \in NodeAddress : containsAddrTable(a, nodeDirty)
    BY <1>1, CountTellsEmpty DEF Maps
  <2>2. ASSUME NEW a \in NodeAddress
        PROVE  containsAddrTable(a, nodeDirty) <=> Pending(a) # NULL
    <3>1. containsAddrTable(a, nodeDirty) <=> findAddrTable(a, nodeDirty) # NULL
      BY <1>1, FoundValue, MarkersAssumption DEF Maps
    <3>. QED
      BY <3>1, AddressesApart DEF Pending
  <2>. QED
    BY <2>1, <2>2
<1>4. delete.count > 0 <=> Marked # {}
  <2>1. delete.count > 0 <=> \E a \in Address : containsAddrTable(a, delete)
    BY <1>1, CountTellsEmpty DEF Maps
  <2>. QED
    BY <2>1 DEF Marked
<1>. QED
  BY <1>2, <1>3, <1>4 DEF isDirty, Address

\* Draining the maps leaves in the file what a reader of the table saw.
LEMMA ViewDrained ==
  ASSUME Maps, file \in [Address -> Object \union {Unreadable}]
  PROVE  Garbage(delete, Drained(nodeDirty, Drained(pageDirty, file))) =
           [a \in Address |-> View(a)]
<1> DEFINE W == Object \union {Unreadable}
           p == Drained(pageDirty, file)
           n == Drained(nodeDirty, p)
           g == Garbage(delete, n)
<1>1. Hashed(Address) /\ Hashed(PageAddress) /\ Hashed(NodeAddress)
  BY AddressesHashed DEF Maps
<1>2. PageAddress \subseteq Address /\ NodeAddress \subseteq Address
  BY DEF Address
<1>3. file \in [Address -> W] /\ Object \subseteq W /\ Unreadable \in W
  OBVIOUS
<1>4. NULL \notin Object
  BY MarkersAssumption
<1>5. p = [a \in Address |->
             IF a \in PageAddress /\ containsAddrTable(a, pageDirty)
             THEN findAddrTable(a, pageDirty) ELSE file[a]]
  <2>. HIDE DEF W
  <2>. QED
    BY <1>1, <1>2, <1>3, DrainedObjects DEF Maps
<1>6. p \in [Address -> W]
  <2>1. ASSUME NEW a \in PageAddress, containsAddrTable(a, pageDirty)
        PROVE  findAddrTable(a, pageDirty) \in W
    BY <1>1, <2>1, FoundValue DEF Maps
  <2>. HIDE DEF W, p
  <2>. QED
    BY <1>3, <1>5, <2>1
<1>7. n = [a \in Address |->
             IF a \in NodeAddress /\ containsAddrTable(a, nodeDirty)
             THEN findAddrTable(a, nodeDirty) ELSE p[a]]
  <2>1. Table(nodeDirty, NodeAddress, Object) /\ Object \subseteq W
    BY DEF Maps
  <2>. HIDE DEF W, p, n
  <2>2. n = Drained(nodeDirty, p)
    BY DEF n
  <2>3. Drained(nodeDirty, p) =
          [a \in Address |-> IF a \in NodeAddress /\ containsAddrTable(a, nodeDirty)
                             THEN findAddrTable(a, nodeDirty) ELSE p[a]]
    BY <1>1, <1>2, <1>6, <2>1, DrainedObjects
  <2>. QED
    BY <2>2, <2>3
<1>8. n \in [Address -> W]
  <2>1. ASSUME NEW a \in NodeAddress, containsAddrTable(a, nodeDirty)
        PROVE  findAddrTable(a, nodeDirty) \in W
    BY <1>1, <2>1, FoundValue DEF Maps
  <2>. HIDE DEF W, p, n
  <2>. QED
    BY <1>6, <1>7, <2>1
<1>9. g = [a \in Address |->
             IF a \in Address /\ containsAddrTable(a, delete) THEN Unreadable ELSE n[a]]
  <2>1. Table(delete, Address, {NULL}) /\ Address \subseteq Address
    BY DEF Maps
  <2>. HIDE DEF W, n
  <2>. QED
    BY <1>1, <1>3, <1>8, <2>1, GarbageObjects
<1>10. \A a \in PageAddress :
         containsAddrTable(a, pageDirty) <=> findAddrTable(a, pageDirty) # NULL
  BY <1>1, <1>4, FoundValue DEF Maps
<1>11. \A a \in NodeAddress :
         containsAddrTable(a, nodeDirty) <=> findAddrTable(a, nodeDirty) # NULL
  BY <1>1, <1>4, FoundValue DEF Maps
<1>12. ASSUME NEW a \in Address PROVE g[a] = View(a)
  <2>. HIDE DEF p, n, g
  <2>1. n[a] = IF Pending(a) # NULL THEN Pending(a) ELSE file[a]
    <3>1. CASE a \in PageAddress
      <4>1. a \notin NodeAddress
        BY <3>1, AddressesApart
      <4>. QED
        BY <1>5, <1>7, <1>10, <3>1, <4>1 DEF Pending
    <3>2. CASE a \notin PageAddress
      <4>1. a \in NodeAddress
        BY <3>2 DEF Address
      <4>. QED
        BY <1>5, <1>7, <1>11, <3>2, <4>1 DEF Pending
    <3>. QED
      BY <3>1, <3>2
  <2>. QED
    BY <1>9, <2>1 DEF View, Marked
<1>. HIDE DEF g, n
<1>13. g = [a \in Address |-> View(a)]
  BY <1>9, <1>12
<1>. QED
  BY <1>13 DEF g, n

\* A rollback of the maps puts back what the undo record holds.
LEMMA MapsRolledBack ==
  ASSUME Maps, hashAddress' = hashAddress,
         pageDirty' = ForEach(PutBack, pageDirty, undo.pages.entries),
         nodeDirty' = ForEach(PutBack, nodeDirty, undo.nodes.entries),
         delete' = ForEach(Unmark, delete, undo.deletes.entries)
  PROVE  /\ Table(pageDirty', PageAddress, Object)
         /\ Table(nodeDirty', NodeAddress, Object)
         /\ Table(delete', Address, {NULL})
         /\ \A a \in Address :
              Pending(a)' = IF Saved(a) = Unsaved THEN Pending(a) ELSE Saved(a)
         /\ Marked' = Marked \ Unmarked
<1>1. Hashed(Address) /\ Hashed(PageAddress) /\ Hashed(NodeAddress)
  BY AddressesHashed DEF Maps
<1>2. NULL \notin Object
  BY MarkersAssumption
<1>3. /\ Table(pageDirty', PageAddress, Object)
      /\ \A a \in PageAddress : findAddrTable(a, pageDirty') =
           IF containsAddrTable(a, undo.pages) THEN findAddrTable(a, undo.pages)
           ELSE findAddrTable(a, pageDirty)
  <2>1. Table(pageDirty, PageAddress, Object)
        /\ Table(undo.pages, PageAddress, Object \union {NULL})
    BY DEF Maps
  <2>. QED
    BY <1>1, <1>2, <2>1, VersionsPutBack
<1>4. /\ Table(nodeDirty', NodeAddress, Object)
      /\ \A a \in NodeAddress : findAddrTable(a, nodeDirty') =
           IF containsAddrTable(a, undo.nodes) THEN findAddrTable(a, undo.nodes)
           ELSE findAddrTable(a, nodeDirty)
  <2>1. Table(nodeDirty, NodeAddress, Object)
        /\ Table(undo.nodes, NodeAddress, Object \union {NULL})
    BY DEF Maps
  <2>. QED
    BY <1>1, <1>2, <2>1, VersionsPutBack
<1>5. /\ Table(delete', Address, {NULL})
      /\ \A a \in Address : containsAddrTable(a, delete') <=>
           containsAddrTable(a, delete) /\ ~containsAddrTable(a, undo.deletes)
  <2>1. Table(delete, Address, {NULL}) /\ Table(undo.deletes, Address, {FALSE})
    BY DEF Maps
  <2>. QED
    BY <1>1, <2>1, MarksTakenOff
<1>6. ASSUME NEW a \in Address
      PROVE  Pending(a)' = IF Saved(a) = Unsaved THEN Pending(a) ELSE Saved(a)
  <2>1. CASE a \in PageAddress
    <3>1. Pending(a)' = findAddrTable(a, pageDirty')
      BY <2>1, SameLookups
    <3>2. Saved(a) = Unsaved <=> ~containsAddrTable(a, undo.pages)
      BY <2>1, Values
    <3>. QED
      BY <1>3, <2>1, <3>1, <3>2 DEF Pending, Saved
  <2>2. CASE a \notin PageAddress
    <3>0. a \in NodeAddress
      BY <2>2 DEF Address
    <3>1. Pending(a)' = findAddrTable(a, nodeDirty')
      BY <2>2, SameLookups
    <3>2. Saved(a) = Unsaved <=> ~containsAddrTable(a, undo.nodes)
      BY <3>0, Values
    <3>. QED
      BY <1>4, <2>2, <3>0, <3>1, <3>2 DEF Pending, Saved
  <2>. QED
    BY <2>1, <2>2
<1>7. Marked' = Marked \ Unmarked
  <2>1. Marked' = {a \in Address : containsAddrTable(a, delete')}
    BY SameLookups
  <2>2. Unmarked = {a \in Address : containsAddrTable(a, undo.deletes)}
    BY Values
  <2>. QED
    BY <1>5, <2>1, <2>2 DEF Marked
<1>. QED
  BY <1>3, <1>4, <1>5, <1>6, <1>7
-----------------------------------------------------------------------------
(* The maps and the stripes implement those of TableStore.                 *)

AInv ==
  /\ Layout
  /\ Maps
  /\ file \in [Address -> Object \union {Unreadable}]
  /\ Fits(header) /\ Fits(fileHeader) /\ Fits(undo.header)

\* The maps, the cache and the headers of TableStore's state.
LEMMA StoreState ==
  /\ Store!Address = Address
  /\ Store!Nothing = [a \in Address |-> NULL]
  /\ Store!NoChange = [a \in Address |-> Unsaved]
  /\ Store!NoNodes = [a \in NodeAddress |-> NULL]
BY DEF Store!Address, Store!Nothing, Store!NoChange, Store!NoNodes, Address

\* A header has its root and objects among the addresses.
LEMMA HeadersTyped ==
  ASSUME NEW h, Fits(h)
  PROVE  /\ StoreHeader(h) \in Store!Header
         /\ StoreHeader(h).root \in StoreHeader(h).used
         /\ Used(h) \subseteq Address
BY StoreState DEF Fits, StoreHeader, Used, Store!Header, Address

\* A table as createTree leaves it is one of TableStore.
LEMMA InitStore == Init => AInv /\ Store!Init
<1> SUFFICES ASSUME Init PROVE AInv /\ Store!Init
  OBVIOUS
<1>1. Layout
  BY InitLayout
<1>2. /\ hashAddress \in Hash /\ fileHeader = header /\ undo = NoUndo(header)
      /\ header = WithPage(WithNode(EmptyHeader))
      /\ file \in [Address -> Object \union {Unreadable}]
      /\ \A a \in Address : file[a] = Unreadable <=> a \notin Used(header)
      /\ open = FALSE /\ inTxn = FALSE /\ registered = FALSE
      /\ pageDirty = initAddrTable /\ nodeDirty = initAddrTable /\ delete = initAddrTable
  BY DEF Init
<1>. HIDE DEF Init
<1>3. Fits(header) /\ Fits(fileHeader) /\ Fits(undo.header)
  BY <1>2, FirstObjects DEF NoUndo
<1>4. Hashed(Address) /\ Hashed(PageAddress) /\ Hashed(NodeAddress)
  BY <1>2, AddressesHashed
<1>5. /\ undo.pages = initAddrTable /\ undo.nodes = initAddrTable
      /\ undo.deletes = initAddrTable /\ undo.active = FALSE /\ undo.header = header
  BY <1>2 DEF NoUndo
<1>6. Maps
  BY <1>2, <1>4, <1>5, NothingInNew DEF Maps
<1>7. ASSUME NEW a \in Address PROVE Pending(a) = NULL /\ Saved(a) = Unsaved
  <2>1. a \in PageAddress \/ a \in NodeAddress
    BY DEF Address
  <2>2. Pending(a) = findAddrTable(a, initAddrTable)
    BY <1>2 DEF Pending
  <2>3. Saved(a) = IF containsAddrTable(a, initAddrTable)
                   THEN findAddrTable(a, initAddrTable) ELSE Unsaved
    BY <1>5 DEF Saved
  <2>. QED
    BY <1>4, <2>1, <2>2, <2>3, NothingInNew
<1>8. Marked = {} /\ Unmarked = {}
  BY <1>2, <1>4, <1>5, NothingInNew DEF Marked, Unmarked
<1>9. [a \in Address |-> Pending(a)] = Store!Nothing
      /\ [a \in Address |-> Saved(a)] = Store!NoChange
  BY <1>7, StoreState
<1>10. Store!Init
  <2>1. /\ StoreHeader(fileHeader) \in Store!Header
        /\ StoreHeader(fileHeader).root \in StoreHeader(fileHeader).used
    BY <1>3, HeadersTyped
  <2>2. StoreHeader(fileHeader).used = Used(fileHeader)
    BY DEF StoreHeader
  <2>. QED
    BY <1>2, <1>5, <1>8, <1>9, <2>1, <2>2, StoreState DEF Store!Init
<1>. QED
  BY <1>1, <1>2, <1>3, <1>6, <1>10 DEF AInv

\* Marking a page or a node is marking an object.
LEMMA MarkSimulated ==
  ASSUME AInv, NEW a \in Used(header) \ Marked, NEW o \in Object, Working, Changed(a, o),
         header' = header
  PROVE  Store!Mark(a, o)
<1>1. a \in Address
  BY HeadersTyped DEF AInv
<1> DEFINE d == [b \in Address |-> Pending(b)]
           s == [b \in Address |-> Saved(b)]
<1>2. d' = [d EXCEPT ![a] = o]
  BY <1>1 DEF Changed
<1>3. s' = IF s[a] = Unsaved THEN [s EXCEPT ![a] = d[a]] ELSE s
  <2>1. \A b \in Address : s'[b] = IF b = a /\ s[b] = Unsaved THEN d[b] ELSE s[b]
    BY DEF Changed
  <2>2. s' = [b \in Address |-> s'[b]]
    OBVIOUS
  <2>. HIDE DEF s, d
  <2>3. s = [b \in Address |-> s[b]]
    BY DEF s
  <2>. QED
    BY <1>1, <2>1, <2>2, <2>3
<1>4. Store!Remember(a)
  BY <1>3 DEF Store!Remember
<1>. QED
  BY <1>2, <1>4 DEF Store!Mark, Store!disk, Store!txn, Working, Changed, StoreHeader, Used

\* Allocating one and marking it is allocating an object.
LEMMA AllocSimulated ==
  ASSUME AInv, NEW a \in Address \ Used(header), NEW o \in Object, Working, Changed(a, o),
         Used(header') = Used(header) \union {a}, header'.root = header.root
  PROVE  Store!Alloc(a, o)
<1> DEFINE d == [b \in Address |-> Pending(b)]
           s == [b \in Address |-> Saved(b)]
<1>2. d' = [d EXCEPT ![a] = o]
  BY DEF Changed
<1>3. s' = IF s[a] = Unsaved THEN [s EXCEPT ![a] = d[a]] ELSE s
  <2>1. \A b \in Address : s'[b] = IF b = a /\ s[b] = Unsaved THEN d[b] ELSE s[b]
    BY DEF Changed
  <2>2. s' = [b \in Address |-> s'[b]]
    OBVIOUS
  <2>. HIDE DEF s, d
  <2>3. s = [b \in Address |-> s[b]]
    BY DEF s
  <2>. QED
    BY <2>1, <2>2, <2>3
<1>4. Store!Remember(a)
  BY <1>3 DEF Store!Remember
<1>5. StoreHeader(header)' =
        [StoreHeader(header) EXCEPT !.used = StoreHeader(header).used \union {a}]
  BY DEF StoreHeader, Used
<1>. QED
  BY <1>2, <1>4, <1>5 DEF Store!Alloc, Store!disk, Store!txn, Working, Changed, StoreHeader, Used

\* A table that is closed has nothing pending, and its file's header.
LEMMA CloseSimulated ==
  ASSUME AInv, hashAddress' = hashAddress, Close
  PROVE  /\ Store!Close(StoreHeader(fileHeader))
         /\ Table(pageDirty', PageAddress, Object)
         /\ Table(nodeDirty', NodeAddress, Object)
         /\ Table(delete', Address, {NULL})
<1>1. /\ open' = FALSE /\ header' = fileHeader
      /\ pageDirty' = initAddrTable /\ nodeDirty' = initAddrTable
      /\ delete' = initAddrTable
  BY DEF Close
<1>2. /\ Table(pageDirty', PageAddress, Object)
      /\ Table(nodeDirty', NodeAddress, Object)
      /\ Table(delete', Address, {NULL})
      /\ NoneDirty
  BY <1>1, MapsEmptied DEF AInv
<1>3. [a \in Address |-> Pending(a)]' = Store!Nothing /\ Marked' = {}
  BY <1>2, StoreState DEF NoneDirty
<1>4. StoreHeader(header)' = StoreHeader(fileHeader)
  BY <1>1 DEF StoreHeader, Used
<1>. QED
  BY <1>1, <1>2, <1>3, <1>4, StoreState DEF Store!Close

\* A commit is a commit.
LEMMA CommitSimulated ==
  ASSUME AInv, hashAddress' = hashAddress, commitTable
  PROVE  /\ Store!CommitTable
         /\ Table(pageDirty', PageAddress, Object)
         /\ Table(nodeDirty', NodeAddress, Object)
         /\ Table(delete', Address, {NULL})
         /\ file' \in [Address -> Object \union {Unreadable}]
         /\ header' \in {header, fileHeader} /\ fileHeader' \in {header, fileHeader}
<1> DEFINE d == [b \in Address |-> Pending(b)]
<1>1. isDirty <=> Store!IsDirty
  <2>1. d # Store!Nothing <=> \E a \in Address : Pending(a) # NULL
    BY StoreState
  <2>. QED
    BY <2>1, DirtyTable, StoreState DEF AInv, Store!IsDirty
<1>2. header' \in {header, fileHeader} /\ fileHeader' \in {header, fileHeader}
  BY CommitLayout
<1>3. CASE ~isDirty
  <2>1. UNCHANGED <<file, fileHeader, open, header, pageDirty, nodeDirty, delete>>
    BY <1>3 DEF commitTable, maps
  <2>2. \A a \in Address : Pending(a)' = Pending(a)
    BY <2>1, SameLookups DEF Pending
  <2>3. Marked' = Marked
    BY <2>1, SameLookups DEF Marked
  <2>4. d' = d
    BY <2>2
  <2>5. Store!CommitTable
    BY <1>1, <1>3, <2>1, <2>3, <2>4
       DEF Store!CommitTable, Store!disk, Store!memory, StoreHeader, Used
  <2>. QED
    BY <1>2, <2>1, <2>5 DEF AInv, Maps
<1>4. CASE isDirty /\ applyTable
  <2>1. /\ file' = Garbage(delete, Drained(nodeDirty, Drained(pageDirty, file)))
        /\ fileHeader' = header /\ open' = open /\ header' = header
        /\ pageDirty' = Emptied(pageDirty) /\ nodeDirty' = Emptied(nodeDirty)
        /\ delete' = Emptied(delete)
    BY <1>4 DEF applyTable
  <2>2. file' = [a \in Address |-> View(a)]
    BY <2>1, ViewDrained DEF AInv
  <2>3. /\ Table(pageDirty', PageAddress, Object)
        /\ Table(nodeDirty', NodeAddress, Object)
        /\ Table(delete', Address, {NULL})
        /\ NoneDirty
    BY <2>1, MapsEmptied DEF AInv
  <2>4. d' = Store!Nothing /\ Marked' = {}
    BY <2>3, StoreState DEF NoneDirty
  <2>5. ASSUME NEW a \in Address
        PROVE  Store!View(a) = View(a) /\ View(a) \in Object \union {Unreadable}
    <3>1. Pending(a) \in Object \union {NULL}
      BY Values DEF AInv
    <3>. QED
      BY <3>1, StoreState DEF Store!View, View, AInv
  <2>6. file' = [a \in Store!Address |-> Store!View(a)]
    BY <2>2, <2>5, StoreState
  <2>7. Store!Apply
    BY <2>1, <2>4, <2>6, StoreState DEF Store!Apply, StoreHeader, Used
  <2>8. file' \in [Address -> Object \union {Unreadable}]
    BY <2>2, <2>5
  <2>. QED
    BY <1>1, <1>2, <1>4, <2>3, <2>7, <2>8 DEF Store!CommitTable
<1>5. CASE isDirty /\ Close /\ UNCHANGED <<file, fileHeader>>
  <2>1. /\ Store!Close(StoreHeader(fileHeader))
        /\ Table(pageDirty', PageAddress, Object)
        /\ Table(nodeDirty', NodeAddress, Object)
        /\ Table(delete', Address, {NULL})
    BY <1>5, CloseSimulated
  <2>2. Store!CommitTable
    BY <1>1, <1>5, <2>1 DEF Store!CommitTable, Store!disk, StoreHeader, Used
  <2>. QED
    BY <1>2, <1>5, <2>1, <2>2 DEF AInv
<1>. QED
  BY <1>3, <1>4, <1>5 DEF commitTable

\* A statement that ends leaves no undo record.
LEMMA UndoSimulated ==
  ASSUME AInv, hashAddress' = hashAddress, undo' = NoUndo(undo.header)
  PROVE  /\ Store!FreeUndo
         /\ Table(undo'.pages, PageAddress, Object \union {NULL})
         /\ Table(undo'.nodes, NodeAddress, Object \union {NULL})
         /\ Table(undo'.deletes, Address, {FALSE})
         /\ undo'.header = undo.header
<1>1. /\ Table(undo'.pages, PageAddress, Object \union {NULL})
      /\ Table(undo'.nodes, NodeAddress, Object \union {NULL})
      /\ Table(undo'.deletes, Address, {FALSE})
      /\ NoneSaved
      /\ undo'.active = FALSE /\ undo'.header = undo.header
  BY UndoFreed DEF AInv
<1>2. [a \in Address |-> Saved(a)]' = Store!NoChange /\ Unmarked' = {}
  BY <1>1, StoreState DEF NoneSaved
<1>. QED
  BY <1>1, <1>2 DEF Store!FreeUndo, StoreHeader, Used

\* A rollback is a rollback.
LEMMA RollbackSimulated ==
  ASSUME AInv, hashAddress' = hashAddress, rollbackStatement
  PROVE  /\ Store!Rollback
         /\ Table(pageDirty', PageAddress, Object)
         /\ Table(nodeDirty', NodeAddress, Object)
         /\ Table(delete', Address, {NULL})
<1> DEFINE d == [b \in Address |-> Pending(b)]
           s == [b \in Address |-> Saved(b)]
<1>1. /\ pageDirty' = ForEach(PutBack, pageDirty, undo.pages.entries)
      /\ nodeDirty' = ForEach(PutBack, nodeDirty, undo.nodes.entries)
      /\ delete' = ForEach(Unmark, delete, undo.deletes.entries)
      /\ header' = undo.header /\ open' = open
  BY DEF rollbackStatement
<1>2. /\ Table(pageDirty', PageAddress, Object)
      /\ Table(nodeDirty', NodeAddress, Object)
      /\ Table(delete', Address, {NULL})
      /\ \A a \in Address :
           Pending(a)' = IF Saved(a) = Unsaved THEN Pending(a) ELSE Saved(a)
      /\ Marked' = Marked \ Unmarked
  BY <1>1, MapsRolledBack DEF AInv
<1>3. d' = [a \in Store!Address |-> IF s[a] = Unsaved THEN d[a] ELSE s[a]]
  BY <1>2, StoreState
<1>4. Store!Rollback
  BY <1>1, <1>2, <1>3, StoreState DEF Store!Rollback, StoreHeader, Used
<1>. QED
  BY <1>2, <1>4

\* Every step keeps the invariant, and is a step of TableStore or none.
LEMMA NextStore == AInv /\ [Next]_vars => AInv' /\ [Store!Next]_Store!vars
<1> SUFFICES ASSUME AInv, [Next]_vars PROVE AInv' /\ [Store!Next]_Store!vars
  OBVIOUS
<1> SUFFICES /\ Maps'
             /\ file' \in [Address -> Object \union {Unreadable}]
             /\ Fits(header') /\ Fits(fileHeader') /\ Fits(undo'.header)
             /\ [Store!Next]_Store!vars
  <2>1. Layout'
    BY NextLayout DEF AInv
  <2>. QED
    BY <2>1 DEF AInv, Fits
<1>0. /\ Maps /\ UndoRecord(undo) /\ hashAddress \in Hash
      /\ LaidOut(header)
      /\ file \in [Address -> Object \union {Unreadable}]
      /\ Fits(header) /\ Fits(fileHeader) /\ Fits(undo.header)
  BY DEF AInv, Layout, Maps
<1>1. CASE OpenScanner
  <2>1. /\ ~undo.active /\ open' = TRUE /\ registered' = inTxn
        /\ undo' = [undo EXCEPT !.active = TRUE, !.header = header]
        /\ UNCHANGED <<hashAddress, file, fileHeader, header, pageDirty, nodeDirty,
                       delete, inTxn>>
    BY <1>1 DEF OpenScanner, maps
  <2>2. /\ undo'.active = TRUE /\ undo'.header = header
        /\ undo'.pages = undo.pages /\ undo'.nodes = undo.nodes
        /\ undo'.deletes = undo.deletes
    BY <1>0, <2>1 DEF UndoRecord
  <2>3. Maps'
    BY <1>0, <2>1, <2>2, SameTables DEF Maps
  <2>4. \A a \in Address : Pending(a)' = Pending(a) /\ Saved(a)' = Saved(a)
    BY <2>1, <2>2, SameLookups DEF Pending, Saved
  <2>5. Marked' = Marked /\ Unmarked' = Unmarked
    BY <2>1, <2>2, SameLookups DEF Marked, Unmarked
  <2>6. /\ [a \in Address |-> Pending(a)]' = [a \in Address |-> Pending(a)]
        /\ [a \in Address |-> Saved(a)]' = [a \in Address |-> Saved(a)]
    BY <2>4
  <2>7. Store!OpenScanner
    BY <2>1, <2>2, <2>5, <2>6 DEF Store!OpenScanner, Store!disk, StoreHeader, Used
  <2>. QED
    BY <1>0, <2>1, <2>2, <2>3, <2>7 DEF Store!Next
<1>2. CASE ChangePage
  <2>1. PICK a \in header.pages \ Marked, o \in Object :
          Working /\ markPage(a, o) /\ header' = header
    BY <1>2 DEF ChangePage
  <2>2. a \in PageAddress /\ a \in Used(header) \ Marked
    BY <1>0, <2>1 DEF Fits, Used
  <2>3. hashAddress' = hashAddress /\ file' = file /\ fileHeader' = fileHeader
    BY <2>1 DEF Working
  <2>4. Changed(a, o)
    BY <1>0, <2>1, <2>2, <2>3, PageMarked
  <2>5. Store!Mark(a, o)
    BY <2>1, <2>2, <2>4, MarkSimulated
  <2>6. a \in Store!Address
    BY <2>2, StoreState DEF Address
  <2>. QED
    BY <1>0, <2>1, <2>3, <2>4, <2>5, <2>6 DEF Store!Next, Changed
<1>3. CASE ChangeNode
  <2>1. PICK a \in header.nodes \ Marked, o \in Object :
          Working /\ markNode(a, o) /\ header' = header
    BY <1>3 DEF ChangeNode
  <2>2. a \in NodeAddress /\ a \in Used(header) \ Marked
    BY <1>0, <2>1 DEF Fits, Used
  <2>3. hashAddress' = hashAddress /\ file' = file /\ fileHeader' = fileHeader
    BY <2>1 DEF Working
  <2>4. Changed(a, o)
    BY <1>0, <2>1, <2>2, <2>3, NodeMarked
  <2>5. Store!Mark(a, o)
    BY <2>1, <2>2, <2>4, MarkSimulated
  <2>6. a \in Store!Address
    BY <2>2, StoreState DEF Address
  <2>. QED
    BY <1>0, <2>1, <2>3, <2>4, <2>5, <2>6 DEF Store!Next, Changed
<1>4. CASE AddPage
  <2> DEFINE a == PageRoom(header).pageFree
  <2>1. PICK o \in Object : /\ a <= LastAddress /\ Working /\ header' = WithPage(header)
                            /\ markPage(a, o)
    BY <1>4 DEF AddPage
  <2>2. /\ a \in PageAddress /\ a \notin Used(header)
        /\ Used(header') = Used(header) \union {a} /\ header'.root = header.root
        /\ Fits(header')
    BY <1>0, <2>1, PageTaken
  <2>. HIDE DEF a
  <2>3. hashAddress' = hashAddress /\ file' = file /\ fileHeader' = fileHeader
    BY <2>1 DEF Working
  <2>4. Changed(a, o)
    BY <1>0, <2>1, <2>2, <2>3, PageMarked
  <2>5. a \in Address \ Used(header)
    BY <2>2 DEF Address
  <2>6. Store!Alloc(a, o)
    BY <2>1, <2>2, <2>4, <2>5, AllocSimulated
  <2>7. a \in Store!Address
    BY <2>5, StoreState
  <2>. QED
    BY <1>0, <2>2, <2>3, <2>4, <2>6, <2>7 DEF Store!Next, Changed
<1>5. CASE AddNode
  <2> DEFINE a == NodeRoom(header).nodeFree
  <2>1. PICK o \in Object : /\ a <= LastAddress /\ Working /\ header' = WithNode(header)
                            /\ markNode(a, o)
    BY <1>5 DEF AddNode
  <2>2. /\ a \in NodeAddress /\ a \notin Used(header)
        /\ Used(header') = Used(header) \union {a} /\ header'.root = header.root
        /\ Fits(header')
    BY <1>0, <2>1, NodeTaken DEF Fits
  <2>. HIDE DEF a
  <2>3. hashAddress' = hashAddress /\ file' = file /\ fileHeader' = fileHeader
    BY <2>1 DEF Working
  <2>4. Changed(a, o)
    BY <1>0, <2>1, <2>2, <2>3, NodeMarked
  <2>5. a \in Address \ Used(header)
    BY <2>2 DEF Address
  <2>6. Store!Alloc(a, o)
    BY <2>1, <2>2, <2>4, <2>5, AllocSimulated
  <2>7. a \in Store!Address
    BY <2>5, StoreState
  <2>. QED
    BY <1>0, <2>2, <2>3, <2>4, <2>6, <2>7 DEF Store!Next, Changed
<1>6. CASE markDelete
  <2>1. PICK a \in Used(header) \ (Marked \union {header.root}) :
          /\ Working
          /\ undo' = [undo EXCEPT !.deletes = RememberDelete(a)]
          /\ delete' = insertAddrTable(a, NULL, delete)
          /\ header' = header /\ pageDirty' = pageDirty /\ nodeDirty' = nodeDirty
    BY <1>6 DEF markDelete
  <2>2. /\ hashAddress' = hashAddress /\ undo.active /\ file' = file
        /\ fileHeader' = fileHeader /\ open' = open /\ inTxn' = inTxn
        /\ registered' = registered
    BY <2>1 DEF Working
  <2>3. a \in Address \ Marked
    BY <1>0, <2>1, HeadersTyped
  <2>4. /\ Maps'
        /\ \A b \in Address : Pending(b)' = Pending(b) /\ Saved(b)' = Saved(b)
        /\ Marked' = Marked \union {a} /\ Unmarked' = Unmarked \union {a}
        /\ undo'.active = undo.active /\ undo'.header = undo.header
    BY <1>0, <2>1, <2>2, <2>3, DeleteMarked
  <2>5. /\ [b \in Address |-> Pending(b)]' = [b \in Address |-> Pending(b)]
        /\ [b \in Address |-> Saved(b)]' = [b \in Address |-> Saved(b)]
    BY <2>4
  <2>6. Store!MarkDelete(a)
    BY <2>1, <2>2, <2>4, <2>5
       DEF Store!MarkDelete, Store!disk, Store!txn, StoreHeader, Used
  <2>7. a \in Store!Address
    BY <2>3, StoreState
  <2>. QED
    BY <1>0, <2>1, <2>2, <2>4, <2>6, <2>7 DEF Store!Next
<1>7. CASE CloseScanner
  <2>1. /\ undo.active /\ undo' = NoUndo(undo.header)
        /\ UNCHANGED <<hashAddress, inTxn, registered>>
        /\ IF registered
           THEN UNCHANGED <<file, fileHeader, open, header, pageDirty, nodeDirty, delete>>
           ELSE commitTable
    BY <1>7 DEF CloseScanner, maps
  <2>2. /\ Store!FreeUndo
        /\ Table(undo'.pages, PageAddress, Object \union {NULL})
        /\ Table(undo'.nodes, NodeAddress, Object \union {NULL})
        /\ Table(undo'.deletes, Address, {FALSE})
        /\ undo'.header = undo.header
    BY <2>1, UndoSimulated
  <2>3. CASE registered
    <3>1. Maps'
      BY <1>0, <2>1, <2>2, <2>3, SameTables DEF Maps
    <3>2. \A a \in Address : Pending(a)' = Pending(a)
      BY <2>1, <2>3, SameLookups DEF Pending
    <3>3. Marked' = Marked
      BY <2>1, <2>3, SameLookups DEF Marked
    <3>4. [a \in Address |-> Pending(a)]' = [a \in Address |-> Pending(a)]
      BY <3>2
    <3>5. Store!EndInTxn
      BY <2>1, <2>2, <2>3, <3>3, <3>4
         DEF Store!EndInTxn, Store!disk, Store!memory, Store!txn, StoreHeader, Used
    <3>. QED
      BY <1>0, <2>1, <2>2, <2>3, <3>1, <3>5 DEF Store!Next
  <2>4. CASE ~registered
    <3>1. /\ Store!CommitTable
          /\ Table(pageDirty', PageAddress, Object)
          /\ Table(nodeDirty', NodeAddress, Object)
          /\ Table(delete', Address, {NULL})
          /\ file' \in [Address -> Object \union {Unreadable}]
          /\ header' \in {header, fileHeader} /\ fileHeader' \in {header, fileHeader}
      BY <2>1, <2>4, CommitSimulated
    <3>2. Maps'
      BY <1>0, <2>1, <2>2, <3>1, SameTables
    <3>3. Store!EndAndCommit
      BY <2>1, <2>2, <2>4, <3>1 DEF Store!EndAndCommit, Store!txn
    <3>. QED
      BY <1>0, <2>2, <3>1, <3>2, <3>3 DEF Store!Next
  <2>. QED
    BY <2>3, <2>4
<1>8. CASE AbortStatement
  <2>1. /\ undo.active /\ undo' = NoUndo(undo.header)
        /\ UNCHANGED <<hashAddress, file, fileHeader, inTxn, registered>>
        /\ IF registered THEN rollbackStatement ELSE Close
    BY <1>8 DEF AbortStatement
  <2>2. /\ Store!FreeUndo
        /\ Table(undo'.pages, PageAddress, Object \union {NULL})
        /\ Table(undo'.nodes, NodeAddress, Object \union {NULL})
        /\ Table(undo'.deletes, Address, {FALSE})
        /\ undo'.header = undo.header
    BY <2>1, UndoSimulated
  <2>3. CASE registered
    <3>1. /\ Store!Rollback
          /\ Table(pageDirty', PageAddress, Object)
          /\ Table(nodeDirty', NodeAddress, Object)
          /\ Table(delete', Address, {NULL})
      BY <2>1, <2>3, RollbackSimulated
    <3>2. Maps'
      BY <1>0, <2>1, <2>2, <3>1, SameTables
    <3>3. header' = undo.header
      BY <2>1, <2>3 DEF rollbackStatement
    <3>4. Store!AbortStatement
      BY <2>1, <2>2, <2>3, <3>1
         DEF Store!AbortStatement, Store!disk, Store!txn, StoreHeader, Used
    <3>. QED
      BY <1>0, <2>1, <2>2, <3>2, <3>3, <3>4 DEF Store!Next
  <2>4. CASE ~registered
    <3>1. /\ Store!Close(StoreHeader(fileHeader))
          /\ Table(pageDirty', PageAddress, Object)
          /\ Table(nodeDirty', NodeAddress, Object)
          /\ Table(delete', Address, {NULL})
      BY <2>1, <2>4, CloseSimulated
    <3>2. Maps'
      BY <1>0, <2>1, <2>2, <3>1, SameTables
    <3>3. header' = fileHeader
      BY <2>1, <2>4 DEF Close
    <3>4. Store!AbortStatement
      BY <2>1, <2>2, <2>4, <3>1
         DEF Store!AbortStatement, Store!disk, Store!txn, StoreHeader, Used
    <3>. QED
      BY <1>0, <2>1, <2>2, <3>2, <3>3, <3>4 DEF Store!Next
  <2>. QED
    BY <2>3, <2>4
<1>9. ASSUME UNCHANGED <<hashAddress, file, fileHeader, header, open, pageDirty, nodeDirty,
                         delete, undo>>
      PROVE  /\ Maps'
             /\ file' \in [Address -> Object \union {Unreadable}]
             /\ Fits(header') /\ Fits(fileHeader') /\ Fits(undo'.header)
             /\ UNCHANGED <<Store!disk, Store!memory, Store!undo>>
  <2>1. Maps'
    BY <1>0, <1>9, SameTables DEF Maps
  <2>2. \A a \in Address : Pending(a)' = Pending(a) /\ Saved(a)' = Saved(a)
    BY <1>9, SameLookups DEF Pending, Saved
  <2>3. Marked' = Marked /\ Unmarked' = Unmarked
    BY <1>9, SameLookups DEF Marked, Unmarked
  <2>4. /\ [a \in Address |-> Pending(a)]' = [a \in Address |-> Pending(a)]
        /\ [a \in Address |-> Saved(a)]' = [a \in Address |-> Saved(a)]
    BY <2>2
  <2>. QED
    BY <1>0, <1>9, <2>1, <2>3, <2>4
       DEF Store!disk, Store!memory, Store!undo, StoreHeader, Used
<1>10. CASE BeginTransaction
  <2>1. /\ ~undo.active /\ ~inTxn /\ inTxn' = TRUE /\ registered' = registered
        /\ UNCHANGED <<hashAddress, file, fileHeader, header, open, pageDirty, nodeDirty,
                       delete, undo>>
    BY <1>10 DEF BeginTransaction, maps
  <2>2. Store!BeginTransaction
    BY <1>9, <2>1 DEF Store!BeginTransaction
  <2>. QED
    BY <1>9, <2>1, <2>2 DEF Store!Next
<1>11. CASE Commit
  <2>1. /\ ~undo.active /\ inTxn /\ inTxn' = FALSE /\ registered' = FALSE
        /\ UNCHANGED <<hashAddress, undo>>
        /\ IF registered THEN commitTable
           ELSE UNCHANGED <<file, fileHeader, open, header, pageDirty, nodeDirty, delete>>
    BY <1>11 DEF Commit, maps
  <2>2. CASE registered
    <3>1. /\ Store!CommitTable
          /\ Table(pageDirty', PageAddress, Object)
          /\ Table(nodeDirty', NodeAddress, Object)
          /\ Table(delete', Address, {NULL})
          /\ file' \in [Address -> Object \union {Unreadable}]
          /\ header' \in {header, fileHeader} /\ fileHeader' \in {header, fileHeader}
      BY <2>1, <2>2, CommitSimulated
    <3>2. Maps'
      BY <1>0, <2>1, <3>1, SameTables DEF Maps
    <3>3. /\ \A a \in Address : Saved(a)' = Saved(a)
          /\ Unmarked' = Unmarked
      BY <2>1, SameLookups DEF Saved, Unmarked
    <3>4. [a \in Address |-> Saved(a)]' = [a \in Address |-> Saved(a)]
      BY <3>3
    <3>5. Store!Commit
      BY <2>1, <2>2, <3>1, <3>3, <3>4 DEF Store!Commit, Store!undo, StoreHeader, Used
    <3>. QED
      BY <1>0, <2>1, <3>1, <3>2, <3>5 DEF Store!Next
  <2>3. CASE ~registered
    <3>1. Store!Commit
      BY <1>9, <2>1, <2>3 DEF Store!Commit
    <3>. QED
      BY <1>9, <2>1, <2>3, <3>1 DEF Store!Next
  <2>. QED
    BY <2>2, <2>3
<1>12. CASE Discard
  <2>1. /\ ~undo.active /\ inTxn /\ inTxn' = FALSE /\ registered' = FALSE
        /\ UNCHANGED <<hashAddress, file, fileHeader, undo>>
        /\ IF registered THEN Close
           ELSE UNCHANGED <<open, header, pageDirty, nodeDirty, delete>>
    BY <1>12 DEF Discard, maps
  <2>2. CASE registered
    <3>1. /\ Store!Close(StoreHeader(fileHeader))
          /\ Table(pageDirty', PageAddress, Object)
          /\ Table(nodeDirty', NodeAddress, Object)
          /\ Table(delete', Address, {NULL})
      BY <2>1, <2>2, CloseSimulated
    <3>2. Maps'
      BY <1>0, <2>1, <3>1, SameTables DEF Maps
    <3>3. /\ \A a \in Address : Saved(a)' = Saved(a)
          /\ Unmarked' = Unmarked
      BY <2>1, SameLookups DEF Saved, Unmarked
    <3>4. [a \in Address |-> Saved(a)]' = [a \in Address |-> Saved(a)]
      BY <3>3
    <3>5. header' = fileHeader
      BY <2>1, <2>2 DEF Close
    <3>6. Store!Discard
      BY <2>1, <2>2, <3>1, <3>3, <3>4
         DEF Store!Discard, Store!disk, Store!undo, StoreHeader, Used
    <3>. QED
      BY <1>0, <2>1, <3>2, <3>5, <3>6 DEF Store!Next
  <2>3. CASE ~registered
    <3>1. Store!Discard
      BY <1>9, <2>1, <2>3 DEF Store!Discard
    <3>. QED
      BY <1>9, <2>1, <2>3, <3>1 DEF Store!Next
  <2>. QED
    BY <2>2, <2>3
<1>13. CASE UNCHANGED vars
  <2>1. /\ UNCHANGED <<hashAddress, file, fileHeader, header, open, pageDirty, nodeDirty,
                       delete, undo>>
        /\ UNCHANGED <<inTxn, registered>>
    BY <1>13 DEF vars, maps
  <2>2. UNCHANGED Store!vars
    BY <1>9, <2>1 DEF Store!vars, Store!txn
  <2>. QED
    BY <1>9, <2>1, <2>2
<1>. QED
  BY <1>1, <1>2, <1>3, <1>4, <1>5, <1>6, <1>7, <1>8, <1>10, <1>11, <1>12, <1>13 DEF Next

(***************************************************************************)
(* At every moment the dirty maps, the delete marks and the undo record    *)
(* are hash tables in which probing finds every entry, that are at most    *)
(* four fifths full and count their entries, and every address the header  *)
(* has handed out is one of the layout (addr_table in tableIO.c).          *)
(***************************************************************************)
THEOREM MapsStaySound == ASpec => []AInv
BY InitStore, NextStore, PTL DEF ASpec

(***************************************************************************)
(* The hash tables and the stripes are the maps and the set of addresses   *)
(* of TableStore, for every geometry of the file, every hash of the        *)
(* addresses and any number of changes: no entry is lost behind a hole,    *)
(* kept or brought back by growing, removing or putting back, and an       *)
(* address handed out again is free (tableIO.c).                           *)
(***************************************************************************)
THEOREM AddressesImplementTableStore == ASpec => ImplementsTableStore
BY InitStore, NextStore, MapsStaySound, PTL DEF ASpec, ImplementsTableStore, Store!Spec
=============================================================================
