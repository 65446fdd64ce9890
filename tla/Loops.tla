-------------------------------- MODULE Loops -------------------------------
(***************************************************************************)
(* Counting and loops, for the proofs: what holds at 0 and is kept by each *)
(* step holds all along, and a function that is defined from its value one *)
(* step before has one.                                                    *)
(***************************************************************************)
EXTENDS Integers, NaturalsInduction, WellFoundedInduction, TLAPS

\* Counting on from what holds at 0.
LEMMA Counting ==
  ASSUME NEW T, 0 \in T, \A n \in Nat \ {0} : n - 1 \in T => n \in T
  PROVE  Nat \subseteq T
<1>1. ASSUME NEW n \in Nat, n \notin T PROVE FALSE
  <2> DEFINE F == Nat \ T
  <2>1. PICK m \in F : \A y \in F : <<y, m>> \notin OpToRel(<, Nat)
    <3>1. F \subseteq Nat /\ F # {}
      BY <1>1
    <3>. HIDE DEF F
    <3>. QED
      BY <3>1, NatLessThanWellFounded, WFMin, Zenon
  <2>2. m \in Nat /\ m - 1 \in F
    <3>1. m \in Nat /\ m \notin T /\ m # 0
      OBVIOUS
    <3>2. m - 1 \in Nat /\ m - 1 \notin T
      BY <3>1
    <3>. QED
      BY <3>1, <3>2
  <2>3. <<m - 1, m>> \in OpToRel(<, Nat)
    BY <2>2 DEF OpToRel
  <2>. QED
    BY <2>1, <2>2, <2>3
<1>. QED
  BY <1>1

\* The same up to n.
LEMMA CountingUpTo ==
  ASSUME NEW n \in Nat, NEW T, 0 \in T, \A i \in 1 .. n : i - 1 \in T => i \in T
  PROVE  0 .. n \subseteq T
<1> DEFINE U == {i \in Nat : i <= n => i \in T}
<1>1. 0 \in U
  BY 0 \in Nat
<1>2. ASSUME NEW i \in Nat \ {0}, i - 1 \in U PROVE i \in U
  BY <1>2
<1>. HIDE DEF U
<1>3. Nat \subseteq U
  BY <1>1, <1>2, Counting
<1>. QED
  BY <1>3 DEF U

\* A set of numbers has a least one.
LEMMA LeastNumber ==
  ASSUME NEW S \in SUBSET Nat, S # {}
  PROVE  \E m \in S : \A n \in S : m <= n
<1>1. PICK m \in S : \A y \in S : <<y, m>> \notin OpToRel(<, Nat)
  BY NatLessThanWellFounded, WFMin, Zenon
<1>2. ASSUME NEW n \in S PROVE m <= n
  <2>1. m \in Nat /\ n \in Nat
    OBVIOUS
  <2>2. CASE n < m
    <3>1. <<n, m>> \in OpToRel(<, Nat)
      BY <2>1, <2>2 DEF OpToRel
    <3>. QED
      BY <1>1, <3>1
  <2>. QED
    BY <2>1, <2>2
<1>. QED
  BY <1>2

\* What a loop of n steps goes through.
Steps(n, S) == [1 .. n -> [S -> S]]
Runs(f, n, S, start, step) ==
  /\ f \in [0 .. n -> S] /\ f[0] = start
  /\ \A i \in 1 .. n : f[i] = step[i][f[i - 1]]

\* So a loop of n steps has its states, one for each step taken.
LEMMA Iteration ==
  ASSUME NEW n \in Nat, NEW S, NEW start \in S, NEW step \in Steps(n, S)
  PROVE  \E f : Runs(f, n, S, start, step)
<1> DEFINE Goes(f, m) == /\ f \in [0 .. m -> S] /\ f[0] = start
                         /\ \A i \in 1 .. m : f[i] = step[i][f[i - 1]]
           T == {m \in 0 .. n : \E f : Goes(f, m)}
<1>1. 0 \in T
  <2>1. Goes([i \in 0 .. 0 |-> start], 0)
    OBVIOUS
  <2>. HIDE DEF Goes
  <2>. QED
    BY <2>1
<1>2. ASSUME NEW m \in 1 .. n, m - 1 \in T PROVE m \in T
  <2>1. PICK f : Goes(f, m - 1)
    BY <1>2
  <2> DEFINE g == [i \in 0 .. m |-> IF i = m THEN step[m][f[m - 1]] ELSE f[i]]
  <2>2. f[m - 1] \in S /\ step[m] \in [S -> S]
    BY <2>1 DEF Steps
  <2>3. step[m][f[m - 1]] \in S
    BY <2>2
  <2>4. g \in [0 .. m -> S]
    BY <2>1, <2>3
  <2>5. ASSUME NEW i \in 1 .. m PROVE g[i] = step[i][g[i - 1]]
    BY <2>1
  <2>6. g[0] = start
    BY <2>1
  <2>7. Goes(g, m)
    BY <2>4, <2>5, <2>6
  <2>. HIDE DEF Goes, g
  <2>. QED
    BY <2>7
<1>. HIDE DEF Goes, T
<1>3. 0 .. n \subseteq T
  BY <1>1, <1>2, CountingUpTo
<1>4. n \in T
  BY <1>3
<1>. QED
  BY <1>4 DEF T, Goes, Runs

\* A function that is defined by the steps of a loop is what it goes through.
LEMMA Unwound ==
  ASSUME NEW n \in Nat, NEW S, NEW start \in S, NEW step \in Steps(n, S),
         NEW g, g = [i \in 0 .. n |-> g[i]], g[0] = start,
         \A i \in 1 .. n : g[i - 1] \in S => g[i] = step[i][g[i - 1]]
  PROVE  Runs(g, n, S, start, step)
<1> DEFINE T == {i \in 0 .. n : g[i] \in S}
<1>1. 0 \in T
  OBVIOUS
<1>2. ASSUME NEW i \in 1 .. n, i - 1 \in T PROVE i \in T
  <2>1. g[i - 1] \in S /\ step[i] \in [S -> S]
    BY <1>2 DEF Steps
  <2>2. g[i] = step[i][g[i - 1]]
    BY <2>1
  <2>. QED
    BY <2>1, <2>2
<1>3. 0 .. n \subseteq T
  <2>. HIDE DEF T
  <2>. QED
    BY <1>1, <1>2, CountingUpTo
<1>4. \A i \in 0 .. n : g[i] \in S
  BY <1>3
<1>5. g \in [0 .. n -> S]
  BY <1>4
<1>6. \A i \in 1 .. n : g[i] = step[i][g[i - 1]]
  BY <1>4, \A i \in 1 .. n : i - 1 \in 0 .. n
<1>. QED
  BY <1>5, <1>6 DEF Runs
=============================================================================
