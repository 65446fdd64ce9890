-------------------------- MODULE BPlusTreeBalance --------------------------
(***************************************************************************)
(* How the B+ tree is kept in balance: a page is filed in a leaf, full     *)
(* nodes are divided from the topmost down (balanceTreeAdd), a node that   *)
(* has too few children borrows one or is merged with a sibling, and the   *)
(* root collapses, level by level (balanceTreeDelete).                     *)
(***************************************************************************)
EXTENDS BPlusTreeShape

(***************************************************************************)
(* A page is filed in a leaf.                                              *)
(***************************************************************************)
\* Sequence r is s with e put in at i.
InsertedAt(s, i, e, r) ==
  /\ i \in 1 .. (Len(s) + 1) /\ Len(r) = Len(s) + 1
  /\ \A m \in 1 .. (Len(s) + 1) : r[m] = IF m < i THEN s[m] ELSE IF m = i THEN e ELSE s[m - 1]

LEMMA InsertAtIs ==
  ASSUME NEW S, NEW s \in Seq(S), NEW e \in S, NEW i \in 1 .. (Len(s) + 1)
  PROVE  InsertAt(s, i, e) \in Seq(S) /\ InsertedAt(s, i, e, InsertAt(s, i, e))
<1> DEFINE r == InsertAt(s, i, e)
<1>1. /\ r \in Seq(S) /\ Len(r) = Len(s) + 1
      /\ \A m \in 1 .. (Len(s) + 1) : r[m] = IF m < i THEN s[m] ELSE IF m = i THEN e ELSE s[m - 1]
  BY InsertAtItems
<1>. HIDE DEF r
<1>2. InsertedAt(s, i, e, r)
  BY <1>1 DEF InsertedAt
<1>. QED
  BY <1>1, <1>2 DEF r

LEMMA InsertedOnce ==
  ASSUME NEW s, NEW i, NEW e, NEW r, Len(s) \in Nat, InsertedAt(s, i, e, r),
         \A x, y \in 1 .. Len(s) : s[x] = s[y] => x = y, \A x \in 1 .. Len(s) : s[x] # e
  PROVE  \A x, y \in 1 .. Len(r) : r[x] = r[y] => x = y
<1> DEFINE l == Len(s)
           Old(x) == IF x < i THEN x ELSE x - 1
<1>1. l \in Nat /\ i \in 1 .. (l + 1) /\ Len(r) = l + 1
  BY DEF InsertedAt
<1>2. ASSUME NEW x \in 1 .. (l + 1), x # i PROVE Old(x) \in 1 .. l /\ r[x] = s[Old(x)]
  <2>1. Old(x) \in 1 .. l
    BY <1>1, <1>2
  <2>2. r[x] = IF x < i THEN s[x] ELSE IF x = i THEN e ELSE s[x - 1]
    BY <1>2 DEF InsertedAt
  <2>. QED
    BY <1>2, <2>1, <2>2
<1>3. r[i] = e
  BY <1>1 DEF InsertedAt
<1>4. ASSUME NEW x \in 1 .. (l + 1), NEW y \in 1 .. (l + 1), Old(x) = Old(y), x # i, y # i PROVE x = y
  BY <1>1, <1>4
<1>. HIDE DEF Old, l
<1>5. ASSUME NEW x \in 1 .. (l + 1), NEW y \in 1 .. (l + 1), r[x] = r[y] PROVE x = y
  <2>1. CASE x # i /\ y # i
    <3>1. s[Old(x)] = s[Old(y)] /\ Old(x) \in 1 .. l /\ Old(y) \in 1 .. l
      BY <1>2, <1>5, <2>1, Zenon
    <3>2. Old(x) = Old(y)
      BY <3>1 DEF l
    <3>. QED
      BY <1>4, <1>5, <2>1, <3>2
  <2>2. CASE x = i /\ y # i
    <3>1. s[Old(y)] = e /\ Old(y) \in 1 .. l
      BY <1>2, <1>3, <1>5, <2>2, Zenon
    <3>. QED
      BY <3>1 DEF l
  <2>3. CASE x # i /\ y = i
    <3>1. s[Old(x)] = e /\ Old(x) \in 1 .. l
      BY <1>2, <1>3, <1>5, <2>3, Zenon
    <3>. QED
      BY <3>1 DEF l
  <2>. QED
    BY <2>1, <2>2, <2>3
<1>. QED
  BY <1>1, <1>5

\* A node with other arrays, and another largest key.
Rearranged(n, m, C, Q, k) ==
  /\ m \in NodeType /\ m.leaf = n.leaf /\ m.kids = C /\ m.keys = Q /\ m.max = k
  /\ m.parent = n.parent /\ m.prev = n.prev /\ m.next = n.next

LEMMA Rearrayed ==
  ASSUME NEW n \in NodeType, NEW C \in Seq(Nat \ {0}), NEW Q \in Seq(Key), NEW k \in Key
  PROVE  /\ Rearranged(n, [n EXCEPT !.kids = C, !.keys = Q], C, Q, n.max)
         /\ Rearranged(n, [n EXCEPT !.kids = C, !.keys = Q, !.max = k], C, Q, k)
BY DEF NodeType, Rearranged

\* The leaf at a becomes n.
EditedTo(t, v, a, n) ==
  /\ Edited(t, v, a) /\ v.page = t.page /\ v.node[a] = n
  /\ Kids(v, a) = n.kids /\ Keys(v, a) = n.keys /\ Top(v, a) = n.max

LEMMA EditedBy ==
  ASSUME NEW t, Typed(t), NEW a \in Nodes(t), Leaf(t, a), NEW n \in NodeType,
         n.leaf = t.node[a].leaf, n.parent = t.node[a].parent, n.prev = t.node[a].prev, n.next = t.node[a].next
  PROVE  EditedTo(t, MarkNode(t, a, n), a, n)
<1> DEFINE v == MarkNode(t, a, n)
<1>1. /\ Typed(v) /\ Nodes(v) = Nodes(t) /\ v.root = t.root /\ v.page = t.page
      /\ v.node[a] = n /\ \A x \in Nodes(t) : x # a => v.node[x] = t.node[x]
  BY Stored
<1>. HIDE DEF v
<1>2. EditedTo(t, v, a, n)
  BY <1>1 DEF EditedTo, Edited, Leaf, Up, Kids, Keys, Top
<1>. QED
  BY <1>2 DEF v

\* A leaf changed and no page: what has to be shown of the leaf.
LEMMA LeafKeeps ==
  ASSUME NEW t, NEW v, NEW a, NEW n, NEW lv, NEW lo, NEW nx, NEW loose, NEW loose2,
         Good(t, lv, lo, nx, loose, 0), EditedTo(t, v, a, n), FiledAt(v, lo, a),
         nx[a] # 0 => Top(v, a) <= lo[nx[a]], Placed(v, loose2)
  PROVE  /\ Good(v, lv, lo, nx, loose2, a)
         /\ Top(v, a) <= Top(t, a) => Good(v, lv, lo, nx, loose2, 0)
<1>1. Edited(t, v, a) /\ v.page = t.page
  BY DEF EditedTo
<1>2. PagesKept(t, v, a)
  BY <1>1 DEF PagesKept, Good, Filed
<1>. QED
  BY <1>1, <1>2, EditKeeps

\* One leaf has one more page.
Grown(t, v, a) ==
  /\ Nodes(v) = Nodes(t) /\ v.root = t.root /\ v.page = t.page
  /\ \A x \in Nodes(t) : /\ Leaf(v, x) = Leaf(t, x)
                         /\ Len(Kids(v, x)) = IF x = a THEN Len(Kids(t, x)) + 1 ELSE Len(Kids(t, x))

\* Where page pg, filed under k, belongs in the leaf at a.
Belongs(t, lo, nx, a, k, pg) ==
  LET i == FirstAbove(Keys(t, a), k) IN
  /\ a \in Nodes(t) /\ Leaf(t, a) /\ k \in Key /\ pg \in DOMAIN t.page
  /\ (nx[a] # 0 => k <= lo[nx[a]]) /\ LoAt(t, lo, a, i) < k
  /\ \A j \in DOMAIN t.page[pg] : LoAt(t, lo, a, i) < j /\ j <= k
  /\ i <= Len(Kids(t, a)) => \A j \in DOMAIN t.page[Kids(t, a)[i]] : k < j

LEMMA InsertPageKeeps ==
  ASSUME NEW t, NEW lv, NEW lo, NEW nx, NEW a, NEW k, NEW pg,
         Good(t, lv, lo, nx, {pg}, 0), Belongs(t, lo, nx, a, k, pg)
  PROVE  LET v == InsertPage(t, t.node[a], a, k, pg) IN
         Good(v, lv, lo, nx, {}, 0) /\ Grown(t, v, a) /\ k <= Top(v, a)
<1> DEFINE i == FirstAbove(Keys(t, a), k)
           n == t.node[a]
           C == InsertAt(n.kids, i, pg)
           Q == InsertAt(n.keys, i, k)
           m1 == [n EXCEPT !.kids = C, !.keys = Q]
           m2 == [n EXCEPT !.kids = C, !.keys = Q, !.max = k]
           u1 == MarkNode(t, a, m1)
           u2 == MarkNode(t, a, m2)
           v == InsertPage(t, t.node[a], a, k, pg)
<1>1. /\ a \in Nodes(t) /\ Leaf(t, a) /\ k \in Key /\ pg \in DOMAIN t.page
      /\ (nx[a] # 0 => k <= lo[nx[a]]) /\ LoAt(t, lo, a, i) < k
      /\ \A j \in DOMAIN t.page[pg] : LoAt(t, lo, a, i) < j /\ j <= k
      /\ i <= Len(Kids(t, a)) => \A j \in DOMAIN t.page[Kids(t, a)[i]] : k < j
  BY DEF Belongs
<1>2. Typed(t) /\ Arrays(t) /\ Filed(t, lo) /\ Placed(t, {pg}) /\ Bounds(t, lo, 0)
  BY DEF Good
<1>3. n \in NodeType /\ Kids(t, a) = n.kids /\ Keys(t, a) = n.keys /\ Top(t, a) = n.max
  BY <1>1, <1>2, TypedParts DEF Kids, Keys, Top
<1>4. k \in Nat /\ pg \in Nat \ {0}
  BY <1>1, <1>2, KeyAssumption, TypedParts
<1> DEFINE l == Len(Kids(t, a))
<1>5. /\ l \in Nat /\ l >= 1 /\ Len(Keys(t, a)) = l /\ Keys(t, a) \in Seq(Key) /\ Keys(t, a) \in Seq(Nat)
      /\ Kids(t, a) \in Seq(Nat \ {0}) /\ Top(t, a) \in Nat
      /\ \A j \in 1 .. l : Keys(t, a)[j] \in Nat /\ Kids(t, a)[j] \in Nat \ {0}
  BY <1>1, <1>2, NodeFields, GhostTypes
<1>6. AboveAt(Keys(t, a), k, i)
  BY <1>4, <1>5, FirstAboveIs
<1>7. v = IF i <= Len(n.kids) THEN u1 ELSE PropagateMaxKeyUp(u2, a, k)
  <2>1. v = IF i <= Len(n.kids) THEN MarkNode(t, a, [n EXCEPT !.keys = InsertAt(@, i, k), !.kids = InsertAt(@, i, pg)])
            ELSE PropagateMaxKeyUp(MarkNode(t, a, [[n EXCEPT !.keys = InsertAt(@, i, k), !.kids = InsertAt(@, i, pg)] EXCEPT !.max = k]), a, k)
    BY DEF InsertPage, Keys
  <2>2. [n EXCEPT !.keys = InsertAt(@, i, k), !.kids = InsertAt(@, i, pg)] = m1
    BY <1>3 DEF NodeType
  <2>3. [[n EXCEPT !.keys = InsertAt(@, i, k), !.kids = InsertAt(@, i, pg)] EXCEPT !.max = k] = m2
    BY <1>3 DEF NodeType
  <2>. QED
    BY <2>1, <2>2, <2>3
<1>. HIDE DEF i, n, v
<1>8. i \in 1 .. (l + 1) /\ (i <= l => Keys(t, a)[i] > k) /\ \A j \in 1 .. l : j < i => Keys(t, a)[j] <= k
  BY <1>5, <1>6 DEF AboveAt
<1>15. C \in Seq(Nat \ {0}) /\ InsertedAt(Kids(t, a), i, pg, C)
  <2>1. i \in 1 .. (Len(Kids(t, a)) + 1)
    BY <1>8
  <2>2. Kids(t, a) \in Seq(Nat \ {0})
    BY <1>5
  <2>3. InsertAt(Kids(t, a), i, pg) \in Seq(Nat \ {0}) /\ InsertedAt(Kids(t, a), i, pg, InsertAt(Kids(t, a), i, pg))
    BY <1>4, <2>1, <2>2, InsertAtIs
  <2>. QED
    BY <1>3, <2>3
<1>16. Q \in Seq(Key) /\ InsertedAt(Keys(t, a), i, k, Q)
  <2>1. i \in 1 .. (Len(Keys(t, a)) + 1)
    BY <1>5, <1>8
  <2>2. Keys(t, a) \in Seq(Key)
    BY <1>5
  <2>3. InsertAt(Keys(t, a), i, k) \in Seq(Key) /\ InsertedAt(Keys(t, a), i, k, InsertAt(Keys(t, a), i, k))
    BY <1>1, <2>1, <2>2, InsertAtIs
  <2>. QED
    BY <1>3, <2>3
<1>. HIDE DEF C, Q, l
<1>9. /\ C \in Seq(Nat \ {0}) /\ Len(C) = l + 1
      /\ \A j \in 1 .. (l + 1) : C[j] = IF j < i THEN Kids(t, a)[j] ELSE IF j = i THEN pg ELSE Kids(t, a)[j - 1]
  BY <1>15 DEF InsertedAt, l
<1>10. /\ Q \in Seq(Key) /\ Len(Q) = l + 1
       /\ \A j \in 1 .. (l + 1) : Q[j] = IF j < i THEN Keys(t, a)[j] ELSE IF j = i THEN k ELSE Keys(t, a)[j - 1]
  BY <1>5, <1>16 DEF InsertedAt
\* The page was not filed.
<1>11. \A j \in 1 .. l : Kids(t, a)[j] # pg
  BY <1>1, <1>2 DEF Placed, l
\* What both cases have in common.
<1>12. ASSUME NEW u, NEW m, EditedTo(t, u, a, m), m.kids = C, m.keys = Q, m.max \in Nat,
              \A j \in 1 .. (l + 1) : Q[j] <= m.max
       PROVE  FiledAt(u, lo, a) /\ Placed(u, {}) /\ Grown(t, u, a)
  <2>1. /\ Edited(t, u, a) /\ u.page = t.page /\ Kids(u, a) = C /\ Keys(u, a) = Q /\ Top(u, a) = m.max
    BY <1>12 DEF EditedTo
  <2>2. /\ Nodes(u) = Nodes(t) /\ u.root = t.root /\ \A x \in Nodes(t) : Leaf(u, x) = Leaf(t, x)
        /\ \A x \in Nodes(t) : x # a => Kids(u, x) = Kids(t, x)
    BY <2>1, EditFacts
  <2>3. FiledAt(u, lo, a)
    <3>1. ASSUME NEW j \in 1 .. (l + 1), NEW j2 \in 1 .. (l + 1), C[j] = C[j2] PROVE j = j2
      <4>1. \A x, y \in 1 .. Len(Kids(t, a)) : Kids(t, a)[x] = Kids(t, a)[y] => x = y
        BY <1>1, <1>2 DEF Arrays
      <4>2. \A x \in 1 .. Len(Kids(t, a)) : Kids(t, a)[x] # pg
        BY <1>11 DEF l
      <4>3. Len(Kids(t, a)) \in Nat
        BY <1>5 DEF l
      <4>4. \A x, y \in 1 .. Len(C) : C[x] = C[y] => x = y
        BY <1>15, <4>1, <4>2, <4>3, InsertedOnce
      <4>. QED
        BY <1>9, <3>1, <4>4
    <3>2. ASSUME NEW j \in 1 .. (l + 1)
          PROVE  /\ C[j] \in DOMAIN u.page
                 /\ LoAt(u, lo, a, j) < Q[j]
                 /\ \A x \in DOMAIN u.page[C[j]] : LoAt(u, lo, a, j) < x /\ x <= Q[j]
      <4>1. LoAt(u, lo, a, j) = IF j = 1 THEN lo[a] ELSE Q[j - 1]
        BY <2>1 DEF LoAt
      <4>2. ASSUME NEW y \in 1 .. l
            PROVE  /\ Kids(t, a)[y] \in DOMAIN t.page /\ LoAt(t, lo, a, y) < Keys(t, a)[y]
                   /\ \A x \in DOMAIN t.page[Kids(t, a)[y]] : LoAt(t, lo, a, y) < x /\ x <= Keys(t, a)[y]
        BY <1>1, <1>2, <4>2 DEF Filed, l
      <4>3. j > 1 => j - 1 \in 1 .. (l + 1)
        BY <1>5
      <4>4. CASE j < i
        <5>1. j \in 1 .. l /\ C[j] = Kids(t, a)[j] /\ Q[j] = Keys(t, a)[j]
          BY <1>5, <1>8, <1>9, <1>10, <4>4
        <5>2. j # 1 => Q[j - 1] = Keys(t, a)[j - 1]
          <6>1. j # 1 => j - 1 \in 1 .. (l + 1) /\ j - 1 < i
            BY <1>5, <1>8, <4>4
          <6>. QED
            BY <1>10, <6>1
        <5>3. LoAt(u, lo, a, j) = LoAt(t, lo, a, j)
          BY <4>1, <5>2 DEF LoAt
        <5>. QED
          BY <2>1, <4>2, <5>1, <5>3
      <4>5. CASE j = i
        <5>1. C[j] = pg /\ Q[j] = k
          BY <1>9, <1>10, <4>5
        <5>2. j # 1 => Q[j - 1] = Keys(t, a)[j - 1]
          <6>1. j # 1 => j - 1 \in 1 .. (l + 1) /\ j - 1 < i
            BY <1>5, <1>8, <4>5
          <6>. QED
            BY <1>10, <6>1
        <5>3. LoAt(u, lo, a, j) = LoAt(t, lo, a, i)
          BY <4>1, <4>5, <5>2 DEF LoAt
        <5>. QED
          BY <1>1, <2>1, <5>1, <5>3
      <4>6. CASE j > i
        <5>1. j - 1 \in 1 .. l /\ C[j] = Kids(t, a)[j - 1] /\ Q[j] = Keys(t, a)[j - 1] /\ j # 1
          BY <1>5, <1>8, <1>9, <1>10, <4>6
        <5>2. CASE j = i + 1
          <6>1. i <= l /\ j - 1 = i /\ Q[j - 1] = k
            BY <1>5, <1>8, <1>10, <5>2
          <6>2. LoAt(u, lo, a, j) = k
            BY <4>1, <5>1, <6>1
          <6>3. C[j] = Kids(t, a)[i] /\ Q[j] = Keys(t, a)[i] /\ i \in 1 .. l
            BY <5>1, <6>1
          <6>4. Keys(t, a)[i] > k /\ \A x \in DOMAIN t.page[Kids(t, a)[i]] : k < x
            BY <1>1, <1>8, <6>1 DEF l
          <6>5. k < Keys(t, a)[i]
            BY <1>4, <1>5, <6>3, <6>4
          <6>6. /\ Kids(t, a)[i] \in DOMAIN t.page
                /\ \A x \in DOMAIN t.page[Kids(t, a)[i]] : x <= Keys(t, a)[i]
            BY <4>2, <6>3
          <6>. QED
            BY <2>1, <6>2, <6>3, <6>4, <6>5, <6>6
        <5>3. CASE j > i + 1
          <6>1. j - 1 \in 1 .. (l + 1) /\ j - 1 > i /\ (j - 1) # 1
            BY <1>5, <1>8, <5>1, <5>3
          <6>2. Q[j - 1] = Keys(t, a)[(j - 1) - 1]
            BY <1>8, <1>10, <6>1
          <6>3. LoAt(u, lo, a, j) = LoAt(t, lo, a, j - 1)
            BY <4>1, <5>1, <6>1, <6>2 DEF LoAt
          <6>. QED
            BY <2>1, <4>2, <5>1, <6>3
        <5>. QED
          BY <1>8, <4>6, <5>2, <5>3
      <4>. QED
        BY <1>8, <4>4, <4>5, <4>6
    <3>3. Len(Kids(u, a)) = l + 1 /\ Len(Keys(u, a)) = l + 1 /\ l + 1 >= 1
      BY <1>5, <1>9, <1>10, <2>1
    <3>. QED
      BY <1>12, <2>1, <3>1, <3>2, <3>3 DEF FiledAt
  <2>4. Placed(u, {})
    <3>1. ASSUME NEW x \in Nodes(t), Leaf(t, x), NEW j \in 1 .. Len(Kids(u, x))
          PROVE  \/ x = a /\ Kids(u, x)[j] = pg
                 \/ \E y \in 1 .. Len(Kids(t, x)) : Kids(u, x)[j] = Kids(t, x)[y]
      <4>1. CASE x = a
        <5>1. j \in 1 .. (l + 1) /\ Kids(u, x)[j] = C[j]
          BY <1>9, <2>1, <3>1, <4>1
        <5>2. j < i => j \in 1 .. l
          BY <1>5, <1>8, <5>1
        <5>3. j > i => j - 1 \in 1 .. l
          BY <1>5, <1>8, <5>1
        <5>4. j < i \/ j = i \/ j > i
          BY <1>5, <1>8, <5>1
        <5>. QED
          BY <1>8, <1>9, <4>1, <5>1, <5>2, <5>3, <5>4 DEF l
      <4>2. CASE x # a
        BY <2>2, <3>1, <4>2
      <4>. QED
        BY <4>1, <4>2
    <3>2. \A x \in Nodes(t) : Leaf(t, x) => \A y \in 1 .. Len(Kids(t, x)) : Kids(t, x)[y] # pg
      BY <1>1, <1>2 DEF Placed
    <3>3. ASSUME NEW x \in Nodes(u), NEW y \in Nodes(u), Leaf(u, x), Leaf(u, y),
                 NEW j \in 1 .. Len(Kids(u, x)), NEW j2 \in 1 .. Len(Kids(u, y)), Kids(u, x)[j] = Kids(u, y)[j2]
          PROVE  x = y
      <4>1. x \in Nodes(t) /\ y \in Nodes(t) /\ Leaf(t, x) /\ Leaf(t, y)
        BY <2>2, <3>3
      <4>2. CASE x = a /\ Kids(u, x)[j] = pg
        BY <3>1, <3>2, <3>3, <4>1, <4>2
      <4>3. CASE y = a /\ Kids(u, y)[j2] = pg
        BY <3>1, <3>2, <3>3, <4>1, <4>3
      <4>4. CASE /\ \E z \in 1 .. Len(Kids(t, x)) : Kids(u, x)[j] = Kids(t, x)[z]
                 /\ \E z \in 1 .. Len(Kids(t, y)) : Kids(u, y)[j2] = Kids(t, y)[z]
        BY <1>2, <3>3, <4>1, <4>4 DEF Placed
      <4>. QED
        BY <3>1, <3>3, <4>1, <4>2, <4>3, <4>4
    <3>4. ASSUME NEW g \in DOMAIN u.page
          PROVE  \E x \in Nodes(u) : Leaf(u, x) /\ \E j \in 1 .. Len(Kids(u, x)) : Kids(u, x)[j] = g
      <4>1. CASE g = pg
        <5>1. i \in 1 .. Len(Kids(u, a)) /\ Kids(u, a)[i] = pg
          BY <1>8, <1>9, <2>1
        <5>. QED
          BY <1>1, <2>2, <4>1, <5>1
      <4>2. CASE g # pg
        <5>1. PICK x \in Nodes(t) : Leaf(t, x) /\ \E y \in 1 .. Len(Kids(t, x)) : Kids(t, x)[y] = g
          BY <1>2, <2>1, <3>4, <4>2 DEF Placed
        <5>2. PICK y \in 1 .. Len(Kids(t, x)) : Kids(t, x)[y] = g
          BY <5>1
        <5>3. CASE x # a
          BY <2>2, <5>1, <5>2, <5>3
        <5>4. CASE x = a
          <6>1. y \in 1 .. l /\ Kids(t, a)[y] = g
            BY <5>2, <5>4 DEF l
          <6>2. CASE y < i
            <7>1. y \in 1 .. Len(Kids(u, a)) /\ Kids(u, a)[y] = g
              BY <1>5, <1>9, <2>1, <6>1, <6>2
            <7>. QED
              BY <1>1, <2>2, <7>1
          <6>3. CASE ~(y < i)
            <7>1. y + 1 \in 1 .. (l + 1) /\ ~(y + 1 < i) /\ y + 1 # i /\ (y + 1) - 1 = y
              BY <1>5, <1>8, <6>1, <6>3
            <7>2. C[y + 1] = g
              BY <1>9, <6>1, <7>1
            <7>3. y + 1 \in 1 .. Len(Kids(u, a)) /\ Kids(u, a)[y + 1] = g
              BY <1>9, <2>1, <7>1, <7>2
            <7>. QED
              BY <1>1, <2>2, <7>3
          <6>. QED
            BY <6>2, <6>3
        <5>. QED
          BY <5>3, <5>4
      <4>. QED
        BY <4>1, <4>2
    <3>. QED
      BY <3>3, <3>4 DEF Placed
  <2>5. Grown(t, u, a)
    BY <1>9, <2>1, <2>2 DEF Grown, l
  <2>. QED
    BY <2>3, <2>4, <2>5
<1>13. CASE i <= l
  <2>1. v = u1
    BY <1>3, <1>7, <1>13 DEF l
  <2>2. /\ m1 \in NodeType /\ m1.leaf = n.leaf /\ m1.kids = C /\ m1.keys = Q /\ m1.max = n.max
        /\ m1.parent = n.parent /\ m1.prev = n.prev /\ m1.next = n.next
    <3>1. Rearranged(n, m1, C, Q, n.max)
      BY <1>1, <1>3, <1>9, <1>10, Rearrayed
    <3>. HIDE DEF m1
    <3>. QED
      BY <3>1 DEF Rearranged
  <2>. HIDE DEF m1
  <2>3. EditedTo(t, v, a, m1)
    BY <1>1, <1>2, <2>1, <2>2, EditedBy DEF n
  <2>10. k <= Top(t, a)
    <3>1. \A y \in 1 .. l : Keys(t, a)[y] <= Top(t, a)
      BY <1>1, <1>2 DEF Filed, l
    <3>2. i \in 1 .. l
      BY <1>8, <1>13
    <3>. QED
      BY <1>4, <1>5, <1>8, <1>13, <3>1, <3>2
  <2>4. \A j \in 1 .. (l + 1) : Q[j] <= m1.max
    <3>1. \A y \in 1 .. l : Keys(t, a)[y] <= Top(t, a)
      BY <1>1, <1>2 DEF Filed, l
    <3>4. ASSUME NEW j \in 1 .. (l + 1) PROVE Q[j] <= Top(t, a)
      <4>1. CASE j < i
        <5>1. j \in 1 .. l
          BY <1>5, <1>8, <4>1
        <5>. QED
          BY <1>10, <3>1, <4>1, <5>1
      <4>2. CASE j = i
        BY <1>10, <2>10, <4>2
      <4>3. CASE j > i
        <5>1. j - 1 \in 1 .. l /\ ~(j < i) /\ j # i
          BY <1>5, <1>8, <4>3
        <5>. QED
          BY <1>10, <3>1, <5>1
      <4>. QED
        BY <1>8, <4>1, <4>2, <4>3
    <3>. QED
      BY <1>3, <2>2, <3>4
  <2>5. FiledAt(v, lo, a) /\ Placed(v, {}) /\ Grown(t, v, a)
    <3>1. m1.max \in Nat
      BY <1>3, <1>5, <2>2
    <3>. QED
      BY <1>12, <2>2, <2>3, <2>4, <3>1
  <2>6. Top(v, a) = Top(t, a)
    BY <1>3, <2>2, <2>3 DEF EditedTo
  <2>7. nx[a] # 0 => Top(v, a) <= lo[nx[a]]
    BY <1>1, <2>6 DEF Good, Ordered
  <2>8. Top(v, a) <= Top(t, a)
    BY <1>5, <2>6
  <2>9. Good(v, lv, lo, nx, {}, 0)
    BY <2>3, <2>5, <2>7, <2>8, LeafKeeps
  <2>. QED
    BY <2>5, <2>6, <2>9, <2>10 DEF v
<1>14. CASE ~(i <= l)
  <2>1. v = PropagateMaxKeyUp(u2, a, k)
    BY <1>3, <1>7, <1>14 DEF l
  <2>2. /\ m2 \in NodeType /\ m2.leaf = n.leaf /\ m2.kids = C /\ m2.keys = Q /\ m2.max = k
        /\ m2.parent = n.parent /\ m2.prev = n.prev /\ m2.next = n.next
    <3>1. Rearranged(n, m2, C, Q, k)
      BY <1>1, <1>3, <1>9, <1>10, Rearrayed
    <3>. HIDE DEF m2
    <3>. QED
      BY <3>1 DEF Rearranged
  <2>3. EditedTo(t, u2, a, m2)
    <3>. HIDE DEF m2
    <3>. QED
      BY <1>1, <1>2, <2>2, EditedBy DEF n
  <2>. HIDE DEF m2, u2
  <2>4. \A j \in 1 .. (l + 1) : Q[j] <= m2.max
    <3>1. ASSUME NEW j \in 1 .. (l + 1) PROVE Q[j] <= k
      <4>1. i = l + 1
        BY <1>5, <1>8, <1>14
      <4>2. CASE j = l + 1
        BY <1>4, <1>10, <4>1, <4>2
      <4>3. CASE j # l + 1
        <5>1. j \in 1 .. l /\ j < i
          BY <1>5, <4>1, <4>3
        <5>. QED
          BY <1>8, <1>10, <5>1
      <4>. QED
        BY <4>2, <4>3
    <3>. QED
      BY <2>2, <3>1
  <2>5. FiledAt(u2, lo, a) /\ Placed(u2, {}) /\ Grown(t, u2, a)
    BY <1>4, <1>12, <2>2, <2>3, <2>4
  <2>6. Top(u2, a) = k
    BY <2>2, <2>3 DEF EditedTo
  <2>7. nx[a] # 0 => Top(u2, a) <= lo[nx[a]]
    BY <1>1, <2>6
  <2>8. Good(u2, lv, lo, nx, {}, a)
    BY <2>3, <2>5, <2>7, LeafKeeps
  <2>9. a \in Nodes(u2)
    BY <1>1, <2>5 DEF Grown
  <2>10. /\ Good(v, lv, lo, nx, {}, 0) /\ Alike(u2, v)
         /\ \A x \in Nodes(u2) : lv[x] <= lv[a] => v.node[x] = u2.node[x]
    BY <2>1, <2>6, <2>8, <2>9, PropagateKeeps
  <2>12. k <= Top(v, a)
    <3>1. lv[a] \in Nat
      BY <1>1, GhostTypes
    <3>2. v.node[a] = u2.node[a]
      BY <2>9, <2>10, <3>1
    <3>. QED
      BY <1>4, <2>6, <3>2 DEF Top
  <2>11. Grown(t, v, a)
    BY <2>5, <2>10 DEF Grown, Alike
  <2>. QED
    BY <2>10, <2>11, <2>12 DEF v
<1>. QED
  BY <1>13, <1>14

(***************************************************************************)
(* A node is split.                                                        *)
(***************************************************************************)
\* The parts of splitNode: how many children stay, the halves, the tree with
\* the moved children and the next leaf changed, and the two ways to file the
\* new node in the parent.
Keep(t, a) == Len(t.node[a].kids) - Len(t.node[a].kids) \div 2

RightHalf(t, a, c) ==
  [t.node[a] EXCEPT !.kids = SubSeq(t.node[a].kids, c + 1, Len(t.node[a].kids)),
                    !.keys = SubSeq(t.node[a].keys, c + 1, Len(t.node[a].keys)),
                    !.prev = IF t.node[a].leaf THEN a ELSE 0]

LeftHalf(t, a, b, c) ==
  [t.node[a] EXCEPT !.kids = SubSeq(t.node[a].kids, 1, c),
                    !.keys = SubSeq(t.node[a].keys, 1, IF t.node[a].leaf THEN c ELSE c - 1),
                    !.next = IF t.node[a].leaf THEN b ELSE 0,
                    !.max  = IF t.node[a].leaf THEN t.node[a].keys[c]
                             ELSE t.node[t.node[a].kids[c]].max]

MovedKids(t, a, b, c) ==
  IF t.node[a].leaf THEN t ELSE Adopt(t, ToSet(RightHalf(t, a, c).kids), b)

Rechained(t, a, b, c) ==
  IF t.node[a].next = 0 THEN MovedKids(t, a, b, c)
  ELSE MarkNode(MovedKids(t, a, b, c), t.node[a].next,
                [MovedKids(t, a, b, c).node[t.node[a].next] EXCEPT !.prev = b])

LEMMA SplitNodeIs ==
  ASSUME NEW t, NEW a, NEW b, b = FreeAddress(DOMAIN t.node), NEW c, c = Keep(t, a)
  PROVE  SplitNode(t, a) =
           [tree |-> Over(SplitUpdateParent(Rechained(t, a, b, c), RightHalf(t, a, c), b, t.node[a].keys[c]),
                          a, LeftHalf(t, a, b, c), b, RightHalf(t, a, c)),
            new |-> b]
<1>1. SplitNode(t, a) =
        [tree |-> Over(SplitUpdateParent(Rechained(t, a, FreeAddress(DOMAIN t.node), Keep(t, a)), RightHalf(t, a, Keep(t, a)),
                                         FreeAddress(DOMAIN t.node), t.node[a].keys[Keep(t, a)]),
                       a, LeftHalf(t, a, FreeAddress(DOMAIN t.node), Keep(t, a)),
                       FreeAddress(DOMAIN t.node), RightHalf(t, a, Keep(t, a))),
         new |-> FreeAddress(DOMAIN t.node)]
  BY DEF SplitNode, Over, Keep, RightHalf, LeftHalf, MovedKids, Rechained
<1>. QED
  BY <1>1, Zenon

\* What the halves are.
Halves(t, a, b, c, l, r) ==
  /\ l \in NodeType /\ r \in NodeType /\ l.leaf = Leaf(t, a) /\ r.leaf = Leaf(t, a)
  /\ l.parent = Up(t, a) /\ r.parent = Up(t, a)
  /\ l.prev = t.node[a].prev /\ r.prev = (IF Leaf(t, a) THEN a ELSE 0)
  /\ l.next = (IF Leaf(t, a) THEN b ELSE 0) /\ r.next = t.node[a].next
  /\ r.max = Top(t, a) /\ l.max = (IF Leaf(t, a) THEN Keys(t, a)[c] ELSE Top(t, Kids(t, a)[c]))
  /\ Len(l.kids) = c /\ \A j \in 1 .. c : l.kids[j] = Kids(t, a)[j]
  /\ Len(r.kids) = Len(Kids(t, a)) - c
  /\ \A j \in 1 .. (Len(Kids(t, a)) - c) : r.kids[j] = Kids(t, a)[c + j]
  /\ Len(l.keys) = (IF Leaf(t, a) THEN c ELSE c - 1)
  /\ \A j \in 1 .. Len(l.keys) : l.keys[j] = Keys(t, a)[j]
  /\ Len(r.keys) = Len(Keys(t, a)) - c
  /\ \A j \in 1 .. (Len(Keys(t, a)) - c) : r.keys[j] = Keys(t, a)[c + j]

LEMMA HalvesAre ==
  ASSUME NEW t, NEW lv, NEW lo, NEW nx, NEW loose, NEW a, NEW b \in Nat, NEW c,
         Good(t, lv, lo, nx, loose, 0), a \in Nodes(t), c \in 1 .. (Len(Kids(t, a)) - 1)
  PROVE  Halves(t, a, b, c, LeftHalf(t, a, b, c), RightHalf(t, a, c))
<1> DEFINE n == t.node[a]
           m == Len(Kids(t, a))
           C1 == SubSeq(Kids(t, a), 1, c)
           C2 == SubSeq(Kids(t, a), c + 1, m)
           e == IF Leaf(t, a) THEN c ELSE c - 1
           Q1 == SubSeq(Keys(t, a), 1, e)
           Q2 == SubSeq(Keys(t, a), c + 1, Len(Keys(t, a)))
           x == IF Leaf(t, a) THEN Keys(t, a)[c] ELSE Top(t, Kids(t, a)[c])
           l == LeftHalf(t, a, b, c)
           r == RightHalf(t, a, c)
<1>1. /\ Typed(t) /\ n \in NodeType /\ Kids(t, a) \in Seq(Nat \ {0}) /\ Keys(t, a) \in Seq(Key)
      /\ m \in Nat /\ Len(Keys(t, a)) \in Nat /\ Leaf(t, a) \in BOOLEAN
      /\ Len(Keys(t, a)) = IF Leaf(t, a) THEN m ELSE m - 1
      /\ \A i \in 1 .. Len(Keys(t, a)) : Keys(t, a)[i] \in Key
      /\ \A i \in 1 .. m : ~Leaf(t, a) => Kids(t, a)[i] \in Nodes(t)
      /\ a \in Nat
  <2>1. Typed(t)
    BY DEF Good
  <2>. QED
    BY <2>1, NodeFields, GhostTypes, TypedParts
<1>2. c \in Nat /\ c >= 1 /\ c < m
  BY <1>1
<1>3. /\ C1 \in Seq(Nat \ {0}) /\ Len(C1) = c /\ \A j \in 1 .. c : C1[j] = Kids(t, a)[j]
  <2>1. /\ C1 \in Seq(Nat \ {0}) /\ Len(C1) = c - 1 + 1
        /\ \A j \in 1 .. (c - 1 + 1) : C1[j] = Kids(t, a)[1 + j - 1]
    BY <1>1, <1>2, SubSeqItems
  <2>. HIDE DEF C1
  <2>. QED
    BY <1>2, <2>1
<1>4. /\ C2 \in Seq(Nat \ {0}) /\ Len(C2) = m - c /\ \A j \in 1 .. (m - c) : C2[j] = Kids(t, a)[c + j]
  <2>1. c + 1 \in Nat \ {0} /\ c + 1 <= m + 1 /\ m <= Len(Kids(t, a))
    BY <1>1, <1>2
  <2>2. /\ C2 \in Seq(Nat \ {0}) /\ Len(C2) = m - (c + 1) + 1
        /\ \A j \in 1 .. (m - (c + 1) + 1) : C2[j] = Kids(t, a)[(c + 1) + j - 1]
    BY <1>1, <2>1, SubSeqItems
  <2>. HIDE DEF C2, m
  <2>3. m - (c + 1) + 1 = m - c /\ \A j \in 1 .. (m - c) : (c + 1) + j - 1 = c + j
    BY <1>1, <1>2
  <2>. QED
    BY <2>2, <2>3
<1>5. e \in Nat /\ e <= Len(Keys(t, a)) /\ (Leaf(t, a) => e = c) /\ (~Leaf(t, a) => e = c - 1)
  BY <1>1, <1>2
<1>6. /\ Q1 \in Seq(Key) /\ Len(Q1) = e /\ \A j \in 1 .. e : Q1[j] = Keys(t, a)[j]
  <2>. HIDE DEF e
  <2>1. /\ Q1 \in Seq(Key) /\ Len(Q1) = e - 1 + 1
        /\ \A j \in 1 .. (e - 1 + 1) : Q1[j] = Keys(t, a)[1 + j - 1]
    BY <1>1, <1>5, SubSeqItems
  <2>. HIDE DEF Q1
  <2>. QED
    BY <1>5, <2>1
<1>7. /\ Q2 \in Seq(Key) /\ Len(Q2) = Len(Keys(t, a)) - c
      /\ \A j \in 1 .. (Len(Keys(t, a)) - c) : Q2[j] = Keys(t, a)[c + j]
  <2> DEFINE k == Len(Keys(t, a))
  <2>1. c + 1 \in Nat \ {0} /\ c + 1 <= k + 1 /\ k <= Len(Keys(t, a)) /\ k \in Nat
    BY <1>1, <1>2
  <2>2. /\ Q2 \in Seq(Key) /\ Len(Q2) = k - (c + 1) + 1
        /\ \A j \in 1 .. (k - (c + 1) + 1) : Q2[j] = Keys(t, a)[(c + 1) + j - 1]
    BY <1>1, <2>1, SubSeqItems
  <2>. HIDE DEF Q2, k
  <2>3. k - (c + 1) + 1 = k - c /\ \A j \in 1 .. (k - c) : (c + 1) + j - 1 = c + j
    BY <1>2, <2>1
  <2>4. Len(Q2) = k - c /\ \A j \in 1 .. (k - c) : Q2[j] = Keys(t, a)[c + j]
    BY <2>2, <2>3
  <2>. QED
    BY <2>2, <2>4 DEF k
<1>8. x \in Key
  <2>1. CASE Leaf(t, a)
    <3>1. c \in 1 .. Len(Keys(t, a))
      BY <1>1, <1>2, <2>1
    <3>. QED
      BY <1>1, <2>1, <3>1
  <2>2. CASE ~Leaf(t, a)
    <3>1. c \in 1 .. m
      BY <1>1, <1>2
    <3>2. Kids(t, a)[c] \in Nodes(t)
      BY <1>1, <2>2, <3>1
    <3>. QED
      BY <1>1, <2>2, <3>2, NodeFields
  <2>. QED
    BY <2>1, <2>2
<1>9. l = [n EXCEPT !.kids = C1, !.keys = Q1, !.next = IF Leaf(t, a) THEN b ELSE 0, !.max = x]
  BY DEF LeftHalf, Leaf, Kids, Keys, Top
<1>10. r = [n EXCEPT !.kids = C2, !.keys = Q2, !.prev = IF Leaf(t, a) THEN a ELSE 0]
  BY DEF RightHalf, Leaf, Kids, Keys
<1>11. n.leaf = Leaf(t, a) /\ n.parent = Up(t, a) /\ n.max = Top(t, a)
  BY DEF Leaf, Up, Top
<1>. HIDE DEF C1, C2, Q1, Q2, x, l, r, n
<1>12. /\ l \in NodeType /\ l.leaf = Leaf(t, a) /\ l.parent = Up(t, a) /\ l.prev = n.prev
       /\ l.next = (IF Leaf(t, a) THEN b ELSE 0) /\ l.max = x /\ l.kids = C1 /\ l.keys = Q1
  BY <1>1, <1>3, <1>6, <1>8, <1>9, <1>11 DEF NodeType
<1>13. /\ r \in NodeType /\ r.leaf = Leaf(t, a) /\ r.parent = Up(t, a) /\ r.next = n.next
       /\ r.prev = (IF Leaf(t, a) THEN a ELSE 0) /\ r.max = Top(t, a) /\ r.kids = C2 /\ r.keys = Q2
  BY <1>1, <1>4, <1>7, <1>10, <1>11 DEF NodeType
<1>14. Halves(t, a, b, c, l, r)
  <2>1. l.max = (IF Leaf(t, a) THEN Keys(t, a)[c] ELSE Top(t, Kids(t, a)[c]))
    BY <1>12 DEF x
  <2>2. Len(l.keys) = (IF Leaf(t, a) THEN c ELSE c - 1) /\ \A j \in 1 .. Len(l.keys) : l.keys[j] = Keys(t, a)[j]
    BY <1>6, <1>12 DEF e
  <2>. QED
    BY <1>3, <1>4, <1>7, <1>12, <1>13, <2>1, <2>2 DEF Halves, n, m
<1>. QED
  BY <1>14 DEF l, r

\* In y the children after the c-th of the node at a have b for a parent, and
\* the leaf after it has b before it.
Rehung(t, y, a, b, c) ==
  /\ Formed(y) /\ y.root = t.root /\ y.page = t.page /\ IsMap(y.node) /\ Nodes(y) = Nodes(t)
  /\ \A x \in Nodes(t) :
       /\ y.node[x] \in NodeType
       /\ Leaf(y, x) = Leaf(t, x) /\ Kids(y, x) = Kids(t, x) /\ Keys(y, x) = Keys(t, x) /\ Top(y, x) = Top(t, x)
       /\ y.node[x].next = t.node[x].next
       /\ y.node[x].prev = IF Leaf(t, a) /\ x = t.node[a].next THEN b ELSE t.node[x].prev
       /\ Leaf(t, a) \/ (\A j \in (c + 1) .. Len(Kids(t, a)) : Kids(t, a)[j] # x) => Up(y, x) = Up(t, x)
  /\ ~Leaf(t, a) => \A j \in (c + 1) .. Len(Kids(t, a)) : Up(y, Kids(t, a)[j]) = b

LEMMA RehungIs ==
  ASSUME NEW t, NEW lv, NEW lo, NEW nx, NEW loose, NEW a, NEW b \in Nat, NEW c,
         Good(t, lv, lo, nx, loose, 0), a \in Nodes(t), c \in 1 .. (Len(Kids(t, a)) - 1)
  PROVE  Rehung(t, Rechained(t, a, b, c), a, b, c)
<1> DEFINE n == t.node[a]
           m == Len(Kids(t, a))
           r == RightHalf(t, a, c)
           A == ToSet(r.kids)
           s == MovedKids(t, a, b, c)
           y == Rechained(t, a, b, c)
<1>1. /\ Formed(t) /\ IsMap(t.node) /\ \A x \in Nodes(t) : t.node[x] \in NodeType
      /\ Typed(t)
  <2>1. Typed(t)
    BY DEF Good
  <2>. QED
    BY <2>1, TypedParts
<1>2. /\ m \in Nat /\ c \in Nat /\ Leaf(t, a) \in BOOLEAN /\ n.next \in Nat
      /\ (n.next # 0 => Leaf(t, a) /\ n.next \in Nodes(t))
      /\ \A j \in 1 .. m : ~Leaf(t, a) => Kids(t, a)[j] \in Nodes(t)
  <2>1. Linked(t, nx)
    BY DEF Good
  <2>2. nx[a] # 0 => nx[a] \in Nodes(t)
    BY GhostTypes
  <2>3. n.next \in Nat /\ Leaf(t, a) \in BOOLEAN /\ m \in Nat
    BY <1>1, NodeFields
  <2>4. IF Leaf(t, a) THEN n.next = nx[a] ELSE n.next = 0
    BY <2>1 DEF Linked, Leaf
  <2>5. \A j \in 1 .. m : ~Leaf(t, a) => Kids(t, a)[j] \in Nodes(t)
    BY GhostTypes
  <2>. QED
    BY <2>2, <2>3, <2>4, <2>5
<1>3. r \in NodeType /\ Len(r.kids) = m - c /\ \A j \in 1 .. (m - c) : r.kids[j] = Kids(t, a)[c + j]
  <2>1. Halves(t, a, b, c, LeftHalf(t, a, b, c), r)
    BY HalvesAre
  <2>. HIDE DEF r
  <2>. QED
    BY <2>1 DEF Halves
<1>. HIDE DEF r
\* The moved children.
<1>4. \A x : x \in A <=> \E j \in (c + 1) .. m : Kids(t, a)[j] = x
  <2>1. r.kids \in Seq(Nat \ {0})
    BY <1>3 DEF NodeType
  <2>2. A = {r.kids[j] : j \in 1 .. (m - c)}
    BY <1>3, <2>1 DEF ToSet
  <2>. HIDE DEF A, m
  <2>3. ASSUME NEW x, x \in A PROVE \E j \in (c + 1) .. m : Kids(t, a)[j] = x
    <3>1. PICK j \in 1 .. (m - c) : x = r.kids[j]
      BY <2>2, <2>3
    <3>2. c + j \in (c + 1) .. m
      BY <1>2, <3>1 DEF m
    <3>. QED
      BY <1>3, <3>1, <3>2 DEF m
  <2>4. ASSUME NEW x, NEW j \in (c + 1) .. m, Kids(t, a)[j] = x PROVE x \in A
    <3>1. j - c \in 1 .. (m - c) /\ c + (j - c) = j
      BY <1>2 DEF m
    <3>2. r.kids[j - c] = x
      BY <1>3, <2>4, <3>1 DEF m
    <3>. QED
      BY <2>2, <3>1, <3>2
  <2>. QED
    BY <2>3, <2>4
<1>5. s = IF Leaf(t, a) THEN t ELSE Adopt(t, A, b)
  BY DEF MovedKids, Leaf, r
<1>6. y = IF n.next = 0 THEN s ELSE MarkNode(s, n.next, [s.node[n.next] EXCEPT !.prev = b])
  BY DEF Rechained
<1>. HIDE DEF s, y, A
<1>7. /\ Formed(s) /\ s.root = t.root /\ s.page = t.page /\ IsMap(s.node) /\ Nodes(s) = Nodes(t)
      /\ \A x \in Nodes(t) :
           /\ s.node[x] \in NodeType
           /\ Leaf(s, x) = Leaf(t, x) /\ Kids(s, x) = Kids(t, x) /\ Keys(s, x) = Keys(t, x) /\ Top(s, x) = Top(t, x)
           /\ s.node[x].next = t.node[x].next /\ s.node[x].prev = t.node[x].prev
           /\ Up(s, x) = IF ~Leaf(t, a) /\ x \in A THEN b ELSE Up(t, x)
  <2>1. CASE Leaf(t, a)
    BY <1>1, <1>5, <2>1
  <2>2. CASE ~Leaf(t, a)
    <3>1. s = Adopt(t, A, b)
      BY <1>5, <2>2
    <3>2. /\ Formed(s) /\ s.root = t.root /\ s.page = t.page
          /\ IsMap(s.node) /\ DOMAIN s.node = DOMAIN t.node
          /\ \A x \in DOMAIN t.node :
               s.node[x] = IF x \in A THEN [t.node[x] EXCEPT !.parent = b] ELSE t.node[x]
      BY <1>1, <3>1, Adopted
    <3>3. ASSUME NEW x \in Nodes(t)
          PROVE  /\ s.node[x] \in NodeType
                 /\ Leaf(s, x) = Leaf(t, x) /\ Kids(s, x) = Kids(t, x) /\ Keys(s, x) = Keys(t, x) /\ Top(s, x) = Top(t, x)
                 /\ s.node[x].next = t.node[x].next /\ s.node[x].prev = t.node[x].prev
                 /\ Up(s, x) = IF x \in A THEN b ELSE Up(t, x)
      <4>1. t.node[x] \in NodeType
        BY <1>1
      <4>2. CASE x \in A
        <5>1. s.node[x] = [t.node[x] EXCEPT !.parent = b]
          BY <3>2, <4>2 DEF Nodes
        <5>2. /\ s.node[x] \in NodeType
              /\ s.node[x].leaf = t.node[x].leaf /\ s.node[x].kids = t.node[x].kids
              /\ s.node[x].max = t.node[x].max /\ s.node[x].parent = b
              /\ s.node[x].prev = t.node[x].prev /\ s.node[x].next = t.node[x].next
              /\ s.node[x].keys = t.node[x].keys
          BY <4>1, <5>1, Reparented
        <5>. QED
          BY <4>2, <5>2 DEF Leaf, Kids, Keys, Top, Up
      <4>3. CASE x \notin A
        <5>1. s.node[x] = t.node[x]
          BY <3>2, <4>3 DEF Nodes
        <5>. QED
          BY <4>1, <4>3, <5>1 DEF Leaf, Kids, Keys, Top, Up
      <4>. QED
        BY <4>2, <4>3
    <3>. QED
      BY <2>2, <3>2, <3>3 DEF Nodes
  <2>. QED
    BY <2>1, <2>2
<1>8. /\ Formed(y) /\ y.root = t.root /\ y.page = t.page /\ IsMap(y.node) /\ Nodes(y) = Nodes(t)
      /\ \A x \in Nodes(t) :
           /\ y.node[x] \in NodeType
           /\ Leaf(y, x) = Leaf(s, x) /\ Kids(y, x) = Kids(s, x) /\ Keys(y, x) = Keys(s, x) /\ Top(y, x) = Top(s, x)
           /\ y.node[x].next = s.node[x].next /\ Up(y, x) = Up(s, x)
           /\ y.node[x].prev = IF n.next # 0 /\ x = n.next THEN b ELSE s.node[x].prev
  <2>1. CASE n.next = 0
    <3>1. y = s
      BY <1>6, <2>1
    <3>. QED
      BY <1>7, <2>1, <3>1
  <2>2. CASE n.next # 0
    <3> DEFINE d == n.next
               e == [s.node[d] EXCEPT !.prev = b]
    <3>1. y = MarkNode(s, d, e) /\ d \in Nodes(t)
      BY <1>2, <1>6, <2>2
    <3>2. s.node[d] \in NodeType
      BY <1>7, <3>1
    <3>3. /\ e \in NodeType
          /\ e.leaf = s.node[d].leaf /\ e.kids = s.node[d].kids /\ e.max = s.node[d].max
          /\ e.parent = s.node[d].parent /\ e.prev = b /\ e.next = s.node[d].next
          /\ e.keys = s.node[d].keys
      BY <3>2, Relinked
    <3>. HIDE DEF e
    <3>4. /\ Formed(y) /\ y.root = s.root /\ y.page = s.page
          /\ IsMap(y.node) /\ DOMAIN y.node = DOMAIN s.node \union {d}
          /\ y.node[d] = e /\ \A x \in DOMAIN s.node : x # d => y.node[x] = s.node[x]
      BY <1>7, <3>1, Marked
    <3>. HIDE DEF d
    <3>5. Nodes(y) = Nodes(t)
      BY <1>7, <3>1, <3>4 DEF Nodes
    <3>6. ASSUME NEW x \in Nodes(t)
          PROVE  /\ y.node[x] \in NodeType
                 /\ Leaf(y, x) = Leaf(s, x) /\ Kids(y, x) = Kids(s, x) /\ Keys(y, x) = Keys(s, x) /\ Top(y, x) = Top(s, x)
                 /\ y.node[x].next = s.node[x].next /\ Up(y, x) = Up(s, x)
                 /\ y.node[x].prev = IF x = d THEN b ELSE s.node[x].prev
      <4>1. CASE x = d
        BY <3>3, <3>4, <4>1 DEF Leaf, Kids, Keys, Top, Up
      <4>2. CASE x # d
        <5>1. y.node[x] = s.node[x]
          BY <1>7, <3>4, <4>2 DEF Nodes
        <5>. QED
          BY <1>7, <4>2, <5>1 DEF Leaf, Kids, Keys, Top, Up
      <4>. QED
        BY <4>1, <4>2
    <3>. QED
      BY <1>7, <2>2, <3>4, <3>5, <3>6 DEF d
  <2>. QED
    BY <2>1, <2>2
<1>9. ASSUME NEW x \in Nodes(t)
      PROVE  /\ y.node[x] \in NodeType
             /\ Leaf(y, x) = Leaf(t, x) /\ Kids(y, x) = Kids(t, x) /\ Keys(y, x) = Keys(t, x) /\ Top(y, x) = Top(t, x)
             /\ y.node[x].next = t.node[x].next
             /\ y.node[x].prev = IF Leaf(t, a) /\ x = n.next THEN b ELSE t.node[x].prev
             /\ Leaf(t, a) \/ (\A j \in (c + 1) .. m : Kids(t, a)[j] # x) => Up(y, x) = Up(t, x)
  <2>1. x # 0
    BY <1>1 DEF Typed
  <2>2. y.node[x].prev = IF Leaf(t, a) /\ x = n.next THEN b ELSE t.node[x].prev
    BY <1>2, <1>7, <1>8, <2>1
  <2>3. Leaf(t, a) \/ (\A j \in (c + 1) .. m : Kids(t, a)[j] # x) => Up(y, x) = Up(t, x)
    BY <1>4, <1>7, <1>8
  <2>. QED
    BY <1>7, <1>8, <2>2, <2>3
<1>10. ~Leaf(t, a) => \A j \in (c + 1) .. m : Up(y, Kids(t, a)[j]) = b
  <2>1. ASSUME ~Leaf(t, a), NEW j \in (c + 1) .. m PROVE Up(y, Kids(t, a)[j]) = b
    <3>1. j \in 1 .. m
      BY <1>2
    <3>2. Kids(t, a)[j] \in Nodes(t) /\ Kids(t, a)[j] \in A
      BY <1>2, <1>4, <2>1, <3>1
    <3>. QED
      BY <1>7, <1>8, <2>1, <3>2
  <2>. QED
    BY <2>1
<1>11. Rehung(t, y, a, b, c)
  BY <1>8, <1>9, <1>10, Zenon DEF Rehung
<1>. QED
  BY <1>11 DEF y

\* The parent's copy with the new child.
FiledIn(t, p, q, i, b, s) ==
  /\ q \in NodeType /\ q.leaf = Leaf(t, p) /\ q.max = Top(t, p) /\ q.parent = Up(t, p)
  /\ q.prev = t.node[p].prev /\ q.next = t.node[p].next
  /\ InsertedAt(Kids(t, p), i + 1, b, q.kids) /\ InsertedAt(Keys(t, p), i, s, q.keys)

LEMMA SplitDivides ==
  ASSUME NEW t, NEW lv, NEW lo, NEW nx, NEW loose, NEW a, NEW b \in Nat \ {0}, NEW c, NEW p, NEW i, NEW s,
         NEW y, NEW l, NEW r, NEW q,
         Good(t, lv, lo, nx, loose, 0), a \in Nodes(t), b \notin Nodes(t), c \in 1 .. (Len(Kids(t, a)) - 1),
         p \in Nodes(t), ~Leaf(t, p), ChildAt(t, p, i, a), ~Leaf(t, a) => Keys(t, a)[c] = s,
         Rehung(t, y, a, b, c), Halves(t, a, b, c, l, r), FiledIn(t, p, q, i, b, s)
  PROVE  Divided(t, Over(MarkNode(y, p, q), a, l, b, r), p, i, a, b, c, s)
<1> DEFINE z == MarkNode(y, p, q)
           u == Over(z, a, l, b, r)
           m == Len(Kids(t, a))
<1>1. /\ Formed(t) /\ IsMap(t.page) /\ t.root \in Nodes(t) /\ Typed(t)
      /\ IsFiniteSet(Nodes(t)) /\ Nodes(t) \subseteq Nat \ {0} /\ IsFiniteSet(DOMAIN t.page)
      /\ DOMAIN t.page \subseteq Nat \ {0} /\ \A pg \in DOMAIN t.page : PageType(t.page[pg])
  <2>1. Typed(t)
    BY DEF Good
  <2>. QED
    BY <2>1, TypedParts
<1>2. Up(t, a) = p /\ lv[p] = lv[a] + 1 /\ lv[a] \in Nat
  <2>1. Children(t, lv) /\ Levels(t, lv)
    BY DEF Good
  <2>. QED
    BY <2>1 DEF Children, Levels, ChildAt
<1>3. a # p /\ a # b /\ p # b
  BY <1>2
<1>4. \A j \in 1 .. m : ~Leaf(t, a) => /\ Kids(t, a)[j] \in Nodes(t) /\ Kids(t, a)[j] # a /\ Kids(t, a)[j] # p
                                       /\ Kids(t, a)[j] # b
  <2>1. ASSUME NEW j \in 1 .. m, ~Leaf(t, a)
        PROVE  /\ Kids(t, a)[j] \in Nodes(t) /\ Kids(t, a)[j] # a /\ Kids(t, a)[j] # p /\ Kids(t, a)[j] # b
    <3>1. Kids(t, a)[j] \in Nodes(t) /\ lv[a] = lv[Kids(t, a)[j]] + 1
      BY <2>1 DEF Good, Children
    <3>2. lv[Kids(t, a)[j]] \in Nat
      BY <3>1 DEF Good, Levels
    <3>. QED
      BY <1>2, <3>1, <3>2
  <2>. QED
    BY <2>1
<1>5. /\ Formed(y) /\ y.root = t.root /\ y.page = t.page /\ IsMap(y.node) /\ Nodes(y) = Nodes(t)
      /\ \A x \in Nodes(t) :
           /\ y.node[x] \in NodeType
           /\ Leaf(y, x) = Leaf(t, x) /\ Kids(y, x) = Kids(t, x) /\ Keys(y, x) = Keys(t, x) /\ Top(y, x) = Top(t, x)
           /\ y.node[x].next = t.node[x].next
           /\ y.node[x].prev = IF Leaf(t, a) /\ x = t.node[a].next THEN b ELSE t.node[x].prev
           /\ Leaf(t, a) \/ (\A j \in (c + 1) .. m : Kids(t, a)[j] # x) => Up(y, x) = Up(t, x)
      /\ ~Leaf(t, a) => \A j \in (c + 1) .. m : Up(y, Kids(t, a)[j]) = b
  BY Zenon DEF Rehung
<1>6. /\ Formed(z) /\ z.root = t.root /\ z.page = t.page /\ Nodes(z) = Nodes(t)
      /\ z.node[p] = q /\ \A x \in Nodes(t) : x # p => z.node[x] = y.node[x]
  <2>1. /\ Formed(z) /\ z.root = y.root /\ z.page = y.page
        /\ IsMap(z.node) /\ DOMAIN z.node = DOMAIN y.node \union {p}
        /\ z.node[p] = q /\ \A x \in DOMAIN y.node : x # p => z.node[x] = y.node[x]
    BY <1>5, Marked
  <2>. HIDE DEF z
  <2>. QED
    BY <1>5, <2>1 DEF Nodes
<1>. HIDE DEF z
<1>7. /\ Formed(u) /\ u.root = t.root /\ u.page = t.page
      /\ IsMap(u.node) /\ Nodes(u) = Nodes(t) \union {b}
      /\ u.node[a] = l /\ u.node[b] = r /\ u.node[p] = q
      /\ \A x \in Nodes(t) : x # a /\ x # p => u.node[x] = y.node[x]
  <2>1. /\ Formed(u) /\ u.root = z.root /\ u.page = z.page
        /\ IsMap(u.node) /\ Nodes(u) = Nodes(z) \union {b}
        /\ u.node[a] = l /\ u.node[b] = r
        /\ \A x \in Nodes(z) : x # a /\ x # b => u.node[x] = z.node[x]
    BY <1>3, <1>6, OverIs
  <2>. HIDE DEF u
  <2>2. u.node[p] = q
    BY <1>3, <1>6, <2>1
  <2>3. ASSUME NEW x \in Nodes(t), x # a, x # p PROVE u.node[x] = y.node[x]
    <3>1. x # b
      OBVIOUS
    <3>. QED
      BY <1>6, <2>1, <2>3, <3>1
  <2>. QED
    BY <1>6, <2>1, <2>2, <2>3
<1>. HIDE DEF u
<1>8. l \in NodeType /\ r \in NodeType /\ q \in NodeType
  BY DEF Halves, FiledIn
<1>9. Typed(u)
  <2>1. \A x \in Nodes(u) : u.node[x] \in NodeType
    BY <1>5, <1>7, <1>8
  <2>2. IsFiniteSet(Nodes(u)) /\ Nodes(u) \subseteq Nat \ {0}
    BY <1>1, <1>7, FS_AddElement
  <2>3. IsMap(u.page) /\ u.root \in Nodes(u) /\ IsFiniteSet(DOMAIN u.page) /\ DOMAIN u.page \subseteq Nat \ {0}
        /\ \A pg \in DOMAIN u.page : PageType(u.page[pg])
    BY <1>1, <1>7
  <2>. QED
    BY <1>7, <2>1, <2>2, <2>3, MadeTree
<1>10. /\ Kids(u, a) = l.kids /\ Keys(u, a) = l.keys /\ Top(u, a) = l.max /\ Leaf(u, a) = l.leaf /\ Up(u, a) = l.parent
       /\ Kids(u, b) = r.kids /\ Keys(u, b) = r.keys /\ Top(u, b) = r.max /\ Leaf(u, b) = r.leaf /\ Up(u, b) = r.parent
       /\ Kids(u, p) = q.kids /\ Keys(u, p) = q.keys /\ Top(u, p) = q.max /\ Leaf(u, p) = q.leaf /\ Up(u, p) = q.parent
  BY <1>7 DEF Kids, Keys, Top, Leaf, Up
<1>11. \A x \in Nodes(t) : x # a /\ x # p =>
         /\ Kids(u, x) = Kids(t, x) /\ Keys(u, x) = Keys(t, x) /\ Top(u, x) = Top(t, x)
         /\ Leaf(u, x) = Leaf(t, x) /\ Up(u, x) = Up(y, x)
  <2>1. ASSUME NEW x \in Nodes(t), x # a, x # p
        PROVE  /\ Kids(u, x) = Kids(t, x) /\ Keys(u, x) = Keys(t, x) /\ Top(u, x) = Top(t, x)
               /\ Leaf(u, x) = Leaf(t, x) /\ Up(u, x) = Up(y, x)
    <3>1. u.node[x] = y.node[x]
      BY <1>7, <2>1
    <3>2. Kids(u, x) = Kids(y, x) /\ Keys(u, x) = Keys(y, x) /\ Top(u, x) = Top(y, x)
          /\ Leaf(u, x) = Leaf(y, x) /\ Up(u, x) = Up(y, x)
      BY <3>1 DEF Kids, Keys, Top, Leaf, Up
    <3>. QED
      BY <1>5, <3>2
  <2>. QED
    BY <2>1, Zenon
<1>12. l.leaf = Leaf(t, a) /\ r.leaf = Leaf(t, a) /\ q.leaf = Leaf(t, p)
  BY DEF Halves, FiledIn
<1>13. Apart(t, u, p, i, a, b, c)
  <2>1. \A x \in Nodes(t) :
          /\ Leaf(u, x) = Leaf(t, x)
          /\ x # a /\ x # p => Kids(u, x) = Kids(t, x) /\ Keys(u, x) = Keys(t, x) /\ Top(u, x) = Top(t, x)
    BY <1>10, <1>11, <1>12
  <2>. QED
    BY <1>1, <1>3, <1>7, <1>9, <1>10, <1>12, <2>1 DEF Apart
<1>14. KidsApart(t, u, p, i, a, b, c)
  <2>1. /\ Len(l.kids) = c /\ \A j \in 1 .. c : l.kids[j] = Kids(t, a)[j]
        /\ Len(r.kids) = m - c /\ \A j \in 1 .. (m - c) : r.kids[j] = Kids(t, a)[c + j]
    BY DEF Halves
  <2>2. InsertedAt(Kids(t, p), i + 1, b, q.kids) /\ i \in 1 .. Len(Kids(t, p)) /\ Len(Kids(t, p)) \in Nat
    <3>1. Len(Kids(t, p)) \in Nat
      BY <1>1, NodeFields
    <3>. QED
      BY <3>1 DEF FiledIn, ChildAt
  <2>3. /\ Len(q.kids) = Len(Kids(t, p)) + 1
        /\ \A j \in 1 .. (Len(Kids(t, p)) + 1) :
             q.kids[j] = IF j < i + 1 THEN Kids(t, p)[j] ELSE IF j = i + 1 THEN b ELSE Kids(t, p)[j - 1]
    BY <2>2 DEF InsertedAt
  <2>4. \A j \in 1 .. (Len(Kids(t, p)) + 1) : j < i + 1 <=> j <= i
    BY <2>2
  <2>5. \A j \in 1 .. (Len(Kids(t, p)) + 1) :
             q.kids[j] = IF j <= i THEN Kids(t, p)[j] ELSE IF j = i + 1 THEN b ELSE Kids(t, p)[j - 1]
    BY <2>3, <2>4
  <2>. QED
    BY <1>10, <2>1, <2>3, <2>5 DEF KidsApart
<1>15. KeysApart(t, u, p, i, a, b, c, s)
  <2>1. /\ Len(l.keys) = (IF Leaf(t, a) THEN c ELSE c - 1)
        /\ \A j \in 1 .. Len(l.keys) : l.keys[j] = Keys(t, a)[j]
        /\ Len(r.keys) = Len(Keys(t, a)) - c
        /\ \A j \in 1 .. (Len(Keys(t, a)) - c) : r.keys[j] = Keys(t, a)[c + j]
        /\ r.max = Top(t, a)
    BY DEF Halves
  <2>2. /\ Len(q.keys) = Len(Keys(t, p)) + 1 /\ q.max = Top(t, p)
        /\ \A j \in 1 .. (Len(Keys(t, p)) + 1) :
             q.keys[j] = IF j < i THEN Keys(t, p)[j] ELSE IF j = i THEN s ELSE Keys(t, p)[j - 1]
    BY DEF FiledIn, InsertedAt
  <2>. QED
    BY <1>10, <2>1, <2>2 DEF KeysApart
<1>16. UpsApart(t, u, p, a, b, c)
  <2>1. l.parent = p /\ r.parent = p /\ q.parent = Up(t, p)
    BY <1>2 DEF Halves, FiledIn
  <2>2. ASSUME ~Leaf(t, a), NEW j \in (c + 1) .. m PROVE Up(u, Kids(t, a)[j]) = b
    <3>1. j \in 1 .. m
      <4>1. m \in Nat /\ c \in Nat
        BY <1>1, NodeFields
      <4>. QED
        BY <2>2, <4>1
    <3>. QED
      BY <1>4, <1>5, <1>11, <2>2, <3>1
  <2>3. ASSUME NEW x \in Nodes(t), Leaf(t, a) \/ (\A j \in (c + 1) .. m : Kids(t, a)[j] # x)
        PROVE  Up(u, x) = Up(t, x)
    <3>1. CASE x = a
      BY <1>2, <1>10, <2>1, <3>1
    <3>2. CASE x = p
      BY <1>10, <2>1, <3>2
    <3>3. CASE x # a /\ x # p
      BY <1>5, <1>11, <2>3, <3>3
    <3>. QED
      BY <3>1, <3>2, <3>3
  <2>. QED
    BY <1>10, <2>1, <2>2, <2>3 DEF UpsApart, m
<1>17. LinksApart(t, u, a, b)
  <2>1. /\ l.prev = t.node[a].prev /\ r.prev = (IF Leaf(t, a) THEN a ELSE 0)
        /\ l.next = (IF Leaf(t, a) THEN b ELSE 0) /\ r.next = t.node[a].next
    BY DEF Halves
  <2>2. q.prev = t.node[p].prev /\ q.next = t.node[p].next
    BY DEF FiledIn
  <2>3. IF Leaf(t, a) THEN t.node[a].next = nx[a] /\ (nx[a] # 0 => nx[a] \in Nodes(t) /\ lv[nx[a]] = lv[a])
        ELSE t.node[a].next = 0
    <3>1. Linked(t, nx) /\ Ordered(t, lv, lo, nx)
      BY DEF Good
    <3>. QED
      BY <3>1 DEF Linked, Ordered, Leaf
  <2>4. p # t.node[a].next
    <3>1. p # 0
      BY <1>1
    <3>2. p # nx[a] \/ nx[a] = 0 \/ ~Leaf(t, a)
      BY <1>2, <2>3
    <3>. QED
      BY <2>3, <3>1, <3>2
  <2>5. \A x \in Nodes(t) : x # a =>
          /\ u.node[x].next = t.node[x].next
          /\ u.node[x].prev = IF Leaf(t, a) /\ x = t.node[a].next THEN b ELSE t.node[x].prev
    BY <1>5, <1>7, <2>2, <2>4
  <2>. QED
    BY <1>7, <2>1, <2>3, <2>5 DEF LinksApart
<1>18. Divided(t, u, p, i, a, b, c, s)
  BY <1>13, <1>14, <1>15, <1>16, <1>17 DEF Divided
<1>. QED
  BY <1>18 DEF u, z

\* The parent's copy that splitUpdateParent stores.
LEMMA FiledCopy ==
  ASSUME NEW t, NEW d \in NodeType, NEW p, NEW i, NEW b \in Nat \ {0}, NEW s \in Key,
         d.leaf = Leaf(t, p), d.kids = Kids(t, p), d.keys = Keys(t, p), d.max = Top(t, p), d.parent = Up(t, p),
         d.prev = t.node[p].prev, d.next = t.node[p].next,
         i \in 1 .. Len(Kids(t, p)), Len(Keys(t, p)) = Len(Kids(t, p)) - 1
  PROVE  FiledIn(t, p, [d EXCEPT !.keys = InsertAt(d.keys, i, s), !.kids = InsertAt(d.kids, i + 1, b)], i, b, s)
<1> DEFINE C == InsertAt(d.kids, i + 1, b)
           Q == InsertAt(d.keys, i, s)
           q == [d EXCEPT !.keys = Q, !.kids = C]
<1>1. d.kids \in Seq(Nat \ {0}) /\ d.keys \in Seq(Key) /\ Len(d.kids) \in Nat
  BY DEF NodeType
<1>2. i + 1 \in 1 .. (Len(d.kids) + 1) /\ i \in 1 .. (Len(d.keys) + 1)
  BY <1>1
<1>3. C \in Seq(Nat \ {0}) /\ InsertedAt(d.kids, i + 1, b, C)
  BY <1>1, <1>2, InsertAtIs
<1>4. Q \in Seq(Key) /\ InsertedAt(d.keys, i, s, Q)
  BY <1>1, <1>2, InsertAtIs
<1>. HIDE DEF C, Q
<1>5. /\ q \in NodeType /\ q.leaf = d.leaf /\ q.max = d.max /\ q.parent = d.parent
      /\ q.prev = d.prev /\ q.next = d.next /\ q.kids = C /\ q.keys = Q
  BY <1>3, <1>4 DEF NodeType
<1>. HIDE DEF q
<1>6. FiledIn(t, p, q, i, b, s)
  BY <1>3, <1>4, <1>5 DEF FiledIn
<1>. QED
  BY <1>6 DEF q, Q, C

\* Only one index is where a key belongs.
LEMMA AboveOnce ==
  ASSUME NEW s, NEW k \in Nat, NEW i, NEW j, Len(s) \in Nat, \A x \in 1 .. Len(s) : s[x] \in Nat,
         AboveAt(s, k, i), AboveAt(s, k, j)
  PROVE  i = j
<1>1. i \in 1 .. (Len(s) + 1) /\ j \in 1 .. (Len(s) + 1)
  BY DEF AboveAt
<1>2. ASSUME i < j PROVE FALSE
  <2>1. i \in 1 .. Len(s)
    BY <1>1, <1>2
  <2>2. s[i] > k /\ s[i] <= k /\ s[i] \in Nat
    BY <1>1, <1>2, <2>1 DEF AboveAt
  <2>. QED
    BY <2>2
<1>3. ASSUME j < i PROVE FALSE
  <2>1. j \in 1 .. Len(s)
    BY <1>1, <1>3
  <2>2. s[j] > k /\ s[j] <= k /\ s[j] \in Nat
    BY <1>1, <1>3, <2>1 DEF AboveAt
  <2>. QED
    BY <2>2
<1>. QED
  BY <1>1, <1>2, <1>3

\* The separator of a split is within the node's bounds.
LEMMA CutWithin ==
  ASSUME NEW t, NEW lv, NEW lo, NEW nx, NEW loose, NEW a, NEW c,
         Good(t, lv, lo, nx, loose, 0), a \in Nodes(t), c \in 1 .. (Len(Kids(t, a)) - 1)
  PROVE  Keys(t, a)[c] \in Key /\ Keys(t, a)[c] \in Nat /\ lo[a] < Keys(t, a)[c] /\ Keys(t, a)[c] < Top(t, a)
<1> DEFINE m == Len(Kids(t, a))
<1>1. Typed(t) /\ Arrays(t) /\ Children(t, lv) /\ Bounds(t, lo, 0) /\ Filed(t, lo)
  BY DEF Good
<1>2. /\ m \in Nat /\ Len(Keys(t, a)) \in Nat /\ Len(Keys(t, a)) = IF Leaf(t, a) THEN m ELSE m - 1
      /\ \A j \in 1 .. Len(Keys(t, a)) : Keys(t, a)[j] \in Key /\ Keys(t, a)[j] \in Nat
      /\ Top(t, a) \in Nat /\ lo[a] \in Int
  BY <1>1, NodeFields, GhostTypes
<1>3. /\ \A i, j \in 1 .. Len(Keys(t, a)) : i < j => Keys(t, a)[i] < Keys(t, a)[j]
      /\ \A i \in 1 .. Len(Keys(t, a)) : lo[a] < Keys(t, a)[i] /\ Keys(t, a)[i] <= Top(t, a)
  <2>1. ~Leaf(t, a) => \A i \in 1 .. Len(Keys(t, a)) : Kids(t, a)[i] # 0
    <3>1. \A i \in 1 .. m : ~Leaf(t, a) => Kids(t, a)[i] \in Nodes(t)
      BY GhostTypes
    <3>2. 0 \notin Nodes(t)
      BY <1>1 DEF Typed
    <3>. QED
      BY <1>2, <3>1, <3>2
  <2>. QED
    BY <1>1, <2>1, KeysAscend
<1>4. c \in Nat /\ c \in 1 .. Len(Keys(t, a)) /\ c + 1 \in 1 .. m
  BY <1>2
<1>5. Keys(t, a)[c] < Top(t, a)
  <2>1. CASE Leaf(t, a)
    <3>1. c + 1 \in 1 .. Len(Keys(t, a)) /\ c < c + 1
      BY <1>2, <1>4, <2>1
    <3>2. Keys(t, a)[c] < Keys(t, a)[c + 1] /\ Keys(t, a)[c + 1] <= Top(t, a)
      BY <1>3, <1>4, <3>1
    <3>. QED
      BY <1>2, <1>4, <3>1, <3>2
  <2>2. CASE ~Leaf(t, a)
    <3> DEFINE x == Kids(t, a)[c + 1]
    <3>1. x \in Nodes(t)
      BY <1>4, <2>2, GhostTypes
    <3>2. LoAt(t, lo, a, c + 1) <= lo[x] /\ HiAt(t, a, c + 1) <= Top(t, a) /\ (x # 0 => Top(t, x) <= HiAt(t, a, c + 1))
      BY <1>1, <1>4, <2>2 DEF Bounds
    <3>3. x # 0
      BY <1>1, <3>1 DEF Typed
    <3>4. LoAt(t, lo, a, c + 1) = Keys(t, a)[c]
      BY <1>4 DEF LoAt
    <3>5. HiAt(t, a, c + 1) \in Nat
      BY <1>4, BoundTypes
    <3>6. lo[x] < Top(t, x) /\ lo[x] \in Int /\ Top(t, x) \in Nat
      BY <1>1, <3>1, GhostTypes, NodeFields
    <3>. QED
      BY <1>2, <1>4, <3>2, <3>3, <3>4, <3>5, <3>6
  <2>. QED
    BY <2>1, <2>2
<1>. QED
  BY <1>2, <1>3, <1>4, <1>5

\* It belongs before the separator of the node, if that is not the last child.
LEMMA CutBelongs ==
  ASSUME NEW t, NEW lv, NEW lo, NEW nx, NEW loose, NEW a, NEW s \in Nat, NEW p, NEW i,
         Good(t, lv, lo, nx, loose, 0), a \in Nodes(t), p \in Nodes(t), ~Leaf(t, p), ChildAt(t, p, i, a),
         lo[a] < s, s < Top(t, a)
  PROVE  FirstAbove(Keys(t, p), s) = i
<1> DEFINE k == Keys(t, p)
<1>1. Typed(t) /\ Arrays(t) /\ Children(t, lv) /\ Bounds(t, lo, 0) /\ Filed(t, lo)
  BY DEF Good
<1>2. /\ k \in Seq(Nat) /\ Len(k) \in Nat /\ Len(k) = Len(Kids(t, p)) - 1 /\ Len(Kids(t, p)) \in Nat
      /\ \A j \in 1 .. Len(k) : k[j] \in Nat
      /\ lo[a] \in Int /\ Top(t, a) \in Nat /\ a # 0
  <2>1. a # 0
    BY <1>1 DEF Typed
  <2>. QED
    BY <1>1, <2>1, NodeFields, GhostTypes
<1>3. i \in 1 .. Len(Kids(t, p)) /\ Kids(t, p)[i] = a
  BY DEF ChildAt
<1>4. LoAt(t, lo, p, i) <= lo[a] /\ Top(t, a) <= HiAt(t, p, i)
  BY <1>1, <1>2, <1>3 DEF Bounds
<1>5. \A x, j \in 1 .. Len(k) : x < j => k[x] < k[j]
  <2>1. \A x \in 1 .. Len(k) : Kids(t, p)[x] # 0
    <3>1. \A x \in 1 .. Len(Kids(t, p)) : Kids(t, p)[x] \in Nodes(t)
      BY GhostTypes
    <3>2. 0 \notin Nodes(t)
      BY <1>1 DEF Typed
    <3>. QED
      BY <1>2, <3>1, <3>2
  <2>. QED
    BY <1>1, <2>1, KeysAscend
<1>6. i <= Len(k) => k[i] > s
  BY <1>2, <1>3, <1>4 DEF HiAt
<1>7. ASSUME NEW j \in 1 .. Len(k), j < i PROVE k[j] <= s
  <2>1. i # 1 /\ i - 1 \in 1 .. Len(k) /\ (j = i - 1 \/ j < i - 1)
    BY <1>2, <1>3, <1>7
  <2>2. k[i - 1] <= lo[a]
    BY <1>4, <2>1 DEF LoAt
  <2>3. k[j] <= k[i - 1] /\ k[i - 1] \in Nat /\ k[j] \in Nat
    <3>. HIDE DEF k
    <3>1. k[i - 1] \in Nat /\ k[j] \in Nat
      BY <1>2, <1>7, <2>1
    <3>2. CASE j = i - 1
      BY <3>1, <3>2
    <3>3. CASE j < i - 1
      <4>1. k[j] < k[i - 1]
        BY <1>5, <1>7, <2>1, <3>3
      <4>. QED
        BY <3>1, <4>1
    <3>. QED
      BY <2>1, <3>1, <3>2, <3>3
  <2>. QED
    BY <1>2, <2>2, <2>3
<1>8. AboveAt(k, s, i)
  BY <1>2, <1>3, <1>6, <1>7 DEF AboveAt
<1>9. AboveAt(k, s, FirstAbove(k, s))
  BY <1>2, FirstAboveIs
<1>. HIDE DEF k
<1>10. FirstAbove(k, s) = i
  BY <1>2, <1>8, <1>9, AboveOnce
<1>. QED
  BY <1>10 DEF k

\* In v the upper half of the node at a is a node of its own, at b.
Halved(t, v, a, b) ==
  /\ a \in Nodes(t) /\ b \in Nat \ {0} /\ b \notin Nodes(t) /\ Nodes(v) = Nodes(t) \union {b}
  /\ v.root = t.root /\ v.page = t.page
  /\ Leaf(v, b) = Leaf(t, a) /\ \A x \in Nodes(t) : Leaf(v, x) = Leaf(t, x)
  /\ Len(Kids(v, a)) = Keep(t, a) /\ Len(Kids(v, b)) = Len(Kids(t, a)) - Keep(t, a)
  /\ Up(t, a) \in Nodes(t) /\ Up(t, a) # a /\ Len(Kids(v, Up(t, a))) = Len(Kids(t, Up(t, a))) + 1
  /\ \A x \in Nodes(t) : x # a /\ x # Up(t, a) => Kids(v, x) = Kids(t, x)
  /\ \A x \in Nodes(t) : Up(v, x) = Up(t, x) \/ (Up(t, x) = a /\ Up(v, x) = b)

\* What a leaf's halves hold.
LeafHalved(t, v, a, b) ==
  /\ Top(v, a) = Keys(t, a)[Keep(t, a)] /\ Top(v, b) = Top(t, a)
  /\ \A j \in 1 .. Keep(t, a) : Kids(v, a)[j] = Kids(t, a)[j] /\ Keys(v, a)[j] = Keys(t, a)[j]
  /\ \A j \in 1 .. (Len(Kids(t, a)) - Keep(t, a)) :
       Kids(v, b)[j] = Kids(t, a)[Keep(t, a) + j] /\ Keys(v, b)[j] = Keys(t, a)[Keep(t, a) + j]

LEMMA HalvedBy ==
  ASSUME NEW t, NEW v, NEW a, NEW b, NEW c, NEW p, NEW i, NEW s, NEW lv, NEW lo, NEW nx, NEW loose,
         Good(t, lv, lo, nx, loose, 0), Divided(t, v, p, i, a, b, c, s), p = Up(t, a), c = Keep(t, a)
  PROVE  Halved(t, v, a, b)
<1>1. Apart(t, v, p, i, a, b, c) /\ KidsApart(t, v, p, i, a, b, c) /\ UpsApart(t, v, p, a, b, c) /\ Children(t, lv)
  BY DEF Divided, Good
<1>2. /\ a \in Nodes(t) /\ b \notin Nodes(t) /\ Nodes(v) = Nodes(t) \union {b}
      /\ v.root = t.root /\ v.page = t.page /\ p \in Nodes(t) /\ a # p
      /\ Leaf(v, b) = Leaf(t, a) /\ \A x \in Nodes(t) : Leaf(v, x) = Leaf(t, x)
      /\ \A x \in Nodes(t) : x # a /\ x # p => Kids(v, x) = Kids(t, x)
      /\ c \in 1 .. (Len(Kids(t, a)) - 1)
  BY <1>1 DEF Apart
<1>3. b \in Nat \ {0}
  <2>1. Typed(v) /\ b \in Nodes(v)
    BY <1>1 DEF Apart
  <2>. QED
    BY <2>1, TypedParts
<1>4. Len(Kids(v, a)) = c /\ Len(Kids(v, b)) = Len(Kids(t, a)) - c /\ Len(Kids(v, p)) = Len(Kids(t, p)) + 1
  BY <1>1 DEF KidsApart
<1>5. ASSUME NEW x \in Nodes(t) PROVE Up(v, x) = Up(t, x) \/ (Up(t, x) = a /\ Up(v, x) = b)
  <2>1. CASE Leaf(t, a) \/ (\A j \in (c + 1) .. Len(Kids(t, a)) : Kids(t, a)[j] # x)
    BY <1>1, <2>1 DEF UpsApart
  <2>2. CASE ~Leaf(t, a) /\ \E j \in (c + 1) .. Len(Kids(t, a)) : Kids(t, a)[j] = x
    <3>1. PICK j \in (c + 1) .. Len(Kids(t, a)) : Kids(t, a)[j] = x
      BY <2>2
    <3>2. j \in 1 .. Len(Kids(t, a))
      BY <1>2, <3>1
    <3>3. Up(t, x) = a
      BY <1>1, <1>2, <2>2, <3>1, <3>2 DEF Children
    <3>4. Up(v, x) = b
      BY <1>1, <2>2, <3>1 DEF UpsApart
    <3>. QED
      BY <3>3, <3>4
  <2>. QED
    BY <2>1, <2>2
<1>. QED
  BY <1>2, <1>3, <1>4, <1>5 DEF Halved

LEMMA LeafHalvedBy ==
  ASSUME NEW t, NEW v, NEW a, NEW b, NEW c, NEW p, NEW i, NEW s, NEW lo, NEW lo2,
         Divided(t, v, p, i, a, b, c, s), c = Keep(t, a), CutAt(t, v, lo, lo2, a, b, c, s), Leaf(t, a),
         Len(Keys(t, a)) = Len(Kids(t, a))
  PROVE  LeafHalved(t, v, a, b)
<1>1. KidsApart(t, v, p, i, a, b, c) /\ KeysApart(t, v, p, i, a, b, c, s)
  BY DEF Divided
<1>2. /\ \A j \in 1 .. c : Kids(v, a)[j] = Kids(t, a)[j]
      /\ \A j \in 1 .. (Len(Kids(t, a)) - c) : Kids(v, b)[j] = Kids(t, a)[c + j]
  BY <1>1 DEF KidsApart
<1>3. /\ \A j \in 1 .. c : Keys(v, a)[j] = Keys(t, a)[j]
      /\ \A j \in 1 .. (Len(Kids(t, a)) - c) : Keys(v, b)[j] = Keys(t, a)[c + j]
      /\ Top(v, b) = Top(t, a)
  BY <1>1 DEF KeysApart
<1>4. Top(v, a) = Keys(t, a)[c]
  BY DEF CutAt
<1>. QED
  BY <1>2, <1>3, <1>4 DEF LeafHalved

\* The same with other keys and bounds above.
LEMMA HalvedAlike ==
  ASSUME NEW t, NEW u, NEW v, NEW a, NEW b, Halved(t, u, a, b), Alike(u, v)
  PROVE  Halved(t, v, a, b)
<1>1. /\ Nodes(v) = Nodes(u) /\ v.root = u.root /\ v.page = u.page
      /\ \A x \in Nodes(u) : Leaf(v, x) = Leaf(u, x) /\ Kids(v, x) = Kids(u, x) /\ Up(v, x) = Up(u, x)
  BY DEF Alike
<1>. QED
  BY <1>1 DEF Halved

LEMMA LeafHalvedSame ==
  ASSUME NEW t, NEW u, NEW v, NEW a, NEW b, LeafHalved(t, u, a, b), v.node[a] = u.node[a], v.node[b] = u.node[b]
  PROVE  LeafHalved(t, v, a, b)
<1>1. /\ Top(v, a) = Top(u, a) /\ Kids(v, a) = Kids(u, a) /\ Keys(v, a) = Keys(u, a)
      /\ Top(v, b) = Top(u, b) /\ Kids(v, b) = Kids(u, b) /\ Keys(v, b) = Keys(u, b)
  BY DEF Top, Kids, Keys
<1>. QED
  BY <1>1 DEF LeafHalved

\* The functions for the tree after a split.
CutGhosts(t, lv, lo, nx, a, b, lv2, lo2, nx2) ==
  /\ \A x \in Nodes(t) : lv2[x] = lv[x] /\ lo2[x] = lo[x]
  /\ lv2[b] = lv[a] /\ FollowingCut(t, nx, nx2, a, b)
  /\ Leaf(t, a) => lo2[b] = Keys(t, a)[Keep(t, a)]

\* Nodes lower than the one at a keep what they hold.
LowerKept(t, v, lv, a) ==
  \A x \in Nodes(t) : lv[x] < lv[a] => Keys(v, x) = Keys(t, x) /\ Top(v, x) = Top(t, x)

SplitInto(t, lv, lo, nx, loose, a, v, b) ==
  /\ LowerKept(t, v, lv, a)
  /\ Halved(t, v, a, b) /\ (Leaf(t, a) => LeafHalved(t, v, a, b))
  /\ \E lv2, lo2, nx2 : Good(v, lv2, lo2, nx2, loose, 0) /\ CutGhosts(t, lv, lo, nx, a, b, lv2, lo2, nx2)

\* splitUpdateParent, by where the new node goes.
Filing(y, r, b, s, p, i, q) ==
  /\ p = r.parent /\ i = FirstAbove(Keys(y, p), s)
  /\ q = [y.node[p] EXCEPT !.keys = InsertAt(y.node[p].keys, i, s), !.kids = InsertAt(y.node[p].kids, i + 1, b)]

LEMMA SplitUpdateParentIs ==
  ASSUME NEW y, NEW r, NEW b, NEW s, NEW p, NEW i, NEW q, Filing(y, r, b, s, p, i, q)
  PROVE  SplitUpdateParent(y, r, b, s) =
           IF i <= Len(Keys(y, p)) THEN MarkNode(y, p, q)
           ELSE PropagateMaxKeyUp(MarkNode(y, p, [q EXCEPT !.max = r.max]), p, r.max)
<1>1. SplitUpdateParent(y, r, b, s) =
        IF FirstAbove(y.node[r.parent].keys, s) <= Len(y.node[r.parent].keys)
        THEN MarkNode(y, r.parent, [y.node[r.parent] EXCEPT !.keys = InsertAt(y.node[r.parent].keys, FirstAbove(y.node[r.parent].keys, s), s),
                                                            !.kids = InsertAt(y.node[r.parent].kids, FirstAbove(y.node[r.parent].keys, s) + 1, b)])
        ELSE PropagateMaxKeyUp(MarkNode(y, r.parent, [[y.node[r.parent] EXCEPT !.keys = InsertAt(y.node[r.parent].keys, FirstAbove(y.node[r.parent].keys, s), s),
                                                            !.kids = InsertAt(y.node[r.parent].kids, FirstAbove(y.node[r.parent].keys, s) + 1, b)] EXCEPT !.max = r.max]), r.parent, r.max)
  BY DEF SplitUpdateParent
<1>. QED
  BY <1>1, Zenon DEF Keys, Filing

LEMMA SplitKeeps ==
  ASSUME NEW t, NEW lv, NEW lo, NEW nx, NEW loose, NEW a,
         Good(t, lv, lo, nx, loose, 0), a \in Nodes(t), a # t.root, Len(Kids(t, a)) >= 2
  PROVE  SplitInto(t, lv, lo, nx, loose, a, SplitNode(t, a).tree, SplitNode(t, a).new)
<1> DEFINE b == FreeAddress(DOMAIN t.node)
           c == Keep(t, a)
           m == Len(Kids(t, a))
           p == Up(t, a)
           i == Position(Kids(t, p), a)
           s == Keys(t, a)[c]
           y == Rechained(t, a, b, c)
           l == LeftHalf(t, a, b, c)
           r == RightHalf(t, a, c)
           q == [y.node[p] EXCEPT !.keys = InsertAt(y.node[p].keys, i, s), !.kids = InsertAt(y.node[p].kids, i + 1, b)]
           u == Over(MarkNode(y, p, q), a, l, b, r)
           v == SplitNode(t, a).tree
           lv2 == [x \in Nodes(t) \union {b} |-> IF x = b THEN lv[a] ELSE lv[x]]
           lo2 == [x \in Nodes(t) \union {b} |-> IF x = b THEN (IF Leaf(t, a) THEN s ELSE lo[Kids(t, a)[c + 1]]) ELSE lo[x]]
           nx2 == [x \in Nodes(t) \union {b} |-> IF x = b THEN nx[a] ELSE IF x = a THEN b ELSE nx[x]]
<1>1. /\ Typed(t) /\ Arrays(t) /\ Parents(t) /\ Levels(t, lv) /\ Children(t, lv) /\ Bounds(t, lo, 0)
      /\ Nodes(t) \subseteq Nat /\ IsFiniteSet(Nodes(t)) /\ Formed(t)
  <2>1. /\ Typed(t) /\ Arrays(t) /\ Parents(t) /\ Levels(t, lv) /\ Children(t, lv) /\ Bounds(t, lo, 0)
    BY DEF Good
  <2>. QED
    BY <2>1, TypedParts
<1>2. b \in Nat \ {0} /\ b \notin Nodes(t) /\ b \in Nat
  BY <1>1, FreeAddressIs DEF Nodes
<1>3. SplitNode(t, a) = [tree |-> Over(SplitUpdateParent(y, r, b, s), a, l, b, r), new |-> b]
  BY SplitNodeIs DEF Keys
<1>4. p \in Nodes(t) /\ ~Leaf(t, p) /\ lv[p] = lv[a] + 1 /\ i \in 1 .. Len(Kids(t, p)) /\ Kids(t, p)[i] = a
  BY <1>1, ParentOf
<1>. HIDE DEF b, i
<1>5. m \in Nat /\ c \in 1 .. (m - 1) /\ c \in Nat
  <2>1. m \in Nat
    BY <1>1, NodeFields
  <2>2. c = m - m \div 2
    BY DEF Keep, Kids
  <2>. QED
    BY <2>1, <2>2
<1>. HIDE DEF c
<1>6. s \in Key /\ s \in Nat /\ lo[a] < s /\ s < Top(t, a)
  BY <1>5, CutWithin
<1>7. ChildAt(t, p, i, a)
  BY <1>4 DEF ChildAt
<1>. HIDE DEF s, y, l, r, m
<1>8. FirstAbove(Keys(t, p), s) = i
  BY <1>4, <1>6, <1>7, CutBelongs
<1>9. Rehung(t, y, a, b, c) /\ Halves(t, a, b, c, l, r)
  BY <1>2, <1>5, RehungIs, HalvesAre DEF y, l, r, m
<1>10. /\ y.node[p] \in NodeType /\ y.node[p].leaf = Leaf(t, p) /\ y.node[p].kids = Kids(t, p)
       /\ y.node[p].keys = Keys(t, p) /\ y.node[p].max = Top(t, p) /\ y.node[p].parent = Up(t, p)
       /\ y.node[p].prev = t.node[p].prev /\ y.node[p].next = t.node[p].next
  <2>1. /\ y.node[p] \in NodeType
        /\ Leaf(y, p) = Leaf(t, p) /\ Kids(y, p) = Kids(t, p) /\ Keys(y, p) = Keys(t, p) /\ Top(y, p) = Top(t, p)
        /\ y.node[p].next = t.node[p].next
        /\ y.node[p].prev = IF Leaf(t, a) /\ p = t.node[a].next THEN b ELSE t.node[p].prev
        /\ (Leaf(t, a) \/ (\A j \in (c + 1) .. Len(Kids(t, a)) : Kids(t, a)[j] # p)) => Up(y, p) = Up(t, p)
    BY <1>4, <1>9 DEF Rehung
  <2>2. ~(Leaf(t, a) /\ p = t.node[a].next)
    <3>1. Linked(t, nx) /\ Ordered(t, lv, lo, nx)
      BY DEF Good
    <3>2. Leaf(t, a) => t.node[a].next = nx[a] /\ (nx[a] # 0 => lv[nx[a]] = lv[a])
      BY <3>1 DEF Linked, Ordered, Leaf
    <3>3. p # 0 /\ lv[a] \in Nat
      BY <1>1, <1>4 DEF Typed, Levels
    <3>. QED
      BY <1>4, <3>2, <3>3
  <2>3. Leaf(t, a) \/ (\A j \in (c + 1) .. Len(Kids(t, a)) : Kids(t, a)[j] # p)
    <3>1. ASSUME ~Leaf(t, a), NEW j \in (c + 1) .. Len(Kids(t, a)) PROVE Kids(t, a)[j] # p
      <4>1. j \in 1 .. Len(Kids(t, a))
        BY <1>5 DEF m
      <4>2. Kids(t, a)[j] \in Nodes(t) /\ lv[a] = lv[Kids(t, a)[j]] + 1
        BY <1>1, <3>1, <4>1 DEF Children
      <4>3. lv[a] \in Nat /\ lv[Kids(t, a)[j]] \in Nat
        BY <1>1, <4>2 DEF Levels
      <4>. QED
        BY <1>4, <4>2, <4>3
    <3>. QED
      BY <3>1
  <2>. QED
    BY <2>1, <2>2, <2>3 DEF Leaf, Kids, Keys, Top, Up
<1>11. Len(Keys(t, p)) = Len(Kids(t, p)) - 1 /\ Len(Kids(t, p)) \in Nat /\ Len(Keys(t, p)) \in Nat
  BY <1>1, <1>4, NodeFields, GhostTypes
<1>12. FiledIn(t, p, q, i, b, s)
  BY <1>2, <1>4, <1>6, <1>10, <1>11, FiledCopy
<1>. HIDE DEF q, p
<1>13. Divided(t, u, p, i, a, b, c, s)
  <2>1. ~Leaf(t, a) => Keys(t, a)[c] = s
    BY DEF s
  <2>. QED
    BY <1>2, <1>4, <1>5, <1>7, <1>9, <1>12, <2>1, SplitDivides DEF m
<1>. HIDE DEF u
<1>14. CutAt(t, u, lo, lo2, a, b, c, s)
  <2>1. l.max = (IF Leaf(t, a) THEN s ELSE Top(t, Kids(t, a)[c])) /\ Top(u, a) = l.max
    <3>1. u.node[a] = l
      <4>1. Formed(MarkNode(y, p, q)) /\ a \in Nodes(MarkNode(y, p, q)) /\ a # b
        <5>1. Formed(y) /\ Nodes(y) = Nodes(t)
          BY <1>9 DEF Rehung
        <5>2. Formed(MarkNode(y, p, q)) /\ DOMAIN MarkNode(y, p, q).node = DOMAIN y.node \union {p}
          BY <5>1, Marked
        <5>. QED
          BY <1>2, <5>1, <5>2 DEF Nodes
      <4>. QED
        BY <4>1, OverIs DEF u
    <3>2. Top(u, a) = l.max
      BY <3>1 DEF Top
    <3>. QED
      BY <1>9, <3>2 DEF Halves, s
  <2>2. ~Leaf(t, a) => Kids(t, a)[c] \in Nodes(t) /\ Top(t, Kids(t, a)[c]) <= s /\ Top(t, Kids(t, a)[c]) \in Nat
    <3>1. ASSUME ~Leaf(t, a)
          PROVE  Kids(t, a)[c] \in Nodes(t) /\ Top(t, Kids(t, a)[c]) <= s /\ Top(t, Kids(t, a)[c]) \in Nat
      <4>1. c \in 1 .. Len(Kids(t, a)) /\ c \in 1 .. Len(Keys(t, a))
        <5>1. Len(Keys(t, a)) = Len(Kids(t, a)) - 1
          BY <3>1, GhostTypes
        <5>. QED
          BY <1>5, <5>1 DEF m
      <4>2. Kids(t, a)[c] \in Nodes(t)
        BY <1>1, <3>1, <4>1 DEF Children
      <4>3. Kids(t, a)[c] # 0
        BY <1>1, <4>2 DEF Typed
      <4>4. Top(t, Kids(t, a)[c]) <= HiAt(t, a, c)
        BY <1>1, <3>1, <4>1, <4>3 DEF Bounds
      <4>5. HiAt(t, a, c) = s
        BY <1>5, <4>1 DEF HiAt, s
      <4>. QED
        BY <1>1, <4>2, <4>4, <4>5, NodeFields
    <3>. QED
      BY <3>1
  <2>3. /\ \A x \in Nodes(t) : lo2[x] = lo[x]
        /\ lo2[b] = (IF Leaf(t, a) THEN s ELSE lo[Kids(t, a)[c + 1]])
    BY <1>2
  <2>. HIDE DEF lo2
  <2>4. CASE Leaf(t, a)
    BY <1>6, <2>1, <2>3, <2>4 DEF CutAt, s
  <2>5. CASE ~Leaf(t, a)
    <3>1. Top(u, a) = Top(t, Kids(t, a)[c]) /\ lo2[b] = lo[Kids(t, a)[c + 1]]
      BY <2>1, <2>3, <2>5
    <3>. QED
      BY <1>6, <2>2, <2>3, <2>5, <3>1 DEF CutAt
  <2>. QED
    BY <2>4, <2>5
<1>15. FollowingCut(t, nx, nx2, a, b)
  <2>1. a # b
    BY <1>2
  <2>. QED
    BY <1>2, <2>1 DEF FollowingCut
<1>16. (\A x \in Nodes(t) : lv2[x] = lv[x]) /\ lv2[b] = lv[a]
  BY <1>2
<1>17. CutGhosts(t, lv, lo, nx, a, b, lv2, lo2, nx2)
  <2>1. CutAt(t, u, lo, lo2, a, b, c, s) /\ FollowingCut(t, nx, nx2, a, b)
    BY <1>14, <1>15
  <2>. HIDE DEF lo2, nx2, lv2
  <2>. QED
    BY <1>16, <2>1 DEF CutGhosts, CutAt, c
<1>. HIDE DEF lo2, nx2, lv2
<1>18. Good(u, lv2, lo2, nx2, loose, 0)
  BY <1>13, <1>14, <1>15, <1>16, DivideKeeps
<1>19. Halved(t, u, a, b)
  BY <1>13, HalvedBy DEF p, c
<1>20. Leaf(t, a) => LeafHalved(t, u, a, b)
  <2>1. Leaf(t, a) => Len(Keys(t, a)) = Len(Kids(t, a))
    BY GhostTypes
  <2>. QED
    BY <1>13, <1>14, <2>1, LeafHalvedBy DEF c
<1>25. LowerKept(t, u, lv, a)
  <2>1. Apart(t, u, p, i, a, b, c)
    BY <1>13 DEF Divided
  <2>2. \A x \in Nodes(t) : x # a /\ x # p => Keys(u, x) = Keys(t, x) /\ Top(u, x) = Top(t, x)
    BY <2>1 DEF Apart
  <2>3. \A x \in Nodes(t) : lv[x] < lv[a] => x # a /\ x # p
    <3>1. \A x \in Nodes(t) : lv[x] \in Nat
      BY <1>1 DEF Levels
    <3>. QED
      BY <1>4, <3>1
  <2>. QED
    BY <2>2, <2>3 DEF LowerKept
<1>21. SplitUpdateParent(y, r, b, s) = IF i <= Len(Keys(t, p)) THEN MarkNode(y, p, q)
                                       ELSE PropagateMaxKeyUp(MarkNode(y, p, [q EXCEPT !.max = r.max]), p, r.max)
  <2>1. r.parent = p
    BY <1>9 DEF Halves, p
  <2>2. Keys(y, p) = Keys(t, p)
    BY <1>10 DEF Keys
  <2>. QED
    <3>1. p = r.parent /\ i = FirstAbove(Keys(y, p), s)
      BY <1>8, <2>1, <2>2
    <3>2. q = [y.node[p] EXCEPT !.keys = InsertAt(y.node[p].keys, i, s), !.kids = InsertAt(y.node[p].kids, i + 1, b)]
      BY DEF q
    <3>3. SplitUpdateParent(y, r, b, s) = IF i <= Len(Keys(y, p)) THEN MarkNode(y, p, q)
                                          ELSE PropagateMaxKeyUp(MarkNode(y, p, [q EXCEPT !.max = r.max]), p, r.max)
      <4>1. Filing(y, r, b, s, p, i, q)
        BY <3>1, <3>2, Zenon DEF Filing
      <4>. QED
        BY <4>1, SplitUpdateParentIs
    <3>. QED
      BY <2>2, <3>3
<1>22. SplitNode(t, a).new = b /\ v = Over(SplitUpdateParent(y, r, b, s), a, l, b, r)
  BY <1>3
<1>23. CASE i <= Len(Keys(t, p))
  <2>1. v = u
    BY <1>21, <1>22, <1>23 DEF u
  <2>. HIDE DEF v
  <2>2. SplitInto(t, lv, lo, nx, loose, a, v, b)
    BY <1>17, <1>18, <1>19, <1>20, <1>25, <2>1 DEF SplitInto
  <2>. QED
    BY <1>22, <2>2 DEF v
<1>24. CASE ~(i <= Len(Keys(t, p)))
  <2> DEFINE z == MarkNode(y, p, [q EXCEPT !.max = r.max])
             w == Over(z, a, l, b, r)
             k == r.max
  <2>1. v = Over(PropagateMaxKeyUp(z, p, k), a, l, b, r)
    BY <1>21, <1>22, <1>24
  <2>2. k = Top(t, a) /\ k \in Key /\ k \in Nat
    <3>1. r.max = Top(t, a)
      BY <1>9 DEF Halves
    <3>2. Top(t, a) \in Key /\ Top(t, a) \in Nat
      BY <1>1, NodeFields
    <3>. QED
      BY <3>1, <3>2
  <2>3. /\ Formed(y) /\ Nodes(y) = Nodes(t) /\ p # a /\ p # b
    BY <1>2, <1>4, <1>9, <1>19 DEF Rehung, Halved, p
  <2>4. Formed(z) /\ Nodes(z) = Nodes(t) /\ z.node[p] = [q EXCEPT !.max = k]
        /\ Formed(MarkNode(y, p, q)) /\ Nodes(MarkNode(y, p, q)) = Nodes(t)
        /\ z.root = y.root /\ z.page = y.page /\ MarkNode(y, p, q).root = y.root /\ MarkNode(y, p, q).page = y.page
        /\ \A x \in Nodes(t) : x # p => z.node[x] = y.node[x] /\ MarkNode(y, p, q).node[x] = y.node[x]
        /\ MarkNode(y, p, q).node[p] = q
    <3>1. /\ Formed(z) /\ z.root = y.root /\ z.page = y.page
          /\ DOMAIN z.node = DOMAIN y.node \union {p}
          /\ z.node[p] = [q EXCEPT !.max = k] /\ \A x \in DOMAIN y.node : x # p => z.node[x] = y.node[x]
      BY <2>3, Marked
    <3>2. LET e == MarkNode(y, p, q) IN
          /\ Formed(e) /\ e.root = y.root /\ e.page = y.page
          /\ DOMAIN e.node = DOMAIN y.node \union {p}
          /\ e.node[p] = q /\ \A x \in DOMAIN y.node : x # p => e.node[x] = y.node[x]
      BY <2>3, Marked
    <3>. HIDE DEF z
    <3>. QED
      BY <1>4, <2>3, <3>1, <3>2 DEF Nodes
  <2>5. /\ Formed(w) /\ w.root = u.root /\ w.page = u.page
        /\ IsMap(w.node) /\ Nodes(w) = Nodes(u)
        /\ w.node[p] = [q EXCEPT !.max = k] /\ u.node[p] = q
        /\ \A x \in Nodes(u) : x # p => w.node[x] = u.node[x]
    <3>1. a # b /\ a \in Nodes(t)
      BY <1>2
    <3>2. /\ Formed(w) /\ w.root = z.root /\ w.page = z.page
          /\ IsMap(w.node) /\ Nodes(w) = Nodes(z) \union {b}
          /\ w.node[a] = l /\ w.node[b] = r
          /\ \A x \in Nodes(z) : x # a /\ x # b => w.node[x] = z.node[x]
      BY <2>4, <3>1, OverIs
    <3>3. LET e == MarkNode(y, p, q) IN
          /\ Formed(u) /\ u.root = e.root /\ u.page = e.page
          /\ IsMap(u.node) /\ Nodes(u) = Nodes(e) \union {b}
          /\ u.node[a] = l /\ u.node[b] = r
          /\ \A x \in Nodes(e) : x # a /\ x # b => u.node[x] = e.node[x]
      BY <2>4, <3>1, OverIs DEF u
    <3>. HIDE DEF w, z
    <3>4. w.node[p] = [q EXCEPT !.max = k] /\ u.node[p] = q
      BY <1>4, <2>3, <2>4, <3>2, <3>3
    <3>5. ASSUME NEW x \in Nodes(u), x # p PROVE w.node[x] = u.node[x]
      <4>1. CASE x = a \/ x = b
        BY <3>2, <3>3, <4>1
      <4>2. CASE x # a /\ x # b
        <5>1. x \in Nodes(t)
          BY <2>4, <3>3, <3>5, <4>2
        <5>. QED
          BY <2>4, <3>2, <3>3, <3>5, <4>2, <5>1
      <4>. QED
        BY <4>1, <4>2
    <3>. QED
      BY <2>4, <3>2, <3>3, <3>4, <3>5
  <2>. HIDE DEF w, z, k
  <2>6. Typed(u)
    BY <1>18 DEF Good
  <2>7. /\ [q EXCEPT !.max = k] \in NodeType
        /\ [q EXCEPT !.max = k].leaf = q.leaf /\ [q EXCEPT !.max = k].kids = q.kids
        /\ [q EXCEPT !.max = k].max = k /\ [q EXCEPT !.max = k].parent = q.parent
        /\ [q EXCEPT !.max = k].prev = q.prev /\ [q EXCEPT !.max = k].next = q.next
        /\ [q EXCEPT !.max = k].keys = q.keys
    BY <1>12, <2>2, Remaxed DEF FiledIn
  <2>8. p \in Nodes(u)
    BY <1>4, <1>19 DEF Halved
  <2>9. Typed(w)
    <3>1. \A x \in Nodes(w) : w.node[x] \in NodeType
      BY <2>5, <2>6, <2>7, TypedParts
    <3>2. /\ IsMap(u.page) /\ u.root \in Nodes(u) /\ IsFiniteSet(Nodes(u)) /\ Nodes(u) \subseteq Nat \ {0}
          /\ IsFiniteSet(DOMAIN u.page) /\ DOMAIN u.page \subseteq Nat \ {0} /\ \A pg \in DOMAIN u.page : PageType(u.page[pg])
      BY <2>6, TypedParts
    <3>. QED
      BY <2>5, <3>1, <3>2, MadeTree
  <2>10. SameBut(u, w, p) /\ TopIs(u, w, p, k)
    <3>1. /\ Leaf(w, p) = Leaf(u, p) /\ Kids(w, p) = Kids(u, p) /\ Keys(w, p) = Keys(u, p) /\ Up(w, p) = Up(u, p)
          /\ w.node[p].prev = u.node[p].prev /\ w.node[p].next = u.node[p].next /\ Top(w, p) = k
      BY <2>5, <2>7 DEF Leaf, Kids, Keys, Up, Top
    <3>2. \A x \in Nodes(u) :
            /\ Leaf(w, x) = Leaf(u, x) /\ Kids(w, x) = Kids(u, x) /\ Up(w, x) = Up(u, x)
            /\ w.node[x].prev = u.node[x].prev /\ w.node[x].next = u.node[x].next
            /\ Len(Keys(w, x)) = Len(Keys(u, x))
      BY <2>5, <3>1 DEF Leaf, Kids, Keys, Up
    <3>. QED
      BY <2>5, <2>9, <3>1, <3>2 DEF SameBut, TopIs, Alike
  <2>11. /\ ChildAt(u, p, i + 1, b) /\ i + 1 = Len(Kids(u, p)) /\ Top(u, b) = k /\ ~Leaf(u, p) /\ b \in Nodes(u)
    <3>1. i = Len(Kids(t, p))
      BY <1>4, <1>11, <1>24
    <3>2. KidsApart(t, u, p, i, a, b, c) /\ KeysApart(t, u, p, i, a, b, c, s) /\ Apart(t, u, p, i, a, b, c)
      BY <1>13 DEF Divided
    <3>3. Len(Kids(u, p)) = Len(Kids(t, p)) + 1 /\ Kids(u, p)[i + 1] = b
      <4>1. i + 1 \in 1 .. (Len(Kids(t, p)) + 1) /\ ~(i + 1 <= i)
        BY <1>4, <1>11
      <4>. QED
        BY <3>2, <4>1 DEF KidsApart
    <3>4. Top(u, b) = k
      BY <2>2, <3>2 DEF KeysApart
    <3>5. ~Leaf(u, p) /\ b \in Nodes(u)
      BY <3>2 DEF Apart
    <3>. QED
      BY <1>4, <1>11, <3>1, <3>3, <3>4, <3>5 DEF ChildAt
  <2>12. Good(u, lv2, lo2, nx2, loose, b)
    BY <1>18, OverAny
  <2>13. Good(w, lv2, lo2, nx2, loose, p)
    BY <2>8, <2>10, <2>11, <2>12, RaisedTop
  <2>14. Top(w, p) = k /\ p \in Nodes(w)
    BY <2>5, <2>8, <2>10 DEF TopIs
  <2>15. Over(PropagateMaxKeyUp(z, p, k), a, l, b, r) = PropagateMaxKeyUp(w, p, k)
    <3>1. lv2[a] < lv2[p] /\ lv2[b] < lv2[p]
      <4>1. lv[a] \in Nat
        BY <1>1 DEF Levels
      <4>2. lv2[a] = lv[a] /\ lv2[p] = lv[p] /\ lv2[b] = lv[a]
        BY <1>4, <1>16
      <4>. QED
        BY <1>4, <4>1, <4>2
    <3>2. Good(Over(z, a, l, b, r), lv2, lo2, nx2, loose, p) /\ k = Top(Over(z, a, l, b, r), p)
      BY <2>13, <2>14 DEF w
    <3>3. Formed(z) /\ a \in Nodes(z) /\ b \notin Nodes(z) /\ a # b /\ p \in Nodes(z) /\ IsFiniteSet(Nodes(z))
      BY <1>1, <1>2, <1>4, <2>4
    <3>4. Over(PropagateMaxKeyUp(z, p, k), a, l, b, r) = PropagateMaxKeyUp(Over(z, a, l, b, r), p, k)
      BY <3>1, <3>2, <3>3, PropagateBeside
    <3>. QED
      BY <3>4 DEF w
  <2>16. /\ Good(v, lv2, lo2, nx2, loose, 0) /\ Alike(w, v)
         /\ \A x \in Nodes(w) : lv2[x] <= lv2[p] => v.node[x] = w.node[x]
    <3>1. v = PropagateMaxKeyUp(w, p, Top(w, p))
      BY <2>1, <2>14, <2>15
    <3>. HIDE DEF v
    <3>. QED
      BY <2>13, <2>14, <3>1, PropagateKeeps
  <2>. HIDE DEF v
  <2>17. Halved(t, v, a, b)
    <3>1. Halved(t, w, a, b)
      BY <1>19, <2>10, HalvedAlike DEF SameBut
    <3>. QED
      BY <2>16, <3>1, HalvedAlike
  <2>18. v.node[a] = u.node[a] /\ v.node[b] = u.node[b]
    <3>1. a \in Nodes(w) /\ b \in Nodes(w) /\ w.node[a] = u.node[a] /\ w.node[b] = u.node[b]
      BY <1>19, <2>3, <2>5 DEF Halved
    <3>2. lv2[a] <= lv2[p] /\ lv2[b] <= lv2[p]
      <4>1. lv[a] \in Nat
        BY <1>1 DEF Levels
      <4>2. lv2[a] = lv[a] /\ lv2[p] = lv[p] /\ lv2[b] = lv[a]
        BY <1>4, <1>16
      <4>. QED
        BY <1>4, <4>1, <4>2
    <3>. QED
      BY <2>16, <3>1, <3>2
  <2>19. Leaf(t, a) => LeafHalved(t, v, a, b)
    BY <1>20, <2>18, LeafHalvedSame
  <2>21. LowerKept(t, v, lv, a)
    <3>1. ASSUME NEW x \in Nodes(t), lv[x] < lv[a] PROVE Keys(v, x) = Keys(t, x) /\ Top(v, x) = Top(t, x)
      <4>1. lv[x] \in Nat /\ lv[a] \in Nat
        BY <1>1, <3>1 DEF Levels
      <4>2. x # p /\ lv2[x] <= lv2[p]
        BY <1>4, <1>16, <3>1, <4>1
      <4>3. x \in Nodes(u) /\ x \in Nodes(w)
        BY <1>19, <2>5, <3>1 DEF Halved
      <4>4. v.node[x] = u.node[x]
        BY <2>5, <2>16, <4>2, <4>3
      <4>. QED
        BY <1>25, <3>1, <4>4 DEF LowerKept, Keys, Top
    <3>. QED
      BY <3>1 DEF LowerKept
  <2>20. SplitInto(t, lv, lo, nx, loose, a, v, b)
    BY <1>17, <2>16, <2>17, <2>19, <2>21 DEF SplitInto
  <2>. QED
    BY <1>22, <2>20 DEF v
<1>. QED
  BY <1>23, <1>24

(***************************************************************************)
(* Room is made from the top down, and then the leaf is split.             *)
(***************************************************************************)
\* The i-th ancestor of the node at a is i levels above it.
Ascended(t, lv, a, up, i) == up[i] \in Nodes(t) /\ lv[up[i]] = lv[a] + i

AscendsTo(t, lv, a, up) ==
  /\ lv[t.root] - lv[a] \in Nat /\ lv[t.root] - lv[a] <= Cardinality(Nodes(t))
  /\ Cardinality(Nodes(t)) \in Nat /\ DOMAIN up = 0 .. Cardinality(Nodes(t))
  /\ \A i \in 0 .. (lv[t.root] - lv[a]) : Ascended(t, lv, a, up, i)
  /\ up[0] = a /\ up[lv[t.root] - lv[a]] = t.root
  /\ \A i \in 1 .. (lv[t.root] - lv[a]) : up[i] = Up(t, up[i - 1]) /\ up[i - 1] # t.root

LEMMA AncestorsAscend ==
  ASSUME NEW t, NEW lv, NEW lo, NEW nx, NEW loose, NEW a,
         Good(t, lv, lo, nx, loose, 0), a \in Nodes(t)
  PROVE  AscendsTo(t, lv, a, Ancestors(t, a))
<1> DEFINE up == Ancestors(t, a)
           n == Cardinality(Nodes(t))
           h == lv[t.root] - lv[a]
<1>1. Typed(t) /\ Arrays(t) /\ Parents(t) /\ Levels(t, lv) /\ Children(t, lv)
  BY DEF Good
<1>2. n \in Nat /\ lv[t.root] \in Nat /\ lv[t.root] < n /\ lv[a] <= lv[t.root] /\ lv[a] \in Nat /\ t.root \in Nodes(t)
      /\ \A x \in Nodes(t) : lv[x] <= lv[t.root] /\ lv[x] \in Nat /\ x # 0
  <2>1. \A x \in Nodes(t) : lv[x] \in Nat /\ x # 0
    BY <1>1 DEF Levels, Typed
  <2>2. t.root \in Nodes(t)
    BY <1>1 DEF Typed
  <2>. QED
    BY <1>1, <2>1, <2>2, Height
<1>3. h \in Nat /\ h <= n
  BY <1>2
<1>4. /\ up = [i \in 0 .. n |-> up[i]] /\ up[0] = a
      /\ \A i \in 1 .. n : up[i] = (IF up[i - 1] = 0 THEN 0 ELSE t.node[up[i - 1]].parent)
  <2>1. PICK f : /\ Ancestors(t, a) = f
                 /\ f = [i \in 0 .. n |-> f[i]] /\ f[0] = a
                 /\ \A i \in 1 .. n : f[i] = (IF f[i - 1] = 0 THEN 0 ELSE t.node[f[i - 1]].parent)
    BY <1>2, AncestorsRun DEF Nodes
  <2>. QED
    BY <2>1
<1>. HIDE DEF n, h, up
<1>5. ASSUME NEW i \in 1 .. h, Ascended(t, lv, a, up, i - 1)
      PROVE  up[i] = Up(t, up[i - 1]) /\ up[i - 1] # t.root /\ Ascended(t, lv, a, up, i)
  <2>1. up[i - 1] \in Nodes(t) /\ lv[up[i - 1]] = lv[a] + (i - 1)
    BY <1>5 DEF Ascended
  <2>2. up[i - 1] # t.root
    BY <1>2, <1>3, <2>1 DEF h
  <2>3. up[i] = Up(t, up[i - 1])
    <3>1. i \in 1 .. n
      BY <1>3, <1>2 DEF h, n
    <3>. QED
      BY <1>2, <1>4, <2>1, <3>1 DEF Up
  <2>4. Up(t, up[i - 1]) \in Nodes(t) /\ lv[Up(t, up[i - 1])] = lv[up[i - 1]] + 1
    BY <1>1, <2>1, <2>2, ParentOf
  <2>. QED
    BY <1>2, <1>3, <2>1, <2>2, <2>3, <2>4 DEF Ascended
<1>6. \A i \in 0 .. h : Ascended(t, lv, a, up, i)
  <2> DEFINE T == {i \in 0 .. h : Ascended(t, lv, a, up, i)}
  <2>1. 0 \in T
    BY <1>2, <1>3, <1>4 DEF Ascended
  <2>2. ASSUME NEW i \in 1 .. h, i - 1 \in T PROVE i \in T
    BY <1>3, <1>5, <2>2
  <2>. HIDE DEF T
  <2>3. 0 .. h \subseteq T
    BY <1>3, <2>1, <2>2, CountingUpTo
  <2>. QED
    BY <2>3 DEF T
<1>7. up[h] = t.root
  <2>1. up[h] \in Nodes(t) /\ lv[up[h]] = lv[a] + h
    BY <1>3, <1>6 DEF Ascended
  <2>2. lv[up[h]] = lv[t.root]
    BY <1>2, <2>1 DEF h
  <2>3. ASSUME up[h] # t.root PROVE FALSE
    <3>1. Up(t, up[h]) \in Nodes(t) /\ lv[Up(t, up[h])] = lv[up[h]] + 1
      BY <1>1, <2>1, <2>3, ParentOf
    <3>. QED
      BY <1>2, <2>2, <3>1
  <2>. QED
    BY <2>3
<1>8. \A i \in 1 .. h : up[i] = Up(t, up[i - 1]) /\ up[i - 1] # t.root
  <2>1. \A i \in 1 .. h : i - 1 \in 0 .. h
    BY <1>3
  <2>. QED
    BY <1>5, <1>6, <2>1
<1>9. DOMAIN up = 0 .. n
  BY <1>4
<1>10. AscendsTo(t, lv, a, up)
  BY <1>2, <1>3, <1>4, <1>6, <1>7, <1>8, <1>9 DEF h, n, AscendsTo
<1>. QED
  BY <1>10 DEF up

\* What top is.
TopAt(t, lv, a, up, top) ==
  /\ top \in Nat /\ up[0] = a /\ \A i \in 0 .. top : Ascended(t, lv, a, up, i)
  /\ \A i \in 1 .. top : up[i] = Up(t, up[i - 1]) /\ up[i - 1] # t.root /\ IsFull(t.node[up[i]])
  /\ up[top] = t.root \/ (up[top] # t.root /\ ~IsFull(t.node[Up(t, up[top])]))

LEMMA RoomTopIs ==
  ASSUME NEW t, NEW lv, NEW lo, NEW nx, NEW loose, NEW a,
         Good(t, lv, lo, nx, loose, 0), a \in Nodes(t)
  PROVE  TopAt(t, lv, a, Ancestors(t, a), RoomTop(t, a))
<1> DEFINE up == Ancestors(t, a)
           n == Cardinality(Nodes(t))
           h == lv[t.root] - lv[a]
           S == {i \in DOMAIN up : /\ up[i] # 0
                                   /\ IsRoot(t.node[up[i]]) \/ ~IsFull(t.node[t.node[up[i]].parent])}
           top == RoomTop(t, a)
<1>1. /\ h \in Nat /\ h <= n /\ n \in Nat /\ DOMAIN up = 0 .. n
      /\ \A i \in 0 .. h : Ascended(t, lv, a, up, i)
      /\ up[0] = a /\ up[h] = t.root
      /\ \A i \in 1 .. h : up[i] = Up(t, up[i - 1]) /\ up[i - 1] # t.root
  <2>1. AscendsTo(t, lv, a, up)
    BY AncestorsAscend
  <2>. HIDE DEF up
  <2>. QED
    BY <2>1 DEF AscendsTo
<1>2. top = Min(S)
  BY DEF RoomTop
<1>. HIDE DEF up
<1>3. Parents(t) /\ \A x \in Nodes(t) : x # 0
  BY DEF Good, Typed
<1>. HIDE DEF h, n, top
<1>4. \A i \in 0 .. h : up[i] \in Nodes(t) /\ up[i] # 0 /\ i \in DOMAIN up
  <2>1. \A i \in 0 .. h : up[i] \in Nodes(t)
    BY <1>1 DEF Ascended
  <2>2. \A i \in 0 .. h : i \in 0 .. n
    BY <1>1
  <2>. QED
    BY <1>1, <1>3, <2>1, <2>2
\* Only the root has no parent.
<1>5. \A i \in 0 .. h : IsRoot(t.node[up[i]]) <=> up[i] = t.root
  <2>1. ASSUME NEW i \in 0 .. h PROVE IsRoot(t.node[up[i]]) <=> up[i] = t.root
    <3>1. IsRoot(t.node[up[i]]) <=> Up(t, up[i]) = 0
      BY DEF IsRoot, Up
    <3>2. up[i] # t.root => Up(t, up[i]) \in Nodes(t)
      BY <1>3, <1>4 DEF Parents
    <3>. QED
      BY <1>3, <3>1, <3>2 DEF Parents
  <2>. QED
    BY <2>1
<1>6. S \in SUBSET Nat /\ h \in S
  <2>1. \A i \in DOMAIN up : i \in Nat
    BY <1>1
  <2>2. h \in 0 .. h
    BY <1>1
  <2>3. IsRoot(t.node[up[h]])
    BY <1>1, <1>5, <2>2
  <2>. QED
    BY <1>4, <2>1, <2>2, <2>3
<1>7. top \in S /\ \A i \in S : top <= i
  <2>. HIDE DEF S
  <2>. QED
    BY <1>2, <1>6, MinIs
<1>8. top \in 0 .. h /\ top \in Nat
  BY <1>1, <1>6, <1>7
<1>9. ASSUME NEW i \in 1 .. top
      PROVE up[i] = Up(t, up[i - 1]) /\ up[i - 1] # t.root /\ IsFull(t.node[up[i]])
  <2>1. i \in 1 .. h /\ i - 1 \in 0 .. h /\ i - 1 < top
    BY <1>1, <1>8
  <2>2. up[i] = Up(t, up[i - 1]) /\ up[i - 1] # t.root
    BY <1>1, <2>1
  <2>3. i - 1 \notin S
    <3>1. i - 1 \in Nat
      BY <2>1
    <3>. QED
      BY <1>7, <1>8, <2>1, <3>1
  <2>4. IsFull(t.node[t.node[up[i - 1]].parent])
    BY <1>4, <2>1, <2>3
  <2>. QED
    BY <2>2, <2>4 DEF Up
<1>10. up[top] = t.root \/ (up[top] # t.root /\ ~IsFull(t.node[Up(t, up[top])]))
  <2>1. IsRoot(t.node[up[top]]) \/ ~IsFull(t.node[t.node[up[top]].parent])
    BY <1>7
  <2>. QED
    BY <1>5, <1>8, <2>1 DEF Up
<1>11. \A i \in 0 .. top : Ascended(t, lv, a, up, i)
  BY <1>1, <1>8
<1>12. TopAt(t, lv, a, up, top)
  BY <1>1, <1>8, <1>9, <1>10, <1>11 DEF TopAt
<1>. QED
  BY <1>12 DEF top, up

\* In s the ancestors above the node at c, of the path of t, have been split,
\* and there is room above it.
ReadyGhosts(t, lv, lo, nx, loose, c, s) ==
  \E lv2, lo2, nx2 :
    /\ Good(s, lv2, lo2, nx2, loose, 0)
    /\ \A x \in Nodes(t) : lv2[x] = lv[x] /\ lo2[x] = lo[x] /\ (lv[x] <= lv[c] => nx2[x] = nx[x])

Readied(t, lv, lo, nx, loose, c, s) ==
  /\ ReadyGhosts(t, lv, lo, nx, loose, c, s)
  /\ Nodes(t) \subseteq Nodes(s) /\ s.page = t.page /\ c \in Nodes(t)
  /\ \A x \in Nodes(t) :
       /\ Leaf(s, x) = Leaf(t, x)
       /\ lv[x] <= lv[c] => Kids(s, x) = Kids(t, x) /\ Keys(s, x) = Keys(t, x) /\ Top(s, x) = Top(t, x)
       /\ lv[x] < lv[c] => Up(s, x) = Up(t, x)
  /\ c # s.root /\ Len(Kids(s, Up(s, c))) < M /\ Roomy(s, Up(s, c))

LEMMA RoomyAny ==
  ASSUME NEW t, Typed(t), Roomy(t, 0), NEW b
  PROVE  Roomy(t, b)
<1>1. HalfM \in Nat /\ HalfM >= 2
  BY OrderAssumption DEF HalfM
<1>2. \A x \in Nodes(t) : x # 0 /\ Len(Kids(t, x)) \in Nat
  <2>1. \A x \in Nodes(t) : x # 0
    BY DEF Typed
  <2>. QED
    BY <2>1, NodeFields
<1>3. ASSUME NEW a \in Nodes(t)
      PROVE  /\ Len(Kids(t, a)) <= M
             /\ a # t.root => Len(Kids(t, a)) >= IF a = b THEN HalfM - 1 ELSE HalfM
             /\ a = t.root /\ ~Leaf(t, a) => Len(Kids(t, a)) >= IF a = b THEN 1 ELSE 2
  <2>1. /\ Len(Kids(t, a)) <= M /\ (a # t.root => Len(Kids(t, a)) >= HalfM)
        /\ (a = t.root /\ ~Leaf(t, a) => Len(Kids(t, a)) >= 2)
    BY <1>2 DEF Roomy
  <2>. QED
    BY <1>1, <1>2, <2>1
<1>. QED
  BY <1>3 DEF Roomy

\* A split leaves no node too small.
LEMMA SplitRoomy ==
  ASSUME NEW t, NEW v, NEW a, NEW b, Typed(t), Halved(t, v, a, b), IsFull(t.node[a]), a # t.root,
         Roomy(t, Up(t, a)), Len(Kids(t, Up(t, a))) < M, ~Leaf(t, Up(t, a)), Len(Kids(t, Up(t, a))) >= 1
  PROVE  Roomy(v, 0) /\ Len(Kids(v, a)) < M /\ Len(Kids(v, b)) < M
<1> DEFINE p == Up(t, a)
           m == Len(Kids(t, a))
<1>1. /\ HalfM \in Nat /\ M \in Nat /\ M >= 4 /\ HalfM >= 2 /\ 2 * HalfM <= M /\ HalfM + 1 < M
      /\ M - M \div 2 >= HalfM /\ M - M \div 2 < M /\ M - M \div 2 >= 2 /\ M \div 2 < M /\ M \div 2 = HalfM
  BY OrderAssumption DEF HalfM
<1>2. /\ a \in Nodes(t) /\ b \in Nat \ {0} /\ b \notin Nodes(t) /\ Nodes(v) = Nodes(t) \union {b}
      /\ v.root = t.root
      /\ Leaf(v, b) = Leaf(t, a) /\ \A x \in Nodes(t) : Leaf(v, x) = Leaf(t, x)
      /\ Len(Kids(v, a)) = Keep(t, a) /\ Len(Kids(v, b)) = m - Keep(t, a)
      /\ p \in Nodes(t) /\ p # a /\ Len(Kids(v, p)) = Len(Kids(t, p)) + 1
      /\ \A x \in Nodes(t) : x # a /\ x # p => Kids(v, x) = Kids(t, x)
  BY DEF Halved
<1>3. m = M
  <2>1. m >= M
    BY DEF IsFull, Kids
  <2>2. m <= M /\ m \in Nat
    BY <1>2, NodeFields DEF Roomy
  <2>. QED
    BY <1>1, <2>1, <2>2
<1>4. Keep(t, a) = M - M \div 2
  BY <1>3 DEF Keep, Kids
<1>5. \A x \in Nodes(t) : Len(Kids(t, x)) \in Nat /\ x # 0
  <2>1. \A x \in Nodes(t) : x # 0
    BY DEF Typed
  <2>. QED
    BY <2>1, NodeFields
<1>6. t.root \in Nodes(t)
  BY DEF Typed
<1>. HIDE DEF p, m
<1>7. ASSUME NEW x \in Nodes(v)
      PROVE  /\ Len(Kids(v, x)) <= M
             /\ x # v.root => Len(Kids(v, x)) >= HalfM
             /\ x = v.root /\ ~Leaf(v, x) => Len(Kids(v, x)) >= 2
  <2>1. CASE x = a
    <3>1. Len(Kids(v, x)) = M - M \div 2
      BY <1>2, <1>4, <2>1
    <3>. QED
      BY <1>1, <3>1
  <2>2. CASE x = b
    <3>1. Len(Kids(v, x)) = HalfM
      BY <1>1, <1>2, <1>3, <1>4, <2>2
    <3>2. x # v.root
      BY <1>2, <1>6, <2>2
    <3>. QED
      BY <1>1, <3>1, <3>2
  <2>3. CASE x = p
    <3>1. Len(Kids(v, x)) = Len(Kids(t, p)) + 1 /\ Len(Kids(t, p)) < M /\ Len(Kids(t, p)) >= 1 /\ Len(Kids(t, p)) \in Nat
      BY <1>2, <1>5, <2>3 DEF p
    <3>2. p # t.root => Len(Kids(t, p)) >= HalfM - 1
      BY <1>2 DEF Roomy, p
    <3>. QED
      BY <1>1, <1>2, <2>3, <3>1, <3>2
  <2>4. CASE x # a /\ x # b /\ x # p
    <3>1. x \in Nodes(t) /\ Kids(v, x) = Kids(t, x) /\ Leaf(v, x) = Leaf(t, x)
      BY <1>2, <2>4
    <3>2. /\ Len(Kids(t, x)) <= M
          /\ x # t.root => Len(Kids(t, x)) >= HalfM
          /\ x = t.root /\ ~Leaf(t, x) => Len(Kids(t, x)) >= 2
      BY <2>4, <3>1 DEF Roomy, p
    <3>. QED
      BY <1>2, <3>1, <3>2
  <2>. QED
    BY <2>1, <2>2, <2>3, <2>4
<1>8. 0 \notin Nodes(v)
  BY <1>2, <1>5
<1>9. Roomy(v, 0)
  BY <1>7, <1>8 DEF Roomy
<1>. QED
  BY <1>1, <1>2, <1>3, <1>4, <1>9

\* Splitting the next ancestor makes room above the one below it.
LEMMA ReadyBelow ==
  ASSUME NEW t, NEW lv, NEW lo, NEW nx, NEW loose, NEW c, NEW d, NEW s,
         Good(t, lv, lo, nx, loose, 0), Readied(t, lv, lo, nx, loose, c, s), IsFull(t.node[c]),
         d \in Nodes(t), Up(t, d) = c, lv[d] < lv[c]
  PROVE  Readied(t, lv, lo, nx, loose, d, SplitNode(s, c).tree)
<1> DEFINE v == SplitNode(s, c).tree
           b == SplitNode(s, c).new
<1>1. PICK lv1, lo1, nx1 :
        /\ Good(s, lv1, lo1, nx1, loose, 0)
        /\ \A x \in Nodes(t) : lv1[x] = lv[x] /\ lo1[x] = lo[x] /\ (lv[x] <= lv[c] => nx1[x] = nx[x])
  BY DEF Readied, ReadyGhosts
<1>2. /\ Nodes(t) \subseteq Nodes(s) /\ s.page = t.page /\ c \in Nodes(t)
      /\ \A x \in Nodes(t) :
           /\ Leaf(s, x) = Leaf(t, x)
           /\ lv[x] <= lv[c] => Kids(s, x) = Kids(t, x) /\ Keys(s, x) = Keys(t, x) /\ Top(s, x) = Top(t, x)
           /\ lv[x] < lv[c] => Up(s, x) = Up(t, x)
      /\ c # s.root /\ Len(Kids(s, Up(s, c))) < M /\ Roomy(s, Up(s, c))
  BY DEF Readied
<1>3. \A x \in Nodes(t) : lv[x] \in Nat
  BY DEF Good, Levels
<1>4. Typed(s) /\ c \in Nodes(s) /\ IsFull(s.node[c]) /\ Len(Kids(s, c)) >= 2
  <2>1. Typed(s)
    BY <1>1 DEF Good
  <2>2. Kids(s, c) = Kids(t, c)
    BY <1>2, <1>3
  <2>3. IsFull(s.node[c])
    BY <2>2 DEF IsFull, Kids
  <2>4. Len(Kids(s, c)) >= M /\ Len(Kids(s, c)) \in Nat
    BY <1>2, <2>1, <2>3, NodeFields DEF IsFull, Kids
  <2>. QED
    BY <1>2, <2>1, <2>3, <2>4, OrderAssumption
<1>5. Up(s, c) \in Nodes(s) /\ ~Leaf(s, Up(s, c)) /\ Len(Kids(s, Up(s, c))) >= 1 /\ lv1[Up(s, c)] = lv1[c] + 1
  <2>1. Typed(s) /\ Arrays(s) /\ Parents(s) /\ Children(s, lv1) /\ Levels(s, lv1)
    BY <1>1 DEF Good
  <2>2. Up(s, c) \in Nodes(s) /\ ~Leaf(s, Up(s, c)) /\ lv1[Up(s, c)] = lv1[c] + 1
    BY <1>2, <1>4, <2>1, ParentOf
  <2>. QED
    BY <2>1, <2>2 DEF Arrays
<1>6. SplitInto(s, lv1, lo1, nx1, loose, c, v, b)
  BY <1>1, <1>2, <1>4, SplitKeeps
<1>. HIDE DEF v, b
<1>7. Halved(s, v, c, b) /\ LowerKept(s, v, lv1, c)
  BY <1>6 DEF SplitInto
<1>8. PICK lv2, lo2, nx2 : Good(v, lv2, lo2, nx2, loose, 0) /\ CutGhosts(s, lv1, lo1, nx1, c, b, lv2, lo2, nx2)
  BY <1>6 DEF SplitInto
<1>9. /\ Roomy(v, 0) /\ Len(Kids(v, c)) < M /\ Len(Kids(v, b)) < M
  BY <1>2, <1>4, <1>5, <1>7, SplitRoomy
<1>10. /\ Nodes(v) = Nodes(s) \union {b} /\ b \notin Nodes(s) /\ v.root = s.root /\ v.page = s.page
       /\ \A x \in Nodes(s) : /\ Leaf(v, x) = Leaf(s, x)
                              /\ x # c /\ x # Up(s, c) => Kids(v, x) = Kids(s, x)
                              /\ Up(v, x) = Up(s, x) \/ (Up(s, x) = c /\ Up(v, x) = b)
  BY <1>7 DEF Halved
<1>11. ReadyGhosts(t, lv, lo, nx, loose, d, v)
  <2>1. ASSUME NEW x \in Nodes(t)
        PROVE  lv2[x] = lv[x] /\ lo2[x] = lo[x] /\ (lv[x] <= lv[d] => nx2[x] = nx[x])
    <3>1. lv2[x] = lv1[x] /\ lo2[x] = lo1[x] /\ (x # c => nx2[x] = nx1[x])
      BY <1>2, <1>8 DEF CutGhosts, FollowingCut
    <3>2. lv[x] <= lv[d] => x # c /\ lv[x] <= lv[c]
      BY <1>2, <1>3
    <3>. QED
      BY <1>1, <3>1, <3>2
  <2>. QED
    BY <1>8, <2>1 DEF ReadyGhosts
<1>12. ASSUME NEW x \in Nodes(t)
       PROVE  /\ Leaf(v, x) = Leaf(t, x)
              /\ lv[x] <= lv[d] => Kids(v, x) = Kids(t, x) /\ Keys(v, x) = Keys(t, x) /\ Top(v, x) = Top(t, x)
              /\ lv[x] < lv[d] => Up(v, x) = Up(t, x)
  <2>1. x \in Nodes(s) /\ Leaf(v, x) = Leaf(t, x)
    BY <1>2, <1>10
  <2>2. ASSUME lv[x] <= lv[d]
        PROVE  Kids(v, x) = Kids(t, x) /\ Keys(v, x) = Keys(t, x) /\ Top(v, x) = Top(t, x)
    <3>1. lv[x] < lv[c] /\ lv1[x] < lv1[c]
      BY <1>1, <1>2, <1>3, <2>2
    <3>2. x # c /\ x # Up(s, c)
      BY <1>1, <1>2, <1>3, <1>5, <3>1
    <3>3. Keys(v, x) = Keys(s, x) /\ Top(v, x) = Top(s, x) /\ Kids(v, x) = Kids(s, x)
      BY <1>7, <1>10, <2>1, <3>1, <3>2 DEF LowerKept
    <3>. QED
      BY <1>2, <1>3, <3>1, <3>3
  <2>3. ASSUME lv[x] < lv[d] PROVE Up(v, x) = Up(t, x)
    <3>1. lv[x] < lv[c]
      BY <1>2, <1>3, <2>3
    <3>2. Up(s, x) = Up(t, x)
      BY <1>2, <3>1
    <3>3. Up(t, x) # c
      <4>1. ASSUME Up(t, x) = c PROVE FALSE
        <5>1. Typed(t) /\ Arrays(t) /\ Parents(t) /\ Children(t, lv) /\ Levels(t, lv)
          BY DEF Good
        <5>2. x # t.root /\ d # t.root
          <6>1. c # 0 /\ Up(t, t.root) = 0
            BY <1>2, <5>1 DEF Typed, Parents
          <6>. QED
            BY <4>1, <6>1
        <5>3. lv[Up(t, x)] = lv[x] + 1 /\ lv[Up(t, d)] = lv[d] + 1
          BY <5>1, <5>2, ParentOf
        <5>. QED
          BY <1>3, <2>3, <4>1, <5>3
      <4>. QED
        BY <4>1
    <3>. QED
      BY <1>10, <2>1, <3>2, <3>3
  <2>. QED
    BY <2>1, <2>2, <2>3
<1>13. d # v.root /\ (Up(v, d) = c \/ Up(v, d) = b)
  <2>1. Up(s, d) = c /\ d \in Nodes(s)
    BY <1>2
  <2>2. Up(v, d) = c \/ Up(v, d) = b
    BY <1>10, <2>1
  <2>3. c # 0 /\ b # 0
    BY <1>4, <1>7 DEF Typed, Halved
  <2>4. Up(v, v.root) = 0
    BY <1>8 DEF Good, Parents
  <2>. QED
    BY <2>2, <2>3, <2>4
<1>14. Len(Kids(v, Up(v, d))) < M
  BY <1>9, <1>13
<1>15. Roomy(v, Up(v, d))
  <2>1. Typed(v)
    BY <1>8 DEF Good
  <2>. QED
    BY <1>9, <2>1, RoomyAny
<1>16. Readied(t, lv, lo, nx, loose, d, v)
  BY <1>2, <1>10, <1>11, <1>12, <1>13, <1>14, <1>15 DEF Readied
<1>. QED
  BY <1>16 DEF v

\* Room above the topmost ancestor to be split.
LEMMA ReadyAtTop ==
  ASSUME NEW t, NEW lv, NEW lo, NEW nx, NEW loose, NEW c,
         Good(t, lv, lo, nx, loose, 0), Roomy(t, 0), c \in Nodes(t), c # t.root, ~IsFull(t.node[Up(t, c)])
  PROVE  Readied(t, lv, lo, nx, loose, c, t)
<1>1. Typed(t) /\ Parents(t)
  BY DEF Good
<1>2. ReadyGhosts(t, lv, lo, nx, loose, c, t)
  BY DEF ReadyGhosts
<1>3. Len(Kids(t, Up(t, c))) < M
  <2>1. Up(t, c) \in Nodes(t)
    BY <1>1 DEF Parents
  <2>2. Len(Kids(t, Up(t, c))) \in Nat /\ M \in Nat
    BY <1>1, <2>1, NodeFields, OrderAssumption
  <2>. QED
    BY <2>2 DEF IsFull, Kids
<1>4. Roomy(t, Up(t, c))
  BY <1>1, RoomyAny
<1>. QED
  BY <1>2, <1>3, <1>4 DEF Readied

LEMMA ReadyAtRoot ==
  ASSUME NEW t, NEW lv, NEW lo, NEW nx, NEW loose, NEW c,
         Good(t, lv, lo, nx, loose, 0), Roomy(t, 0), c = t.root, IsFull(t.node[c])
  PROVE  Readied(t, lv, lo, nx, loose, c, NewRoot(t, t.node[c], c))
<1> DEFINE r == FreeAddress(DOMAIN t.node)
           s == NewRoot(t, t.node[c], c)
           lv2 == [x \in Nodes(t) \union {r} |-> IF x = r THEN lv[c] + 1 ELSE lv[x]]
           lo2 == [x \in Nodes(t) \union {r} |-> IF x = r THEN lo[c] ELSE lo[x]]
           nx2 == [x \in Nodes(t) \union {r} |-> IF x = r THEN 0 ELSE nx[x]]
<1>1. Typed(t) /\ \A x \in Nodes(t) : x # 0 /\ Len(Kids(t, x)) \in Nat
  <2>1. Typed(t) /\ \A x \in Nodes(t) : x # 0
    BY DEF Good, Typed
  <2>. QED
    BY <2>1, NodeFields
<1>2. RootedAbove(t, s, c, r)
  BY <1>1, NewRootFacts
<1>. HIDE DEF s
<1>3. /\ Nodes(s) = Nodes(t) \union {r} /\ r \notin Nodes(t) /\ s.root = r /\ s.page = t.page
      /\ c \in Nodes(t) /\ c # r /\ Leaf(s, r) = FALSE /\ Kids(s, r) = <<c>>
      /\ \A x \in Nodes(t) : /\ Leaf(s, x) = Leaf(t, x) /\ Kids(s, x) = Kids(t, x)
                             /\ Keys(s, x) = Keys(t, x) /\ Top(s, x) = Top(t, x)
                             /\ Up(s, x) = (IF x = c THEN r ELSE Up(t, x))
      /\ r # 0
  BY <1>2 DEF RootedAbove
<1>4. (\A x \in Nodes(t) : lv2[x] = lv[x] /\ lo2[x] = lo[x] /\ nx2[x] = nx[x])
      /\ lv2[r] = lv[c] + 1 /\ lo2[r] = lo[c] /\ nx2[r] = 0
  BY <1>3
<1>5. r = FreeAddress(DOMAIN t.node)
  OBVIOUS
<1>. HIDE DEF r, lv2, lo2, nx2
<1>6. Good(s, lv2, lo2, nx2, loose, 0)
  BY <1>4, <1>5, NewRootKeeps DEF s
<1>7. ReadyGhosts(t, lv, lo, nx, loose, c, s)
  BY <1>4, <1>6 DEF ReadyGhosts
<1>8. ASSUME NEW x \in Nodes(t), lv[x] < lv[c] PROVE Up(s, x) = Up(t, x)
  <2>1. x # c
    <3>1. lv[x] \in Nat
      BY <1>8 DEF Good, Levels
    <3>. QED
      BY <1>8, <3>1
  <2>. QED
    BY <1>3, <2>1
<1>9. Up(s, c) = r /\ Len(Kids(s, r)) = 1
  BY <1>3
<1>10. M \in Nat /\ M >= 4 /\ HalfM \in Nat /\ HalfM <= M
  BY OrderAssumption DEF HalfM
<1>11. Roomy(s, r)
  <2>1. ASSUME NEW x \in Nodes(s)
        PROVE  /\ Len(Kids(s, x)) <= M
               /\ x # s.root => Len(Kids(s, x)) >= IF x = r THEN HalfM - 1 ELSE HalfM
               /\ x = s.root /\ ~Leaf(s, x) => Len(Kids(s, x)) >= IF x = r THEN 1 ELSE 2
    <3>1. CASE x = r
      <4>1. Len(Kids(s, x)) = 1 /\ x = s.root
        BY <1>3, <1>9, <3>1
      <4>. QED
        BY <1>10, <3>1, <4>1
    <3>2. CASE x # r
      <4>1. x \in Nodes(t) /\ Kids(s, x) = Kids(t, x) /\ x # s.root /\ x # 0 /\ Len(Kids(t, x)) \in Nat
        BY <1>1, <1>3, <2>1, <3>2
      <4>2. Len(Kids(t, x)) <= M /\ (x # t.root => Len(Kids(t, x)) >= HalfM)
        BY <4>1 DEF Roomy
      <4>3. x = t.root => Len(Kids(t, x)) >= HalfM
        BY <1>10, <4>1 DEF IsFull, Kids
      <4>. QED
        BY <1>10, <3>2, <4>1, <4>2, <4>3
    <3>. QED
      BY <3>1, <3>2
  <2>. QED
    BY <2>1 DEF Roomy
<1>12. Len(Kids(s, Up(s, c))) < M
  BY <1>9, <1>10
<1>13. \A x \in Nodes(t) :
         /\ Leaf(s, x) = Leaf(t, x)
         /\ lv[x] <= lv[c] => Kids(s, x) = Kids(t, x) /\ Keys(s, x) = Keys(t, x) /\ Top(s, x) = Top(t, x)
         /\ lv[x] < lv[c] => Up(s, x) = Up(t, x)
  BY <1>3, <1>8
<1>14. c # s.root /\ Roomy(s, Up(s, c))
  BY <1>3, <1>9, <1>11
<1>15. Readied(t, lv, lo, nx, loose, c, s)
  BY <1>3, <1>7, <1>12, <1>13, <1>14 DEF Readied
<1>. QED
  BY <1>15 DEF s

\* A leaf with no room becomes two.
LeafSplit(t, lo, nx, loose, a, v, b) ==
  /\ \E lv2, lo2, nx2 :
       /\ Good(v, lv2, lo2, nx2, loose, 0) /\ \A x \in Nodes(t) : lo2[x] = lo[x]
       /\ lo2[b] = Keys(t, a)[Keep(t, a)] /\ nx2[a] = b /\ nx2[b] = nx[a]
  /\ Nodes(t) \subseteq Nodes(v) /\ v.page = t.page /\ a \in Nodes(v) /\ b \in Nodes(v)
  /\ Leaf(v, a) /\ Leaf(v, b) /\ LeafHalved(t, v, a, b)
  /\ Len(Kids(v, a)) = Keep(t, a) /\ Len(Kids(v, b)) = Len(Kids(t, a)) - Keep(t, a)
  /\ Roomy(v, 0) /\ Len(Kids(v, a)) < M /\ Len(Kids(v, b)) < M

\* Splitting the leaf itself.
LEMMA LeafSplitBy ==
  ASSUME NEW t, NEW lv, NEW lo, NEW nx, NEW loose, NEW a, NEW s,
         Good(t, lv, lo, nx, loose, 0), Readied(t, lv, lo, nx, loose, a, s), IsFull(t.node[a]), Leaf(t, a)
  PROVE  LeafSplit(t, lo, nx, loose, a, SplitNode(s, a).tree, SplitNode(s, a).new)
<1> DEFINE v == SplitNode(s, a).tree
           b == SplitNode(s, a).new
<1>1. PICK lv1, lo1, nx1 :
        /\ Good(s, lv1, lo1, nx1, loose, 0)
        /\ \A x \in Nodes(t) : lv1[x] = lv[x] /\ lo1[x] = lo[x] /\ (lv[x] <= lv[a] => nx1[x] = nx[x])
  BY DEF Readied, ReadyGhosts
<1>2. /\ Nodes(t) \subseteq Nodes(s) /\ s.page = t.page /\ a \in Nodes(t)
      /\ \A x \in Nodes(t) :
           /\ Leaf(s, x) = Leaf(t, x)
           /\ lv[x] <= lv[a] => Kids(s, x) = Kids(t, x) /\ Keys(s, x) = Keys(t, x) /\ Top(s, x) = Top(t, x)
      /\ a # s.root /\ Len(Kids(s, Up(s, a))) < M /\ Roomy(s, Up(s, a))
  BY DEF Readied
<1>3. \A x \in Nodes(t) : lv[x] \in Nat
  BY DEF Good, Levels
<1>4. Kids(s, a) = Kids(t, a) /\ Keys(s, a) = Keys(t, a) /\ Top(s, a) = Top(t, a) /\ Leaf(s, a) /\ nx1[a] = nx[a]
      /\ a \in Nodes(s)
  BY <1>1, <1>2, <1>3
<1>5. Typed(s) /\ IsFull(s.node[a]) /\ Len(Kids(s, a)) >= 2 /\ Keep(s, a) = Keep(t, a)
  <2>1. Typed(s)
    BY <1>1 DEF Good
  <2>2. IsFull(s.node[a]) /\ Keep(s, a) = Keep(t, a)
    BY <1>4 DEF IsFull, Kids, Keep
  <2>3. Len(Kids(s, a)) >= M /\ Len(Kids(s, a)) \in Nat
    BY <1>4, <2>1, <2>2, NodeFields DEF IsFull, Kids
  <2>. QED
    BY <2>1, <2>2, <2>3, OrderAssumption
<1>6. ~Leaf(s, Up(s, a)) /\ Len(Kids(s, Up(s, a))) >= 1
  <2>1. Parents(s) /\ Arrays(s)
    BY <1>1 DEF Good
  <2>. QED
    BY <1>2, <1>4, <2>1 DEF Parents, Arrays
<1>7. SplitInto(s, lv1, lo1, nx1, loose, a, v, b)
  BY <1>1, <1>2, <1>4, <1>5, SplitKeeps
<1>. HIDE DEF v, b
<1>8. Halved(s, v, a, b) /\ LeafHalved(s, v, a, b)
  BY <1>4, <1>7 DEF SplitInto
<1>9. PICK lv2, lo2, nx2 : Good(v, lv2, lo2, nx2, loose, 0) /\ CutGhosts(s, lv1, lo1, nx1, a, b, lv2, lo2, nx2)
  BY <1>7 DEF SplitInto
<1>10. /\ Roomy(v, 0) /\ Len(Kids(v, a)) < M /\ Len(Kids(v, b)) < M
  BY <1>2, <1>5, <1>6, <1>8, SplitRoomy
<1>11. /\ Nodes(v) = Nodes(s) \union {b} /\ v.page = s.page /\ Leaf(v, b) = Leaf(s, a)
       /\ Leaf(v, a) = Leaf(s, a) /\ Len(Kids(v, a)) = Keep(s, a) /\ Len(Kids(v, b)) = Len(Kids(s, a)) - Keep(s, a)
  BY <1>4, <1>8 DEF Halved
<1>12. (\A x \in Nodes(t) : lo2[x] = lo[x]) /\ lo2[b] = Keys(t, a)[Keep(t, a)] /\ nx2[a] = b /\ nx2[b] = nx[a]
  BY <1>1, <1>2, <1>4, <1>5, <1>9 DEF CutGhosts, FollowingCut
<1>13. LeafHalved(t, v, a, b)
  BY <1>4, <1>5, <1>8 DEF LeafHalved
<1>14. LeafSplit(t, lo, nx, loose, a, v, b)
  <2>1. \E lv3, lo3, nx3 :
          /\ Good(v, lv3, lo3, nx3, loose, 0) /\ \A x \in Nodes(t) : lo3[x] = lo[x]
          /\ lo3[b] = Keys(t, a)[Keep(t, a)] /\ nx3[a] = b /\ nx3[b] = nx[a]
    BY <1>9, <1>12
  <2>2. Nodes(t) \subseteq Nodes(v) /\ v.page = t.page /\ a \in Nodes(v) /\ b \in Nodes(v)
    BY <1>2, <1>11
  <2>. QED
    BY <1>4, <1>5, <1>10, <1>11, <1>13, <2>1, <2>2 DEF LeafSplit
<1>. QED
  BY <1>14 DEF v, b

LEMMA BalanceSplits ==
  ASSUME NEW t, NEW lv, NEW lo, NEW nx, NEW loose, NEW a,
         Good(t, lv, lo, nx, loose, 0), Roomy(t, 0), a \in Nodes(t), IsFull(t.node[a]), Leaf(t, a)
  PROVE  LeafSplit(t, lo, nx, loose, a, BalanceTreeAdd(t, a).tree, BalanceTreeAdd(t, a).new)
<1> DEFINE up == Ancestors(t, a)
           top == RoomTop(t, a)
           s == BalanceTreeAdd(t, a)
<1>1. TopAt(t, lv, a, up, top)
  BY RoomTopIs
<1>2. RoomMade(t, a) = IF IsRoot(t.node[up[top]]) THEN NewRoot(t, t.node[up[top]], up[top]) ELSE t
  BY DEF RoomMade
<1>3. /\ top \in Nat /\ up[0] = a /\ \A i \in 0 .. top : up[i] \in Nodes(t) /\ lv[up[i]] = lv[a] + i
      /\ \A i \in 1 .. top : up[i] = Up(t, up[i - 1]) /\ up[i - 1] # t.root /\ IsFull(t.node[up[i]])
      /\ up[top] = t.root \/ (up[top] # t.root /\ ~IsFull(t.node[Up(t, up[top])]))
      /\ lv[a] \in Nat
  <2>1. lv[a] \in Nat
    BY DEF Good, Levels
  <2>. HIDE DEF up, top
  <2>. QED
    BY <1>1, <2>1 DEF TopAt, Ascended
<1>4. PICK f : /\ s = f[top + 1]
               /\ f[0] = [tree |-> RoomMade(t, a), new |-> 0]
               /\ \A i \in 1 .. (top + 1) : f[i] = SplitNode(f[i - 1].tree, up[top + 1 - i])
  BY <1>3, SplitRuns
<1>. HIDE DEF up, top, s
<1>5. f[0].tree = RoomMade(t, a)
  BY <1>4
<1>6. \A i \in 0 .. top : IsFull(t.node[up[i]])
  <2>1. ASSUME NEW i \in 0 .. top PROVE IsFull(t.node[up[i]])
    <3>1. i = 0 \/ i \in 1 .. top
      BY <1>3
    <3>. QED
      BY <1>3, <3>1
  <2>. QED
    BY <2>1
<1>7. Readied(t, lv, lo, nx, loose, up[top], f[0].tree)
  <2>1. up[top] \in Nodes(t) /\ IsFull(t.node[up[top]])
    BY <1>3, <1>6
  <2>2. Parents(t) /\ 0 \notin Nodes(t)
    BY DEF Good, Typed
  <2>3. CASE up[top] = t.root
    <3>1. IsRoot(t.node[up[top]])
      BY <2>2, <2>3 DEF IsRoot, Parents, Up
    <3>2. f[0].tree = NewRoot(t, t.node[up[top]], up[top])
      BY <1>2, <1>5, <3>1
    <3>. QED
      BY <2>1, <2>3, <3>2, ReadyAtRoot
  <2>4. CASE up[top] # t.root
    <3>1. ~IsRoot(t.node[up[top]])
      BY <2>1, <2>2, <2>4 DEF IsRoot, Parents, Up
    <3>2. f[0].tree = t
      BY <1>2, <1>5, <3>1
    <3>. QED
      BY <1>3, <2>1, <2>4, <3>2, ReadyAtTop
  <2>. QED
    BY <2>3, <2>4
<1>8. ASSUME NEW i \in 1 .. top, Readied(t, lv, lo, nx, loose, up[top - (i - 1)], f[i - 1].tree)
      PROVE  Readied(t, lv, lo, nx, loose, up[top - i], f[i].tree)
  <2> DEFINE c == up[top - (i - 1)]
             d == up[top - i]
  <2>1. top - (i - 1) \in 1 .. top /\ (top - (i - 1)) - 1 = top - i /\ top - i \in 0 .. top
        /\ top - (i - 1) \in 0 .. top /\ top + 1 - i = top - (i - 1) /\ i \in 1 .. (top + 1)
    BY <1>3
  <2>2. c = Up(t, d) /\ IsFull(t.node[c]) /\ d \in Nodes(t)
    BY <1>3, <1>6, <2>1
  <2>3. lv[d] < lv[c]
    <3>1. lv[c] = lv[a] + (top - (i - 1)) /\ lv[d] = lv[a] + (top - i)
      BY <1>3, <2>1
    <3>. QED
      BY <1>3, <3>1
  <2>4. f[i] = SplitNode(f[i - 1].tree, c)
    BY <1>4, <2>1
  <2>. HIDE DEF c, d
  <2>5. Readied(t, lv, lo, nx, loose, d, SplitNode(f[i - 1].tree, c).tree)
    <3>1. Readied(t, lv, lo, nx, loose, c, f[i - 1].tree)
      BY <1>8 DEF c
    <3>. QED
      BY <2>2, <2>3, <3>1, ReadyBelow
  <2>. QED
    BY <2>4, <2>5 DEF d
<1>9. \A i \in 0 .. top : Readied(t, lv, lo, nx, loose, up[top - i], f[i].tree)
  <2> DEFINE T == {i \in 0 .. top : Readied(t, lv, lo, nx, loose, up[top - i], f[i].tree)}
  <2>1. 0 \in T
    <3>1. 0 \in 0 .. top /\ top - 0 = top
      BY <1>3
    <3>. QED
      BY <1>7, <3>1
  <2>2. ASSUME NEW i \in 1 .. top, i - 1 \in T PROVE i \in T
    <3>1. i \in 0 .. top
      BY <1>3
    <3>. QED
      BY <1>8, <2>2, <3>1
  <2>. HIDE DEF T
  <2>3. 0 .. top \subseteq T
    BY <1>3, <2>1, <2>2, CountingUpTo
  <2>. QED
    BY <2>3 DEF T
<1>10. Readied(t, lv, lo, nx, loose, a, f[top].tree)
  <2>1. top \in 0 .. top /\ top - top = 0
    BY <1>3
  <2>. QED
    BY <1>3, <1>9, <2>1
<1>11. s = SplitNode(f[top].tree, a)
  <2>1. top + 1 \in 1 .. (top + 1) /\ (top + 1) - 1 = top /\ top + 1 - (top + 1) = 0
    BY <1>3
  <2>. QED
    BY <1>3, <1>4, <2>1
<1>12. LeafSplit(t, lo, nx, loose, a, s.tree, s.new)
  BY <1>10, <1>11, LeafSplitBy
<1>. QED
  BY <1>12 DEF s

\* A page more in a leaf with room.
LEMMA GrownRoomy ==
  ASSUME NEW t, NEW v, NEW a, Typed(t), Roomy(t, 0), Grown(t, v, a), a \in Nodes(t), Leaf(t, a), Len(Kids(t, a)) < M
  PROVE  Roomy(v, 0)
<1>1. M \in Nat /\ HalfM \in Nat
  BY OrderAssumption DEF HalfM
<1>2. ASSUME NEW x \in Nodes(v)
      PROVE  /\ Len(Kids(v, x)) <= M
             /\ x # v.root => Len(Kids(v, x)) >= IF x = 0 THEN HalfM - 1 ELSE HalfM
             /\ x = v.root /\ ~Leaf(v, x) => Len(Kids(v, x)) >= IF x = 0 THEN 1 ELSE 2
  <2>1. x \in Nodes(t) /\ v.root = t.root /\ Leaf(v, x) = Leaf(t, x)
        /\ Len(Kids(v, x)) = IF x = a THEN Len(Kids(t, x)) + 1 ELSE Len(Kids(t, x))
    BY <1>2 DEF Grown
  <2>2. Len(Kids(t, x)) \in Nat /\ x # 0
    BY <2>1, NodeFields
  <2>3. Len(Kids(t, x)) <= M /\ (x # t.root => Len(Kids(t, x)) >= HalfM)
        /\ (x = t.root /\ ~Leaf(t, x) => Len(Kids(t, x)) >= 2)
    BY <2>1, <2>2 DEF Roomy
  <2>4. CASE x = a
    BY <1>1, <2>1, <2>2, <2>3, <2>4
  <2>5. CASE x # a
    BY <1>1, <2>1, <2>2, <2>3, <2>5
  <2>. QED
    BY <2>4, <2>5
<1>. QED
  BY <1>2 DEF Roomy

\* What is known of the halves of a leaf.
HalfGhosts(t, lo, nx, a, v, b, lo2, nx2) ==
  /\ \A x \in Nodes(t) : lo2[x] = lo[x]
  /\ lo2[b] = Keys(t, a)[Keep(t, a)] /\ nx2[a] = b /\ nx2[b] = nx[a]
  /\ a \in Nodes(v) /\ b \in Nodes(v) /\ b # 0 /\ Leaf(v, a) /\ Leaf(v, b) /\ v.page = t.page
  /\ LeafHalved(t, v, a, b) /\ Len(Kids(v, a)) = Keep(t, a)
  /\ Len(Kids(v, b)) = Len(Kids(t, a)) - Keep(t, a)
  /\ Len(Keys(v, a)) = Keep(t, a) /\ Len(Keys(v, b)) = Len(Kids(t, a)) - Keep(t, a)
  /\ Keep(t, a) \in 1 .. (Len(Kids(t, a)) - 1)

LeafPlace(t, lo, nx, a, k, i) ==
  /\ AboveAt(Keys(t, a), k, i) /\ LoAt(t, lo, a, i) < k /\ (nx[a] # 0 => k <= lo[nx[a]])

\* Where a key belongs in a leaf.
LEMMA PlaceIs ==
  ASSUME NEW t, NEW lv, NEW lo, NEW nx, NEW loose, NEW a, NEW k, NEW pg,
         Good(t, lv, lo, nx, loose, 0), Belongs(t, lo, nx, a, k, pg)
  PROVE  LeafPlace(t, lo, nx, a, k, FirstAbove(Keys(t, a), k)) /\ k \in Nat /\ a \in Nodes(t)
<1>1. a \in Nodes(t) /\ k \in Key /\ k \in Nat
  BY KeyAssumption DEF Belongs
<1>2. Typed(t)
  BY DEF Good
<1>3. Keys(t, a) \in Seq(Nat)
  BY <1>1, <1>2, NodeFields
<1>4. AboveAt(Keys(t, a), k, FirstAbove(Keys(t, a), k))
  BY <1>1, <1>3, FirstAboveIs
<1>. QED
  BY <1>1, <1>4 DEF Belongs, LeafPlace

LEMMA LeafKeys ==
  ASSUME NEW t, NEW lv, NEW lo, NEW nx, NEW loose, NEW a,
         Good(t, lv, lo, nx, loose, 0), a \in Nodes(t), Leaf(t, a)
  PROVE  /\ Len(Kids(t, a)) \in Nat /\ Len(Keys(t, a)) = Len(Kids(t, a)) /\ Len(Kids(t, a)) >= 1
         /\ \A i \in 1 .. Len(Kids(t, a)) : Keys(t, a)[i] \in Nat /\ Keys(t, a)[i] \in Key
         /\ \A i, j \in 1 .. Len(Kids(t, a)) : i < j => Keys(t, a)[i] < Keys(t, a)[j]
         /\ \A i \in 1 .. Len(Kids(t, a)) : lo[a] < Keys(t, a)[i] /\ Keys(t, a)[i] <= Top(t, a)
         /\ lo[a] \in Int /\ Top(t, a) \in Nat
<1>1. Typed(t) /\ Arrays(t) /\ Children(t, lv) /\ Bounds(t, lo, 0) /\ Filed(t, lo)
  BY DEF Good
<1>2. Len(Kids(t, a)) \in Nat /\ Len(Keys(t, a)) = Len(Kids(t, a)) /\ Len(Kids(t, a)) >= 1 /\ Top(t, a) \in Nat
  BY <1>1, NodeFields DEF Arrays
<1>3. lo[a] \in Int
  BY <1>1 DEF Bounds
<1>4. \A i \in 1 .. Len(Keys(t, a)) : Keys(t, a)[i] \in Key /\ Keys(t, a)[i] \in Nat
  BY <1>1, NodeFields
<1>5. /\ \A i, j \in 1 .. Len(Keys(t, a)) : i < j => Keys(t, a)[i] < Keys(t, a)[j]
      /\ \A i \in 1 .. Len(Keys(t, a)) : lo[a] < Keys(t, a)[i] /\ Keys(t, a)[i] <= Top(t, a)
  BY <1>1, KeysAscend
<1>. QED
  BY <1>2, <1>3, <1>4, <1>5

LEMMA LowerPlace ==
  ASSUME NEW t, NEW lv, NEW lo, NEW nx, NEW loose, NEW a, NEW k \in Nat, NEW i, NEW v, NEW b, NEW lo2, NEW nx2,
         Good(t, lv, lo, nx, loose, 0), a \in Nodes(t), Leaf(t, a), LeafPlace(t, lo, nx, a, k, i),
         HalfGhosts(t, lo, nx, a, v, b, lo2, nx2), k <= Top(v, a)
  PROVE  LeafPlace(v, lo2, nx2, a, k, i) /\ LoAt(v, lo2, a, i) = LoAt(t, lo, a, i) /\ i \in 1 .. Keep(t, a)
         /\ Kids(v, a)[i] = Kids(t, a)[i] /\ i \in 1 .. Len(Kids(t, a))
<1> DEFINE c == Keep(t, a)
<1>1. /\ Len(Kids(t, a)) \in Nat /\ Len(Keys(t, a)) = Len(Kids(t, a))
      /\ \A j \in 1 .. Len(Kids(t, a)) : Keys(t, a)[j] \in Nat
      /\ \A j, m \in 1 .. Len(Kids(t, a)) : j < m => Keys(t, a)[j] < Keys(t, a)[m]
  BY LeafKeys
<1>2. c \in 1 .. (Len(Kids(t, a)) - 1) /\ c \in Nat /\ c \in 1 .. Len(Kids(t, a))
  BY <1>1 DEF HalfGhosts
<1>3. Top(v, a) = Keys(t, a)[c] /\ \A j \in 1 .. c : Kids(v, a)[j] = Kids(t, a)[j] /\ Keys(v, a)[j] = Keys(t, a)[j]
  BY DEF HalfGhosts, LeafHalved
<1>4. Len(Keys(v, a)) = c /\ nx2[a] = b /\ lo2[b] = Keys(t, a)[c] /\ lo2[a] = lo[a]
  BY DEF HalfGhosts
<1>5. /\ i \in 1 .. (Len(Keys(t, a)) + 1) /\ (i <= Len(Keys(t, a)) => Keys(t, a)[i] > k)
      /\ \A j \in 1 .. Len(Keys(t, a)) : j < i => Keys(t, a)[j] <= k
      /\ (i = 1 => lo[a] < k) /\ (i # 1 => Keys(t, a)[i - 1] < k)
  BY DEF LeafPlace, AboveAt, LoAt
<1>. HIDE DEF c
<1>6. i <= c
  <2>1. SUFFICES ASSUME i > c PROVE FALSE
    BY <1>1, <1>2, <1>5
  <2>2. i - 1 \in 1 .. Len(Kids(t, a)) /\ i # 1 /\ i - 1 >= c
    BY <1>1, <1>2, <1>5, <2>1
  <2>3. Keys(t, a)[i - 1] < k
    BY <1>5, <2>2
  <2>4. Keys(t, a)[c] <= Keys(t, a)[i - 1]
    BY <1>1, <1>2, <2>2
  <2>. QED
    BY <1>1, <1>2, <1>3, <2>2, <2>3, <2>4
<1>7. i \in 1 .. c /\ i \in 1 .. Len(Kids(t, a))
  BY <1>1, <1>2, <1>5, <1>6
<1>8. AboveAt(Keys(v, a), k, i)
  BY <1>1, <1>2, <1>3, <1>4, <1>5, <1>7 DEF AboveAt
<1>9. LoAt(v, lo2, a, i) = LoAt(t, lo, a, i)
  <2>1. i # 1 => i - 1 \in 1 .. c
    BY <1>2, <1>7
  <2>. QED
    BY <1>3, <1>4, <2>1 DEF LoAt
<1>10. LoAt(t, lo, a, i) < k
  BY DEF LeafPlace
<1>. QED
  BY <1>3, <1>4, <1>7, <1>8, <1>9, <1>10 DEF LeafPlace, c

LEMMA UpperPlace ==
  ASSUME NEW t, NEW lv, NEW lo, NEW nx, NEW loose, NEW a, NEW k \in Nat, NEW i, NEW v, NEW b, NEW lo2, NEW nx2,
         Good(t, lv, lo, nx, loose, 0), a \in Nodes(t), Leaf(t, a), LeafPlace(t, lo, nx, a, k, i),
         HalfGhosts(t, lo, nx, a, v, b, lo2, nx2), ~(k <= Top(v, a))
  PROVE  LeafPlace(v, lo2, nx2, b, k, i - Keep(t, a))
         /\ LoAt(v, lo2, b, i - Keep(t, a)) = LoAt(t, lo, a, i)
         /\ (i - Keep(t, a) <= Len(Kids(v, b)) =>
               i \in 1 .. Len(Kids(t, a)) /\ Kids(v, b)[i - Keep(t, a)] = Kids(t, a)[i])
<1> DEFINE c == Keep(t, a)
           j == i - c
<1>1. /\ Len(Kids(t, a)) \in Nat /\ Len(Keys(t, a)) = Len(Kids(t, a))
      /\ \A m \in 1 .. Len(Kids(t, a)) : Keys(t, a)[m] \in Nat
      /\ \A m, n \in 1 .. Len(Kids(t, a)) : m < n => Keys(t, a)[m] < Keys(t, a)[n]
  BY LeafKeys
<1>2. c \in 1 .. (Len(Kids(t, a)) - 1) /\ c \in Nat /\ c \in 1 .. Len(Kids(t, a))
  BY <1>1 DEF HalfGhosts
<1>3. Top(v, a) = Keys(t, a)[c] /\ \A m \in 1 .. (Len(Kids(t, a)) - c) :
        Kids(v, b)[m] = Kids(t, a)[c + m] /\ Keys(v, b)[m] = Keys(t, a)[c + m]
  BY DEF HalfGhosts, LeafHalved
<1>4. Len(Keys(v, b)) = Len(Kids(t, a)) - c /\ Len(Kids(v, b)) = Len(Kids(t, a)) - c
      /\ nx2[b] = nx[a] /\ lo2[b] = Keys(t, a)[c]
  BY DEF HalfGhosts
<1>5. /\ i \in 1 .. (Len(Keys(t, a)) + 1) /\ (i <= Len(Keys(t, a)) => Keys(t, a)[i] > k)
      /\ \A m \in 1 .. Len(Keys(t, a)) : m < i => Keys(t, a)[m] <= k
      /\ (i # 1 => Keys(t, a)[i - 1] < k)
  BY DEF LeafPlace, AboveAt, LoAt
<1>6. nx2[b] # 0 => k <= lo2[nx2[b]]
  <2>1. nx[a] # 0 => nx[a] \in Nodes(t)
    BY DEF Good, Ordered
  <2>2. nx[a] # 0 => lo2[nx[a]] = lo[nx[a]]
    BY <2>1 DEF HalfGhosts
  <2>. QED
    BY <1>4, <2>2 DEF LeafPlace
<1>. HIDE DEF c
<1>7. i > c
  <2>1. SUFFICES ASSUME i <= c PROVE FALSE
    BY <1>1, <1>2, <1>5
  <2>2. i \in 1 .. Len(Kids(t, a)) /\ Keys(t, a)[i] > k
    BY <1>1, <1>2, <1>5, <2>1
  <2>3. Keys(t, a)[i] <= Keys(t, a)[c]
    BY <1>1, <1>2, <2>1, <2>2
  <2>. QED
    BY <1>1, <1>2, <1>3, <2>2, <2>3
<1>8. j \in 1 .. (Len(Kids(t, a)) - c + 1) /\ c + j = i /\ c + (j - 1) = i - 1
  BY <1>1, <1>2, <1>5, <1>7
<1>9. AboveAt(Keys(v, b), k, j)
  <2>1. j \in 1 .. (Len(Keys(v, b)) + 1)
    BY <1>4, <1>8
  <2>2. j <= Len(Keys(v, b)) => Keys(v, b)[j] > k
    <3>1. SUFFICES ASSUME j <= Len(Keys(v, b)) PROVE Keys(v, b)[j] > k
      OBVIOUS
    <3>2. j \in 1 .. (Len(Kids(t, a)) - c) /\ i <= Len(Keys(t, a))
      BY <1>1, <1>2, <1>4, <1>5, <1>8, <3>1
    <3>. QED
      BY <1>3, <1>5, <1>8, <3>2
  <2>3. \A m \in 1 .. Len(Keys(v, b)) : m < j => Keys(v, b)[m] <= k
    <3>1. SUFFICES ASSUME NEW m \in 1 .. Len(Keys(v, b)), m < j PROVE Keys(v, b)[m] <= k
      OBVIOUS
    <3>2. m \in 1 .. (Len(Kids(t, a)) - c) /\ c + m \in 1 .. Len(Keys(t, a)) /\ c + m < i
      BY <1>1, <1>2, <1>4, <1>5, <1>8, <3>1
    <3>. QED
      BY <1>3, <1>5, <3>2
  <2>. QED
    BY <2>1, <2>2, <2>3 DEF AboveAt
<1>10. LoAt(v, lo2, b, j) = LoAt(t, lo, a, i) /\ i # 1
  <2>1. i # 1 /\ i - 1 \in 1 .. Len(Kids(t, a))
    BY <1>1, <1>2, <1>5, <1>7
  <2>2. CASE j = 1
    <3>1. i - 1 = c
      BY <1>2, <1>5, <1>8, <2>2
    <3>. QED
      BY <1>4, <2>1, <2>2, <3>1 DEF LoAt
  <2>3. CASE j # 1
    <3>1. j - 1 \in 1 .. (Len(Kids(t, a)) - c)
      BY <1>1, <1>2, <1>8, <2>3
    <3>2. Keys(v, b)[j - 1] = Keys(t, a)[i - 1]
      BY <1>3, <1>8, <3>1
    <3>. QED
      BY <2>1, <2>3, <3>2 DEF LoAt
  <2>. QED
    BY <2>2, <2>3
<1>11. LoAt(t, lo, a, i) < k
  BY DEF LeafPlace
<1>12. j <= Len(Kids(v, b)) => i \in 1 .. Len(Kids(t, a)) /\ Kids(v, b)[j] = Kids(t, a)[i]
  <2>1. SUFFICES ASSUME j <= Len(Kids(v, b)) PROVE i \in 1 .. Len(Kids(t, a)) /\ Kids(v, b)[j] = Kids(t, a)[i]
    OBVIOUS
  <2>2. j \in 1 .. (Len(Kids(t, a)) - c) /\ i \in 1 .. Len(Kids(t, a))
    BY <1>1, <1>2, <1>4, <1>5, <1>8, <2>1
  <2>. QED
    BY <1>3, <1>8, <2>2
<1>13. LeafPlace(v, lo2, nx2, b, k, j)
  BY <1>6, <1>9, <1>10, <1>11 DEF LeafPlace
<1>. QED
  BY <1>10, <1>12, <1>13 DEF c

\* The invariant of the tree, but for the pages in loose.
Stands(t, loose) == Roomy(t, 0) /\ \E lv, lo, nx : Good(t, lv, lo, nx, loose, 0)

LEMMA BelongsBy ==
  ASSUME NEW t, NEW lv, NEW lo, NEW nx, NEW loose, NEW a, NEW k \in Key, NEW i, NEW pg,
         Good(t, lv, lo, nx, loose, 0), a \in Nodes(t), Leaf(t, a), LeafPlace(t, lo, nx, a, k, i),
         pg \in DOMAIN t.page, \A j \in DOMAIN t.page[pg] : LoAt(t, lo, a, i) < j /\ j <= k,
         i <= Len(Kids(t, a)) => \A j \in DOMAIN t.page[Kids(t, a)[i]] : k < j
  PROVE  Belongs(t, lo, nx, a, k, pg)
<1>1. Typed(t) /\ k \in Nat
  BY KeyAssumption DEF Good
<1>2. Keys(t, a) \in Seq(Nat)
  BY <1>1, NodeFields
<1>3. Len(Keys(t, a)) \in Nat /\ \A x \in 1 .. Len(Keys(t, a)) : Keys(t, a)[x] \in Nat
  BY <1>2
<1>4. AboveAt(Keys(t, a), k, FirstAbove(Keys(t, a), k))
  BY <1>1, <1>2, FirstAboveIs
<1>5. AboveAt(Keys(t, a), k, i)
  BY DEF LeafPlace
<1>6. FirstAbove(Keys(t, a), k) = i
  BY <1>1, <1>3, <1>4, <1>5, AboveOnce
<1>7. LoAt(t, lo, a, i) < k /\ (nx[a] # 0 => k <= lo[nx[a]])
  BY DEF LeafPlace
<1>. QED
  BY <1>6, <1>7 DEF Belongs

LEMMA InsertStands ==
  ASSUME NEW t, NEW lv, NEW lo, NEW nx, NEW a, NEW k, NEW pg,
         Good(t, lv, lo, nx, {pg}, 0), Roomy(t, 0), Belongs(t, lo, nx, a, k, pg), Len(Kids(t, a)) < M
  PROVE  Stands(InsertPage(t, t.node[a], a, k, pg), {}) /\ InsertPage(t, t.node[a], a, k, pg).page = t.page
<1> DEFINE v == InsertPage(t, t.node[a], a, k, pg)
<1>1. Good(v, lv, lo, nx, {}, 0) /\ Grown(t, v, a)
  BY InsertPageKeeps
<1>. HIDE DEF v
<1>2. a \in Nodes(t) /\ Leaf(t, a)
  BY DEF Belongs
<1>3. Typed(t)
  BY DEF Good
<1>4. Roomy(v, 0)
  BY <1>1, <1>2, <1>3, GrownRoomy
<1>5. v.page = t.page
  BY <1>1 DEF Grown
<1>6. Stands(v, {})
  BY <1>1, <1>4 DEF Stands
<1>. QED
  BY <1>5, <1>6 DEF v

LEMMA HalvesKnown ==
  ASSUME NEW t, NEW lv, NEW lo, NEW nx, NEW loose, NEW a, NEW v, NEW b, NEW lv2, NEW lo2, NEW nx2, NEW loose2,
         Good(t, lv, lo, nx, loose, 0), a \in Nodes(t), Leaf(t, a), IsFull(t.node[a]),
         LeafSplit(t, lo, nx, loose, a, v, b), Good(v, lv2, lo2, nx2, loose2, 0),
         \A x \in Nodes(t) : lo2[x] = lo[x], lo2[b] = Keys(t, a)[Keep(t, a)], nx2[a] = b, nx2[b] = nx[a]
  PROVE  HalfGhosts(t, lo, nx, a, v, b, lo2, nx2)
<1>1. /\ v.page = t.page /\ a \in Nodes(v) /\ b \in Nodes(v) /\ Leaf(v, a) /\ Leaf(v, b) /\ LeafHalved(t, v, a, b)
      /\ Len(Kids(v, a)) = Keep(t, a) /\ Len(Kids(v, b)) = Len(Kids(t, a)) - Keep(t, a)
  BY DEF LeafSplit
<1>2. Typed(v) /\ Typed(t) /\ Arrays(v)
  BY DEF Good
<1>3. b # 0
  BY <1>1, <1>2, NodeFields
<1>4. Len(Keys(v, a)) = Keep(t, a) /\ Len(Keys(v, b)) = Len(Kids(t, a)) - Keep(t, a)
  BY <1>1, <1>2 DEF Arrays
<1>5. Keep(t, a) \in 1 .. (Len(Kids(t, a)) - 1)
  <2>1. Len(Kids(t, a)) \in Nat /\ Len(Kids(t, a)) >= M
    BY <1>2, NodeFields, OrderAssumption DEF IsFull, Kids
  <2>2. Len(Kids(t, a)) >= 4
    BY <2>1, OrderAssumption
  <2>3. \A n \in Nat : n >= 4 => n - n \div 2 \in 1 .. (n - 1)
    OBVIOUS
  <2>4. Keep(t, a) = Len(Kids(t, a)) - Len(Kids(t, a)) \div 2
    BY DEF Keep, Kids
  <2>. QED
    BY <2>1, <2>2, <2>3, <2>4
<1>. QED
  BY <1>1, <1>3, <1>4, <1>5 DEF HalfGhosts

LEMMA LowerBelongs ==
  ASSUME NEW t, NEW lv, NEW lo, NEW nx, NEW loose, NEW a, NEW k, NEW pg, NEW v, NEW b,
         NEW lv2, NEW lo2, NEW nx2, NEW loose2,
         Good(t, lv, lo, nx, loose, 0), Belongs(t, lo, nx, a, k, pg), Good(v, lv2, lo2, nx2, loose2, 0),
         HalfGhosts(t, lo, nx, a, v, b, lo2, nx2), k <= Top(v, a)
  PROVE  Belongs(v, lo2, nx2, a, k, pg)
<1> DEFINE i == FirstAbove(Keys(t, a), k)
<1>1. LeafPlace(t, lo, nx, a, k, i) /\ k \in Nat /\ a \in Nodes(t)
  BY PlaceIs
<1>2. /\ Leaf(t, a) /\ k \in Key /\ pg \in DOMAIN t.page
      /\ \A j \in DOMAIN t.page[pg] : LoAt(t, lo, a, i) < j /\ j <= k
      /\ i <= Len(Kids(t, a)) => \A j \in DOMAIN t.page[Kids(t, a)[i]] : k < j
  BY DEF Belongs
<1>. HIDE DEF i
<1>3. LeafPlace(v, lo2, nx2, a, k, i) /\ LoAt(v, lo2, a, i) = LoAt(t, lo, a, i) /\ i \in 1 .. Keep(t, a)
      /\ Kids(v, a)[i] = Kids(t, a)[i] /\ i \in 1 .. Len(Kids(t, a))
  BY <1>1, <1>2, LowerPlace
<1>4. a \in Nodes(v) /\ Leaf(v, a) /\ v.page = t.page
  BY DEF HalfGhosts
<1>5. Len(Kids(t, a)) \in Nat
  BY <1>1, <1>2, LeafKeys
<1>6. \A j \in DOMAIN v.page[Kids(v, a)[i]] : k < j
  BY <1>2, <1>3, <1>4, <1>5
<1>. QED
  BY <1>2, <1>3, <1>4, <1>6, BelongsBy

LEMMA UpperBelongs ==
  ASSUME NEW t, NEW lv, NEW lo, NEW nx, NEW loose, NEW a, NEW k, NEW pg, NEW v, NEW b,
         NEW lv2, NEW lo2, NEW nx2, NEW loose2,
         Good(t, lv, lo, nx, loose, 0), Belongs(t, lo, nx, a, k, pg), Good(v, lv2, lo2, nx2, loose2, 0),
         HalfGhosts(t, lo, nx, a, v, b, lo2, nx2), ~(k <= Top(v, a))
  PROVE  Belongs(v, lo2, nx2, b, k, pg)
<1> DEFINE i == FirstAbove(Keys(t, a), k)
<1>1. LeafPlace(t, lo, nx, a, k, i) /\ k \in Nat /\ a \in Nodes(t)
  BY PlaceIs
<1>2. /\ Leaf(t, a) /\ k \in Key /\ pg \in DOMAIN t.page
      /\ \A j \in DOMAIN t.page[pg] : LoAt(t, lo, a, i) < j /\ j <= k
      /\ i <= Len(Kids(t, a)) => \A j \in DOMAIN t.page[Kids(t, a)[i]] : k < j
  BY DEF Belongs
<1>. HIDE DEF i
<1> DEFINE m == i - Keep(t, a)
<1>3. LeafPlace(v, lo2, nx2, b, k, m) /\ LoAt(v, lo2, b, m) = LoAt(t, lo, a, i)
      /\ (m <= Len(Kids(v, b)) => i \in 1 .. Len(Kids(t, a)) /\ Kids(v, b)[m] = Kids(t, a)[i])
  BY <1>1, <1>2, UpperPlace
<1>. HIDE DEF m
<1>4. b \in Nodes(v) /\ Leaf(v, b) /\ v.page = t.page
  BY DEF HalfGhosts
<1>5. Len(Kids(t, a)) \in Nat
  BY <1>1, <1>2, LeafKeys
<1>6. m <= Len(Kids(v, b)) => \A j \in DOMAIN v.page[Kids(v, b)[m]] : k < j
  BY <1>2, <1>3, <1>4, <1>5
<1>. QED
  BY <1>2, <1>3, <1>4, <1>6, BelongsBy

\* The page goes in the half its key belongs in.
LEMMA AddToHalfStands ==
  ASSUME NEW t, NEW lv, NEW lo, NEW nx, NEW a, NEW k, NEW pg, NEW s,
         Good(t, lv, lo, nx, {pg}, 0), Belongs(t, lo, nx, a, k, pg), IsFull(t.node[a]),
         LeafSplit(t, lo, nx, {pg}, a, s.tree, s.new)
  PROVE  Stands(AddToHalf(s, a, k, pg), {}) /\ AddToHalf(s, a, k, pg).page = t.page
<1> DEFINE v == s.tree
           b == s.new
<1>1. PICK lv2, lo2, nx2 :
        /\ Good(v, lv2, lo2, nx2, {pg}, 0) /\ \A x \in Nodes(t) : lo2[x] = lo[x]
        /\ lo2[b] = Keys(t, a)[Keep(t, a)] /\ nx2[a] = b /\ nx2[b] = nx[a]
  BY DEF LeafSplit
<1>2. Roomy(v, 0) /\ Len(Kids(v, a)) < M /\ Len(Kids(v, b)) < M /\ v.page = t.page
  BY DEF LeafSplit
<1>3. a \in Nodes(t) /\ Leaf(t, a)
  BY DEF Belongs
<1>4. AddToHalf(s, a, k, pg) = IF k <= Top(v, a) THEN InsertPage(v, v.node[a], a, k, pg)
                               ELSE RaiseRootMax(InsertPage(v, v.node[b], b, k, pg), k)
  BY DEF AddToHalf, Top
<1>5. HalfGhosts(t, lo, nx, a, v, b, lo2, nx2)
  BY <1>1, <1>3, HalvesKnown
<1>. HIDE DEF v, b
<1>6. CASE k <= Top(v, a)
  <2>1. Belongs(v, lo2, nx2, a, k, pg)
    BY <1>1, <1>5, <1>6, LowerBelongs
  <2>2. Stands(InsertPage(v, v.node[a], a, k, pg), {}) /\ InsertPage(v, v.node[a], a, k, pg).page = v.page
    BY <1>1, <1>2, <2>1, InsertStands
  <2>. QED
    BY <1>2, <1>4, <1>6, <2>2
<1>7. CASE ~(k <= Top(v, a))
  <2> DEFINE u == InsertPage(v, v.node[b], b, k, pg)
  <2>1. Belongs(v, lo2, nx2, b, k, pg)
    BY <1>1, <1>5, <1>7, UpperBelongs
  <2>2. Stands(u, {}) /\ u.page = v.page
    BY <1>1, <1>2, <2>1, InsertStands
  <2>3. Good(u, lv2, lo2, nx2, {}, 0) /\ Grown(v, u, b) /\ k <= Top(u, b)
    BY <1>1, <2>1, InsertPageKeeps
  <2>. HIDE DEF u
  <2>4. b \in Nodes(u) /\ k \in Nat
    BY <2>1, <2>3, KeyAssumption DEF Grown, Belongs
  <2>5. RaiseRootMax(u, k) = u
    BY <2>3, <2>4, RootMaxIs
  <2>6. AddToHalf(s, a, k, pg) = u
    BY <1>4, <1>7, <2>5 DEF u
  <2>. QED
    BY <1>2, <2>2, <2>6
<1>. QED
  BY <1>6, <1>7

LEMMA AddPageStands ==
  ASSUME NEW t, NEW lv, NEW lo, NEW nx, NEW a, NEW k, NEW pg,
         Good(t, lv, lo, nx, {pg}, 0), Roomy(t, 0), Belongs(t, lo, nx, a, k, pg)
  PROVE  Stands(AddPage(t, t.node[a], a, k, pg), {}) /\ AddPage(t, t.node[a], a, k, pg).page = t.page
<1>1. a \in Nodes(t) /\ Leaf(t, a)
  BY DEF Belongs
<1>2. CASE IsFull(t.node[a])
  <2> DEFINE s == BalanceTreeAdd(t, a)
  <2>1. AddPage(t, t.node[a], a, k, pg) = AddToHalf(s, a, k, pg)
    BY <1>2 DEF AddPage
  <2>2. LeafSplit(t, lo, nx, {pg}, a, s.tree, s.new)
    BY <1>1, <1>2, BalanceSplits
  <2>. HIDE DEF s
  <2>. QED
    BY <1>2, <2>1, <2>2, AddToHalfStands
<1>3. CASE ~IsFull(t.node[a])
  <2>1. AddPage(t, t.node[a], a, k, pg) = InsertPage(t, t.node[a], a, k, pg)
    BY <1>3 DEF AddPage
  <2>2. Typed(t)
    BY DEF Good
  <2>3. Len(Kids(t, a)) < M
    BY <1>1, <1>3, <2>2, NodeFields, OrderAssumption DEF IsFull, Kids
  <2>. QED
    BY <2>1, <2>3, InsertStands
<1>. QED
  BY <1>2, <1>3

(***************************************************************************)
(* Two neighbours become one node.                                         *)
(***************************************************************************)
\* The nodes at a and b are neighbours, the i-th and the next child of the
\* node at p.
Beside(t, p, i, a, b) ==
  /\ p \in Nodes(t) /\ a \in Nodes(t) /\ b \in Nodes(t) /\ ~Leaf(t, p)
  /\ i \in Nat \ {0} /\ i < Len(Kids(t, p)) /\ Kids(t, p)[i] = a /\ Kids(t, p)[i + 1] = b

BesideIs(t, lv, nx, p, i, a, b) ==
  /\ i \in 1 .. Len(Kids(t, p)) /\ i + 1 \in 1 .. Len(Kids(t, p)) /\ i \in 1 .. Len(Keys(t, p))
  /\ Len(Keys(t, p)) = Len(Kids(t, p)) - 1 /\ Len(Kids(t, p)) \in Nat
  /\ Keys(t, p)[i] \in Key /\ Keys(t, p)[i] \in Nat
  /\ Up(t, a) = p /\ Up(t, b) = p /\ lv[a] \in Nat /\ lv[b] = lv[a] /\ lv[p] = lv[a] + 1
  /\ a # b /\ a # p /\ b # p /\ Leaf(t, a) = Leaf(t, b) /\ b # t.root /\ a # t.root
  /\ nx[a] = b /\ nx[b] # a /\ nx[b] # b
  /\ nx[b] # 0 => nx[b] \in Nodes(t) /\ lv[nx[b]] = lv[a] /\ nx[b] # p
  /\ t.node[b].next = (IF Leaf(t, a) THEN nx[b] ELSE 0)

LEMMA BesideFacts ==
  ASSUME NEW t, NEW lv, NEW lo, NEW nx, NEW loose, NEW p, NEW i, NEW a, NEW b,
         Good(t, lv, lo, nx, loose, 0), Beside(t, p, i, a, b)
  PROVE  BesideIs(t, lv, nx, p, i, a, b)
<1>1. /\ p \in Nodes(t) /\ a \in Nodes(t) /\ b \in Nodes(t) /\ ~Leaf(t, p)
      /\ i \in Nat \ {0} /\ i < Len(Kids(t, p)) /\ Kids(t, p)[i] = a /\ Kids(t, p)[i + 1] = b
  BY DEF Beside
<1>2. /\ Typed(t) /\ Arrays(t) /\ Levels(t, lv) /\ Children(t, lv) /\ Following(t, nx) /\ Parents(t)
      /\ Ordered(t, lv, lo, nx) /\ Linked(t, nx)
  BY DEF Good
<1>3. Len(Kids(t, p)) \in Nat /\ \A x \in 1 .. Len(Keys(t, p)) : Keys(t, p)[x] \in Key /\ Keys(t, p)[x] \in Nat
  BY <1>1, <1>2, NodeFields
<1>4. Len(Keys(t, p)) = Len(Kids(t, p)) - 1
  BY <1>1, <1>2 DEF Arrays
<1>5. i \in 1 .. Len(Kids(t, p)) /\ i + 1 \in 1 .. Len(Kids(t, p)) /\ i \in 1 .. Len(Keys(t, p)) /\ i # i + 1
  BY <1>1, <1>3, <1>4
<1>6. a # b
  BY <1>1, <1>2, <1>5 DEF Arrays
<1>7. Up(t, a) = p /\ Up(t, b) = p /\ lv[p] = lv[a] + 1 /\ lv[p] = lv[b] + 1
  BY <1>1, <1>2, <1>5 DEF Children
<1>8. /\ lv[a] \in Nat /\ lv[b] \in Nat /\ lv[p] \in Nat
      /\ (Leaf(t, a) <=> lv[a] = 0) /\ (Leaf(t, b) <=> lv[b] = 0)
  BY <1>1, <1>2 DEF Levels
<1>9. lv[b] = lv[a] /\ a # p /\ b # p
  BY <1>7, <1>8
<1>10. Leaf(t, a) = Leaf(t, b)
  <2>1. Leaf(t, a) \in BOOLEAN /\ Leaf(t, b) \in BOOLEAN
    BY <1>1, <1>2, NodeFields
  <2>. QED
    BY <1>8, <1>9, <2>1
<1>11. nx[a] = b
  BY <1>1, <1>2, <1>5 DEF Following
<1>12. nx[b] # b
  BY <1>1, NotBeforeItself
<1>13. nx[b] # 0 => nx[b] \in Nodes(t) /\ lv[nx[b]] = lv[b]
  BY <1>1, <1>2 DEF Ordered
<1>14. nx[b] # a
  <2>1. SUFFICES ASSUME nx[b] = a PROVE FALSE
    OBVIOUS
  <2>2. a # 0 /\ b # 0
    BY <1>1, <1>2, TypedParts
  <2>3. Top(t, a) <= lo[b] /\ Top(t, b) <= lo[a]
    BY <1>1, <1>2, <1>11, <2>1, <2>2 DEF Ordered
  <2>4. lo[a] \in Int /\ lo[b] \in Int /\ lo[a] < Top(t, a) /\ lo[b] < Top(t, b)
    BY <1>1, GhostTypes
  <2>5. Top(t, a) \in Nat /\ Top(t, b) \in Nat
    BY <1>1, <1>2, NodeFields
  <2>. QED
    BY <2>3, <2>4, <2>5
<1>15. b # t.root /\ a # t.root
  <2>1. Up(t, t.root) = 0 /\ p # 0
    BY <1>1, <1>2, TypedParts DEF Parents
  <2>. QED
    BY <1>7, <2>1
<1>16. nx[b] # 0 => nx[b] # p
  BY <1>7, <1>8, <1>9, <1>13
<1>17. t.node[b].next = (IF Leaf(t, a) THEN nx[b] ELSE 0)
  BY <1>1, <1>2, <1>10 DEF Linked, Leaf
<1>. QED
  BY <1>1, <1>3, <1>4, <1>5, <1>6, <1>7, <1>8, <1>9, <1>10, <1>11, <1>12, <1>13, <1>14, <1>15, <1>16, <1>17 DEF BesideIs

\* The survivor of the nodes at a and b, with s between their keys.
Absorbed(t, a, b, s, m) ==
  /\ m \in NodeType /\ m.leaf = Leaf(t, a) /\ m.parent = Up(t, a) /\ m.max = Top(t, b)
  /\ m.prev = t.node[a].prev /\ m.next = t.node[b].next
  /\ Len(m.kids) = Len(Kids(t, a)) + Len(Kids(t, b))
  /\ \A j \in 1 .. Len(Kids(t, a)) : m.kids[j] = Kids(t, a)[j]
  /\ \A j \in 1 .. Len(Kids(t, b)) : m.kids[Len(Kids(t, a)) + j] = Kids(t, b)[j]
  /\ Len(m.keys) = Len(Kids(t, a)) + Len(Keys(t, b))
  /\ \A j \in 1 .. Len(Keys(t, a)) : m.keys[j] = Keys(t, a)[j]
  /\ ~Leaf(t, a) => m.keys[Len(Kids(t, a))] = s
  /\ \A j \in 1 .. Len(Keys(t, b)) : m.keys[Len(Kids(t, a)) + j] = Keys(t, b)[j]

Bound(t, a, s) == IF Leaf(t, a) THEN <<>> ELSE <<s>>

AbsorbedInto(n, e, C, Q, x, k) ==
  /\ e \in NodeType /\ e.leaf = n.leaf /\ e.kids = C /\ e.keys = Q
  /\ e.max = k /\ e.parent = n.parent /\ e.prev = n.prev /\ e.next = x

LEMMA Absorbing ==
  ASSUME NEW n \in NodeType, NEW C \in Seq(Nat \ {0}), NEW Q \in Seq(Key), NEW x \in Nat, NEW k \in Key
  PROVE  AbsorbedInto(n, [n EXCEPT !.kids = C, !.keys = Q, !.next = x, !.max = k], C, Q, x, k)
BY DEF NodeType, AbsorbedInto

LEMMA AbsorbedIs ==
  ASSUME NEW t, NEW lv, NEW lo, NEW nx, NEW loose, NEW a, NEW b, NEW s \in Key,
         Good(t, lv, lo, nx, loose, 0), a \in Nodes(t), b \in Nodes(t)
  PROVE  Absorbed(t, a, b, s, Absorb(t.node[a], t.node[b], Bound(t, a, s)))
<1> DEFINE C == Kids(t, a) \o Kids(t, b)
           R == Keys(t, a) \o Bound(t, a, s)
           Q == R \o Keys(t, b)
           m == Absorb(t.node[a], t.node[b], Bound(t, a, s))
           ca == Len(Kids(t, a))
           cb == Len(Kids(t, b))
           qa == Len(Keys(t, a))
           qb == Len(Keys(t, b))
<1>1. Typed(t)
  BY DEF Good
<1>2. /\ Kids(t, a) \in Seq(Nat \ {0}) /\ Keys(t, a) \in Seq(Key) /\ Kids(t, b) \in Seq(Nat \ {0}) /\ Keys(t, b) \in Seq(Key)
      /\ t.node[a] \in NodeType /\ Top(t, b) \in Key /\ t.node[b].next \in Nat
      /\ ca \in Nat /\ cb \in Nat /\ qa \in Nat /\ qb \in Nat
  BY <1>1, NodeFields, TypedParts
<1>3. qa = IF Leaf(t, a) THEN ca ELSE ca - 1
  BY GhostTypes
<1>4. /\ C \in Seq(Nat \ {0}) /\ Len(C) = ca + cb
      /\ \A j \in 1 .. (ca + cb) : C[j] = IF j <= ca THEN Kids(t, a)[j] ELSE Kids(t, b)[j - ca]
  BY <1>2, ConcatItems
<1>5. /\ R \in Seq(Key) /\ Len(R) = ca /\ (\A j \in 1 .. qa : R[j] = Keys(t, a)[j])
      /\ ~Leaf(t, a) => R[ca] = s
  <2>1. CASE Leaf(t, a)
    <3>1. <<>> \in Seq(Key) /\ Len(<<>>) = 0
      OBVIOUS
    <3>2. /\ Keys(t, a) \o <<>> \in Seq(Key) /\ Len(Keys(t, a) \o <<>>) = qa + Len(<<>>)
          /\ \A j \in 1 .. (qa + Len(<<>>)) : (Keys(t, a) \o <<>>)[j] = IF j <= qa THEN Keys(t, a)[j] ELSE <<>>[j - qa]
      BY <1>2, <3>1, ConcatItems
    <3>3. R = Keys(t, a) \o <<>>
      BY <2>1 DEF Bound
    <3> DEFINE X == Keys(t, a) \o <<>>
    <3>. HIDE DEF X, R
    <3>4. R = X
      BY <3>3 DEF X
    <3>5. X \in Seq(Key) /\ Len(X) = qa /\ \A j \in 1 .. qa : X[j] = Keys(t, a)[j]
      BY <1>2, <3>1, <3>2 DEF X
    <3>. QED
      BY <1>3, <2>1, <3>4, <3>5
  <2>2. CASE ~Leaf(t, a)
    <3>1. <<s>> \in Seq(Key) /\ Len(<<s>>) = 1 /\ <<s>>[1] = s
      OBVIOUS
    <3> DEFINE X == Keys(t, a) \o <<s>>
    <3>2. /\ X \in Seq(Key) /\ Len(X) = qa + Len(<<s>>)
          /\ \A j \in 1 .. (qa + Len(<<s>>)) : X[j] = IF j <= qa THEN Keys(t, a)[j] ELSE <<s>>[j - qa]
      BY <1>2, <3>1, ConcatItems
    <3>3. R = X
      BY <2>2 DEF Bound
    <3>. HIDE DEF X, R
    <3>4. qa + 1 = ca /\ qa + 1 \in 1 .. (qa + Len(<<s>>)) /\ ~(qa + 1 <= qa) /\ (qa + 1) - qa = 1 /\ qa + Len(<<s>>) = qa + 1
      BY <1>2, <1>3, <2>2, <3>1
    <3>5. X[qa + 1] = s
      BY <3>1, <3>2, <3>4
    <3>6. \A j \in 1 .. qa : X[j] = Keys(t, a)[j]
      BY <1>2, <3>1, <3>2
    <3>. QED
      BY <2>2, <3>2, <3>3, <3>4, <3>5, <3>6
  <2>. QED
    BY <2>1, <2>2
<1>. HIDE DEF R, C
<1>6. /\ Q \in Seq(Key) /\ Len(Q) = ca + qb
      /\ \A j \in 1 .. (ca + qb) : Q[j] = IF j <= ca THEN R[j] ELSE Keys(t, b)[j - ca]
  <2>1. /\ Q \in Seq(Key) /\ Len(Q) = Len(R) + Len(Keys(t, b))
        /\ \A j \in 1 .. (Len(R) + Len(Keys(t, b))) : Q[j] = IF j <= Len(R) THEN R[j] ELSE Keys(t, b)[j - Len(R)]
    BY <1>2, <1>5, ConcatItems
  <2>. HIDE DEF Q, ca
  <2>2. Len(R) = ca
    BY <1>5
  <2>. QED
    BY <2>1, <2>2
<1>. HIDE DEF Q
<1>7. m = [t.node[a] EXCEPT !.kids = C, !.keys = Q, !.next = t.node[b].next, !.max = Top(t, b)]
  BY DEF Absorb, C, Q, R, Kids, Keys, Top
<1>8. /\ m \in NodeType /\ m.leaf = Leaf(t, a) /\ m.parent = Up(t, a) /\ m.max = Top(t, b)
      /\ m.prev = t.node[a].prev /\ m.next = t.node[b].next /\ m.kids = C /\ m.keys = Q
  <2> DEFINE e == [t.node[a] EXCEPT !.kids = C, !.keys = Q, !.next = t.node[b].next, !.max = Top(t, b)]
  <2>1. /\ e \in NodeType /\ e.leaf = t.node[a].leaf /\ e.kids = C /\ e.keys = Q
        /\ e.max = Top(t, b) /\ e.parent = t.node[a].parent /\ e.prev = t.node[a].prev
        /\ e.next = t.node[b].next
    <3>1. t.node[a] \in NodeType /\ C \in Seq(Nat \ {0}) /\ Q \in Seq(Key) /\ t.node[b].next \in Nat /\ Top(t, b) \in Key
      BY <1>2, <1>4, <1>6
    <3>2. AbsorbedInto(t.node[a], e, C, Q, t.node[b].next, Top(t, b))
      BY <3>1, Absorbing
    <3>. HIDE DEF e
    <3>. QED
      BY <3>2 DEF AbsorbedInto
  <2>. HIDE DEF e, m
  <2>2. m = e
    BY <1>7 DEF e
  <2>. QED
    BY <2>1, <2>2 DEF Leaf, Up
<1>. HIDE DEF m
<1>9. ASSUME NEW j \in 1 .. ca PROVE C[j] = Kids(t, a)[j]
  <2>1. j \in 1 .. (ca + cb) /\ j <= ca
    BY <1>2
  <2>. HIDE DEF C
  <2>. QED
    BY <1>4, <2>1
<1>10. ASSUME NEW j \in 1 .. cb PROVE C[ca + j] = Kids(t, b)[j]
  <2>1. ca + j \in 1 .. (ca + cb) /\ ~(ca + j <= ca) /\ (ca + j) - ca = j
    BY <1>2
  <2>. QED
    BY <1>4, <2>1
<1>11. ASSUME NEW j \in 1 .. qa PROVE Q[j] = Keys(t, a)[j]
  <2>1. j \in 1 .. (ca + qb) /\ j <= ca
    BY <1>2, <1>3
  <2>. QED
    BY <1>5, <1>6, <2>1
<1>12. ASSUME NEW j \in 1 .. qb PROVE Q[ca + j] = Keys(t, b)[j]
  <2>1. ca + j \in 1 .. (ca + qb) /\ ~(ca + j <= ca) /\ (ca + j) - ca = j
    BY <1>2
  <2>. QED
    BY <1>6, <2>1
<1>13. ~Leaf(t, a) => Q[ca] = s
  <2>1. ASSUME ~Leaf(t, a) PROVE Q[ca] = s
    <3>1. ca \in 1 .. (ca + qb) /\ ca <= ca
      BY <1>2, <1>3, <2>1
    <3>. QED
      BY <1>5, <1>6, <2>1, <3>1
  <2>. QED
    BY <2>1
<1>14. Absorbed(t, a, b, s, m)
  BY <1>4, <1>6, <1>8, <1>9, <1>10, <1>11, <1>12, <1>13 DEF Absorbed
<1>. QED
  BY <1>14 DEF m

\* In y the node at b is gone and the one at a has its children.
Merged(t, y, a, b, m) ==
  /\ Formed(y) /\ y.root = t.root /\ y.page = t.page /\ IsMap(y.node) /\ Nodes(y) = Nodes(t) \ {b}
  /\ y.node[a] = m
  /\ \A x \in Nodes(t) \ {a, b} :
       /\ y.node[x] \in NodeType
       /\ Leaf(y, x) = Leaf(t, x) /\ Kids(y, x) = Kids(t, x) /\ Keys(y, x) = Keys(t, x) /\ Top(y, x) = Top(t, x)
       /\ y.node[x].next = t.node[x].next
       /\ y.node[x].prev = IF Leaf(t, a) /\ x = t.node[b].next THEN a ELSE t.node[x].prev
       /\ Up(y, x) = IF ~Leaf(t, a) /\ \E j \in 1 .. Len(Kids(t, b)) : Kids(t, b)[j] = x THEN a ELSE Up(t, x)

\* The parent's copy without the child after the i-th.
FiledOut(t, p, q, i) ==
  /\ q \in NodeType /\ q.leaf = Leaf(t, p) /\ q.max = Top(t, p) /\ q.parent = Up(t, p)
  /\ q.prev = t.node[p].prev /\ q.next = t.node[p].next
  /\ Len(q.kids) = Len(Kids(t, p)) - 1 /\ Len(q.keys) = Len(Keys(t, p)) - 1
  /\ \A j \in 1 .. (Len(Kids(t, p)) - 1) : q.kids[j] = IF j < i + 1 THEN Kids(t, p)[j] ELSE Kids(t, p)[j + 1]
  /\ \A j \in 1 .. (Len(Keys(t, p)) - 1) : q.keys[j] = IF j < i THEN Keys(t, p)[j] ELSE Keys(t, p)[j + 1]

\* What is put back in at i.
PutBack(s, r, i, e) ==
  /\ Len(s) = Len(r) + 1
  /\ \A j \in 1 .. (Len(r) + 1) : s[j] = IF j < i THEN r[j] ELSE IF j = i THEN e ELSE r[j - 1]

LEMMA PutBackIs ==
  ASSUME NEW s, NEW r, NEW i, NEW e, Len(s) \in Nat, i \in 1 .. Len(s), s[i] = e, Len(r) = Len(s) - 1,
         \A j \in 1 .. (Len(s) - 1) : r[j] = IF j < i THEN s[j] ELSE s[j + 1]
  PROVE  PutBack(s, r, i, e)
<1>1. Len(s) = Len(r) + 1 /\ Len(r) + 1 \in Nat
  OBVIOUS
<1>2. ASSUME NEW j \in 1 .. (Len(r) + 1) PROVE s[j] = IF j < i THEN r[j] ELSE IF j = i THEN e ELSE r[j - 1]
  <2>1. CASE j < i
    <3>1. j \in 1 .. (Len(s) - 1)
      BY <1>1, <2>1
    <3>. QED
      BY <2>1, <3>1
  <2>2. CASE j = i
    BY <2>2
  <2>3. CASE j > i
    <3>1. j - 1 \in 1 .. (Len(s) - 1) /\ ~(j - 1 < i) /\ (j - 1) + 1 = j
      BY <1>1, <2>3
    <3>2. r[j - 1] = s[j]
      BY <3>1
    <3>. QED
      BY <2>3, <3>2
  <2>. QED
    BY <2>1, <2>2, <2>3
<1>. QED
  BY <1>1, <1>2 DEF PutBack

LEMMA MergeDivides ==
  ASSUME NEW t, NEW lv, NEW lo, NEW nx, NEW loose, NEW p, NEW i, NEW a, NEW b, NEW c, NEW s,
         NEW y, NEW m, NEW q, NEW w,
         Good(t, lv, lo, nx, loose, 0), Beside(t, p, i, a, b), s = Keys(t, p)[i], c = Len(Kids(t, a)),
         Merged(t, y, a, b, m), Absorbed(t, a, b, s, m), FiledOut(t, p, q, i), w = MarkNode(y, p, q)
  PROVE  Divided(w, t, p, i, a, b, c, s) /\ Rejoined(w, a, c)
<1>1. /\ Formed(t) /\ IsMap(t.page) /\ t.root \in Nodes(t) /\ Typed(t)
      /\ IsFiniteSet(Nodes(t)) /\ Nodes(t) \subseteq Nat \ {0} /\ IsFiniteSet(DOMAIN t.page)
      /\ DOMAIN t.page \subseteq Nat \ {0} /\ \A pg \in DOMAIN t.page : PageType(t.page[pg])
  <2>1. Typed(t)
    BY DEF Good
  <2>. QED
    BY <2>1, TypedParts
<1>2. /\ p \in Nodes(t) /\ a \in Nodes(t) /\ b \in Nodes(t) /\ ~Leaf(t, p)
      /\ i \in Nat \ {0} /\ i < Len(Kids(t, p)) /\ Kids(t, p)[i] = a /\ Kids(t, p)[i + 1] = b
  BY DEF Beside
<1>3. /\ i \in 1 .. Len(Kids(t, p)) /\ i + 1 \in 1 .. Len(Kids(t, p)) /\ i \in 1 .. Len(Keys(t, p))
      /\ Len(Keys(t, p)) = Len(Kids(t, p)) - 1 /\ Len(Kids(t, p)) \in Nat
      /\ Up(t, a) = p /\ Up(t, b) = p /\ lv[a] \in Nat /\ lv[b] = lv[a] /\ lv[p] = lv[a] + 1
      /\ a # b /\ a # p /\ b # p /\ Leaf(t, a) = Leaf(t, b) /\ b # t.root
      /\ nx[a] = b /\ nx[b] # a /\ nx[b] # b
      /\ nx[b] # 0 => nx[b] \in Nodes(t) /\ lv[nx[b]] = lv[a] /\ nx[b] # p
      /\ t.node[b].next = (IF Leaf(t, a) THEN nx[b] ELSE 0)
  <2>1. BesideIs(t, lv, nx, p, i, a, b)
    BY BesideFacts
  <2>. QED
    BY <2>1 DEF BesideIs
<1>4. /\ Len(Kids(t, b)) \in Nat /\ Len(Kids(t, b)) >= 1 /\ c \in Nat /\ c >= 1
      /\ Len(Keys(t, a)) = (IF Leaf(t, a) THEN c ELSE c - 1) /\ Len(Keys(t, b)) \in Nat
  BY <1>1, <1>2, NodeFields, GhostTypes
<1>5. /\ Formed(y) /\ y.root = t.root /\ y.page = t.page /\ IsMap(y.node) /\ Nodes(y) = Nodes(t) \ {b}
      /\ y.node[a] = m
      /\ \A x \in Nodes(t) \ {a, b} :
           /\ y.node[x] \in NodeType
           /\ Leaf(y, x) = Leaf(t, x) /\ Kids(y, x) = Kids(t, x) /\ Keys(y, x) = Keys(t, x) /\ Top(y, x) = Top(t, x)
           /\ y.node[x].next = t.node[x].next
           /\ y.node[x].prev = IF Leaf(t, a) /\ x = t.node[b].next THEN a ELSE t.node[x].prev
           /\ Up(y, x) = IF ~Leaf(t, a) /\ \E j \in 1 .. Len(Kids(t, b)) : Kids(t, b)[j] = x THEN a ELSE Up(t, x)
  BY Zenon DEF Merged
<1>6. /\ Formed(w) /\ w.root = t.root /\ w.page = t.page /\ Nodes(w) = Nodes(t) \ {b} /\ IsMap(w.node)
      /\ w.node[p] = q /\ w.node[a] = m
      /\ \A x \in Nodes(t) \ {a, b, p} : w.node[x] = y.node[x]
  <2>1. /\ Formed(w) /\ w.root = y.root /\ w.page = y.page
        /\ IsMap(w.node) /\ DOMAIN w.node = DOMAIN y.node \union {p}
        /\ w.node[p] = q /\ \A x \in DOMAIN y.node : x # p => w.node[x] = y.node[x]
    BY <1>5, Marked
  <2>. QED
    BY <1>2, <1>3, <1>5, <2>1 DEF Nodes
<1>7. /\ m \in NodeType /\ m.leaf = Leaf(t, a) /\ m.parent = Up(t, a) /\ m.max = Top(t, b)
      /\ m.prev = t.node[a].prev /\ m.next = t.node[b].next
      /\ Len(m.kids) = c + Len(Kids(t, b))
      /\ \A j \in 1 .. c : m.kids[j] = Kids(t, a)[j]
      /\ \A j \in 1 .. Len(Kids(t, b)) : m.kids[c + j] = Kids(t, b)[j]
      /\ Len(m.keys) = c + Len(Keys(t, b))
      /\ \A j \in 1 .. Len(Keys(t, a)) : m.keys[j] = Keys(t, a)[j]
      /\ ~Leaf(t, a) => m.keys[c] = s
      /\ \A j \in 1 .. Len(Keys(t, b)) : m.keys[c + j] = Keys(t, b)[j]
  BY Zenon DEF Absorbed
<1>8. /\ q \in NodeType /\ q.leaf = Leaf(t, p) /\ q.max = Top(t, p) /\ q.parent = Up(t, p)
      /\ q.prev = t.node[p].prev /\ q.next = t.node[p].next
      /\ Len(q.kids) = Len(Kids(t, p)) - 1 /\ Len(q.keys) = Len(Keys(t, p)) - 1
      /\ \A j \in 1 .. (Len(Kids(t, p)) - 1) : q.kids[j] = IF j < i + 1 THEN Kids(t, p)[j] ELSE Kids(t, p)[j + 1]
      /\ \A j \in 1 .. (Len(Keys(t, p)) - 1) : q.keys[j] = IF j < i THEN Keys(t, p)[j] ELSE Keys(t, p)[j + 1]
  BY Zenon DEF FiledOut
<1>9. Typed(w)
  <2>1. ASSUME NEW x \in Nodes(w) PROVE w.node[x] \in NodeType
    <3>1. x \in Nodes(t) /\ x # b
      BY <1>6, <2>1
    <3>. QED
      BY <1>5, <1>6, <1>7, <1>8, <3>1
  <2>2. IsFiniteSet(Nodes(w)) /\ Nodes(w) \subseteq Nat \ {0}
    BY <1>1, <1>6, FS_Subset
  <2>3. IsMap(w.page) /\ w.root \in Nodes(w) /\ IsFiniteSet(DOMAIN w.page) /\ DOMAIN w.page \subseteq Nat \ {0}
        /\ \A pg \in DOMAIN w.page : PageType(w.page[pg])
    BY <1>1, <1>3, <1>6
  <2>. QED
    BY <1>6, <2>1, <2>2, <2>3, MadeTree
<1>10. /\ Kids(w, a) = m.kids /\ Keys(w, a) = m.keys /\ Top(w, a) = m.max /\ Leaf(w, a) = m.leaf /\ Up(w, a) = m.parent
       /\ Kids(w, p) = q.kids /\ Keys(w, p) = q.keys /\ Top(w, p) = q.max /\ Leaf(w, p) = q.leaf /\ Up(w, p) = q.parent
  BY <1>6 DEF Kids, Keys, Top, Leaf, Up
<1>11. ASSUME NEW x \in Nodes(t) \ {a, b, p}
       PROVE  /\ Leaf(w, x) = Leaf(t, x) /\ Kids(w, x) = Kids(t, x) /\ Keys(w, x) = Keys(t, x) /\ Top(w, x) = Top(t, x)
              /\ w.node[x].next = t.node[x].next
              /\ w.node[x].prev = IF Leaf(t, a) /\ x = t.node[b].next THEN a ELSE t.node[x].prev
              /\ Up(w, x) = IF ~Leaf(t, a) /\ \E j \in 1 .. Len(Kids(t, b)) : Kids(t, b)[j] = x THEN a ELSE Up(t, x)
  <2>1. w.node[x] = y.node[x] /\ x \in Nodes(t) \ {a, b}
    BY <1>6
  <2>2. Kids(w, x) = Kids(y, x) /\ Keys(w, x) = Keys(y, x) /\ Top(w, x) = Top(y, x)
        /\ Leaf(w, x) = Leaf(y, x) /\ Up(w, x) = Up(y, x)
    BY <2>1 DEF Kids, Keys, Top, Leaf, Up
  <2>3. /\ Leaf(y, x) = Leaf(t, x) /\ Kids(y, x) = Kids(t, x) /\ Keys(y, x) = Keys(t, x) /\ Top(y, x) = Top(t, x)
        /\ y.node[x].next = t.node[x].next
        /\ y.node[x].prev = IF Leaf(t, a) /\ x = t.node[b].next THEN a ELSE t.node[x].prev
        /\ Up(y, x) = IF ~Leaf(t, a) /\ \E j \in 1 .. Len(Kids(t, b)) : Kids(t, b)[j] = x THEN a ELSE Up(t, x)
    BY <1>5, <2>1, Zenon
  <2>. QED
    BY <2>1, <2>2, <2>3, Zenon
<1>12. i \in 1 .. Len(Kids(w, p)) /\ Len(Kids(w, p)) \in Nat /\ Kids(w, p)[i] = a
  <2>1. i \in 1 .. (Len(Kids(t, p)) - 1) /\ i < i + 1
    BY <1>2, <1>3
  <2>2. q.kids[i] = a
    BY <1>2, <1>8, <2>1
  <2>. QED
    BY <1>3, <1>8, <1>10, <2>1, <2>2
<1>13. Apart(w, t, p, i, a, b, c)
  <2>1. ASSUME NEW x \in Nodes(w)
        PROVE  /\ Leaf(t, x) = Leaf(w, x)
               /\ x # a /\ x # p => Kids(t, x) = Kids(w, x) /\ Keys(t, x) = Keys(w, x) /\ Top(t, x) = Top(w, x)
    <3>1. x \in Nodes(t) /\ x # b
      BY <1>6
    <3>2. CASE x = a
      BY <1>7, <1>10, <3>2
    <3>3. CASE x = p
      BY <1>8, <1>10, <3>3
    <3>4. CASE x # a /\ x # p
      BY <1>11, <3>1, <3>4
    <3>. QED
      BY <3>2, <3>3, <3>4
  <2>2. c \in 1 .. (Len(Kids(w, a)) - 1)
    BY <1>4, <1>7, <1>10
  <2>3. b \in Nodes(t) /\ b \notin Nodes(w) /\ Nodes(t) = Nodes(w) \union {b} /\ a \in Nodes(w) /\ p \in Nodes(w) /\ a # p
    BY <1>2, <1>3, <1>6
  <2>4. ~Leaf(w, p) /\ Leaf(t, b) = Leaf(w, a)
    BY <1>2, <1>3, <1>7, <1>8, <1>10
  <2>. QED
    BY <1>1, <1>6, <1>9, <1>12, <2>1, <2>2, <2>3, <2>4 DEF Apart, ChildAt
<1>14. KidsApart(w, t, p, i, a, b, c)
  <2>1. PutBack(Kids(t, p), q.kids, i + 1, b)
    BY <1>2, <1>3, <1>8, PutBackIs
  <2>2. /\ Len(Kids(t, p)) = Len(q.kids) + 1
        /\ \A j \in 1 .. (Len(q.kids) + 1) :
             Kids(t, p)[j] = IF j < i + 1 THEN q.kids[j] ELSE IF j = i + 1 THEN b ELSE q.kids[j - 1]
    BY <2>1 DEF PutBack
  <2>3. \A j \in 1 .. (Len(q.kids) + 1) : j < i + 1 <=> j <= i
    BY <1>2
  <2>4. \A j \in 1 .. (Len(Kids(w, p)) + 1) :
             Kids(t, p)[j] = IF j <= i THEN Kids(w, p)[j] ELSE IF j = i + 1 THEN b ELSE Kids(w, p)[j - 1]
    BY <1>10, <2>2, <2>3
  <2>5. Len(Kids(w, a)) = c + Len(Kids(t, b)) /\ Len(Kids(w, a)) - c = Len(Kids(t, b))
    BY <1>4, <1>7, <1>10
  <2>6. /\ \A j \in 1 .. c : Kids(t, a)[j] = Kids(w, a)[j]
        /\ \A j \in 1 .. (Len(Kids(w, a)) - c) : Kids(t, b)[j] = Kids(w, a)[c + j]
    BY <1>7, <1>10, <2>5
  <2>. QED
    BY <1>10, <2>2, <2>4, <2>5, <2>6 DEF KidsApart
<1>15. KeysApart(w, t, p, i, a, b, c, s)
  <2>1. PutBack(Keys(t, p), q.keys, i, s)
    <3>1. Len(Keys(t, p)) \in Nat /\ i \in 1 .. Len(Keys(t, p)) /\ Keys(t, p)[i] = s /\ Len(q.keys) = Len(Keys(t, p)) - 1
      BY <1>3, <1>8
    <3>2. \A j \in 1 .. (Len(Keys(t, p)) - 1) : q.keys[j] = IF j < i THEN Keys(t, p)[j] ELSE Keys(t, p)[j + 1]
      BY <1>8
    <3>. QED
      BY <3>1, <3>2, PutBackIs
  <2>2. /\ Len(Keys(t, p)) = Len(Keys(w, p)) + 1
        /\ \A j \in 1 .. (Len(Keys(w, p)) + 1) :
             Keys(t, p)[j] = IF j < i THEN Keys(w, p)[j] ELSE IF j = i THEN s ELSE Keys(w, p)[j - 1]
    BY <1>10, <2>1 DEF PutBack
  <2>3. Len(Keys(w, a)) - c = Len(Keys(t, b))
    BY <1>4, <1>7, <1>10
  <2>4. /\ \A j \in 1 .. Len(Keys(t, a)) : Keys(t, a)[j] = Keys(w, a)[j]
        /\ \A j \in 1 .. (Len(Keys(w, a)) - c) : Keys(t, b)[j] = Keys(w, a)[c + j]
        /\ ~Leaf(w, a) => Keys(w, a)[c] = s
        /\ Len(Keys(t, a)) = (IF Leaf(w, a) THEN c ELSE c - 1)
    BY <1>4, <1>7, <1>10, <2>3
  <2>5. Top(t, p) = Top(w, p) /\ Top(t, b) = Top(w, a)
    BY <1>7, <1>8, <1>10
  <2>. QED
    BY <2>2, <2>3, <2>4, <2>5 DEF KeysApart
<1>16. ~Leaf(t, a) => \A j \in 1 .. Len(Kids(t, b)) :
         /\ Kids(t, b)[j] \in Nodes(t) \ {a, b, p} /\ Up(t, Kids(t, b)[j]) = b /\ Up(w, Kids(t, b)[j]) = a
  <2>1. ASSUME ~Leaf(t, a), NEW j \in 1 .. Len(Kids(t, b))
        PROVE  /\ Kids(t, b)[j] \in Nodes(t) \ {a, b, p} /\ Up(t, Kids(t, b)[j]) = b /\ Up(w, Kids(t, b)[j]) = a
    <3> DEFINE x == Kids(t, b)[j]
    <3>1. ~Leaf(t, b)
      BY <1>3, <2>1
    <3>2. x \in Nodes(t) /\ Up(t, x) = b /\ lv[b] = lv[x] + 1
      BY <1>2, <2>1, <3>1 DEF Good, Children
    <3>3. lv[x] \in Nat
      BY <3>2 DEF Good, Levels
    <3>4. x # a /\ x # b /\ x # p
      BY <1>3, <3>2, <3>3
    <3>. HIDE DEF x
    <3>5. \E k \in 1 .. Len(Kids(t, b)) : Kids(t, b)[k] = x
      BY DEF x
    <3>6. x \in Nodes(t) \ {a, b, p}
      BY <3>2, <3>4
    <3>7. Up(w, x) = a
      BY <1>11, <2>1, <3>5, <3>6
    <3>8. x \in Nodes(t) \ {a, b, p} /\ Up(t, x) = b /\ Up(w, x) = a
      BY <3>2, <3>6, <3>7
    <3>. QED
      BY <3>8 DEF x
  <2>. QED
    BY <2>1
<1>17. \A j \in (c + 1) .. Len(Kids(w, a)) : j - c \in 1 .. Len(Kids(t, b)) /\ Kids(w, a)[j] = Kids(t, b)[j - c]
  <2>1. ASSUME NEW j \in (c + 1) .. Len(Kids(w, a))
        PROVE  j - c \in 1 .. Len(Kids(t, b)) /\ Kids(w, a)[j] = Kids(t, b)[j - c]
    <3>1. Len(Kids(w, a)) = c + Len(Kids(t, b))
      BY <1>7, <1>10
    <3>2. j - c \in 1 .. Len(Kids(t, b)) /\ c + (j - c) = j
      BY <1>4, <3>1
    <3>. QED
      BY <1>7, <1>10, <3>2
  <2>. QED
    BY <2>1
<1>18. UpsApart(w, t, p, a, b, c)
  <2>1. ASSUME ~Leaf(w, a), NEW j \in (c + 1) .. Len(Kids(w, a)) PROVE Up(t, Kids(w, a)[j]) = b
    <3>1. ~Leaf(t, a)
      BY <1>7, <1>10, <2>1
    <3>. QED
      BY <1>16, <1>17, <2>1, <3>1
  <2>2. ASSUME NEW x \in Nodes(w), Leaf(w, a) \/ (\A j \in (c + 1) .. Len(Kids(w, a)) : Kids(w, a)[j] # x)
        PROVE  Up(t, x) = Up(w, x)
    <3>1. x \in Nodes(t) /\ x # b
      BY <1>6
    <3>2. CASE x = a
      BY <1>7, <1>10, <3>2
    <3>3. CASE x = p
      BY <1>8, <1>10, <3>3
    <3>4. CASE x # a /\ x # p
      <4>1. ASSUME ~Leaf(t, a), NEW j \in 1 .. Len(Kids(t, b)), Kids(t, b)[j] = x PROVE FALSE
        <5>1. c + j \in (c + 1) .. Len(Kids(w, a)) /\ Kids(w, a)[c + j] = x
          BY <1>4, <1>7, <1>10, <4>1
        <5>. QED
          BY <1>7, <1>10, <2>2, <4>1, <5>1
      <4>. QED
        BY <1>11, <3>1, <3>4, <4>1
    <3>. QED
      BY <3>2, <3>3, <3>4
  <2>. QED
    BY <1>3, <2>1, <2>2 DEF UpsApart
<1>19. /\ Leaf(t, a) /\ nx[b] # 0 => t.node[nx[b]].prev = b
       /\ Leaf(t, a) => t.node[a].next = b /\ t.node[b].prev = a
       /\ ~Leaf(t, a) => t.node[a].next = 0 /\ t.node[b].prev = 0
  <2>1. Linked(t, nx) /\ b # 0
    BY <1>1, <1>2 DEF Good
  <2>. QED
    BY <1>2, <1>3, <2>1 DEF Linked, Leaf
<1>20. LinksApart(w, t, a, b)
  <2>1. m.prev = t.node[a].prev /\ m.next = t.node[b].next /\ Leaf(w, a) = Leaf(t, a)
    BY <1>7, <1>10
  <2>2. ASSUME NEW x \in Nodes(w), x # a
        PROVE  /\ t.node[x].next = w.node[x].next
               /\ Leaf(t, a) => t.node[x].prev = IF x = w.node[a].next THEN b ELSE w.node[x].prev
               /\ ~Leaf(t, a) => t.node[x].prev = w.node[x].prev
    <3>1. x \in Nodes(t) /\ x # b /\ x # 0
      BY <1>1, <1>6
    <3>2. CASE x = p
      <4>1. w.node[x].next = t.node[x].next /\ w.node[x].prev = t.node[x].prev
        BY <1>6, <1>8, <3>2
      <4>2. Leaf(t, a) => x # w.node[a].next
        BY <1>3, <1>6, <2>1, <3>1, <3>2
      <4>. QED
        BY <4>1, <4>2
    <3>3. CASE x # p
      <4>1. /\ w.node[x].next = t.node[x].next
            /\ w.node[x].prev = IF Leaf(t, a) /\ x = t.node[b].next THEN a ELSE t.node[x].prev
        BY <1>11, <2>2, <3>1, <3>3
      <4>2. w.node[a].next = t.node[b].next
        BY <1>6, <2>1
      <4>3. Leaf(t, a) /\ x = t.node[b].next => t.node[x].prev = b
        BY <1>3, <1>19, <3>1
      <4>. QED
        BY <4>1, <4>2, <4>3
    <3>. QED
      BY <3>2, <3>3
  <2>3. t.node[a].prev = w.node[a].prev /\ t.node[b].next = w.node[a].next
    BY <1>6, <2>1
  <2>4. CASE Leaf(t, a)
    BY <1>19, <2>1, <2>2, <2>3, <2>4 DEF LinksApart
  <2>5. CASE ~Leaf(t, a)
    <3>1. t.node[a].next = w.node[a].next
      BY <1>3, <1>19, <2>3, <2>5
    <3>2. \A x \in Nodes(w) : t.node[x].prev = w.node[x].prev
      BY <2>2, <2>3, <2>5
    <3>. QED
      BY <1>19, <2>1, <2>2, <2>3, <2>5, <3>1, <3>2 DEF LinksApart
  <2>. QED
    BY <2>4, <2>5
<1>21. Divided(w, t, p, i, a, b, c, s)
  BY <1>13, <1>14, <1>15, <1>18, <1>20 DEF Divided
<1>22. Rejoined(w, a, c)
  <2>1. ASSUME ~Leaf(w, a), NEW j \in (c + 1) .. Len(Kids(w, a)) PROVE Up(w, Kids(w, a)[j]) = a
    <3>1. ~Leaf(t, a)
      BY <1>7, <1>10, <2>1
    <3>. QED
      BY <1>16, <1>17, <2>1, <3>1
  <2>2. ASSUME Leaf(w, a), w.node[a].next # 0 PROVE w.node[w.node[a].next].prev = a
    <3>1. Leaf(t, a) /\ w.node[a].next = t.node[b].next
      BY <1>6, <1>7, <1>10, <2>2
    <3>2. w.node[a].next = nx[b] /\ nx[b] # 0 /\ nx[b] \in Nodes(t) \ {a, b, p}
      BY <1>3, <2>2, <3>1
    <3>3. w.node[nx[b]].prev = IF Leaf(t, a) /\ nx[b] = t.node[b].next THEN a ELSE t.node[nx[b]].prev
      BY <1>11, <3>2
    <3>. QED
      BY <3>1, <3>2, <3>3
  <2>. QED
    BY <2>1, <2>2 DEF Rejoined
<1>. QED
  BY <1>21, <1>22

\* mergeNode's parts: the tree with the links or parents that change, and the
\* tree with the survivor m stored and the other deleted.
Kept(z, t, a, b) ==
  IF Leaf(t, a)
  THEN IF t.node[b].next = 0 THEN z
       ELSE MarkNode(z, t.node[b].next, [z.node[t.node[b].next] EXCEPT !.prev = a])
  ELSE Adopt(z, ToSet(Kids(t, b)), a)

KeptIs(t, y, a, b) ==
  /\ Formed(y) /\ y.root = t.root /\ y.page = t.page /\ Nodes(y) = Nodes(t)
  /\ \A x \in Nodes(t) \ {a, b} :
       /\ y.node[x] \in NodeType
       /\ Leaf(y, x) = Leaf(t, x) /\ Kids(y, x) = Kids(t, x) /\ Keys(y, x) = Keys(t, x) /\ Top(y, x) = Top(t, x)
       /\ y.node[x].next = t.node[x].next
       /\ y.node[x].prev = IF Leaf(t, a) /\ x = t.node[b].next THEN a ELSE t.node[x].prev
       /\ Up(y, x) = IF ~Leaf(t, a) /\ \E j \in 1 .. Len(Kids(t, b)) : Kids(t, b)[j] = x THEN a ELSE Up(t, x)

LEMMA KeptFacts ==
  ASSUME NEW z, NEW t, NEW at, NEW n, NEW lv, NEW lo, NEW nx, NEW loose, NEW p, NEW i, NEW a, NEW b,
         Good(t, lv, lo, nx, loose, 0), Beside(t, p, i, a, b), Pending(z, t, at, n), at \in {a, b}
  PROVE  KeptIs(t, Kept(z, t, a, b), a, b)
<1> DEFINE y == Kept(z, t, a, b)
           e == t.node[b].next
<1>1. Typed(t) /\ \A x \in Nodes(t) : t.node[x] \in NodeType /\ x \in Nat
  <2>1. Typed(t)
    BY DEF Good
  <2>. QED
    BY <2>1, TypedParts
<1>2. /\ Formed(z) /\ z.root = t.root /\ z.page = t.page /\ Nodes(z) = Nodes(t)
      /\ \A x \in Nodes(t) \ {a, b} : z.node[x] = t.node[x]
  BY DEF Pending
<1>3. a \in Nodes(t) /\ b \in Nodes(t)
  BY DEF Beside
<1>4. /\ nx[b] # a /\ nx[b] # b /\ (nx[b] # 0 => nx[b] \in Nodes(t)) /\ e = (IF Leaf(t, a) THEN nx[b] ELSE 0)
  <2>1. BesideIs(t, lv, nx, p, i, a, b)
    BY BesideFacts
  <2>. QED
    BY <2>1 DEF BesideIs
<1>5. CASE Leaf(t, a) /\ e = 0
  <2>1. y = z
    BY <1>5 DEF Kept
  <2>2. ASSUME NEW x \in Nodes(t) \ {a, b}
        PROVE  /\ z.node[x] \in NodeType
               /\ Leaf(z, x) = Leaf(t, x) /\ Kids(z, x) = Kids(t, x) /\ Keys(z, x) = Keys(t, x) /\ Top(z, x) = Top(t, x)
               /\ z.node[x].next = t.node[x].next
               /\ z.node[x].prev = IF Leaf(t, a) /\ x = e THEN a ELSE t.node[x].prev
               /\ Up(z, x) = IF ~Leaf(t, a) /\ \E j \in 1 .. Len(Kids(t, b)) : Kids(t, b)[j] = x THEN a ELSE Up(t, x)
    <3>1. x # e
      <4>1. x # 0
        BY <1>1, <2>2, NodeFields
      <4>. QED
        BY <1>5, <4>1
    <3>2. z.node[x] = t.node[x]
      BY <1>2
    <3>. QED
      BY <1>1, <1>5, <3>1, <3>2 DEF Leaf, Kids, Keys, Top, Up
  <2>3. KeptIs(t, z, a, b)
    BY <1>2, <2>2 DEF KeptIs
  <2>. QED
    BY <2>1, <2>3
<1>6. CASE Leaf(t, a) /\ e # 0
  <2> DEFINE d == t.node[e]
             f == [d EXCEPT !.prev = a]
  <2>1. e \in Nodes(t) \ {a, b} /\ z.node[e] = d
    BY <1>2, <1>4, <1>6
  <2>2. y = MarkNode(z, e, f)
    BY <1>6, <2>1 DEF Kept
  <2>3. /\ f \in NodeType /\ f.leaf = d.leaf /\ f.kids = d.kids /\ f.max = d.max /\ f.parent = d.parent
        /\ f.prev = a /\ f.next = d.next /\ f.keys = d.keys
    <3>1. d \in NodeType /\ a \in Nat
      BY <1>1, <1>3, <2>1
    <3>. HIDE DEF d
    <3>. QED
      BY <3>1, Relinked
  <2>. HIDE DEF f
  <2>4. /\ Formed(y) /\ y.root = z.root /\ y.page = z.page
        /\ DOMAIN y.node = DOMAIN z.node \union {e}
        /\ y.node[e] = f /\ \A x \in DOMAIN z.node : x # e => y.node[x] = z.node[x]
    <3> DEFINE v == MarkNode(z, e, f)
    <3>1. /\ Formed(v) /\ v.root = z.root /\ v.page = z.page
          /\ IsMap(v.node) /\ DOMAIN v.node = DOMAIN z.node \union {e}
          /\ v.node[e] = f /\ \A x \in DOMAIN z.node : x # e => v.node[x] = z.node[x]
      BY <1>2, Marked
    <3>. HIDE DEF v, y, e
    <3>2. y = v
      BY <2>2 DEF v
    <3>. QED
      BY <3>1, <3>2
  <2>. HIDE DEF y
  <2>5. Formed(y) /\ y.root = t.root /\ y.page = t.page /\ Nodes(y) = Nodes(t)
    BY <1>2, <2>1, <2>4 DEF Nodes
  <2>6. ASSUME NEW x \in Nodes(t) \ {a, b}
        PROVE  /\ y.node[x] \in NodeType
               /\ Leaf(y, x) = Leaf(t, x) /\ Kids(y, x) = Kids(t, x) /\ Keys(y, x) = Keys(t, x) /\ Top(y, x) = Top(t, x)
               /\ y.node[x].next = t.node[x].next
               /\ y.node[x].prev = IF Leaf(t, a) /\ x = e THEN a ELSE t.node[x].prev
               /\ Up(y, x) = IF ~Leaf(t, a) /\ \E j \in 1 .. Len(Kids(t, b)) : Kids(t, b)[j] = x THEN a ELSE Up(t, x)
    <3>1. CASE x = e
      BY <1>6, <2>3, <2>4, <3>1 DEF Leaf, Kids, Keys, Top, Up
    <3>2. CASE x # e
      <4>1. y.node[x] = t.node[x]
        BY <1>2, <2>4, <3>2 DEF Nodes
      <4>. QED
        BY <1>1, <1>6, <3>2, <4>1 DEF Leaf, Kids, Keys, Top, Up
    <3>. QED
      BY <3>1, <3>2
  <2>7. KeptIs(t, y, a, b)
    BY <2>5, <2>6 DEF KeptIs
  <2>. QED
    BY <2>7 DEF y
<1>7. CASE ~Leaf(t, a)
  <2> DEFINE A == ToSet(Kids(t, b))
  <2>1. y = Adopt(z, A, a)
    BY <1>7 DEF Kept
  <2>2. \A x : x \in A <=> \E j \in 1 .. Len(Kids(t, b)) : Kids(t, b)[j] = x
    <3>1. Kids(t, b) \in Seq(Nat \ {0})
      BY <1>1, <1>3, NodeFields
    <3>. QED
      BY <3>1 DEF ToSet
  <2>3. /\ Formed(y) /\ y.root = z.root /\ y.page = z.page
        /\ DOMAIN y.node = DOMAIN z.node
        /\ \A x \in DOMAIN z.node :
             y.node[x] = IF x \in A THEN [z.node[x] EXCEPT !.parent = a] ELSE z.node[x]
    <3>. HIDE DEF A
    <3> DEFINE v == Adopt(z, A, a)
    <3>1. /\ Formed(v) /\ v.root = z.root /\ v.page = z.page
          /\ IsMap(v.node) /\ DOMAIN v.node = DOMAIN z.node
          /\ \A x \in DOMAIN z.node :
               v.node[x] = IF x \in A THEN [z.node[x] EXCEPT !.parent = a] ELSE z.node[x]
      BY <1>2, Adopted
    <3>. HIDE DEF v, y
    <3>2. y = v
      BY <2>1 DEF v
    <3>. QED
      BY <3>1, <3>2
  <2>. HIDE DEF y, A
  <2>4. Formed(y) /\ y.root = t.root /\ y.page = t.page /\ Nodes(y) = Nodes(t)
    BY <1>2, <2>3 DEF Nodes
  <2>5. ASSUME NEW x \in Nodes(t) \ {a, b}
        PROVE  /\ y.node[x] \in NodeType
               /\ Leaf(y, x) = Leaf(t, x) /\ Kids(y, x) = Kids(t, x) /\ Keys(y, x) = Keys(t, x) /\ Top(y, x) = Top(t, x)
               /\ y.node[x].next = t.node[x].next
               /\ y.node[x].prev = IF Leaf(t, a) /\ x = e THEN a ELSE t.node[x].prev
               /\ Up(y, x) = IF ~Leaf(t, a) /\ \E j \in 1 .. Len(Kids(t, b)) : Kids(t, b)[j] = x THEN a ELSE Up(t, x)
    <3> DEFINE d == t.node[x]
               f == [d EXCEPT !.parent = a]
    <3>1. y.node[x] = IF x \in A THEN f ELSE d
      BY <1>2, <2>3 DEF Nodes
    <3>2. /\ f \in NodeType /\ f.leaf = d.leaf /\ f.kids = d.kids /\ f.max = d.max /\ f.parent = a
          /\ f.prev = d.prev /\ f.next = d.next /\ f.keys = d.keys
      <4>1. d \in NodeType /\ a \in Nat
        BY <1>1, <1>3
      <4>. HIDE DEF d
      <4>. QED
        BY <4>1, Reparented
    <3>. HIDE DEF f
    <3>3. CASE x \in A
      BY <1>7, <2>2, <3>1, <3>2, <3>3 DEF Leaf, Kids, Keys, Top, Up
    <3>4. CASE x \notin A
      BY <1>1, <1>7, <2>2, <3>1, <3>4 DEF Leaf, Kids, Keys, Top, Up
    <3>. QED
      BY <3>3, <3>4
  <2>6. KeptIs(t, y, a, b)
    BY <2>4, <2>5 DEF KeptIs
  <2>. QED
    BY <2>6 DEF y
<1>. QED
  BY <1>5, <1>6, <1>7

LEMMA MergedIs ==
  ASSUME NEW t, NEW k, NEW a, NEW b, NEW m, a \in Nodes(t), b \in Nodes(t), a # b, KeptIs(t, k, a, b)
  PROVE  Merged(t, DeleteNode(MarkNode(k, a, m), b), a, b, m)
<1> DEFINE v == MarkNode(k, a, m)
           y == DeleteNode(v, b)
<1>1. /\ Formed(k) /\ k.root = t.root /\ k.page = t.page /\ Nodes(k) = Nodes(t)
      /\ \A x \in Nodes(t) \ {a, b} :
           /\ k.node[x] \in NodeType
           /\ Leaf(k, x) = Leaf(t, x) /\ Kids(k, x) = Kids(t, x) /\ Keys(k, x) = Keys(t, x) /\ Top(k, x) = Top(t, x)
           /\ k.node[x].next = t.node[x].next
           /\ k.node[x].prev = IF Leaf(t, a) /\ x = t.node[b].next THEN a ELSE t.node[x].prev
           /\ Up(k, x) = IF ~Leaf(t, a) /\ \E j \in 1 .. Len(Kids(t, b)) : Kids(t, b)[j] = x THEN a ELSE Up(t, x)
  BY Zenon DEF KeptIs
<1>2. /\ Formed(v) /\ v.root = k.root /\ v.page = k.page
      /\ IsMap(v.node) /\ DOMAIN v.node = DOMAIN k.node \union {a}
      /\ v.node[a] = m /\ \A x \in DOMAIN k.node : x # a => v.node[x] = k.node[x]
  BY <1>1, Marked
<1>. HIDE DEF v
<1>3. /\ Formed(y) /\ y.root = v.root /\ y.page = v.page
      /\ IsMap(y.node) /\ DOMAIN y.node = DOMAIN v.node \ {b}
      /\ \A x \in DOMAIN v.node : x # b => y.node[x] = v.node[x]
  BY <1>2, Deleted
<1>. HIDE DEF y
<1>4. Nodes(y) = Nodes(t) \ {b} /\ y.node[a] = m /\ y.root = t.root /\ y.page = t.page
  BY <1>1, <1>2, <1>3 DEF Nodes
<1>5. ASSUME NEW x \in Nodes(t) \ {a, b}
      PROVE  /\ y.node[x] \in NodeType
             /\ Leaf(y, x) = Leaf(t, x) /\ Kids(y, x) = Kids(t, x) /\ Keys(y, x) = Keys(t, x) /\ Top(y, x) = Top(t, x)
             /\ y.node[x].next = t.node[x].next
             /\ y.node[x].prev = IF Leaf(t, a) /\ x = t.node[b].next THEN a ELSE t.node[x].prev
             /\ Up(y, x) = IF ~Leaf(t, a) /\ \E j \in 1 .. Len(Kids(t, b)) : Kids(t, b)[j] = x THEN a ELSE Up(t, x)
  <2>1. y.node[x] = k.node[x]
    BY <1>1, <1>2, <1>3 DEF Nodes
  <2>2. Leaf(y, x) = Leaf(k, x) /\ Kids(y, x) = Kids(k, x) /\ Keys(y, x) = Keys(k, x) /\ Top(y, x) = Top(k, x)
        /\ Up(y, x) = Up(k, x)
    BY <2>1 DEF Leaf, Kids, Keys, Top, Up
  <2>3. /\ k.node[x] \in NodeType
        /\ Leaf(k, x) = Leaf(t, x) /\ Kids(k, x) = Kids(t, x) /\ Keys(k, x) = Keys(t, x) /\ Top(k, x) = Top(t, x)
        /\ k.node[x].next = t.node[x].next
        /\ k.node[x].prev = IF Leaf(t, a) /\ x = t.node[b].next THEN a ELSE t.node[x].prev
        /\ Up(k, x) = IF ~Leaf(t, a) /\ \E j \in 1 .. Len(Kids(t, b)) : Kids(t, b)[j] = x THEN a ELSE Up(t, x)
    BY <1>1, Zenon
  <2>. QED
    BY <2>1, <2>2, <2>3, Zenon
<1>6. Merged(t, y, a, b, m)
  BY <1>3, <1>4, <1>5 DEF Merged
<1>. QED
  BY <1>6 DEF y, v

\* A child that is not the last changes its separator, and that is all.
LEMMA RaisedOnce ==
  ASSUME NEW y, NEW a, NEW k, NEW p, NEW i \in Nat \ {0}, IsFiniteSet(Nodes(y)), a \in Nodes(y), a # 0,
         Up(y, a) = p, p # 0, i = Position(Kids(y, p), a), i < Len(Kids(y, p))
  PROVE  PropagateMaxKeyUp(y, a, k) = MarkNode(y, p, [y.node[p] EXCEPT !.keys[i] = k])
<1> DEFINE n == Cardinality(DOMAIN y.node)
           v == MarkNode(y, p, [y.node[p] EXCEPT !.keys[i] = k])
           s == [tree |-> v, at |-> 0]
<1>1. n \in Nat /\ n >= 1
  <2>1. IsFiniteSet(DOMAIN y.node) /\ DOMAIN y.node # {}
    BY DEF Nodes
  <2>2. n \in Nat /\ n # 0
    BY <2>1, FS_CardinalityType, FS_EmptySet
  <2>. QED
    BY <2>2
<1>. HIDE DEF n
<1>2. PICK f : /\ PropagateMaxKeyUp(y, a, k) = f[n].tree
               /\ f = [j \in 0 .. n |-> f[j]] /\ f[0] = [tree |-> y, at |-> a]
               /\ \A j \in 1 .. n : f[j] = RaiseParent(f[j - 1], k)
  <2>1. n = Cardinality(DOMAIN y.node)
    BY DEF n
  <2>. QED
    BY <1>1, <2>1, PropagateRuns
<1>3. RaiseParent([tree |-> y, at |-> a], k) = s
  <2>1. i = Position(y.node[y.node[a].parent].kids, a) /\ i < Len(y.node[y.node[a].parent].kids) /\ y.node[a].parent = p
    BY DEF Up, Kids
  <2>. QED
    BY <2>1 DEF RaiseParent
<1>4. RaiseParent(s, k) = s
  <2>. HIDE DEF v
  <2>1. s.at = 0 /\ [s EXCEPT !.at = 0] = s
    OBVIOUS
  <2>. QED
    BY <2>1, Zenon DEF RaiseParent
<1>. HIDE DEF s, v
<1>5. f[1] = s
  <2>1. 1 \in 1 .. n /\ 1 - 1 = 0
    BY <1>1
  <2>. QED
    BY <1>2, <1>3, <2>1
<1> DEFINE T == {j \in Nat : j # 0 => f[j] = s}
<1>6. f[n] = s
  <2>1. 0 \in T
    BY DEF T
  <2>2. ASSUME NEW j \in 1 .. n, j - 1 \in T PROVE j \in T
    <3>1. CASE j = 1
      BY <1>5, <3>1
    <3>2. CASE j # 1
      <4>1. j - 1 # 0 /\ j \in Nat
        BY <1>1, <3>2
      <4>2. f[j - 1] = s
        BY <2>2, <4>1
      <4>3. f[j] = s
        BY <1>2, <1>4, <4>2
      <4>. QED
        BY <4>1, <4>3
    <3>. QED
      BY <3>1, <3>2
  <2>. HIDE DEF T
  <2>3. 0 .. n \subseteq T
    BY <1>1, <2>1, <2>2, CountingUpTo
  <2>4. n \in T /\ n # 0
    BY <1>1, <2>3
  <2>. QED
    BY <2>4 DEF T
<1>7. s.tree = v
  BY DEF s
<1>. QED
  BY <1>2, <1>6, <1>7 DEF v

\* What mergeNode has in hand: the survivor at a, the other at b, both as in t.
Merging(z, t, at, n, p, i, a, b, s, m) ==
  /\ MergePair(z, n, at) = [to |-> a, into |-> t.node[a], from |-> b, source |-> t.node[b]]
  /\ n.leaf = Leaf(t, a) /\ n.parent = p /\ z.node[p] = t.node[p]
  /\ i = Position(Kids(t, p), a) /\ s = Keys(t, p)[i]
  /\ m = Absorb(t.node[a], t.node[b], Bound(t, a, s)) /\ m.next = t.node[b].next

MergeTree(z, t, a, b, m) == DeleteNode(MarkNode(Kept(z, t, a, b), a, m), b)

LEMMA MergeIntoIs ==
  ASSUME NEW z, NEW t, NEW at, NEW n, NEW p, NEW i, NEW a, NEW b, NEW s, NEW m,
         Merging(z, t, at, n, p, i, a, b, s, m)
  PROVE  MergeInto(z, n, at) =
           [tree |-> PropagateMaxKeyUp(MergeTree(z, t, a, b, m), a, m.max), to |-> a, from |-> b]
<1> DEFINE pair == MergePair(z, n, at)
           bound == IF n.leaf THEN <<>> ELSE <<z.node[n.parent].keys[Position(z.node[n.parent].kids, pair.to)]>>
           one == Absorb(pair.into, pair.source, bound)
           kept == IF n.leaf
                   THEN IF one.next = 0 THEN z
                        ELSE MarkNode(z, one.next, [z.node[one.next] EXCEPT !.prev = pair.to])
                   ELSE Adopt(z, ToSet(pair.source.kids), pair.to)
<1>1. MergeInto(z, n, at) = [tree |-> PropagateMaxKeyUp(DeleteNode(MarkNode(kept, pair.to, one), pair.from),
                                                        pair.to, one.max),
                             to |-> pair.to, from |-> pair.from]
  BY Zenon DEF MergeInto
<1>. HIDE DEF pair
<1>2. pair = [to |-> a, into |-> t.node[a], from |-> b, source |-> t.node[b]]
  BY DEF Merging, pair
<1>3. pair.to = a /\ pair.into = t.node[a] /\ pair.from = b /\ pair.source = t.node[b]
  BY <1>2
<1>4. n.leaf = Leaf(t, a) /\ n.parent = p /\ z.node[p] = t.node[p] /\ i = Position(Kids(t, p), a) /\ s = Keys(t, p)[i]
      /\ m = Absorb(t.node[a], t.node[b], Bound(t, a, s)) /\ m.next = t.node[b].next
  BY DEF Merging
<1>5. bound = Bound(t, a, s)
  BY <1>3, <1>4 DEF Bound, Kids, Keys
<1>. HIDE DEF bound
<1>6. one = m
  BY <1>3, <1>4, <1>5
<1>. HIDE DEF one
<1>7. kept = Kept(z, t, a, b)
  BY <1>3, <1>4, <1>6, Zenon DEF Kept, Kids
<1>. HIDE DEF kept
<1>. QED
  BY <1>1, <1>3, <1>6, <1>7, Zenon DEF MergeTree

LEMMA FiledOutIs ==
  ASSUME NEW t, NEW p, NEW i, NEW d \in NodeType, NEW C, NEW Q, NEW q,
         d.leaf = Leaf(t, p), d.kids = Kids(t, p), Len(d.keys) = Len(Keys(t, p)), d.max = Top(t, p), d.parent = Up(t, p),
         d.prev = t.node[p].prev, d.next = t.node[p].next,
         \A j \in 1 .. Len(Keys(t, p)) : j # i => d.keys[j] = Keys(t, p)[j],
         i \in 1 .. Len(Keys(t, p)), i + 1 \in 1 .. Len(Kids(t, p)), Len(Keys(t, p)) \in Nat,
         C = RemoveAt(d.kids, i + 1), Q = RemoveAt(d.keys, i), q = [d EXCEPT !.kids = C, !.keys = Q]
  PROVE  FiledOut(t, p, q, i)
<1>1. d.kids \in Seq(Nat \ {0}) /\ d.keys \in Seq(Key) /\ d.max \in Key
  BY DEF NodeType
<1>2. /\ C \in Seq(Nat \ {0}) /\ Len(C) = Len(d.kids) - 1
      /\ \A m \in 1 .. (Len(d.kids) - 1) : C[m] = IF m < i + 1 THEN d.kids[m] ELSE d.kids[m + 1]
  <2>1. i + 1 \in 1 .. Len(d.kids)
    OBVIOUS
  <2> DEFINE s == d.kids
             e == i + 1
             R == RemoveAt(s, e)
  <2>2. s \in Seq(Nat \ {0}) /\ e \in 1 .. Len(s)
    BY <1>1, <2>1
  <2>. HIDE DEF s, e
  <2>3. /\ R \in Seq(Nat \ {0}) /\ Len(R) = Len(s) - 1
        /\ \A m \in 1 .. (Len(s) - 1) : R[m] = IF m < e THEN s[m] ELSE s[m + 1]
    BY <2>2, RemoveAtItems
  <2>4. R = C
    BY DEF s, e
  <2>. HIDE DEF R
  <2>. QED
    BY <2>3, <2>4 DEF s, e
<1>3. /\ Q \in Seq(Key) /\ Len(Q) = Len(d.keys) - 1
      /\ \A m \in 1 .. (Len(d.keys) - 1) : Q[m] = IF m < i THEN d.keys[m] ELSE d.keys[m + 1]
  BY <1>1, RemoveAtItems, ZenonT(30)
<1>4. Rearranged(d, q, C, Q, d.max)
  BY <1>1, <1>2, <1>3, Rearrayed
<1>5. q \in NodeType /\ q.leaf = d.leaf /\ q.kids = C /\ q.keys = Q /\ q.max = d.max
      /\ q.parent = d.parent /\ q.prev = d.prev /\ q.next = d.next
  BY <1>4 DEF Rearranged
<1>6. ASSUME NEW j \in 1 .. (Len(Keys(t, p)) - 1)
      PROVE  q.keys[j] = IF j < i THEN Keys(t, p)[j] ELSE Keys(t, p)[j + 1]
  <2>1. CASE j < i
    <3>1. j \in 1 .. Len(Keys(t, p)) /\ j # i
      BY <2>1
    <3>. QED
      BY <1>3, <1>5, <2>1, <3>1
  <2>2. CASE ~(j < i)
    <3>1. j + 1 \in 1 .. Len(Keys(t, p)) /\ j + 1 # i
      BY <2>2
    <3>. QED
      BY <1>3, <1>5, <2>2, <3>1
  <2>. QED
    BY <2>1, <2>2
<1>7. \A j \in 1 .. (Len(Kids(t, p)) - 1) : q.kids[j] = IF j < i + 1 THEN Kids(t, p)[j] ELSE Kids(t, p)[j + 1]
  BY <1>2, <1>5
<1>. QED
  BY <1>2, <1>3, <1>5, <1>6, <1>7 DEF FiledOut

\* What Unlink makes of a merge: w is the tree with the parent's copy stored.
UnlinkedTo(r, w, t, p, i, a, b) ==
  /\ Divided(w, t, p, i, a, b, Len(Kids(t, a)), Keys(t, p)[i]) /\ Rejoined(w, a, Len(Kids(t, a)))
  /\ r = [tree |-> r.tree, node |-> r.node, at |-> p, more |-> r.more]
  /\ r.more = IF p = t.root THEN Len(Kids(w, p)) = 1 ELSE Len(Kids(w, p)) < HalfM
  /\ IF r.more THEN Pending(r.tree, w, p, r.node) ELSE r.tree = w

LEMMA Unlinks ==
  ASSUME NEW z, NEW t, NEW at, NEW n, NEW lv, NEW lo, NEW nx, NEW loose, NEW p, NEW i, NEW a, NEW b, NEW s, NEW m,
         Good(t, lv, lo, nx, loose, 0), Beside(t, p, i, a, b), Pending(z, t, at, n), at \in {a, b},
         Merging(z, t, at, n, p, i, a, b, s, m)
  PROVE  \E w : UnlinkedTo(Unlink(MergeInto(z, n, at), p), w, t, p, i, a, b)
<1> DEFINE y == MergeTree(z, t, a, b, m)
           k == m.max
           d == [t.node[p] EXCEPT !.keys[i] = k]
           v == MarkNode(y, p, d)
           C == RemoveAt(d.kids, i + 1)
           Q == RemoveAt(d.keys, i)
           q == [d EXCEPT !.kids = C, !.keys = Q]
           w == MarkNode(y, p, q)
           r == Unlink(MergeInto(z, n, at), p)
<1>1. /\ Typed(t) /\ t.root \in Nodes(t) /\ IsFiniteSet(Nodes(t)) /\ Nodes(t) \subseteq Nat \ {0}
      /\ \A x \in Nodes(t) : t.node[x] \in NodeType
  <2>1. Typed(t)
    BY DEF Good
  <2>. QED
    BY <2>1, TypedParts
<1>2. /\ p \in Nodes(t) /\ a \in Nodes(t) /\ b \in Nodes(t) /\ ~Leaf(t, p)
      /\ i \in Nat \ {0} /\ i < Len(Kids(t, p)) /\ Kids(t, p)[i] = a /\ Kids(t, p)[i + 1] = b
  BY DEF Beside
<1>3. /\ i \in 1 .. Len(Kids(t, p)) /\ i + 1 \in 1 .. Len(Kids(t, p)) /\ i \in 1 .. Len(Keys(t, p))
      /\ Len(Keys(t, p)) = Len(Kids(t, p)) - 1 /\ Len(Kids(t, p)) \in Nat
      /\ Keys(t, p)[i] \in Key /\ Up(t, a) = p /\ lv[a] \in Nat /\ lv[p] = lv[a] + 1 /\ lv[b] = lv[a]
      /\ a # b /\ a # p /\ b # p /\ b # t.root
  <2>1. BesideIs(t, lv, nx, p, i, a, b)
    BY BesideFacts
  <2>. QED
    BY <2>1 DEF BesideIs
<1>4. /\ i = Position(Kids(t, p), a) /\ s = Keys(t, p)[i]
      /\ m = Absorb(t.node[a], t.node[b], Bound(t, a, s))
  BY DEF Merging
<1>5. Absorbed(t, a, b, s, m)
  <2>1. s \in Key
    BY <1>3, <1>4
  <2> DEFINE o == Absorb(t.node[a], t.node[b], Bound(t, a, s))
  <2>2. Absorbed(t, a, b, s, o)
    BY <1>2, <2>1, AbsorbedIs
  <2>3. m = o
    BY <1>4
  <2>. HIDE DEF o
  <2>. QED
    BY <2>2, <2>3
<1>6. k \in Key /\ m.parent = p
  <2>1. k = Top(t, b) /\ Top(t, b) \in Key /\ m.parent = Up(t, a)
    BY <1>1, <1>2, <1>5, NodeFields DEF Absorbed
  <2>. QED
    BY <1>3, <2>1
<1>7. Merged(t, y, a, b, m)
  <2>1. KeptIs(t, Kept(z, t, a, b), a, b)
    BY KeptFacts
  <2>2. Merged(t, DeleteNode(MarkNode(Kept(z, t, a, b), a, m), b), a, b, m)
    BY <1>2, <1>3, <2>1, MergedIs
  <2>. QED
    BY <2>2 DEF MergeTree
<1>. HIDE DEF y
<1>8. /\ Formed(y) /\ y.root = t.root /\ y.page = t.page /\ IsMap(y.node) /\ Nodes(y) = Nodes(t) \ {b}
      /\ y.node[a] = m /\ Kids(y, p) = Kids(t, p)
  <2>1. p \in Nodes(t) \ {a, b}
    BY <1>2, <1>3
  <2>. QED
    <3>1. Kids(y, p) = Kids(t, p)
      BY <1>7, <2>1, Zenon DEF Merged
    <3>. QED
      BY <1>7, <3>1, Zenon DEF Merged
<1>9. y.node[p] = t.node[p]
  <2>1. z.node[p] = t.node[p]
    BY DEF Merging
  <2>2. /\ Formed(z) /\ Nodes(z) = Nodes(t)
    BY DEF Pending
  <2>3. Kept(z, t, a, b).node[p] = z.node[p] /\ Formed(Kept(z, t, a, b)) /\ Nodes(Kept(z, t, a, b)) = Nodes(t)
    <3>1. BesideIs(t, lv, nx, p, i, a, b)
      BY BesideFacts
    <3>2. t.node[b].next # p /\ (Leaf(t, a) /\ t.node[b].next # 0 => t.node[b].next \in Nodes(t)) /\ Leaf(t, a) = Leaf(t, b)
      <4>1. p # 0
        BY <1>1, <1>2
      <4>. QED
        BY <3>1, <4>1 DEF BesideIs
    <3>3. ~Leaf(t, a) => p \notin ToSet(Kids(t, b))
      <4>1. SUFFICES ASSUME ~Leaf(t, a), p \in ToSet(Kids(t, b)) PROVE FALSE
        OBVIOUS
      <4>2. Kids(t, b) \in Seq(Nat \ {0})
        BY <1>1, <1>2, NodeFields
      <4>3. PICK j \in 1 .. Len(Kids(t, b)) : Kids(t, b)[j] = p
        BY <4>1, <4>2 DEF ToSet
      <4>4. lv[b] = lv[p] + 1
        BY <1>2, <3>2, <4>1, <4>3 DEF Good, Children
      <4>. QED
        BY <1>3, <4>4
    <3>4. CASE Leaf(t, a) /\ t.node[b].next = 0
      <4>1. Kept(z, t, a, b) = z
        BY <3>4 DEF Kept
      <4>. QED
        BY <2>2, <4>1
    <3>5. CASE Leaf(t, a) /\ t.node[b].next # 0
      <4> DEFINE e == t.node[b].next
                 g == [z.node[e] EXCEPT !.prev = a]
                 u == MarkNode(z, e, g)
      <4>1. Kept(z, t, a, b) = u
        BY <3>5 DEF Kept
      <4>. HIDE DEF e, g
      <4>2. /\ Formed(u)
            /\ DOMAIN u.node = DOMAIN z.node \union {e}
            /\ \A x \in DOMAIN z.node : x # e => u.node[x] = z.node[x]
        BY <2>2, Marked
      <4>3. e # p /\ e \in Nodes(t)
        BY <3>2, <3>5 DEF e
      <4>. HIDE DEF u
      <4>4. u.node[p] = z.node[p] /\ Nodes(u) = Nodes(t)
        BY <1>2, <2>2, <4>2, <4>3 DEF Nodes
      <4>. QED
        BY <4>1, <4>2, <4>4
    <3>6. CASE ~Leaf(t, a)
      <4> DEFINE A == ToSet(Kids(t, b))
                 u == Adopt(z, A, a)
      <4>1. Kept(z, t, a, b) = u
        BY <3>6 DEF Kept
      <4>2. p \notin A
        BY <3>3, <3>6
      <4>. HIDE DEF A
      <4>3. /\ Formed(u) /\ DOMAIN u.node = DOMAIN z.node
            /\ \A x \in DOMAIN z.node : u.node[x] = IF x \in A THEN [z.node[x] EXCEPT !.parent = a] ELSE z.node[x]
        BY <2>2, Adopted
      <4>. HIDE DEF u
      <4>4. u.node[p] = z.node[p] /\ Nodes(u) = Nodes(t)
        BY <1>2, <2>2, <4>2, <4>3 DEF Nodes
      <4>. QED
        BY <4>1, <4>3, <4>4
    <3>. QED
      BY <3>4, <3>5, <3>6
  <2> DEFINE h == Kept(z, t, a, b)
             g == MarkNode(h, a, m)
  <2>. HIDE DEF h
  <2>4. Formed(h) /\ h.node[p] = t.node[p] /\ Nodes(h) = Nodes(t)
    BY <2>1, <2>3 DEF h
  <2>5. /\ Formed(g) /\ DOMAIN g.node = DOMAIN h.node \union {a}
        /\ \A x \in DOMAIN h.node : x # a => g.node[x] = h.node[x]
    BY <2>4, Marked
  <2>. HIDE DEF g
  <2> DEFINE f == DeleteNode(g, b)
  <2>6. \A x \in DOMAIN g.node : x # b => f.node[x] = g.node[x]
    BY <2>5, Deleted
  <2>7. y = f
    BY DEF y, MergeTree, f, g, h
  <2>. HIDE DEF f
  <2>8. f.node[p] = g.node[p] /\ g.node[p] = h.node[p]
    BY <1>2, <1>3, <2>4, <2>5, <2>6 DEF Nodes
  <2>. QED
    BY <2>4, <2>7, <2>8
<1>10. MergeInto(z, n, at) = [tree |-> v, to |-> a, from |-> b]
  <2>1. MergeInto(z, n, at) = [tree |-> PropagateMaxKeyUp(y, a, k), to |-> a, from |-> b]
    BY MergeIntoIs DEF y
  <2>2. /\ IsFiniteSet(Nodes(y)) /\ a \in Nodes(y) /\ a # 0 /\ Up(y, a) = p /\ p # 0
        /\ i = Position(Kids(y, p), a) /\ i < Len(Kids(y, p)) /\ i \in Nat \ {0}
    <3>1. IsFiniteSet(Nodes(y))
      BY <1>1, <1>8, FS_Subset
    <3>. QED
      BY <1>1, <1>2, <1>3, <1>4, <1>6, <1>8, <3>1 DEF Up
  <2>3. PropagateMaxKeyUp(y, a, k) = MarkNode(y, p, [y.node[p] EXCEPT !.keys[i] = k])
    <3>. HIDE DEF k
    <3>. QED
      BY <2>2, RaisedOnce
  <2>. QED
    BY <1>9, <2>1, <2>3
<1>11. /\ d \in NodeType /\ d.leaf = Leaf(t, p) /\ d.kids = Kids(t, p) /\ d.max = Top(t, p) /\ d.parent = Up(t, p)
       /\ d.prev = t.node[p].prev /\ d.next = t.node[p].next /\ Len(d.keys) = Len(Keys(t, p))
       /\ \A j \in 1 .. Len(Keys(t, p)) : j # i => d.keys[j] = Keys(t, p)[j]
  <2> DEFINE e == t.node[p]
             f == [e EXCEPT !.keys[i] = k]
  <2>1. e \in NodeType /\ i \in 1 .. Len(e.keys) /\ k \in Key
    BY <1>1, <1>2, <1>3, <1>6 DEF Keys
  <2>. HIDE DEF k, e
  <2>2. /\ f \in NodeType
         /\ f.leaf = e.leaf /\ f.kids = e.kids
         /\ f.max = e.max /\ f.parent = e.parent
         /\ f.prev = e.prev /\ f.next = e.next
         /\ Len(f.keys) = Len(e.keys)
         /\ \A j \in 1 .. Len(e.keys) : f.keys[j] = IF j = i THEN k ELSE e.keys[j]
    BY <2>1, Rekeyed
  <2>3. d = f
    BY DEF e
  <2>. HIDE DEF f, d
  <2>. QED
    BY <2>2, <2>3 DEF e, Leaf, Kids, Keys, Top, Up
<1>. HIDE DEF d
<1>12. /\ Formed(v) /\ v.root = y.root /\ v.page = y.page
       /\ IsMap(v.node) /\ DOMAIN v.node = DOMAIN y.node \union {p}
       /\ v.node[p] = d /\ \A x \in DOMAIN y.node : x # p => v.node[x] = y.node[x]
  BY <1>8, Marked
<1>. HIDE DEF v
<1>13. FiledOut(t, p, q, i)
  <2>1. Len(Keys(t, p)) \in Nat /\ i + 1 \in 1 .. Len(Kids(t, p)) /\ i \in 1 .. Len(Keys(t, p))
    BY <1>3
  <2>2. C = RemoveAt(d.kids, i + 1) /\ Q = RemoveAt(d.keys, i)
    OBVIOUS
  <2>. HIDE DEF C, Q
  <2>3. q = [d EXCEPT !.kids = C, !.keys = Q]
    OBVIOUS
  <2>. HIDE DEF q
  <2>. QED
    BY <1>11, <2>1, <2>2, <2>3, FiledOutIs
<1>14. Position(d.kids, b) = i + 1
  <2>1. Kids(t, p) \in Seq(Nat \ {0}) /\ \A x, j \in 1 .. Len(Kids(t, p)) : Kids(t, p)[x] = Kids(t, p)[j] => x = j
    BY <1>1, <1>2, NodeFields DEF Good, Arrays
  <2>2. Position(Kids(t, p), Kids(t, p)[i + 1]) = i + 1
    BY <1>3, <2>1, PositionIs
  <2>. QED
    BY <1>2, <1>11, <2>2
<1> DEFINE more == IF IsRoot(q) THEN Len(q.kids) = 1 ELSE Len(q.kids) < HalfM
<1>15. r = [tree |-> IF more THEN v ELSE MarkNode(v, p, q), node |-> q, at |-> p, more |-> more]
  <2> DEFINE mm == [tree |-> v, to |-> a, from |-> b]
             P == mm.tree.node[p]
             I == Position(P.kids, mm.from)
             q1 == [P EXCEPT !.kids = RemoveAt(@, I), !.keys = RemoveAt(@, I - 1)]
             more1 == IF IsRoot(q1) THEN Len(q1.kids) = 1 ELSE Len(q1.kids) < HalfM
  <2>1. Unlink(mm, p) = [tree |-> IF more1 THEN mm.tree ELSE MarkNode(mm.tree, p, q1),
                         node |-> q1, at |-> p, more |-> more1]
    BY Zenon DEF Unlink
  <2>2. mm.tree = v /\ mm.from = b
    OBVIOUS
  <2>3. r = Unlink(mm, p)
    BY <1>10
  <2>. HIDE DEF mm, r
  <2>4. P = d
    BY <1>12, <2>2
  <2>. HIDE DEF P
  <2>5. I = i + 1
    BY <1>14, <2>2, <2>4
  <2>. HIDE DEF I
  <2>6. I - 1 = i
    BY <1>2, <2>5
  <2>7. q1 = q
    BY <2>4, <2>5, <2>6
  <2>. HIDE DEF q1, q
  <2>. QED
    BY <2>1, <2>2, <2>3, <2>7
<1>. HIDE DEF r, q
<1>16. Divided(w, t, p, i, a, b, Len(Kids(t, a)), Keys(t, p)[i]) /\ Rejoined(w, a, Len(Kids(t, a)))
  <2> DEFINE c == Len(Kids(t, a))
  <2>1. c = Len(Kids(t, a)) /\ s = Keys(t, p)[i] /\ w = MarkNode(y, p, q)
    BY <1>4
  <2>. HIDE DEF c, w
  <2>2. Divided(w, t, p, i, a, b, c, s) /\ Rejoined(w, a, c)
    BY <1>5, <1>7, <1>13, <2>1, MergeDivides
  <2>. QED
    BY <2>1, <2>2
<1>17. /\ Formed(w) /\ w.root = y.root /\ w.page = y.page
       /\ IsMap(w.node) /\ DOMAIN w.node = DOMAIN y.node \union {p}
       /\ w.node[p] = q /\ \A x \in DOMAIN y.node : x # p => w.node[x] = y.node[x]
  BY <1>8, Marked
<1>18. MarkNode(v, p, q) = w
  <2> DEFINE u == MarkNode(v, p, q)
  <2>1. /\ Formed(u) /\ u.root = v.root /\ u.page = v.page
        /\ IsMap(u.node) /\ DOMAIN u.node = DOMAIN v.node \union {p}
        /\ u.node[p] = q /\ \A x \in DOMAIN v.node : x # p => u.node[x] = v.node[x]
    BY <1>12, Marked
  <2>. HIDE DEF u, w
  <2>2. DOMAIN u.node = DOMAIN w.node /\ u.root = w.root /\ u.page = w.page
    BY <1>12, <1>17, <2>1
  <2>3. ASSUME NEW x \in DOMAIN u.node PROVE u.node[x] = w.node[x]
    <3>1. CASE x = p
      BY <1>17, <2>1, <3>1
    <3>2. CASE x # p
      BY <1>12, <1>17, <2>1, <3>2
    <3>. QED
      BY <3>1, <3>2
  <2>4. u = w
    BY <1>17, <2>1, <2>2, <2>3, SameTree
  <2>. QED
    BY <2>4 DEF u
<1>. HIDE DEF w
<1>19. Pending(v, w, p, q)
  <2>1. Nodes(v) = Nodes(w) /\ p \in Nodes(w) /\ v.root = w.root /\ v.page = w.page
    BY <1>12, <1>17 DEF Nodes
  <2>2. \A x \in Nodes(w) : x # p => v.node[x] = w.node[x]
    BY <1>12, <1>17 DEF Nodes
  <2>. QED
    BY <1>12, <1>17, <2>1, <2>2 DEF Pending
<1>20. more = IF p = t.root THEN Len(Kids(w, p)) = 1 ELSE Len(Kids(w, p)) < HalfM
  <2>1. q.parent = Up(t, p) /\ q.kids = Kids(w, p)
    BY <1>13, <1>17 DEF FiledOut, Kids
  <2>2. Up(t, p) = 0 <=> p = t.root
    <3>1. Parents(t)
      BY DEF Good
    <3>. QED
      BY <1>1, <1>2, <3>1 DEF Parents
  <2>. QED
    BY <2>1, <2>2 DEF IsRoot
<1>. HIDE DEF more
<1>22. /\ r = [tree |-> r.tree, node |-> r.node, at |-> p, more |-> r.more] /\ r.more = more
       /\ IF r.more THEN Pending(r.tree, w, p, r.node) ELSE r.tree = w
  <2>1. CASE more
    <3>1. r = [tree |-> v, node |-> q, at |-> p, more |-> more]
      BY <1>15, <2>1
    <3>. QED
      BY <1>19, <2>1, <3>1
  <2>2. CASE ~more
    <3>1. r = [tree |-> w, node |-> q, at |-> p, more |-> more]
      BY <1>15, <1>18, <2>2
    <3>. QED
      BY <2>2, <3>1
  <2>. QED
    BY <2>1, <2>2
<1>23. UnlinkedTo(r, w, t, p, i, a, b)
  BY <1>16, <1>20, <1>22 DEF UnlinkedTo
<1>. QED
  BY <1>23 DEF r

(***************************************************************************)
(* A child moves between neighbours: the node w they would make together   *)
(* is divided after its d-th child instead.                                *)
(***************************************************************************)
Reparted(w, t, v, p, i, a, b, d, s) ==
  /\ Typed(v) /\ v.root = t.root /\ v.page = t.page /\ Nodes(v) = Nodes(t)
  /\ d \in 1 .. (Len(Kids(w, a)) - 1)
  /\ \A x \in Nodes(t) :
       /\ Leaf(v, x) = Leaf(t, x) /\ v.node[x].prev = t.node[x].prev /\ v.node[x].next = t.node[x].next
       /\ x # a /\ x # b /\ x # p => Kids(v, x) = Kids(t, x) /\ Keys(v, x) = Keys(t, x) /\ Top(v, x) = Top(t, x)
  /\ Kids(v, p) = Kids(t, p) /\ Top(v, p) = Top(t, p) /\ Top(v, b) = Top(t, b)
  /\ Len(Keys(v, p)) = Len(Keys(t, p))
  /\ \A j \in 1 .. Len(Keys(t, p)) : Keys(v, p)[j] = IF j = i THEN s ELSE Keys(t, p)[j]
  /\ Len(Kids(v, a)) = d /\ \A j \in 1 .. d : Kids(v, a)[j] = Kids(w, a)[j]
  /\ Len(Kids(v, b)) = Len(Kids(w, a)) - d
  /\ \A j \in 1 .. (Len(Kids(w, a)) - d) : Kids(v, b)[j] = Kids(w, a)[d + j]
  /\ Len(Keys(v, a)) = (IF Leaf(w, a) THEN d ELSE d - 1)
  /\ \A j \in 1 .. Len(Keys(v, a)) : Keys(v, a)[j] = Keys(w, a)[j]
  /\ Len(Keys(v, b)) = Len(Keys(w, a)) - d
  /\ \A j \in 1 .. (Len(Keys(w, a)) - d) : Keys(v, b)[j] = Keys(w, a)[d + j]
  /\ ~Leaf(w, a) => Keys(w, a)[d] = s
  /\ ~Leaf(w, a) => \A j \in 1 .. Len(Kids(w, a)) : Up(v, Kids(w, a)[j]) = IF j <= d THEN a ELSE b
  /\ \A x \in Nodes(t) : Leaf(w, a) \/ (\A j \in 1 .. Len(Kids(w, a)) : Kids(w, a)[j] # x) => Up(v, x) = Up(t, x)

LEMMA RepartedDivides ==
  ASSUME NEW w, NEW t, NEW v, NEW p, NEW i, NEW a, NEW b, NEW c, NEW s, NEW d, NEW s2,
         NEW lv, NEW lo, NEW nx, NEW loose,
         Divided(w, t, p, i, a, b, c, s), Good(w, lv, lo, nx, loose, 0), Reparted(w, t, v, p, i, a, b, d, s2)
  PROVE  Divided(w, v, p, i, a, b, d, s2)
<1>1. /\ Apart(w, t, p, i, a, b, c) /\ KidsApart(w, t, p, i, a, b, c) /\ KeysApart(w, t, p, i, a, b, c, s)
      /\ UpsApart(w, t, p, a, b, c) /\ LinksApart(w, t, a, b)
  BY DEF Divided
<1>2. /\ Len(Kids(w, a)) \in Nat /\ Len(Kids(w, p)) \in Nat /\ Len(Keys(w, a)) \in Nat /\ Len(Keys(w, p)) \in Nat
      /\ c \in Nat /\ c < Len(Kids(w, a)) /\ i \in Nat /\ i >= 1 /\ a # b /\ p # b
      /\ Typed(w) /\ t.root = w.root /\ t.page = w.page
      /\ a \in Nodes(w) /\ p \in Nodes(w) /\ a # p /\ ~Leaf(w, p)
      /\ Nodes(t) = Nodes(w) \union {b} /\ b \notin Nodes(w)
      /\ Leaf(t, b) = Leaf(w, a) /\ \A x \in Nodes(w) : Leaf(t, x) = Leaf(w, x)
  BY <1>1, ApartFacts
<1>3. ChildAt(w, p, i, a)
       /\ \A x \in Nodes(w) : x # a /\ x # p => Kids(t, x) = Kids(w, x) /\ Keys(t, x) = Keys(w, x) /\ Top(t, x) = Top(w, x)
  BY <1>1 DEF Apart
<1>4. /\ Typed(v) /\ v.root = t.root /\ v.page = t.page /\ Nodes(v) = Nodes(t)
      /\ d \in 1 .. (Len(Kids(w, a)) - 1)
      /\ \A x \in Nodes(t) :
           /\ Leaf(v, x) = Leaf(t, x) /\ v.node[x].prev = t.node[x].prev /\ v.node[x].next = t.node[x].next
           /\ x # a /\ x # b /\ x # p => Kids(v, x) = Kids(t, x) /\ Keys(v, x) = Keys(t, x) /\ Top(v, x) = Top(t, x)
  BY Zenon DEF Reparted
<1>5. Apart(w, v, p, i, a, b, d)
  <2>1. ASSUME NEW x \in Nodes(w)
        PROVE  /\ Leaf(v, x) = Leaf(w, x)
               /\ x # a /\ x # p => Kids(v, x) = Kids(w, x) /\ Keys(v, x) = Keys(w, x) /\ Top(v, x) = Top(w, x)
    <3>1. x \in Nodes(t) /\ x # b
      BY <1>2
    <3>. QED
      BY <1>2, <1>3, <1>4, <3>1
  <2>. QED
    BY <1>2, <1>3, <1>4, <2>1 DEF Apart
<1>6. KidsApart(w, v, p, i, a, b, d)
  <2>1. /\ Kids(v, p) = Kids(t, p)
        /\ Len(Kids(v, a)) = d /\ (\A j \in 1 .. d : Kids(v, a)[j] = Kids(w, a)[j])
        /\ Len(Kids(v, b)) = Len(Kids(w, a)) - d
        /\ \A j \in 1 .. (Len(Kids(w, a)) - d) : Kids(v, b)[j] = Kids(w, a)[d + j]
    BY Zenon DEF Reparted
  <2>2. /\ Len(Kids(t, p)) = Len(Kids(w, p)) + 1
        /\ \A j \in 1 .. (Len(Kids(w, p)) + 1) :
             Kids(t, p)[j] = IF j <= i THEN Kids(w, p)[j] ELSE IF j = i + 1 THEN b ELSE Kids(w, p)[j - 1]
    BY <1>1 DEF KidsApart
  <2>. QED
    BY <2>1, <2>2 DEF KidsApart
<1>7. KeysApart(w, v, p, i, a, b, d, s2)
  <2>1. /\ Top(v, p) = Top(t, p) /\ Top(v, b) = Top(t, b)
        /\ Len(Keys(v, p)) = Len(Keys(t, p))
        /\ \A j \in 1 .. Len(Keys(t, p)) : Keys(v, p)[j] = IF j = i THEN s2 ELSE Keys(t, p)[j]
    BY Zenon DEF Reparted
  <2>2. /\ Len(Keys(v, a)) = (IF Leaf(w, a) THEN d ELSE d - 1)
        /\ (\A j \in 1 .. Len(Keys(v, a)) : Keys(v, a)[j] = Keys(w, a)[j])
        /\ Len(Keys(v, b)) = Len(Keys(w, a)) - d
        /\ (\A j \in 1 .. (Len(Keys(w, a)) - d) : Keys(v, b)[j] = Keys(w, a)[d + j])
        /\ (~Leaf(w, a) => Keys(w, a)[d] = s2)
    BY Zenon DEF Reparted
  <2>3. /\ Len(Keys(t, p)) = Len(Keys(w, p)) + 1
        /\ \A j \in 1 .. (Len(Keys(w, p)) + 1) :
             Keys(t, p)[j] = IF j < i THEN Keys(w, p)[j] ELSE IF j = i THEN s ELSE Keys(w, p)[j - 1]
        /\ Top(t, p) = Top(w, p) /\ Top(t, b) = Top(w, a)
    BY <1>1 DEF KeysApart
  <2>4. \A j \in 1 .. (Len(Keys(w, p)) + 1) :
             Keys(v, p)[j] = IF j < i THEN Keys(w, p)[j] ELSE IF j = i THEN s2 ELSE Keys(w, p)[j - 1]
    BY <1>2, <2>1, <2>3
  <2>. QED
    BY <2>1, <2>2, <2>3, <2>4 DEF KeysApart
<1>8. UpsApart(w, v, p, a, b, d)
  <2>1. /\ ~Leaf(w, a) => \A j \in 1 .. Len(Kids(w, a)) : Up(v, Kids(w, a)[j]) = IF j <= d THEN a ELSE b
        /\ \A x \in Nodes(t) : Leaf(w, a) \/ (\A j \in 1 .. Len(Kids(w, a)) : Kids(w, a)[j] # x) => Up(v, x) = Up(t, x)
    BY Zenon DEF Reparted
  <2>2. /\ Up(t, b) = p
        /\ \A x \in Nodes(w) :
             Leaf(w, a) \/ (\A j \in (c + 1) .. Len(Kids(w, a)) : Kids(w, a)[j] # x) => Up(t, x) = Up(w, x)
    BY <1>1 DEF UpsApart
  <2>3. ~Leaf(w, a) => \A j \in 1 .. Len(Kids(w, a)) : Kids(w, a)[j] \in Nodes(w) /\ Up(w, Kids(w, a)[j]) = a
    BY <1>2 DEF Good, Children
  <2>4. Up(v, b) = p
    <3>1. Leaf(w, a) \/ (\A j \in 1 .. Len(Kids(w, a)) : Kids(w, a)[j] # b)
      BY <1>2, <2>3
    <3>2. b \in Nodes(t)
      BY <1>2
    <3>. QED
      BY <2>1, <2>2, <3>1, <3>2
  <2>5. ~Leaf(w, a) => \A j \in (d + 1) .. Len(Kids(w, a)) : Up(v, Kids(w, a)[j]) = b
    <3>1. d \in Nat /\ d >= 1 /\ \A j \in (d + 1) .. Len(Kids(w, a)) : j \in 1 .. Len(Kids(w, a)) /\ ~(j <= d)
      BY <1>2, <1>4
    <3>. QED
      BY <2>1, <3>1
  <2>6. ASSUME NEW x \in Nodes(w), Leaf(w, a) \/ (\A j \in (d + 1) .. Len(Kids(w, a)) : Kids(w, a)[j] # x)
        PROVE  Up(v, x) = Up(w, x)
    <3>1. x \in Nodes(t)
      BY <1>2
    <3>2. CASE Leaf(w, a)
      BY <2>1, <2>2, <3>1, <3>2
    <3>3. CASE ~Leaf(w, a) /\ \E j \in 1 .. Len(Kids(w, a)) : Kids(w, a)[j] = x
      <4>1. PICK j \in 1 .. Len(Kids(w, a)) : Kids(w, a)[j] = x
        BY <3>3
      <4>2. j <= d
        <5>1. j \notin (d + 1) .. Len(Kids(w, a))
          BY <2>6, <3>3, <4>1
        <5>. QED
          BY <1>2, <1>4, <5>1
      <4>. QED
        BY <2>1, <2>3, <3>3, <4>1, <4>2
    <3>4. CASE ~Leaf(w, a) /\ \A j \in 1 .. Len(Kids(w, a)) : Kids(w, a)[j] # x
      <4>1. \A j \in (c + 1) .. Len(Kids(w, a)) : Kids(w, a)[j] # x
        <5>1. \A j \in (c + 1) .. Len(Kids(w, a)) : j \in 1 .. Len(Kids(w, a))
          BY <1>2
        <5>. QED
          BY <3>4, <5>1
      <4>. QED
        BY <2>1, <2>2, <3>1, <3>4, <4>1
    <3>. QED
      BY <3>2, <3>3, <3>4
  <2>. QED
    BY <2>4, <2>5, <2>6 DEF UpsApart
<1>9. LinksApart(w, v, a, b)
  <2>1. \A x \in Nodes(t) : v.node[x].prev = t.node[x].prev /\ v.node[x].next = t.node[x].next
    BY <1>4
  <2>2. a \in Nodes(t) /\ b \in Nodes(t) /\ Nodes(w) \subseteq Nodes(t)
    BY <1>2
  <2>3. LinksApart(w, t, a, b)
    BY <1>1
  <2>4. CASE Leaf(w, a)
    BY <2>1, <2>2, <2>3, <2>4 DEF LinksApart
  <2>5. CASE ~Leaf(w, a)
    BY <2>1, <2>2, <2>3, <2>5 DEF LinksApart
  <2>. QED
    BY <2>4, <2>5
<1>. QED
  BY <1>5, <1>6, <1>7, <1>8, <1>9 DEF Divided

\* The siblings the code finds for the node at a, with its copy n in hand.
SiblingsAre(z, t, a, n, p, i) ==
  /\ p \in Nodes(t) /\ ~Leaf(t, p) /\ i \in 1 .. Len(Kids(t, p)) /\ Kids(t, p)[i] = a /\ Len(Kids(t, p)) \in Nat
  /\ n.parent = p /\ n.leaf = Leaf(t, a) /\ z.node[p] = t.node[p] /\ ~IsRoot(n)
  /\ NextSibling(z, n, a) = IF i < Len(Kids(t, p)) THEN Kids(t, p)[i + 1] ELSE 0
  /\ PrevSibling(z, n, a) = IF i > 1 THEN Kids(t, p)[i - 1] ELSE 0
  /\ i < Len(Kids(t, p)) => Beside(t, p, i, a, Kids(t, p)[i + 1])
  /\ i > 1 => Beside(t, p, i - 1, Kids(t, p)[i - 1], a)

LEMMA SiblingsFound ==
  ASSUME NEW z, NEW t, NEW a, NEW n, NEW lv, NEW lo, NEW nx, NEW loose,
         Good(t, lv, lo, nx, loose, 0), Pending(z, t, a, n), a # t.root
  PROVE  SiblingsAre(z, t, a, n, Up(t, a), Position(Kids(t, Up(t, a)), a))
<1> DEFINE p == Up(t, a)
           i == Position(Kids(t, p), a)
<1>1. a \in Nodes(t) /\ t.node[a] = n /\ \A x \in Nodes(t) : x # a => z.node[x] = t.node[x]
  BY DEF Pending
<1>2. /\ p \in Nodes(t) /\ ~Leaf(t, p) /\ i \in 1 .. Len(Kids(t, p)) /\ Kids(t, p)[i] = a /\ p # 0 /\ p # a
  BY <1>1, GoodParent
<1>3. n.parent = p /\ n.leaf = Leaf(t, a)
  BY <1>1 DEF Up, Leaf
<1>. HIDE DEF p
<1>4. z.node[p] = t.node[p]
  BY <1>1, <1>2
<1>5. z.node[n.parent].kids = Kids(t, p) /\ n.parent # 0
  BY <1>2, <1>3, <1>4 DEF Kids
<1>6. Position(z.node[n.parent].kids, a) = i
  BY <1>5
<1>. HIDE DEF i
<1>7. Typed(t) /\ Children(t, lv) /\ Len(Kids(t, p)) \in Nat
  <2>1. Typed(t) /\ Children(t, lv)
    BY DEF Good
  <2>. QED
    BY <1>2, <2>1, NodeFields
<1>8. NextSibling(z, n, a) = IF i < Len(Kids(t, p)) THEN Kids(t, p)[i + 1] ELSE 0
  <2>1. i \in 1 .. (Len(Kids(t, p)) - 1) <=> i < Len(Kids(t, p))
    BY <1>2, <1>7
  <2>. QED
    BY <1>5, <1>6, <2>1, Zenon DEF NextSibling, IsRoot
<1>9. PrevSibling(z, n, a) = IF i > 1 THEN Kids(t, p)[i - 1] ELSE 0
  BY <1>5, <1>6, Zenon DEF PrevSibling, IsRoot
<1>10. ASSUME i < Len(Kids(t, p)) PROVE Beside(t, p, i, a, Kids(t, p)[i + 1])
  <2>1. i + 1 \in 1 .. Len(Kids(t, p)) /\ i \in Nat \ {0}
    BY <1>2, <1>7, <1>10
  <2>2. Kids(t, p)[i + 1] \in Nodes(t)
    BY <1>2, <1>7, <2>1 DEF Children
  <2>. QED
    BY <1>1, <1>2, <1>10, <2>1, <2>2 DEF Beside
<1>11. ASSUME i > 1 PROVE Beside(t, p, i - 1, Kids(t, p)[i - 1], a)
  <2>1. i - 1 \in 1 .. Len(Kids(t, p)) /\ i - 1 \in Nat \ {0} /\ (i - 1) + 1 = i /\ i - 1 < Len(Kids(t, p))
    BY <1>2, <1>7, <1>11
  <2>2. Kids(t, p)[i - 1] \in Nodes(t)
    BY <1>2, <1>7, <2>1 DEF Children
  <2>. QED
    BY <1>1, <1>2, <2>1, <2>2 DEF Beside
<1>12. ~IsRoot(n)
  BY <1>2, <1>3 DEF IsRoot
<1>13. SiblingsAre(z, t, a, n, p, i)
  BY <1>2, <1>3, <1>4, <1>7, <1>8, <1>9, <1>10, <1>11, <1>12 DEF SiblingsAre
<1>. QED
  BY <1>13 DEF p, i

\* mergeNode joins the node at at with the one before it, or else the one after.
LEMMA MergingPair ==
  ASSUME NEW z, NEW t, NEW at, NEW n, NEW lv, NEW lo, NEW nx, NEW loose, NEW p, NEW j,
         Good(t, lv, lo, nx, loose, 0), Pending(z, t, at, n), SiblingsAre(z, t, at, n, p, j), Len(Kids(t, p)) >= 2
  PROVE  \E i, a, b, s, m : /\ Beside(t, p, i, a, b) /\ at \in {a, b} /\ Merging(z, t, at, n, p, i, a, b, s, m)
                            /\ (IF j > 1 THEN b = at ELSE a = at)
<1>1. /\ p \in Nodes(t) /\ ~Leaf(t, p) /\ j \in 1 .. Len(Kids(t, p)) /\ Kids(t, p)[j] = at /\ Len(Kids(t, p)) \in Nat
      /\ n.parent = p /\ n.leaf = Leaf(t, at) /\ z.node[p] = t.node[p]
      /\ NextSibling(z, n, at) = IF j < Len(Kids(t, p)) THEN Kids(t, p)[j + 1] ELSE 0
      /\ PrevSibling(z, n, at) = IF j > 1 THEN Kids(t, p)[j - 1] ELSE 0
      /\ j < Len(Kids(t, p)) => Beside(t, p, j, at, Kids(t, p)[j + 1])
      /\ j > 1 => Beside(t, p, j - 1, Kids(t, p)[j - 1], at)
  BY Zenon DEF SiblingsAre
<1>2. at \in Nodes(t) /\ t.node[at] = n /\ \A x \in Nodes(t) : x # at => z.node[x] = t.node[x]
  BY DEF Pending
<1>3. Typed(t) /\ Arrays(t) /\ 0 \notin Nodes(t)
  <2>1. Typed(t) /\ Arrays(t)
    BY DEF Good
  <2>. QED
    BY <2>1, TypedParts
<1>4. Kids(t, p) \in Seq(Nat \ {0}) /\ \A x, y \in 1 .. Len(Kids(t, p)) : Kids(t, p)[x] = Kids(t, p)[y] => x = y
  BY <1>1, <1>3, NodeFields DEF Arrays
<1>5. ASSUME NEW i, NEW a, NEW b, Beside(t, p, i, a, b), at \in {a, b},
             MergePair(z, n, at) = [to |-> a, into |-> t.node[a], from |-> b, source |-> t.node[b]]
      PROVE  \E s, m : Merging(z, t, at, n, p, i, a, b, s, m)
  <2> DEFINE s == Keys(t, p)[i]
             m == Absorb(t.node[a], t.node[b], Bound(t, a, s))
  <2>1. BesideIs(t, lv, nx, p, i, a, b)
    BY <1>5, BesideFacts
  <2>2. Leaf(t, a) = Leaf(t, b) /\ i \in 1 .. Len(Kids(t, p)) /\ s \in Key
    BY <2>1 DEF BesideIs
  <2>3. a \in Nodes(t) /\ b \in Nodes(t) /\ Kids(t, p)[i] = a
    BY <1>5 DEF Beside
  <2>4. n.leaf = Leaf(t, a)
    BY <1>1, <1>5, <2>2
  <2>5. i = Position(Kids(t, p), a)
    BY <1>4, <2>2, <2>3, PositionIs
  <2>6. m.next = t.node[b].next
    <3>1. Absorbed(t, a, b, s, m)
      BY <2>2, <2>3, AbsorbedIs
    <3>. QED
      BY <3>1 DEF Absorbed
  <2>7. Merging(z, t, at, n, p, i, a, b, s, m)
    <3>1. s = Keys(t, p)[i] /\ m = Absorb(t.node[a], t.node[b], Bound(t, a, s))
      OBVIOUS
    <3>. HIDE DEF m, s
    <3>. QED
      BY <1>1, <1>5, <2>4, <2>5, <2>6, <3>1 DEF Merging
  <2>. QED
    BY <2>7
<1>6. CASE j > 1
  <2> DEFINE b == Kids(t, p)[j - 1]
  <2>1. Beside(t, p, j - 1, b, at)
    BY <1>1, <1>6
  <2>2. BesideIs(t, lv, nx, p, j - 1, b, at)
    BY <2>1, BesideFacts
  <2>3. b \in Nodes(t) /\ b # 0 /\ b # at /\ Up(t, b) = p
    BY <1>3, <2>1, <2>2 DEF Beside, BesideIs
  <2>4. z.node[b] = t.node[b] /\ t.node[b].parent = n.parent
    BY <1>1, <1>2, <2>3 DEF Up
  <2>5. PrevSibling(z, n, at) = b
    BY <1>1, <1>6
  <2>. HIDE DEF b
  <2>6. MergePair(z, n, at) = [to |-> b, into |-> t.node[b], from |-> at, source |-> t.node[at]]
    BY <1>2, <2>3, <2>4, <2>5, Zenon DEF MergePair
  <2>7. \E s, m : Merging(z, t, at, n, p, j - 1, b, at, s, m)
    BY <1>5, <2>1, <2>6
  <2>8. at \in {b, at}
    OBVIOUS
  <2>. QED
    BY <1>6, <2>1, <2>7, <2>8, Zenon
<1>7. CASE ~(j > 1)
  <2> DEFINE c == Kids(t, p)[j + 1]
  <2>0. j < Len(Kids(t, p))
    BY <1>1, <1>7
  <2>1. Beside(t, p, j, at, c)
    BY <1>1, <2>0
  <2>2. BesideIs(t, lv, nx, p, j, at, c)
    BY <2>1, BesideFacts
  <2>3. c \in Nodes(t) /\ c # at
    BY <2>1, <2>2 DEF Beside, BesideIs
  <2>4. z.node[c] = t.node[c]
    BY <1>2, <2>3
  <2>5. NextSibling(z, n, at) = c /\ PrevSibling(z, n, at) = 0
    BY <1>1, <1>7, <2>0
  <2>. HIDE DEF c
  <2>6. MergePair(z, n, at) = [to |-> at, into |-> t.node[at], from |-> c, source |-> t.node[c]]
    BY <1>2, <2>4, <2>5, Zenon DEF MergePair
  <2>7. \E s, m : Merging(z, t, at, n, p, j, at, c, s, m)
    BY <1>5, <2>1, <2>6
  <2>8. at \in {at, c}
    OBVIOUS
  <2>. QED
    BY <1>7, <2>1, <2>7, <2>8, Zenon
<1>. QED
  BY <1>6, <1>7

\* Two neighbours can be joined.
LEMMA JoinExists ==
  ASSUME NEW t, NEW lv, NEW lo, NEW nx, NEW loose, NEW p, NEW i, NEW a, NEW b,
         Good(t, lv, lo, nx, loose, 0), Beside(t, p, i, a, b)
  PROVE  \E w : Divided(w, t, p, i, a, b, Len(Kids(t, a)), Keys(t, p)[i]) /\ Rejoined(w, a, Len(Kids(t, a)))
<1> DEFINE n == t.node[b]
           j == i + 1
<1>1. BesideIs(t, lv, nx, p, i, a, b)
  BY BesideFacts
<1>2. /\ b # t.root /\ Up(t, b) = p /\ i + 1 \in 1 .. Len(Kids(t, p)) /\ Len(Kids(t, p)) \in Nat /\ a # b
  BY <1>1 DEF BesideIs
<1>3. b \in Nodes(t) /\ i \in Nat \ {0} /\ Kids(t, p)[i + 1] = b /\ Kids(t, p)[i] = a /\ p \in Nodes(t) /\ i < Len(Kids(t, p))
  BY DEF Beside
<1>4. Typed(t) /\ Arrays(t)
  BY DEF Good
<1>5. Pending(t, t, b, n)
  BY <1>3, <1>4, TypedParts DEF Pending
<1>6. Position(Kids(t, p), b) = j
  <2>1. Kids(t, p) \in Seq(Nat \ {0}) /\ \A x, y \in 1 .. Len(Kids(t, p)) : Kids(t, p)[x] = Kids(t, p)[y] => x = y
    BY <1>3, <1>4, NodeFields DEF Arrays
  <2>. QED
    BY <1>2, <1>3, <2>1, PositionIs
<1>. HIDE DEF n
<1>7. SiblingsAre(t, t, b, n, p, j)
  <2>1. SiblingsAre(t, t, b, n, Up(t, b), Position(Kids(t, Up(t, b)), b))
    BY <1>2, <1>5, SiblingsFound
  <2>. QED
    BY <1>2, <1>6, <2>1
<1>8. j > 1 /\ Len(Kids(t, p)) >= 2
  BY <1>2, <1>3
<1>9. PICK i2, a2, b2, s, m : /\ Beside(t, p, i2, a2, b2) /\ b \in {a2, b2} /\ Merging(t, t, b, n, p, i2, a2, b2, s, m)
                              /\ (IF j > 1 THEN b2 = b ELSE a2 = b)
  BY <1>5, <1>7, <1>8, MergingPair
<1>10. i2 = i /\ a2 = a /\ b2 = b
  <2>1. b2 = b
    BY <1>8, <1>9
  <2>2. i2 + 1 \in 1 .. Len(Kids(t, p)) /\ Kids(t, p)[i2 + 1] = b /\ Kids(t, p)[i2] = a2 /\ i2 \in Nat
    <3>1. BesideIs(t, lv, nx, p, i2, a2, b2)
      BY <1>9, BesideFacts
    <3>. QED
      BY <1>9, <2>1, <3>1 DEF BesideIs, Beside
  <2>3. i2 + 1 = i + 1
    BY <1>2, <1>3, <1>4, <2>2 DEF Arrays
  <2>. QED
    BY <1>3, <2>1, <2>2, <2>3
<1>11. Merging(t, t, b, n, p, i, a, b, s, m) /\ b \in {a, b}
  BY <1>9, <1>10
<1>12. \E w : UnlinkedTo(Unlink(MergeInto(t, n, b), p), w, t, p, i, a, b)
  BY <1>5, <1>11, Unlinks
<1>. QED
  BY <1>12 DEF UnlinkedTo

LEMMA RepartedKeeps ==
  ASSUME NEW t, NEW v, NEW w, NEW lv, NEW lo, NEW nx, NEW loose, NEW p, NEW i, NEW a, NEW b, NEW c, NEW s, NEW d,
         NEW s2 \in Nat, Good(t, lv, lo, nx, loose, 0), Beside(t, p, i, a, b),
         Divided(w, t, p, i, a, b, c, s), Rejoined(w, a, c), Reparted(w, t, v, p, i, a, b, d, s2),
         Top(v, a) <= s2,
         IF Leaf(w, a) THEN Keys(w, a)[d] = s2 /\ Top(v, a) = s2 ELSE Top(t, Kids(w, a)[d]) <= Top(v, a)
  PROVE  \E lo2 : Good(v, lv, lo2, nx, loose, 0)
<1> DEFINE nx1 == [x \in Nodes(w) |-> IF x = a THEN nx[b] ELSE nx[x]]
           e == IF Leaf(w, a) THEN s2 ELSE lo[Kids(w, a)[d + 1]]
           lo2 == [x \in Nodes(t) |-> IF x = b THEN e ELSE lo[x]]
<1>1. BesideIs(t, lv, nx, p, i, a, b)
  BY BesideFacts
<1>2. lv[b] = lv[a] /\ nx[a] = b /\ a # b
  BY <1>1 DEF BesideIs
<1>3. Apart(w, t, p, i, a, b, c)
  BY DEF Divided
<1>4. /\ a \in Nodes(w) /\ Nodes(t) = Nodes(w) \union {b} /\ b \notin Nodes(w) /\ Typed(w)
      /\ p \in Nodes(w) /\ a # p /\ p # b /\ Leaf(t, b) = Leaf(w, a) /\ Len(Kids(w, a)) \in Nat
      /\ \A x \in Nodes(w) : x # a /\ x # p => Top(t, x) = Top(w, x)
  BY <1>3, ApartFacts DEF Apart
<1>5. Good(w, lv, lo, nx1, loose, 0)
  <2>1. FollowingJoin(w, nx, nx1, a, b)
    BY <1>4 DEF FollowingJoin
  <2>2. \A x \in Nodes(w) : lv[x] = lv[x] /\ lo[x] = lo[x]
    OBVIOUS
  <2>. HIDE DEF nx1
  <2>. QED
    BY <2>1, <2>2, JoinKeeps
<1>6. Divided(w, v, p, i, a, b, d, s2)
  <2>. HIDE DEF nx1
  <2>. QED
    BY <1>5, RepartedDivides
<1>7. FollowingCut(w, nx1, nx, a, b)
  BY <1>2, <1>4 DEF FollowingCut
<1>. HIDE DEF nx1
<1>8. d \in 1 .. (Len(Kids(w, a)) - 1)
  BY DEF Reparted
<1>9. ~Leaf(w, a) => \A j \in 1 .. Len(Kids(w, a)) : Top(w, Kids(w, a)[j]) = Top(t, Kids(w, a)[j])
  <2>1. ASSUME ~Leaf(w, a), NEW j \in 1 .. Len(Kids(w, a)) PROVE Top(w, Kids(w, a)[j]) = Top(t, Kids(w, a)[j])
    <3> DEFINE x == Kids(w, a)[j]
    <3>1. x \in Nodes(w) /\ lv[a] = lv[x] + 1
      BY <1>4, <1>5, <2>1 DEF Good, Children
    <3>2. lv[x] \in Nat /\ lv[p] = lv[a] + 1
      BY <1>1, <1>5, <3>1 DEF Good, Levels, BesideIs
    <3>3. x # a /\ x # p
      BY <3>1, <3>2
    <3>. HIDE DEF x
    <3>4. Top(t, x) = Top(w, x)
      BY <1>4, <3>1, <3>3
    <3>. QED
      BY <3>4 DEF x
  <2>. QED
    BY <2>1
<1>10. CutAt(w, v, lo, lo2, a, b, d, s2)
  <2>1. \A x \in Nodes(w) : lo2[x] = lo[x]
    BY <1>4
  <2>2. lo2[b] = e
    BY <1>4
  <2>. HIDE DEF lo2
  <2>3. CASE Leaf(w, a)
    BY <2>1, <2>2, <2>3 DEF CutAt
  <2>4. CASE ~Leaf(w, a)
    <3>1. d \in 1 .. Len(Kids(w, a))
      BY <1>4, <1>8
    <3>2. Top(w, Kids(w, a)[d]) <= Top(v, a)
      BY <1>9, <2>4, <3>1
    <3>. QED
      BY <2>1, <2>2, <2>4, <3>2 DEF CutAt
  <2>. QED
    BY <2>3, <2>4
<1>. HIDE DEF lo2
<1>11. Good(v, lv, lo2, nx, loose, 0)
  <2>1. \A x \in Nodes(w) : lv[x] = lv[x]
    OBVIOUS
  <2>. QED
    BY <1>2, <1>5, <1>6, <1>7, <1>10, <2>1, DivideKeeps
<1>. QED
  BY <1>11

\* The tree v is t but for the nodes at a, b and p, the separator of a and b,
\* and the parent of the child e that moved to the node at "at".
ChildMoved(t, v, p, i, a, b, s, e, at) ==
  /\ Typed(v) /\ v.root = t.root /\ v.page = t.page /\ Nodes(v) = Nodes(t)
  /\ \A x \in Nodes(t) :
       /\ Leaf(v, x) = Leaf(t, x) /\ v.node[x].prev = t.node[x].prev /\ v.node[x].next = t.node[x].next
       /\ x # a /\ x # b /\ x # p => Kids(v, x) = Kids(t, x) /\ Keys(v, x) = Keys(t, x) /\ Top(v, x) = Top(t, x)
       /\ Up(v, x) = IF ~Leaf(t, a) /\ x = e THEN at ELSE Up(t, x)
  /\ Kids(v, p) = Kids(t, p) /\ Top(v, p) = Top(t, p) /\ Top(v, b) = Top(t, b)
  /\ Len(Keys(v, p)) = Len(Keys(t, p))
  /\ \A j \in 1 .. Len(Keys(t, p)) : Keys(v, p)[j] = IF j = i THEN s ELSE Keys(t, p)[j]

\* The first child of the upper node is the lower's last, or the other way.
MovedNext(t, v, p, i, a, b) ==
  /\ ChildMoved(t, v, p, i, a, b, Keys(t, b)[1], Kids(t, b)[1], a)
  /\ Len(Kids(v, a)) = Len(Kids(t, a)) + 1 /\ Kids(v, a)[Len(Kids(t, a)) + 1] = Kids(t, b)[1]
  /\ \A j \in 1 .. Len(Kids(t, a)) : Kids(v, a)[j] = Kids(t, a)[j]
  /\ Len(Kids(v, b)) = Len(Kids(t, b)) - 1
  /\ \A j \in 1 .. (Len(Kids(t, b)) - 1) : Kids(v, b)[j] = Kids(t, b)[j + 1]
  /\ Len(Keys(v, a)) = Len(Keys(t, a)) + 1
  /\ Keys(v, a)[Len(Keys(t, a)) + 1] = IF Leaf(t, a) THEN Keys(t, b)[1] ELSE Keys(t, p)[i]
  /\ \A j \in 1 .. Len(Keys(t, a)) : Keys(v, a)[j] = Keys(t, a)[j]
  /\ Len(Keys(v, b)) = Len(Keys(t, b)) - 1
  /\ \A j \in 1 .. (Len(Keys(t, b)) - 1) : Keys(v, b)[j] = Keys(t, b)[j + 1]
  /\ Top(v, a) = IF Leaf(t, a) THEN Keys(t, b)[1] ELSE Top(t, Kids(t, b)[1])

MovedPrev(t, v, p, i, a, b) ==
  /\ ChildMoved(t, v, p, i, a, b, Keys(t, a)[Len(Kids(t, a)) - 1], Kids(t, a)[Len(Kids(t, a))], b)
  /\ Len(Kids(v, a)) = Len(Kids(t, a)) - 1
  /\ \A j \in 1 .. (Len(Kids(t, a)) - 1) : Kids(v, a)[j] = Kids(t, a)[j]
  /\ Len(Kids(v, b)) = Len(Kids(t, b)) + 1 /\ Kids(v, b)[1] = Kids(t, a)[Len(Kids(t, a))]
  /\ \A j \in 1 .. Len(Kids(t, b)) : Kids(v, b)[j + 1] = Kids(t, b)[j]
  /\ Len(Keys(v, a)) = Len(Keys(t, a)) - 1
  /\ \A j \in 1 .. (Len(Keys(t, a)) - 1) : Keys(v, a)[j] = Keys(t, a)[j]
  /\ Len(Keys(v, b)) = Len(Keys(t, b)) + 1
  /\ Keys(v, b)[1] = IF Leaf(t, a) THEN Keys(t, a)[Len(Kids(t, a))] ELSE Keys(t, p)[i]
  /\ \A j \in 1 .. Len(Keys(t, b)) : Keys(v, b)[j + 1] = Keys(t, b)[j]
  /\ Top(v, a) = Keys(t, a)[Len(Kids(t, a)) - 1]

LEMMA MovedNextKeeps ==
  ASSUME NEW t, NEW v, NEW lv, NEW lo, NEW nx, NEW loose, NEW p, NEW i, NEW a, NEW b,
         Good(t, lv, lo, nx, loose, 0), Beside(t, p, i, a, b), Len(Kids(t, b)) >= 2, MovedNext(t, v, p, i, a, b)
  PROVE  \E lo2 : Good(v, lv, lo2, nx, loose, 0)
<1> DEFINE c == Len(Kids(t, a))
           s == Keys(t, p)[i]
           d == c + 1
           s2 == Keys(t, b)[1]
           e == Kids(t, b)[1]
<1>1. BesideIs(t, lv, nx, p, i, a, b)
  BY BesideFacts
<1>2. PICK w : Divided(w, t, p, i, a, b, c, s) /\ Rejoined(w, a, c)
  BY JoinExists
<1>3. /\ Apart(w, t, p, i, a, b, c) /\ KidsApart(w, t, p, i, a, b, c) /\ KeysApart(w, t, p, i, a, b, c, s)
  BY <1>2 DEF Divided
<1>4. /\ a \in Nodes(w) /\ Nodes(t) = Nodes(w) \union {b} /\ Typed(w) /\ Leaf(t, b) = Leaf(w, a) /\ Leaf(t, a) = Leaf(w, a)
      /\ Len(Kids(w, a)) \in Nat /\ Len(Keys(w, a)) \in Nat /\ c \in Nat /\ c >= 1 /\ Len(Kids(t, b)) \in Nat
      /\ Len(Keys(t, b)) \in Nat /\ Len(Keys(t, a)) \in Nat
  BY <1>3, ApartFacts
<1>5. Typed(t) /\ Arrays(t) /\ Children(t, lv) /\ a \in Nodes(t) /\ b \in Nodes(t)
  BY DEF Good, Beside
<1>6. Len(Keys(t, b)) = (IF Leaf(w, a) THEN Len(Kids(t, b)) ELSE Len(Kids(t, b)) - 1)
      /\ Len(Keys(t, a)) = (IF Leaf(w, a) THEN c ELSE c - 1)
  BY <1>4, <1>5 DEF Arrays
<1>7. /\ Len(Kids(t, b)) = Len(Kids(w, a)) - c
      /\ \A j \in 1 .. c : Kids(t, a)[j] = Kids(w, a)[j]
      /\ \A j \in 1 .. (Len(Kids(w, a)) - c) : Kids(t, b)[j] = Kids(w, a)[c + j]
  BY <1>3 DEF KidsApart
<1>8. /\ Len(Keys(t, b)) = Len(Keys(w, a)) - c
      /\ (\A j \in 1 .. Len(Keys(t, a)) : Keys(t, a)[j] = Keys(w, a)[j])
      /\ (\A j \in 1 .. (Len(Keys(w, a)) - c) : Keys(t, b)[j] = Keys(w, a)[c + j])
      /\ (~Leaf(w, a) => Keys(w, a)[c] = s)
  BY <1>3 DEF KeysApart
<1>9. ChildMoved(t, v, p, i, a, b, s2, e, a)
  BY DEF MovedNext
<1>10. /\ Len(Kids(v, a)) = c + 1 /\ Kids(v, a)[c + 1] = e
       /\ (\A j \in 1 .. c : Kids(v, a)[j] = Kids(t, a)[j])
       /\ Len(Kids(v, b)) = Len(Kids(t, b)) - 1
       /\ (\A j \in 1 .. (Len(Kids(t, b)) - 1) : Kids(v, b)[j] = Kids(t, b)[j + 1])
       /\ Len(Keys(v, a)) = Len(Keys(t, a)) + 1
       /\ Keys(v, a)[Len(Keys(t, a)) + 1] = (IF Leaf(t, a) THEN s2 ELSE s)
       /\ (\A j \in 1 .. Len(Keys(t, a)) : Keys(v, a)[j] = Keys(t, a)[j])
       /\ Len(Keys(v, b)) = Len(Keys(t, b)) - 1
       /\ (\A j \in 1 .. (Len(Keys(t, b)) - 1) : Keys(v, b)[j] = Keys(t, b)[j + 1])
       /\ Top(v, a) = (IF Leaf(t, a) THEN s2 ELSE Top(t, e))
  BY DEF MovedNext
<1>. HIDE DEF c, s, s2, e
<1>11. s2 = Keys(w, a)[d] /\ e = Kids(w, a)[d] /\ d \in 1 .. (Len(Kids(w, a)) - 1)
  <2>1. 1 \in 1 .. (Len(Keys(w, a)) - c) /\ 1 \in 1 .. (Len(Kids(w, a)) - c)
    BY <1>4, <1>6, <1>7, <1>8
  <2>. QED
    BY <1>4, <1>7, <1>8, <2>1 DEF s2, e
<1>12. Arrays(w)
  BY <1>2, JoinedArrays
<1>13. /\ \A j \in 1 .. d : Kids(v, a)[j] = Kids(w, a)[j]
       /\ Len(Kids(v, b)) = Len(Kids(w, a)) - d
       /\ \A j \in 1 .. (Len(Kids(w, a)) - d) : Kids(v, b)[j] = Kids(w, a)[d + j]
  <2>1. ASSUME NEW j \in 1 .. d PROVE Kids(v, a)[j] = Kids(w, a)[j]
    <3>1. CASE j = d
      BY <1>10, <1>11, <3>1
    <3>2. CASE j # d
      <4>1. j \in 1 .. c
        BY <1>4, <3>2
      <4>. QED
        BY <1>7, <1>10, <4>1
    <3>. QED
      BY <3>1, <3>2
  <2>2. ASSUME NEW j \in 1 .. (Len(Kids(w, a)) - d) PROVE Kids(v, b)[j] = Kids(w, a)[d + j]
    <3>1. j \in 1 .. (Len(Kids(t, b)) - 1) /\ j + 1 \in 1 .. (Len(Kids(w, a)) - c) /\ c + (j + 1) = d + j
      BY <1>4, <1>7
    <3>2. Kids(v, b)[j] = Kids(t, b)[j + 1] /\ Kids(t, b)[j + 1] = Kids(w, a)[c + (j + 1)]
      BY <1>7, <1>10, <3>1
    <3>. QED
      BY <3>1, <3>2
  <2>3. Len(Kids(v, b)) = Len(Kids(w, a)) - d
    BY <1>4, <1>7, <1>10
  <2>. QED
    BY <2>1, <2>2, <2>3
<1>14. /\ Len(Keys(v, a)) = (IF Leaf(w, a) THEN d ELSE d - 1)
       /\ \A j \in 1 .. Len(Keys(v, a)) : Keys(v, a)[j] = Keys(w, a)[j]
       /\ Len(Keys(v, b)) = Len(Keys(w, a)) - d
       /\ \A j \in 1 .. (Len(Keys(w, a)) - d) : Keys(v, b)[j] = Keys(w, a)[d + j]
       /\ ~Leaf(w, a) => Keys(w, a)[d] = s2
  <2>1. ASSUME NEW j \in 1 .. Len(Keys(v, a)) PROVE Keys(v, a)[j] = Keys(w, a)[j]
    <3>1. CASE j \in 1 .. Len(Keys(t, a))
      BY <1>8, <1>10, <3>1
    <3>2. CASE j \notin 1 .. Len(Keys(t, a))
      <4>1. j = Len(Keys(t, a)) + 1
        BY <1>4, <1>10, <3>2, SMTT(30)
      <4>2. CASE Leaf(w, a)
        BY <1>4, <1>6, <1>10, <1>11, <4>1, <4>2
      <4>3. CASE ~Leaf(w, a)
        BY <1>4, <1>6, <1>8, <1>10, <4>1, <4>3
      <4>. QED
        BY <4>2, <4>3
    <3>. QED
      BY <3>1, <3>2
  <2>2. ASSUME NEW j \in 1 .. (Len(Keys(w, a)) - d) PROVE Keys(v, b)[j] = Keys(w, a)[d + j]
    <3>1. j \in 1 .. (Len(Keys(t, b)) - 1) /\ j + 1 \in 1 .. (Len(Keys(w, a)) - c) /\ c + (j + 1) = d + j
      BY <1>4, <1>8
    <3>2. Keys(v, b)[j] = Keys(t, b)[j + 1] /\ Keys(t, b)[j + 1] = Keys(w, a)[c + (j + 1)]
      BY <1>8, <1>10, <3>1
    <3>. QED
      BY <3>1, <3>2
  <2>3. Len(Keys(v, b)) = Len(Keys(w, a)) - d
    BY <1>4, <1>8, <1>10
  <2>4. Len(Keys(v, a)) = (IF Leaf(w, a) THEN d ELSE d - 1)
    BY <1>4, <1>6, <1>10
  <2>. QED
    BY <1>11, <2>1, <2>2, <2>3, <2>4
<1>15. ~Leaf(t, a) => /\ \A j \in 1 .. Len(Kids(t, a)) : Kids(t, a)[j] \in Nodes(t) /\ Up(t, Kids(t, a)[j]) = a
                      /\ \A j \in 1 .. Len(Kids(t, b)) : Kids(t, b)[j] \in Nodes(t) /\ Up(t, Kids(t, b)[j]) = b
  BY <1>4, <1>5 DEF Children
<1>16. /\ Typed(v) /\ v.root = t.root /\ v.page = t.page /\ Nodes(v) = Nodes(t)
       /\ \A x \in Nodes(t) :
            /\ Leaf(v, x) = Leaf(t, x) /\ v.node[x].prev = t.node[x].prev /\ v.node[x].next = t.node[x].next
            /\ x # a /\ x # b /\ x # p => Kids(v, x) = Kids(t, x) /\ Keys(v, x) = Keys(t, x) /\ Top(v, x) = Top(t, x)
       /\ Kids(v, p) = Kids(t, p) /\ Top(v, p) = Top(t, p) /\ Top(v, b) = Top(t, b)
       /\ Len(Keys(v, p)) = Len(Keys(t, p))
       /\ \A j \in 1 .. Len(Keys(t, p)) : Keys(v, p)[j] = IF j = i THEN s2 ELSE Keys(t, p)[j]
  BY <1>9, Zenon DEF ChildMoved
<1>17. \A x \in Nodes(t) : Up(v, x) = IF ~Leaf(t, a) /\ x = e THEN a ELSE Up(t, x)
  BY <1>9, Zenon DEF ChildMoved
<1>18. ASSUME ~Leaf(w, a), NEW j \in 1 .. Len(Kids(w, a)) PROVE Up(v, Kids(w, a)[j]) = IF j <= d THEN a ELSE b
  <2> DEFINE x == Kids(w, a)[j]
  <2>1. j = d <=> x = e
    <3>1. d \in 1 .. Len(Kids(w, a))
      BY <1>4, <1>11
    <3>. QED
      BY <1>4, <1>11, <1>12, <3>1 DEF Arrays
  <2>2. CASE j <= c
    <3>1. j \in 1 .. Len(Kids(t, a)) /\ x = Kids(t, a)[j] /\ j # d /\ j <= d
      BY <1>4, <1>7, <2>2 DEF c
    <3>2. x \in Nodes(t) /\ Up(t, x) = a
      BY <1>4, <1>15, <1>18, <3>1
    <3>. HIDE DEF x
    <3>3. Up(v, x) = a
      BY <1>17, <2>1, <3>1, <3>2
    <3>. QED
      BY <3>1, <3>3 DEF x
  <2>3. CASE j > c
    <3>1. j - c \in 1 .. Len(Kids(t, b)) /\ c + (j - c) = j
      BY <1>4, <1>7, <2>3
    <3>2. x = Kids(t, b)[j - c]
      BY <1>7, <3>1
    <3>3. x \in Nodes(t) /\ Up(t, x) = b
      BY <1>4, <1>15, <1>18, <3>1, <3>2
    <3>4. Up(v, x) = IF x = e THEN a ELSE b
      BY <1>4, <1>17, <1>18, <3>3
    <3>5. j <= d <=> j = d
      BY <1>4, <2>3
    <3>. QED
      BY <2>1, <3>4, <3>5
  <2>. QED
    BY <1>4, <2>2, <2>3
<1>19. ASSUME NEW x \in Nodes(t), Leaf(w, a) \/ (\A j \in 1 .. Len(Kids(w, a)) : Kids(w, a)[j] # x)
       PROVE  Up(v, x) = Up(t, x)
  <2>1. Leaf(t, a) \/ x # e
    <3>1. d \in 1 .. Len(Kids(w, a))
      BY <1>4, <1>11
    <3>. QED
      BY <1>4, <1>11, <1>19, <3>1
  <2>. QED
    BY <1>17, <2>1
<1>20. Reparted(w, t, v, p, i, a, b, d, s2)
  <2>. HIDE DEF d
  <2>1. Len(Kids(v, a)) = d
    BY <1>10 DEF d
  <2>. QED
    BY <1>11, <1>13, <1>14, <1>16, <1>18, <1>19, <2>1, Zenon DEF Reparted
<1>21. s2 \in Nat /\ Top(v, a) <= s2
       /\ IF Leaf(w, a) THEN Keys(w, a)[d] = s2 /\ Top(v, a) = s2 ELSE Top(t, Kids(w, a)[d]) <= Top(v, a)
  <2>1. 1 \in 1 .. Len(Keys(t, b)) /\ 1 \in 1 .. Len(Kids(t, b))
    BY <1>4, <1>6
  <2>2. s2 \in Nat
    BY <1>5, <2>1, NodeFields DEF s2
  <2>3. CASE Leaf(w, a)
    BY <1>4, <1>10, <1>11, <2>2, <2>3
  <2>4. CASE ~Leaf(w, a)
    <3>1. Top(v, a) = Top(t, e) /\ e \in Nodes(t)
      BY <1>4, <1>10, <1>15, <2>1, <2>4 DEF e
    <3>2. Top(t, e) \in Nat
      BY <1>5, <3>1, NodeFields
    <3>3. Top(t, e) <= HiAt(t, b, 1)
      <4>1. e # 0 /\ Bounds(t, lo, 0)
        BY <1>5, <3>1, TypedParts DEF Good
      <4>. QED
        BY <1>4, <1>5, <2>1, <2>4, <4>1 DEF Bounds, e
    <3>4. HiAt(t, b, 1) = s2
      BY <2>1 DEF HiAt, s2
    <3>. QED
      BY <1>11, <2>2, <2>4, <3>1, <3>2, <3>3, <3>4
  <2>. QED
    BY <2>3, <2>4
<1>. HIDE DEF d
<1>22. QED
  BY <1>2, <1>20, <1>21, RepartedKeeps

LEMMA MovedPrevKeeps ==
  ASSUME NEW t, NEW v, NEW lv, NEW lo, NEW nx, NEW loose, NEW p, NEW i, NEW a, NEW b,
         Good(t, lv, lo, nx, loose, 0), Beside(t, p, i, a, b), Len(Kids(t, a)) >= 2, MovedPrev(t, v, p, i, a, b)
  PROVE  \E lo2 : Good(v, lv, lo2, nx, loose, 0)
<1> DEFINE c == Len(Kids(t, a))
           s == Keys(t, p)[i]
           d == c - 1
           s2 == Keys(t, a)[c - 1]
           e == Kids(t, a)[c]
<1>1. BesideIs(t, lv, nx, p, i, a, b)
  BY BesideFacts
<1>2. PICK w : Divided(w, t, p, i, a, b, c, s) /\ Rejoined(w, a, c)
  BY JoinExists
<1>3. /\ Apart(w, t, p, i, a, b, c) /\ KidsApart(w, t, p, i, a, b, c) /\ KeysApart(w, t, p, i, a, b, c, s)
  BY <1>2 DEF Divided
<1>4. /\ a \in Nodes(w) /\ Nodes(t) = Nodes(w) \union {b} /\ Typed(w) /\ Leaf(t, b) = Leaf(w, a) /\ Leaf(t, a) = Leaf(w, a)
      /\ Len(Kids(w, a)) \in Nat /\ Len(Keys(w, a)) \in Nat /\ c \in Nat /\ c >= 2 /\ Len(Kids(t, b)) \in Nat
      /\ Len(Keys(t, b)) \in Nat /\ Len(Keys(t, a)) \in Nat /\ d \in Nat /\ d = c - 1
  <2>1. /\ a \in Nodes(w) /\ Nodes(t) = Nodes(w) \union {b} /\ Typed(w) /\ Leaf(t, b) = Leaf(w, a) /\ Leaf(t, a) = Leaf(w, a)
        /\ Len(Kids(w, a)) \in Nat /\ Len(Keys(w, a)) \in Nat /\ c \in Nat /\ c >= 1 /\ Len(Kids(t, b)) \in Nat
        /\ Len(Keys(t, b)) \in Nat /\ Len(Keys(t, a)) \in Nat
    BY <1>3, ApartFacts
  <2>. QED
    BY <2>1
<1>5. Typed(t) /\ Arrays(t) /\ Children(t, lv) /\ a \in Nodes(t) /\ b \in Nodes(t) /\ Filed(t, lo)
  BY DEF Good, Beside
<1>6. Len(Keys(t, b)) = (IF Leaf(w, a) THEN Len(Kids(t, b)) ELSE Len(Kids(t, b)) - 1)
      /\ Len(Keys(t, a)) = (IF Leaf(w, a) THEN c ELSE c - 1)
      /\ Len(Kids(t, b)) >= 1
  BY <1>4, <1>5 DEF Arrays
<1>7. /\ Len(Kids(t, b)) = Len(Kids(w, a)) - c
      /\ \A j \in 1 .. c : Kids(t, a)[j] = Kids(w, a)[j]
      /\ \A j \in 1 .. (Len(Kids(w, a)) - c) : Kids(t, b)[j] = Kids(w, a)[c + j]
  BY <1>3 DEF KidsApart
<1>8. /\ Len(Keys(t, b)) = Len(Keys(w, a)) - c
      /\ (\A j \in 1 .. Len(Keys(t, a)) : Keys(t, a)[j] = Keys(w, a)[j])
      /\ (\A j \in 1 .. (Len(Keys(w, a)) - c) : Keys(t, b)[j] = Keys(w, a)[c + j])
      /\ (~Leaf(w, a) => Keys(w, a)[c] = s)
  BY <1>3 DEF KeysApart
<1>9. ChildMoved(t, v, p, i, a, b, s2, e, b)
  BY DEF MovedPrev
<1>10. /\ Len(Kids(v, b)) = Len(Kids(t, b)) + 1 /\ Kids(v, b)[1] = e
       /\ (\A j \in 1 .. Len(Kids(t, b)) : Kids(v, b)[j + 1] = Kids(t, b)[j])
       /\ Len(Kids(v, a)) = c - 1
       /\ (\A j \in 1 .. (c - 1) : Kids(v, a)[j] = Kids(t, a)[j])
       /\ Len(Keys(v, b)) = Len(Keys(t, b)) + 1
       /\ Keys(v, b)[1] = (IF Leaf(t, a) THEN Keys(t, a)[c] ELSE s)
       /\ (\A j \in 1 .. Len(Keys(t, b)) : Keys(v, b)[j + 1] = Keys(t, b)[j])
       /\ Len(Keys(v, a)) = Len(Keys(t, a)) - 1
       /\ (\A j \in 1 .. (Len(Keys(t, a)) - 1) : Keys(v, a)[j] = Keys(t, a)[j])
       /\ Top(v, a) = s2
  BY DEF MovedPrev
<1>. HIDE DEF c, s, s2, e, d
<1>11. s2 = Keys(w, a)[d] /\ e = Kids(w, a)[c] /\ d \in 1 .. (Len(Kids(w, a)) - 1) /\ c = d + 1
  <2>1. d \in 1 .. Len(Keys(t, a)) /\ c \in 1 .. c
    BY <1>4, <1>6
  <2>2. s2 = Keys(t, a)[d]
    BY DEF s2, d
  <2>3. d \in 1 .. (Len(Kids(w, a)) - 1)
    BY <1>4, <1>6, <1>7
  <2>4. s2 = Keys(w, a)[d]
    BY <1>8, <2>1, <2>2
  <2>5. e = Kids(w, a)[c]
    BY <1>7, <2>1 DEF e
  <2>6. c = d + 1
    BY <1>4
  <2>. QED
    BY <2>3, <2>4, <2>5, <2>6
<1>12. Arrays(w)
  BY <1>2, JoinedArrays
<1>13. /\ \A j \in 1 .. d : Kids(v, a)[j] = Kids(w, a)[j]
       /\ Len(Kids(v, b)) = Len(Kids(w, a)) - d
       /\ \A j \in 1 .. (Len(Kids(w, a)) - d) : Kids(v, b)[j] = Kids(w, a)[d + j]
  <2>1. ASSUME NEW j \in 1 .. d PROVE Kids(v, a)[j] = Kids(w, a)[j]
    <3>1. j \in 1 .. c /\ j \in 1 .. (c - 1)
      BY <1>4
    <3>. QED
      BY <1>7, <1>10, <3>1
  <2>2. ASSUME NEW j \in 1 .. (Len(Kids(w, a)) - d) PROVE Kids(v, b)[j] = Kids(w, a)[d + j]
    <3>1. CASE j = 1
      BY <1>4, <1>10, <1>11, <3>1
    <3>2. CASE j # 1
      <4>1. j - 1 \in 1 .. (Len(Kids(w, a)) - c) /\ j - 1 \in 1 .. Len(Kids(t, b)) /\ c + (j - 1) = d + j /\ (j - 1) + 1 = j
        BY <1>4, <1>7, <3>2
      <4>2. Kids(v, b)[(j - 1) + 1] = Kids(t, b)[j - 1] /\ Kids(t, b)[j - 1] = Kids(w, a)[c + (j - 1)]
        BY <1>7, <1>10, <4>1
      <4>. QED
        BY <4>1, <4>2
    <3>. QED
      BY <3>1, <3>2
  <2>3. Len(Kids(v, b)) = Len(Kids(w, a)) - d
    BY <1>4, <1>7, <1>10
  <2>. QED
    BY <2>1, <2>2, <2>3
<1>14. /\ Len(Keys(v, a)) = (IF Leaf(w, a) THEN d ELSE d - 1)
       /\ \A j \in 1 .. Len(Keys(v, a)) : Keys(v, a)[j] = Keys(w, a)[j]
       /\ Len(Keys(v, b)) = Len(Keys(w, a)) - d
       /\ \A j \in 1 .. (Len(Keys(w, a)) - d) : Keys(v, b)[j] = Keys(w, a)[d + j]
       /\ ~Leaf(w, a) => Keys(w, a)[d] = s2
  <2>1. ASSUME NEW j \in 1 .. Len(Keys(v, a)) PROVE Keys(v, a)[j] = Keys(w, a)[j]
    <3>1. j \in 1 .. (Len(Keys(t, a)) - 1) /\ j \in 1 .. Len(Keys(t, a))
      BY <1>4, <1>10
    <3>. QED
      BY <1>8, <1>10, <3>1
  <2>2. ASSUME NEW j \in 1 .. (Len(Keys(w, a)) - d) PROVE Keys(v, b)[j] = Keys(w, a)[d + j]
    <3>1. CASE j = 1
      <4>1. CASE Leaf(w, a)
        <5>1. c \in 1 .. Len(Keys(t, a)) /\ d + 1 = c
          BY <1>4, <1>6, <4>1
        <5>. QED
          BY <1>4, <1>8, <1>10, <3>1, <4>1, <5>1
      <4>2. CASE ~Leaf(w, a)
        BY <1>4, <1>8, <1>10, <1>11, <3>1, <4>2
      <4>. QED
        BY <4>1, <4>2
    <3>2. CASE j # 1
      <4>1. j - 1 \in 1 .. (Len(Keys(w, a)) - c) /\ j - 1 \in 1 .. Len(Keys(t, b)) /\ c + (j - 1) = d + j /\ (j - 1) + 1 = j
        BY <1>4, <1>8, <3>2
      <4>2. Keys(v, b)[(j - 1) + 1] = Keys(t, b)[j - 1] /\ Keys(t, b)[j - 1] = Keys(w, a)[c + (j - 1)]
        BY <1>8, <1>10, <4>1
      <4>. QED
        BY <4>1, <4>2
    <3>. QED
      BY <3>1, <3>2
  <2>3. Len(Keys(v, b)) = Len(Keys(w, a)) - d
    BY <1>4, <1>8, <1>10
  <2>4. Len(Keys(v, a)) = (IF Leaf(w, a) THEN d ELSE d - 1)
    BY <1>4, <1>6, <1>10
  <2>. QED
    BY <1>11, <2>1, <2>2, <2>3, <2>4
<1>15. ~Leaf(t, a) => /\ \A j \in 1 .. Len(Kids(t, a)) : Kids(t, a)[j] \in Nodes(t) /\ Up(t, Kids(t, a)[j]) = a
                      /\ \A j \in 1 .. Len(Kids(t, b)) : Kids(t, b)[j] \in Nodes(t) /\ Up(t, Kids(t, b)[j]) = b
  BY <1>4, <1>5 DEF Children
<1>16. /\ Typed(v) /\ v.root = t.root /\ v.page = t.page /\ Nodes(v) = Nodes(t)
       /\ \A x \in Nodes(t) :
            /\ Leaf(v, x) = Leaf(t, x) /\ v.node[x].prev = t.node[x].prev /\ v.node[x].next = t.node[x].next
            /\ x # a /\ x # b /\ x # p => Kids(v, x) = Kids(t, x) /\ Keys(v, x) = Keys(t, x) /\ Top(v, x) = Top(t, x)
       /\ Kids(v, p) = Kids(t, p) /\ Top(v, p) = Top(t, p) /\ Top(v, b) = Top(t, b)
       /\ Len(Keys(v, p)) = Len(Keys(t, p))
       /\ \A j \in 1 .. Len(Keys(t, p)) : Keys(v, p)[j] = IF j = i THEN s2 ELSE Keys(t, p)[j]
  BY <1>9, Zenon DEF ChildMoved
<1>17. \A x \in Nodes(t) : Up(v, x) = IF ~Leaf(t, a) /\ x = e THEN b ELSE Up(t, x)
  BY <1>9, Zenon DEF ChildMoved
<1>18. ASSUME ~Leaf(w, a), NEW j \in 1 .. Len(Kids(w, a)) PROVE Up(v, Kids(w, a)[j]) = IF j <= d THEN a ELSE b
  <2> DEFINE x == Kids(w, a)[j]
  <2>1. j = c <=> x = e
    <3>1. c \in 1 .. Len(Kids(w, a))
      BY <1>4, <1>7, <1>6
    <3>. QED
      BY <1>4, <1>11, <1>12, <3>1 DEF Arrays
  <2>2. CASE j <= c
    <3>1. j \in 1 .. c /\ x = Kids(t, a)[j]
      BY <1>4, <1>7, <2>2
    <3>2. x \in Nodes(t) /\ Up(t, x) = a
      BY <1>4, <1>15, <1>18, <3>1 DEF c
    <3>. HIDE DEF x
    <3>3. Up(v, x) = IF x = e THEN b ELSE a
      BY <1>4, <1>17, <1>18, <3>2
    <3>4. j <= d <=> j # c
      BY <1>4, <2>2
    <3>5. Up(v, x) = IF j <= d THEN a ELSE b
      BY <2>1, <3>3, <3>4
    <3>. QED
      BY <3>5 DEF x
  <2>3. CASE j > c
    <3>1. j - c \in 1 .. Len(Kids(t, b)) /\ c + (j - c) = j
      BY <1>4, <1>7, <2>3
    <3>2. x = Kids(t, b)[j - c]
      BY <1>7, <3>1
    <3>3. x \in Nodes(t) /\ Up(t, x) = b
      BY <1>4, <1>15, <1>18, <3>1, <3>2
    <3>4. x # e /\ ~(j <= d)
      BY <1>4, <2>1, <2>3
    <3>5. Up(v, x) = b
      BY <1>17, <3>3, <3>4
    <3>. QED
      BY <3>4, <3>5
  <2>. QED
    BY <1>4, <2>2, <2>3
<1>19. ASSUME NEW x \in Nodes(t), Leaf(w, a) \/ (\A j \in 1 .. Len(Kids(w, a)) : Kids(w, a)[j] # x)
       PROVE  Up(v, x) = Up(t, x)
  <2>1. Leaf(t, a) \/ x # e
    <3>1. c \in 1 .. Len(Kids(w, a))
      BY <1>4, <1>6, <1>7
    <3>. QED
      BY <1>4, <1>11, <1>19, <3>1
  <2>. QED
    BY <1>17, <2>1
<1>20. Reparted(w, t, v, p, i, a, b, d, s2)
  <2>1. Len(Kids(v, a)) = d
    BY <1>10 DEF d
  <2>. QED
    BY <1>11, <1>13, <1>14, <1>16, <1>18, <1>19, <2>1, Zenon DEF Reparted
<1>21. s2 \in Nat /\ Top(v, a) <= s2
       /\ IF Leaf(w, a) THEN Keys(w, a)[d] = s2 /\ Top(v, a) = s2 ELSE Top(t, Kids(w, a)[d]) <= Top(v, a)
  <2>1. d \in 1 .. Len(Keys(t, a)) /\ d \in 1 .. c
    BY <1>4, <1>6
  <2>2. s2 = Keys(t, a)[d]
    BY DEF s2, d
  <2>3. s2 \in Nat
    BY <1>5, <2>1, <2>2, NodeFields
  <2>4. CASE Leaf(w, a)
    BY <1>10, <1>11, <2>3, <2>4
  <2>5. CASE ~Leaf(w, a)
    <3>1. Kids(w, a)[d] = Kids(t, a)[d] /\ Kids(t, a)[d] \in Nodes(t)
      BY <1>4, <1>7, <1>15, <2>1, <2>5 DEF c
    <3>2. Top(t, Kids(t, a)[d]) \in Nat
      BY <1>5, <3>1, NodeFields
    <3>3. Top(t, Kids(t, a)[d]) <= HiAt(t, a, d)
      <4>1. Kids(t, a)[d] # 0 /\ Bounds(t, lo, 0)
        BY <1>5, <3>1, TypedParts DEF Good
      <4>. QED
        BY <1>4, <1>5, <2>1, <2>5, <4>1 DEF Bounds, c
    <3>4. HiAt(t, a, d) = s2
      BY <2>1, <2>2 DEF HiAt
    <3>. QED
      BY <1>10, <2>3, <2>5, <3>1, <3>2, <3>3, <3>4
  <2>. QED
    BY <2>4, <2>5
<1>22. QED
  BY <1>2, <1>20, <1>21, RepartedKeeps

\* The tree y is t but for the nodes at a and b, and the parent of the child e.
Lent(t, y, a, b, e, at) ==
  /\ Formed(y) /\ y.root = t.root /\ y.page = t.page /\ Nodes(y) = Nodes(t)
  /\ \A x \in Nodes(t) \ {a, b} :
       y.node[x] = IF ~Leaf(t, a) /\ x = e THEN [t.node[x] EXCEPT !.parent = at] ELSE t.node[x]

\* The tree v is y with three nodes stored.
ThreeStored(y, v, a, b, p, m, n, q) ==
  /\ Formed(v) /\ v.root = y.root /\ v.page = y.page /\ IsMap(v.node)
  /\ Nodes(v) = Nodes(y) \union {a, b, p}
  /\ v.node[a] = m /\ v.node[b] = n /\ v.node[p] = q
  /\ \A x \in Nodes(y) \ {a, b, p} : v.node[x] = y.node[x]

LEMMA StoredThree ==
  ASSUME NEW y, NEW a, NEW b, NEW p, NEW m, NEW n, NEW q, Formed(y), a # b, a # p, b # p
  PROVE  ThreeStored(y, MarkNode(MarkNode(MarkNode(y, a, m), b, n), p, q), a, b, p, m, n, q)
<1> DEFINE u == MarkNode(y, a, m)
           v == MarkNode(u, b, n)
           w == MarkNode(v, p, q)
<1>1. /\ Formed(u) /\ u.root = y.root /\ u.page = y.page /\ Nodes(u) = Nodes(y) \union {a}
      /\ u.node[a] = m /\ \A x \in Nodes(y) : x # a => u.node[x] = y.node[x]
  BY Marked DEF Nodes
<1>. HIDE DEF u
<1>2. /\ Formed(v) /\ v.root = u.root /\ v.page = u.page /\ Nodes(v) = Nodes(u) \union {b}
      /\ v.node[b] = n /\ \A x \in Nodes(u) : x # b => v.node[x] = u.node[x]
  BY <1>1, Marked DEF Nodes
<1>. HIDE DEF v
<1>3. /\ Formed(w) /\ w.root = v.root /\ w.page = v.page /\ Nodes(w) = Nodes(v) \union {p} /\ IsMap(w.node)
      /\ w.node[p] = q /\ \A x \in Nodes(v) : x # p => w.node[x] = v.node[x]
  BY <1>2, Marked DEF Nodes
<1>. HIDE DEF w
<1>4. w.node[a] = m /\ w.node[b] = n
  BY <1>1, <1>2, <1>3
<1>5. \A x \in Nodes(y) \ {a, b, p} : w.node[x] = y.node[x]
  BY <1>1, <1>2, <1>3
<1>6. ThreeStored(y, w, a, b, p, m, n, q)
  BY <1>1, <1>2, <1>3, <1>4, <1>5 DEF ThreeStored
<1>. QED
  BY <1>6 DEF u, v, w

\* The node q is d with another i-th key.
RekeyedTo(d, q, i, k) ==
  /\ q \in NodeType /\ q.leaf = d.leaf /\ q.kids = d.kids /\ q.max = d.max /\ q.parent = d.parent
  /\ q.prev = d.prev /\ q.next = d.next /\ Len(q.keys) = Len(d.keys)
  /\ \A j \in 1 .. Len(d.keys) : q.keys[j] = IF j = i THEN k ELSE d.keys[j]

LEMMA RekeyedIs ==
  ASSUME NEW d \in NodeType, NEW i \in 1 .. Len(d.keys), NEW k \in Key
  PROVE  RekeyedTo(d, [d EXCEPT !.keys[i] = k], i, k)
BY Rekeyed DEF RekeyedTo

\* What the moved node has.
Stocked(v, a, C, Q, k) == Kids(v, a) = C /\ Keys(v, a) = Q /\ Top(v, a) = k

LEMMA Borrowed ==
  ASSUME NEW t, NEW y, NEW v, NEW lv, NEW lo, NEW nx, NEW loose, NEW p, NEW i, NEW a, NEW b, NEW s, NEW e, NEW at,
         NEW m, NEW n, NEW q, NEW C, NEW Q, NEW k, NEW D, NEW R,
         Good(t, lv, lo, nx, loose, 0), Beside(t, p, i, a, b), at \in {a, b},
         Lent(t, y, a, b, e, at), ThreeStored(y, v, a, b, p, m, n, q),
         Rearranged(t.node[a], m, C, Q, k), Rearranged(t.node[b], n, D, R, Top(t, b)),
         RekeyedTo(t.node[p], q, i, s), ~Leaf(t, a) => e \in Nodes(t) \ {a, b, p}
  PROVE  ChildMoved(t, v, p, i, a, b, s, e, at) /\ Stocked(v, a, C, Q, k) /\ Stocked(v, b, D, R, Top(t, b))
<1>1. /\ Typed(t) /\ p \in Nodes(t) /\ a \in Nodes(t) /\ b \in Nodes(t) /\ a # b /\ a # p /\ b # p /\ at \in Nat
      /\ Leaf(t, b) = Leaf(t, a)
  <2>1. BesideIs(t, lv, nx, p, i, a, b)
    BY BesideFacts
  <2>2. Typed(t) /\ p \in Nodes(t) /\ a \in Nodes(t) /\ b \in Nodes(t)
    BY DEF Good, Beside
  <2>3. at \in Nat
    BY <2>2, NodeFields
  <2>. QED
    BY <2>1, <2>2, <2>3 DEF BesideIs
<1>2. /\ Formed(v) /\ v.root = t.root /\ v.page = t.page /\ IsMap(v.node) /\ Nodes(v) = Nodes(t)
      /\ v.node[a] = m /\ v.node[b] = n /\ v.node[p] = q
      /\ \A x \in Nodes(t) \ {a, b, p} :
           v.node[x] = IF ~Leaf(t, a) /\ x = e THEN [t.node[x] EXCEPT !.parent = at] ELSE t.node[x]
  BY <1>1 DEF Lent, ThreeStored
<1>3. /\ IsMap(t.page) /\ t.root \in Nodes(t) /\ IsFiniteSet(Nodes(t)) /\ Nodes(t) \subseteq Nat \ {0}
      /\ IsFiniteSet(DOMAIN t.page) /\ DOMAIN t.page \subseteq Nat \ {0} /\ \A pg \in DOMAIN t.page : PageType(t.page[pg])
      /\ \A x \in Nodes(t) : t.node[x] \in NodeType
  BY <1>1, TypedParts
<1>4. /\ m \in NodeType /\ m.leaf = Leaf(t, a) /\ m.kids = C /\ m.keys = Q /\ m.max = k
      /\ m.parent = Up(t, a) /\ m.prev = t.node[a].prev /\ m.next = t.node[a].next
  BY DEF Rearranged, Leaf, Up
<1>5. /\ n \in NodeType /\ n.leaf = Leaf(t, b) /\ n.kids = D /\ n.keys = R /\ n.max = Top(t, b)
      /\ n.parent = Up(t, b) /\ n.prev = t.node[b].prev /\ n.next = t.node[b].next
  BY DEF Rearranged, Leaf, Up
<1>6. /\ q \in NodeType /\ q.leaf = Leaf(t, p) /\ q.kids = Kids(t, p) /\ q.max = Top(t, p)
      /\ q.parent = Up(t, p) /\ q.prev = t.node[p].prev /\ q.next = t.node[p].next
      /\ Len(q.keys) = Len(Keys(t, p)) /\ \A j \in 1 .. Len(Keys(t, p)) : q.keys[j] = IF j = i THEN s ELSE Keys(t, p)[j]
  BY DEF RekeyedTo, Leaf, Up, Kids, Keys, Top
<1>7. ASSUME NEW x \in Nodes(t) \ {a, b, p}
      PROVE  /\ v.node[x] \in NodeType /\ Leaf(v, x) = Leaf(t, x) /\ Kids(v, x) = Kids(t, x) /\ Keys(v, x) = Keys(t, x)
             /\ Top(v, x) = Top(t, x) /\ v.node[x].prev = t.node[x].prev /\ v.node[x].next = t.node[x].next
             /\ Up(v, x) = IF ~Leaf(t, a) /\ x = e THEN at ELSE Up(t, x)
  <2>1. CASE ~Leaf(t, a) /\ x = e
    <3>1. v.node[x] = [t.node[x] EXCEPT !.parent = at]
      BY <1>2, <2>1
    <3>. QED
      BY <1>1, <1>3, <2>1, <3>1, Reparented DEF Leaf, Kids, Keys, Top, Up
  <2>2. CASE ~(~Leaf(t, a) /\ x = e)
    <3>1. v.node[x] = t.node[x]
      BY <1>2, <2>2
    <3>. QED
      BY <1>3, <2>2, <3>1 DEF Leaf, Kids, Keys, Top, Up
  <2>. QED
    BY <2>1, <2>2
<1>8. Typed(v)
  <2>1. \A x \in Nodes(v) : v.node[x] \in NodeType
    BY <1>2, <1>4, <1>5, <1>6, <1>7
  <2>. QED
    BY <1>2, <1>3, <2>1, MadeTree
<1>9. /\ Leaf(v, a) = Leaf(t, a) /\ Up(v, a) = Up(t, a) /\ v.node[a].prev = t.node[a].prev /\ v.node[a].next = t.node[a].next
      /\ Stocked(v, a, C, Q, k)
  BY <1>2, <1>4 DEF Leaf, Kids, Keys, Top, Up, Stocked
<1>10. /\ Leaf(v, b) = Leaf(t, b) /\ Up(v, b) = Up(t, b) /\ v.node[b].prev = t.node[b].prev /\ v.node[b].next = t.node[b].next
       /\ Stocked(v, b, D, R, Top(t, b))
  BY <1>2, <1>5 DEF Leaf, Kids, Keys, Top, Up, Stocked
<1>11. /\ Leaf(v, p) = Leaf(t, p) /\ Up(v, p) = Up(t, p) /\ v.node[p].prev = t.node[p].prev /\ v.node[p].next = t.node[p].next
       /\ Kids(v, p) = Kids(t, p) /\ Top(v, p) = Top(t, p) /\ Len(Keys(v, p)) = Len(Keys(t, p))
       /\ \A j \in 1 .. Len(Keys(t, p)) : Keys(v, p)[j] = IF j = i THEN s ELSE Keys(t, p)[j]
  BY <1>2, <1>6 DEF Leaf, Kids, Keys, Top, Up
<1>12. ASSUME NEW x \in Nodes(t)
       PROVE  /\ Leaf(v, x) = Leaf(t, x) /\ v.node[x].prev = t.node[x].prev /\ v.node[x].next = t.node[x].next
              /\ x # a /\ x # b /\ x # p => Kids(v, x) = Kids(t, x) /\ Keys(v, x) = Keys(t, x) /\ Top(v, x) = Top(t, x)
              /\ Up(v, x) = IF ~Leaf(t, a) /\ x = e THEN at ELSE Up(t, x)
  <2>1. CASE x \in {a, b, p}
    <3>1. ~(~Leaf(t, a) /\ x = e)
      BY <2>1
    <3>2. Leaf(v, x) = Leaf(t, x) /\ v.node[x].prev = t.node[x].prev /\ v.node[x].next = t.node[x].next /\ Up(v, x) = Up(t, x)
      BY <1>9, <1>10, <1>11, <2>1
    <3>. QED
      BY <2>1, <3>1, <3>2
  <2>2. CASE x \notin {a, b, p}
    <3>1. x \in Nodes(t) \ {a, b, p}
      BY <2>2
    <3>. QED
      BY <1>7, <3>1
  <2>. QED
    BY <2>1, <2>2
<1>13. Top(v, b) = Top(t, b)
  BY <1>10 DEF Stocked
<1>14. ChildMoved(t, v, p, i, a, b, s, e, at)
  BY <1>2, <1>8, <1>11, <1>12, <1>13, Zenon DEF ChildMoved
<1>. QED
  BY <1>9, <1>10, <1>14

LEMMA LentSame ==
  ASSUME NEW t, NEW z, NEW n, NEW e, NEW a, NEW b, NEW at, at \in {a, b}, Leaf(t, a), Pending(z, t, at, n)
  PROVE  Lent(t, z, a, b, e, at)
BY DEF Pending, Lent

LEMMA LentOne ==
  ASSUME NEW t, NEW z, NEW n, NEW a, NEW b, NEW at, NEW e \in Nodes(t), e # a, e # b, at \in {a, b},
         ~Leaf(t, a), Pending(z, t, at, n)
  PROVE  Lent(t, Adopt(z, {e}, at), a, b, e, at)
<1> DEFINE y == Adopt(z, {e}, at)
<1>1. Moved(z, y, e, at)
  BY AdoptedOne DEF Pending
<1>. HIDE DEF y
<1>2. Lent(t, y, a, b, e, at)
  BY <1>1 DEF Moved, Pending, Lent, Nodes
<1>. QED
  BY <1>2 DEF y

LEMMA StoredThreeTurned ==
  ASSUME NEW y, NEW v, NEW a, NEW b, NEW p, NEW m, NEW n, NEW q, ThreeStored(y, v, b, a, p, n, m, q)
  PROVE  ThreeStored(y, v, a, b, p, m, n, q)
<1>1. {b, a, p} = {a, b, p}
  OBVIOUS
<1>. QED
  BY <1>1 DEF ThreeStored

LEMMA PairPosition ==
  ASSUME NEW t, NEW lv, NEW lo, NEW nx, NEW loose, NEW p, NEW i, NEW a, NEW b,
         Good(t, lv, lo, nx, loose, 0), Beside(t, p, i, a, b)
  PROVE  Position(t.node[p].kids, a) = i /\ i \in DOMAIN t.node[p].keys
<1>1. BesideIs(t, lv, nx, p, i, a, b)
  BY BesideFacts
<1>2. i \in 1 .. Len(Kids(t, p)) /\ i \in 1 .. Len(Keys(t, p))
  BY <1>1 DEF BesideIs
<1>3. Typed(t) /\ Arrays(t) /\ p \in Nodes(t) /\ Kids(t, p)[i] = a
  BY DEF Good, Beside
<1>4. Kids(t, p) \in Seq(Nat \ {0}) /\ Keys(t, p) \in Seq(Key)
  BY <1>3, NodeFields
<1>5. \A x, y \in 1 .. Len(Kids(t, p)) : Kids(t, p)[x] = Kids(t, p)[y] => x = y
  BY <1>3 DEF Arrays
<1>6. Position(Kids(t, p), Kids(t, p)[i]) = i
  BY <1>2, <1>4, <1>5, PositionIs
<1>7. Position(t.node[p].kids, a) = i
  BY <1>3, <1>6 DEF Kids
<1>8. i \in DOMAIN t.node[p].keys
  BY <1>2, <1>4 DEF Keys
<1>. QED
  BY <1>7, <1>8

LEMMA SeparatorIs ==
  ASSUME NEW t, NEW v, NEW k, NEW lv, NEW lo, NEW nx, NEW loose, NEW p, NEW i, NEW a, NEW b,
         Good(t, lv, lo, nx, loose, 0), Beside(t, p, i, a, b), v.node[p] = t.node[p]
  PROVE  SetSeparator(v, p, a, k) = MarkNode(v, p, [t.node[p] EXCEPT !.keys[i] = k])
<1>1. Position(t.node[p].kids, a) = i /\ i \in DOMAIN t.node[p].keys
  BY PairPosition
<1>. QED
  BY <1>1 DEF SetSeparator

AppendedTo(s, e, r) ==
  Len(r) = Len(s) + 1 /\ r[Len(s) + 1] = e /\ \A j \in 1 .. Len(s) : r[j] = s[j]
PrependedTo(s, e, r) ==
  Len(r) = Len(s) + 1 /\ r[1] = e /\ \A j \in 1 .. Len(s) : r[j + 1] = s[j]
WithoutFirst(s, r) == Len(r) = Len(s) - 1 /\ \A j \in 1 .. (Len(s) - 1) : r[j] = s[j + 1]
WithoutLast(s, r) == Len(r) = Len(s) - 1 /\ \A j \in 1 .. (Len(s) - 1) : r[j] = s[j]

LEMMA EndsMoved ==
  ASSUME NEW S, NEW s \in Seq(S), NEW e \in S
  PROVE  /\ Append(s, e) \in Seq(S) /\ AppendedTo(s, e, Append(s, e))
         /\ <<e>> \o s \in Seq(S) /\ PrependedTo(s, e, <<e>> \o s)
<1> DEFINE r == Append(s, e)
           q == <<e>> \o s
<1>0. Len(s) \in Nat
  OBVIOUS
<1>1. /\ r \in Seq(S) /\ Len(r) = Len(s) + 1
      /\ \A m \in 1 .. (Len(s) + 1) : r[m] = IF m <= Len(s) THEN s[m] ELSE e
  BY AppendItems
<1>2. /\ q \in Seq(S) /\ Len(q) = Len(s) + 1
      /\ \A m \in 1 .. (Len(s) + 1) : q[m] = IF m = 1 THEN e ELSE s[m - 1]
  BY ConsItems
<1>. HIDE DEF r, q
<1>3. AppendedTo(s, e, r)
  BY <1>0, <1>1 DEF AppendedTo
<1>4. PrependedTo(s, e, q)
  <2>1. q[1] = e
    BY <1>0, <1>2
  <2>2. ASSUME NEW j \in 1 .. Len(s) PROVE q[j + 1] = s[j]
    <3>1. j + 1 \in 1 .. (Len(s) + 1) /\ j + 1 # 1 /\ (j + 1) - 1 = j
      BY <1>0
    <3>. QED
      BY <1>2, <3>1
  <2>. QED
    BY <1>2, <2>1, <2>2 DEF PrependedTo
<1>. QED
  BY <1>1, <1>2, <1>3, <1>4 DEF r, q

LEMMA EndsTaken ==
  ASSUME NEW S, NEW s \in Seq(S), Len(s) >= 1
  PROVE  /\ Tail(s) \in Seq(S) /\ WithoutFirst(s, Tail(s)) /\ Head(s) = s[1] /\ s[1] \in S
         /\ Front(s) \in Seq(S) /\ WithoutLast(s, Front(s)) /\ Last(s) = s[Len(s)] /\ s[Len(s)] \in S
BY TailItems, FrontItems DEF WithoutFirst, WithoutLast

LEMMA MovedNextIs ==
  ASSUME NEW t, NEW v, NEW p, NEW i, NEW a, NEW b, NEW C, NEW Q, NEW k, NEW D, NEW R,
         ChildMoved(t, v, p, i, a, b, Keys(t, b)[1], Kids(t, b)[1], a),
         Stocked(v, a, C, Q, k), Stocked(v, b, D, R, Top(t, b)),
         AppendedTo(Kids(t, a), Kids(t, b)[1], C), WithoutFirst(Kids(t, b), D), WithoutFirst(Keys(t, b), R),
         AppendedTo(Keys(t, a), IF Leaf(t, a) THEN Keys(t, b)[1] ELSE Keys(t, p)[i], Q),
         k = IF Leaf(t, a) THEN Keys(t, b)[1] ELSE Top(t, Kids(t, b)[1])
  PROVE  MovedNext(t, v, p, i, a, b)
BY DEF MovedNext, Stocked, AppendedTo, WithoutFirst

LEMMA MovedPrevIs ==
  ASSUME NEW t, NEW v, NEW p, NEW i, NEW a, NEW b, NEW C, NEW Q, NEW k, NEW D, NEW R,
         ChildMoved(t, v, p, i, a, b, Keys(t, a)[Len(Kids(t, a)) - 1], Kids(t, a)[Len(Kids(t, a))], b),
         Stocked(v, a, C, Q, k), Stocked(v, b, D, R, Top(t, b)),
         PrependedTo(Kids(t, b), Kids(t, a)[Len(Kids(t, a))], D), WithoutLast(Kids(t, a), C), WithoutLast(Keys(t, a), Q),
         PrependedTo(Keys(t, b), IF Leaf(t, a) THEN Keys(t, a)[Len(Kids(t, a))] ELSE Keys(t, p)[i], R),
         k = Keys(t, a)[Len(Kids(t, a)) - 1]
  PROVE  MovedPrev(t, v, p, i, a, b)
BY DEF MovedPrev, Stocked, PrependedTo, WithoutLast

LEMMA BorrowNextIs ==
  ASSUME NEW z, NEW t, NEW n, NEW lv, NEW lo, NEW nx, NEW loose, NEW p, NEW i, NEW a, NEW b,
         Good(t, lv, lo, nx, loose, 0), Beside(t, p, i, a, b), Pending(z, t, a, n), Leaf(t, a)
  PROVE  MovedNext(t, BorrowNext(z, n, a, b), p, i, a, b)
<1>1. BesideIs(t, lv, nx, p, i, a, b)
  BY BesideFacts
<1>2. /\ i \in 1 .. Len(Keys(t, p)) /\ a # b /\ a # p /\ b # p /\ Up(t, a) = p /\ Leaf(t, b)
  BY <1>1 DEF BesideIs
<1>3. Typed(t) /\ Arrays(t) /\ p \in Nodes(t) /\ a \in Nodes(t) /\ b \in Nodes(t)
  BY DEF Good, Beside
<1>4. n = t.node[a] /\ z.node[b] = t.node[b] /\ z.node[p] = t.node[p] /\ Formed(z) /\ n.parent = p
  BY <1>2, <1>3 DEF Pending, Up
<1>5. Len(Keys(t, b)) >= 1 /\ Len(Kids(t, b)) >= 1
  BY <1>2, <1>3 DEF Arrays
<1> DEFINE k == Keys(t, b)[1]
           e == Kids(t, b)[1]
           C == Append(Kids(t, a), e)
           Q == Append(Keys(t, a), k)
           D == Tail(Kids(t, b))
           R == Tail(Keys(t, b))
           m == [t.node[a] EXCEPT !.kids = C, !.keys = Q, !.max = k]
           o == [t.node[b] EXCEPT !.kids = D, !.keys = R]
           q == [t.node[p] EXCEPT !.keys[i] = k]
           v == MarkNode(MarkNode(z, a, m), b, o)
<1>6. Kids(t, a) \in Seq(Nat \ {0}) /\ Keys(t, a) \in Seq(Key) /\ Kids(t, b) \in Seq(Nat \ {0}) /\ Keys(t, b) \in Seq(Key)
  BY <1>3, NodeFields
<1>7. /\ D \in Seq(Nat \ {0}) /\ WithoutFirst(Kids(t, b), D) /\ Head(Kids(t, b)) = e /\ e \in Nat \ {0}
      /\ R \in Seq(Key) /\ WithoutFirst(Keys(t, b), R) /\ Head(Keys(t, b)) = k /\ k \in Key
  BY <1>5, <1>6, EndsTaken
<1>8. C \in Seq(Nat \ {0}) /\ AppendedTo(Kids(t, a), e, C) /\ Q \in Seq(Key) /\ AppendedTo(Keys(t, a), k, Q)
  BY <1>6, <1>7, EndsMoved
<1>9. t.node[a] \in NodeType /\ t.node[b] \in NodeType /\ t.node[p] \in NodeType
  BY <1>3, TypedParts
<1>10. Rearranged(t.node[a], m, C, Q, k)
  BY <1>7, <1>8, <1>9, Rearrayed
<1>11. Rearranged(t.node[b], o, D, R, Top(t, b))
  BY <1>7, <1>9, Rearrayed DEF Top
<1>12. RekeyedTo(t.node[p], q, i, k)
  BY <1>2, <1>7, <1>9, RekeyedIs DEF Keys
<1>13. BorrowNext(z, n, a, b) = SetSeparator(v, p, a, k)
  BY <1>4, <1>7 DEF BorrowNext, Kids, Keys
<1>14. v.node[p] = t.node[p]
  <2>1. p \in DOMAIN z.node
    BY <1>3 DEF Pending, Nodes
  <2>2. LET u == MarkNode(z, a, m) IN Formed(u) /\ DOMAIN u.node = DOMAIN z.node \union {a} /\ u.node[p] = z.node[p]
    BY <1>2, <1>4, <2>1, Marked
  <2>3. LET u == MarkNode(z, a, m) IN MarkNode(u, b, o).node[p] = u.node[p]
    BY <1>2, <2>1, <2>2, Marked
  <2>. QED
    BY <1>4, <2>2, <2>3
<1>15. SetSeparator(v, p, a, k) = MarkNode(v, p, q)
  <2>. HIDE DEF v, k
  <2>. QED
    BY <1>14, SeparatorIs
<1>16. ThreeStored(z, MarkNode(v, p, q), a, b, p, m, o, q)
  <2>. HIDE DEF m, o, q
  <2>. QED
    BY <1>2, <1>4, StoredThree
<1>. HIDE DEF C, Q, D, R, m, o, q, v, k, e
<1>17. Lent(t, z, a, b, e, a)
  BY LentSame
<1>18. ChildMoved(t, MarkNode(v, p, q), p, i, a, b, k, e, a)
       /\ Stocked(MarkNode(v, p, q), a, C, Q, k) /\ Stocked(MarkNode(v, p, q), b, D, R, Top(t, b))
  BY <1>10, <1>11, <1>12, <1>16, <1>17, Borrowed
<1>19. MovedNext(t, MarkNode(v, p, q), p, i, a, b)
  <2> DEFINE r == MarkNode(v, p, q)
  <2>1. AppendedTo(Keys(t, a), IF Leaf(t, a) THEN k ELSE Keys(t, p)[i], Q)
    BY <1>8
  <2>2. k = IF Leaf(t, a) THEN k ELSE Top(t, e)
    OBVIOUS
  <2>. HIDE DEF r
  <2>3. MovedNext(t, r, p, i, a, b)
    BY <1>7, <1>8, <1>18, <2>1, <2>2, MovedNextIs DEF k, e, r
  <2>. QED
    BY <2>3 DEF r
<1>. QED
  BY <1>13, <1>15, <1>19

LEMMA BorrowPrevIs ==
  ASSUME NEW z, NEW t, NEW n, NEW lv, NEW lo, NEW nx, NEW loose, NEW p, NEW i, NEW a, NEW b,
         Good(t, lv, lo, nx, loose, 0), Beside(t, p, i, a, b), Pending(z, t, b, n), Leaf(t, a), Len(Kids(t, a)) >= 2
  PROVE  MovedPrev(t, BorrowPrev(z, n, b, a), p, i, a, b)
<1>1. BesideIs(t, lv, nx, p, i, a, b)
  BY BesideFacts
<1>2. /\ i \in 1 .. Len(Keys(t, p)) /\ a # b /\ a # p /\ b # p /\ Up(t, b) = p /\ Leaf(t, b)
  BY <1>1 DEF BesideIs
<1>3. Typed(t) /\ Arrays(t) /\ p \in Nodes(t) /\ a \in Nodes(t) /\ b \in Nodes(t)
  BY DEF Good, Beside
<1>4. n = t.node[b] /\ z.node[a] = t.node[a] /\ z.node[p] = t.node[p] /\ Formed(z) /\ n.parent = p
  BY <1>2, <1>3 DEF Pending, Up
<1>5. Len(Keys(t, a)) = Len(Kids(t, a)) /\ Len(Kids(t, a)) \in Nat
  BY <1>2, <1>3, NodeFields DEF Arrays
<1> DEFINE c == Len(Kids(t, a))
           k == Keys(t, a)[c - 1]
           e == Kids(t, a)[c]
           f == Keys(t, a)[c]
           C == Front(Kids(t, a))
           Q == Front(Keys(t, a))
           D == <<e>> \o Kids(t, b)
           R == <<f>> \o Keys(t, b)
           m == [t.node[a] EXCEPT !.kids = C, !.keys = Q, !.max = k]
           o == [t.node[b] EXCEPT !.kids = D, !.keys = R]
           q == [t.node[p] EXCEPT !.keys[i] = k]
           v == MarkNode(MarkNode(z, b, o), a, m)
<1>6. Kids(t, a) \in Seq(Nat \ {0}) /\ Keys(t, a) \in Seq(Key) /\ Kids(t, b) \in Seq(Nat \ {0}) /\ Keys(t, b) \in Seq(Key)
  BY <1>3, NodeFields
<1>7. /\ C \in Seq(Nat \ {0}) /\ WithoutLast(Kids(t, a), C) /\ Last(Kids(t, a)) = e /\ e \in Nat \ {0}
      /\ Q \in Seq(Key) /\ WithoutLast(Keys(t, a), Q) /\ Last(Keys(t, a)) = f /\ f \in Key
  BY <1>5, <1>6, EndsTaken
<1>8. D \in Seq(Nat \ {0}) /\ PrependedTo(Kids(t, b), e, D) /\ R \in Seq(Key) /\ PrependedTo(Keys(t, b), f, R)
  BY <1>6, <1>7, EndsMoved
<1>k. Last(Front(Keys(t, a))) = k /\ k \in Key
  <2>1. Len(Q) = c - 1 /\ Len(Q) >= 1 /\ Len(Q) \in 1 .. (c - 1) /\ c - 1 \in 1 .. Len(Keys(t, a))
    BY <1>5, <1>7 DEF WithoutLast
  <2>2. Last(Q) = Q[Len(Q)]
    BY <1>7, <2>1, EndsTaken
  <2>3. Q[c - 1] = k
    BY <1>5, <1>7, <2>1 DEF WithoutLast
  <2>4. k \in Key
    BY <1>3, <2>1, NodeFields
  <2>. QED
    BY <2>1, <2>2, <2>3, <2>4
<1>9. t.node[a] \in NodeType /\ t.node[b] \in NodeType /\ t.node[p] \in NodeType
  BY <1>3, TypedParts
<1>10. Rearranged(t.node[a], m, C, Q, k)
  BY <1>7, <1>k, <1>9, Rearrayed
<1>11. Rearranged(t.node[b], o, D, R, Top(t, b))
  <2>. HIDE DEF D, R
  <2>. QED
    BY <1>k, <1>8, <1>9, Rearrayed DEF Top
<1>12. RekeyedTo(t.node[p], q, i, k)
  BY <1>2, <1>k, <1>9, RekeyedIs DEF Keys
<1>13. BorrowPrev(z, n, b, a) = SetSeparator(v, p, a, k)
  BY <1>4, <1>7, <1>k DEF BorrowPrev, Kids, Keys
<1>14. v.node[p] = t.node[p]
  <2>1. p \in DOMAIN z.node
    BY <1>3 DEF Pending, Nodes
  <2>2. LET u == MarkNode(z, b, o) IN Formed(u) /\ DOMAIN u.node = DOMAIN z.node \union {b} /\ u.node[p] = z.node[p]
    BY <1>2, <1>4, <2>1, Marked
  <2>3. LET u == MarkNode(z, b, o) IN MarkNode(u, a, m).node[p] = u.node[p]
    BY <1>2, <2>1, <2>2, Marked
  <2>. QED
    BY <1>4, <2>2, <2>3
<1>15. SetSeparator(v, p, a, k) = MarkNode(v, p, q)
  <2>. HIDE DEF v, k
  <2>. QED
    BY <1>14, SeparatorIs
<1>16. ThreeStored(z, MarkNode(v, p, q), a, b, p, m, o, q)
  <2>1. ThreeStored(z, MarkNode(v, p, q), b, a, p, o, m, q)
    <3>. HIDE DEF m, o, q
    <3>. QED
      BY <1>2, <1>4, StoredThree
  <2>. HIDE DEF m, o, q, v
  <2>. QED
    BY <2>1, StoredThreeTurned
<1>. HIDE DEF C, Q, D, R, m, o, q, v, k, e, f
<1>17. Lent(t, z, a, b, e, b)
  BY LentSame
<1>18. ChildMoved(t, MarkNode(v, p, q), p, i, a, b, k, e, b)
       /\ Stocked(MarkNode(v, p, q), a, C, Q, k) /\ Stocked(MarkNode(v, p, q), b, D, R, Top(t, b))
  BY <1>10, <1>11, <1>12, <1>16, <1>17, Borrowed
<1>19. MovedPrev(t, MarkNode(v, p, q), p, i, a, b)
  <2> DEFINE r == MarkNode(v, p, q)
  <2>1. PrependedTo(Keys(t, b), IF Leaf(t, a) THEN f ELSE Keys(t, p)[i], R)
    BY <1>8
  <2>. HIDE DEF r
  <2>3. MovedPrev(t, r, p, i, a, b)
    BY <1>7, <1>8, <1>18, <2>1, MovedPrevIs DEF k, e, f, r
  <2>. QED
    BY <2>3 DEF r
<1>. QED
  BY <1>13, <1>15, <1>19

LEMMA LowerChild ==
  ASSUME NEW t, NEW lv, NEW lo, NEW nx, NEW loose, NEW p, NEW i, NEW a, NEW b, NEW d, NEW j,
         Good(t, lv, lo, nx, loose, 0), Beside(t, p, i, a, b), ~Leaf(t, a), d \in {a, b}, j \in 1 .. Len(Kids(t, d))
  PROVE  Kids(t, d)[j] \in Nodes(t) \ {a, b, p}
<1>1. BesideIs(t, lv, nx, p, i, a, b)
  BY BesideFacts
<1>2. lv[b] = lv[a] /\ lv[p] = lv[a] + 1 /\ Leaf(t, b) = Leaf(t, a) /\ lv[a] \in Nat
  BY <1>1 DEF BesideIs
<1>3. d \in Nodes(t) /\ Children(t, lv) /\ Levels(t, lv)
  BY DEF Good, Beside
<1> DEFINE x == Kids(t, d)[j]
<1>4. x \in Nodes(t) /\ lv[d] = lv[x] + 1
  BY <1>2, <1>3 DEF Children
<1>. HIDE DEF x
<1>5. lv[x] \in Nat
  BY <1>3, <1>4 DEF Levels
<1>6. x # a /\ x # b /\ x # p
  BY <1>2, <1>4, <1>5
<1>7. x \in Nodes(t) \ {a, b, p}
  BY <1>4, <1>6
<1>. QED
  BY <1>7 DEF x

LEMMA BorrowNextThroughIs ==
  ASSUME NEW z, NEW t, NEW n, NEW lv, NEW lo, NEW nx, NEW loose, NEW p, NEW i, NEW a, NEW b,
         Good(t, lv, lo, nx, loose, 0), Beside(t, p, i, a, b), Pending(z, t, a, n), ~Leaf(t, a), Len(Kids(t, b)) >= 2
  PROVE  MovedNext(t, BorrowNextThroughParent(z, n, a, b), p, i, a, b)
<1>1. BesideIs(t, lv, nx, p, i, a, b)
  BY BesideFacts
<1>2. /\ i \in 1 .. Len(Keys(t, p)) /\ a # b /\ a # p /\ b # p /\ Up(t, a) = p /\ ~Leaf(t, b) /\ Keys(t, p)[i] \in Key
  BY <1>1 DEF BesideIs
<1>3. Typed(t) /\ Arrays(t) /\ p \in Nodes(t) /\ a \in Nodes(t) /\ b \in Nodes(t)
  BY DEF Good, Beside
<1>4. n = t.node[a] /\ z.node[b] = t.node[b] /\ z.node[p] = t.node[p] /\ Formed(z) /\ n.parent = p
  BY <1>2, <1>3 DEF Pending, Up
<1>5. Len(Keys(t, b)) >= 1 /\ Len(Kids(t, b)) >= 1 /\ 1 \in 1 .. Len(Kids(t, b))
  <2>1. Len(Keys(t, b)) = Len(Kids(t, b)) - 1 /\ Len(Kids(t, b)) \in Nat
    BY <1>2, <1>3, NodeFields DEF Arrays
  <2>. QED
    BY <2>1
<1> DEFINE s == Keys(t, b)[1]
           e == Kids(t, b)[1]
           f == Keys(t, p)[i]
           k == Top(t, e)
           C == Append(Kids(t, a), e)
           Q == Append(Keys(t, a), f)
           D == Tail(Kids(t, b))
           R == Tail(Keys(t, b))
           m == [t.node[a] EXCEPT !.kids = C, !.keys = Q, !.max = k]
           o == [t.node[b] EXCEPT !.kids = D, !.keys = R]
           q == [t.node[p] EXCEPT !.keys[i] = s]
           y == Adopt(z, {e}, a)
           v == MarkNode(MarkNode(MarkNode(y, a, m), b, o), p, q)
<1>e. e \in Nodes(t) \ {a, b, p}
  BY <1>5, LowerChild
<1>k. k \in Key /\ z.node[e].max = k
  <2>1. z.node[e] = t.node[e]
    BY <1>e DEF Pending
  <2>. QED
    BY <1>3, <1>e, <2>1, NodeFields DEF Top
<1>6. Kids(t, a) \in Seq(Nat \ {0}) /\ Keys(t, a) \in Seq(Key) /\ Kids(t, b) \in Seq(Nat \ {0}) /\ Keys(t, b) \in Seq(Key)
  BY <1>3, NodeFields
<1>7. /\ D \in Seq(Nat \ {0}) /\ WithoutFirst(Kids(t, b), D) /\ Head(Kids(t, b)) = e /\ e \in Nat \ {0}
      /\ R \in Seq(Key) /\ WithoutFirst(Keys(t, b), R) /\ Head(Keys(t, b)) = s /\ s \in Key
  BY <1>5, <1>6, EndsTaken
<1>8. C \in Seq(Nat \ {0}) /\ AppendedTo(Kids(t, a), e, C) /\ Q \in Seq(Key) /\ AppendedTo(Keys(t, a), f, Q)
  BY <1>2, <1>6, <1>7, EndsMoved
<1>9. t.node[a] \in NodeType /\ t.node[b] \in NodeType /\ t.node[p] \in NodeType
  BY <1>3, TypedParts
<1>10. Rearranged(t.node[a], m, C, Q, k)
  <2>. HIDE DEF C, Q, k
  <2>. QED
    BY <1>k, <1>8, <1>9, Rearrayed
<1>11. Rearranged(t.node[b], o, D, R, Top(t, b))
  <2>. HIDE DEF D, R
  <2>. QED
    BY <1>7, <1>9, Rearrayed DEF Top
<1>12. RekeyedTo(t.node[p], q, i, s)
  BY <1>2, <1>7, <1>9, RekeyedIs DEF Keys
<1>13. Position(t.node[p].kids, a) = i
  BY PairPosition
<1>14. BorrowNextThroughParent(z, n, a, b) = v
  BY <1>4, <1>7, <1>k, <1>13 DEF BorrowNextThroughParent, Kids, Keys
<1>15. Formed(y)
  <2>1. Moved(z, y, e, a)
    BY <1>4, AdoptedOne
  <2>. HIDE DEF y
  <2>. QED
    BY <2>1 DEF Moved
<1>16. ThreeStored(y, v, a, b, p, m, o, q)
  <2>. HIDE DEF m, o, q, y
  <2>. QED
    BY <1>2, <1>15, StoredThree
<1>17. Lent(t, y, a, b, e, a)
  <2>. HIDE DEF e
  <2>. QED
    BY <1>e, LentOne
<1>. HIDE DEF C, Q, D, R, m, o, q, v, k, e, y, s, f
<1>18. ChildMoved(t, v, p, i, a, b, s, e, a) /\ Stocked(v, a, C, Q, k) /\ Stocked(v, b, D, R, Top(t, b))
  BY <1>e, <1>10, <1>11, <1>12, <1>16, <1>17, Borrowed
<1>19. MovedNext(t, v, p, i, a, b)
  <2>1. AppendedTo(Keys(t, a), IF Leaf(t, a) THEN s ELSE Keys(t, p)[i], Q)
    BY <1>8 DEF f
  <2>2. k = IF Leaf(t, a) THEN s ELSE Top(t, e)
    BY DEF k
  <2>. QED
    BY <1>7, <1>8, <1>18, <2>1, <2>2, MovedNextIs DEF s, e
<1>. QED
  BY <1>14, <1>19

LEMMA BorrowPrevThroughIs ==
  ASSUME NEW z, NEW t, NEW n, NEW lv, NEW lo, NEW nx, NEW loose, NEW p, NEW i, NEW a, NEW b,
         Good(t, lv, lo, nx, loose, 0), Beside(t, p, i, a, b), Pending(z, t, b, n), ~Leaf(t, a), Len(Kids(t, a)) >= 2
  PROVE  MovedPrev(t, BorrowPrevThroughParent(z, n, b, a), p, i, a, b)
<1>1. BesideIs(t, lv, nx, p, i, a, b)
  BY BesideFacts
<1>2. /\ i \in 1 .. Len(Keys(t, p)) /\ a # b /\ a # p /\ b # p /\ Up(t, b) = p /\ ~Leaf(t, b) /\ Keys(t, p)[i] \in Key
  BY <1>1 DEF BesideIs
<1>3. Typed(t) /\ Arrays(t) /\ p \in Nodes(t) /\ a \in Nodes(t) /\ b \in Nodes(t)
  BY DEF Good, Beside
<1>4. n = t.node[b] /\ z.node[a] = t.node[a] /\ z.node[p] = t.node[p] /\ Formed(z) /\ n.parent = p
  BY <1>2, <1>3 DEF Pending, Up
<1> DEFINE c == Len(Kids(t, a))
           s == Keys(t, a)[c - 1]
           e == Kids(t, a)[c]
           f == Keys(t, p)[i]
           C == Front(Kids(t, a))
           Q == Front(Keys(t, a))
           D == <<e>> \o Kids(t, b)
           R == <<f>> \o Keys(t, b)
           m == [t.node[a] EXCEPT !.kids = C, !.keys = Q, !.max = s]
           o == [t.node[b] EXCEPT !.kids = D, !.keys = R]
           q == [t.node[p] EXCEPT !.keys[i] = s]
           y == Adopt(z, {e}, b)
           v == MarkNode(MarkNode(MarkNode(y, b, o), a, m), p, q)
<1>5. Len(Keys(t, a)) = c - 1 /\ Len(Keys(t, a)) >= 1 /\ c \in Nat /\ c \in 1 .. c /\ Len(Kids(t, a)) >= 1
  <2>1. Len(Keys(t, a)) = Len(Kids(t, a)) - 1 /\ Len(Kids(t, a)) \in Nat
    BY <1>3, NodeFields DEF Arrays
  <2>. QED
    BY <2>1
<1>e. e \in Nodes(t) \ {a, b, p}
  BY <1>5, LowerChild
<1>6. Kids(t, a) \in Seq(Nat \ {0}) /\ Keys(t, a) \in Seq(Key) /\ Kids(t, b) \in Seq(Nat \ {0}) /\ Keys(t, b) \in Seq(Key)
  BY <1>3, NodeFields
<1>7. /\ C \in Seq(Nat \ {0}) /\ WithoutLast(Kids(t, a), C) /\ Last(Kids(t, a)) = e /\ e \in Nat \ {0}
      /\ Q \in Seq(Key) /\ WithoutLast(Keys(t, a), Q) /\ Last(Keys(t, a)) = s /\ s \in Key
  <2>1. /\ C \in Seq(Nat \ {0}) /\ WithoutLast(Kids(t, a), C) /\ Last(Kids(t, a)) = e /\ e \in Nat \ {0}
    BY <1>5, <1>6, EndsTaken
  <2>2. /\ Q \in Seq(Key) /\ WithoutLast(Keys(t, a), Q) /\ Last(Keys(t, a)) = Keys(t, a)[Len(Keys(t, a))]
        /\ Keys(t, a)[Len(Keys(t, a))] \in Key
    BY <1>5, <1>6, EndsTaken
  <2>. QED
    BY <1>5, <2>1, <2>2
<1>8. D \in Seq(Nat \ {0}) /\ PrependedTo(Kids(t, b), e, D) /\ R \in Seq(Key) /\ PrependedTo(Keys(t, b), f, R)
  BY <1>2, <1>6, <1>7, EndsMoved
<1>9. t.node[a] \in NodeType /\ t.node[b] \in NodeType /\ t.node[p] \in NodeType
  BY <1>3, TypedParts
<1>10. Rearranged(t.node[a], m, C, Q, s)
  <2>. HIDE DEF C, Q, s
  <2>. QED
    BY <1>7, <1>9, Rearrayed
<1>11. Rearranged(t.node[b], o, D, R, Top(t, b))
  <2>. HIDE DEF D, R
  <2>. QED
    BY <1>7, <1>8, <1>9, Rearrayed DEF Top
<1>12. RekeyedTo(t.node[p], q, i, s)
  BY <1>2, <1>7, <1>9, RekeyedIs DEF Keys
<1>13. Position(t.node[p].kids, a) = i
  BY PairPosition
<1>14. BorrowPrevThroughParent(z, n, b, a) = v
  BY <1>4, <1>7, <1>13 DEF BorrowPrevThroughParent, Kids, Keys
<1>15. Formed(y)
  <2>1. Moved(z, y, e, b)
    BY <1>4, AdoptedOne
  <2>. HIDE DEF y
  <2>. QED
    BY <2>1 DEF Moved
<1>16. ThreeStored(y, v, a, b, p, m, o, q)
  <2>1. ThreeStored(y, v, b, a, p, o, m, q)
    <3>. HIDE DEF m, o, q, y
    <3>. QED
      BY <1>2, <1>15, StoredThree
  <2>. HIDE DEF m, o, q, v, y
  <2>. QED
    BY <2>1, StoredThreeTurned
<1>17. Lent(t, y, a, b, e, b)
  <2>. HIDE DEF e
  <2>. QED
    BY <1>e, LentOne
<1>. HIDE DEF C, Q, D, R, m, o, q, v, e, y, s, f
<1>18. ChildMoved(t, v, p, i, a, b, s, e, b) /\ Stocked(v, a, C, Q, s) /\ Stocked(v, b, D, R, Top(t, b))
  BY <1>e, <1>10, <1>11, <1>12, <1>16, <1>17, Borrowed
<1>19. MovedPrev(t, v, p, i, a, b)
  <2>1. PrependedTo(Keys(t, b), IF Leaf(t, a) THEN Keys(t, a)[c] ELSE Keys(t, p)[i], R)
    BY <1>8 DEF f
  <2>. QED
    BY <1>7, <1>8, <1>18, <2>1, MovedPrevIs DEF s, e
<1>. QED
  BY <1>14, <1>19

\* The node at a is to be rebalanced: a leaf about to lose a page, another node
\* that has lost a child.
Lacking(t, a) ==
  /\ a \in Nodes(t)
  /\ IF a = t.root THEN ~Leaf(t, a) /\ Len(Kids(t, a)) = 1
     ELSE Len(Kids(t, a)) = IF Leaf(t, a) THEN HalfM ELSE HalfM - 1

LeavesKept(t, v) == \A x \in Nodes(t) : Leaf(t, x) => x \in Nodes(v) /\ Leaf(v, x) /\ Kids(v, x) = Kids(t, x)

\* The pages of the leaf at a are in v in the leaf at "to", with others.
PagesHeld(t, v, a, to) ==
  /\ to \in Nodes(v) /\ Leaf(v, to) /\ Len(Kids(v, to)) >= HalfM + 1
  /\ \A i \in 1 .. Len(Kids(t, a)) : \E j \in 1 .. Len(Kids(v, to)) : Kids(v, to)[j] = Kids(t, a)[i]

LevelKept(t, v, a, to) ==
  v.page = t.page /\ IF Leaf(t, a) THEN PagesHeld(t, v, a, to) ELSE LeavesKept(t, v)

\* A child of the node at y has become one of the node at x.
Shifted(t, v, x, y) ==
  /\ Nodes(v) = Nodes(t) /\ v.root = t.root /\ v.page = t.page
  /\ \A c \in Nodes(t) : Leaf(v, c) = Leaf(t, c) /\ (c # x /\ c # y => Kids(v, c) = Kids(t, c))
  /\ Len(Kids(v, x)) = Len(Kids(t, x)) + 1 /\ Len(Kids(v, y)) = Len(Kids(t, y)) - 1
  /\ \A i \in 1 .. Len(Kids(t, x)) : \E j \in 1 .. Len(Kids(v, x)) : Kids(v, x)[j] = Kids(t, x)[i]

LEMMA HalfIs ==
  /\ HalfM \in Nat /\ M \in Nat /\ M >= 4 /\ HalfM >= 2 /\ 2 * HalfM <= M /\ HalfM + HalfM <= M /\ HalfM + 1 <= M /\ HalfM <= M
BY OrderAssumption DEF HalfM

LEMMA ShiftedNext ==
  ASSUME NEW t, NEW v, NEW lv, NEW lo, NEW nx, NEW loose, NEW p, NEW i, NEW a, NEW b,
         Good(t, lv, lo, nx, loose, 0), Beside(t, p, i, a, b), MovedNext(t, v, p, i, a, b)
  PROVE  Shifted(t, v, a, b)
<1>1. Len(Kids(t, a)) \in Nat
  BY NodeFields DEF Good, Beside
<1>2. /\ Nodes(v) = Nodes(t) /\ v.root = t.root /\ v.page = t.page
      /\ \A c \in Nodes(t) : Leaf(v, c) = Leaf(t, c) /\ (c # a /\ c # b => Kids(v, c) = Kids(t, c))
      /\ Len(Kids(v, a)) = Len(Kids(t, a)) + 1 /\ Len(Kids(v, b)) = Len(Kids(t, b)) - 1
      /\ \A j \in 1 .. Len(Kids(t, a)) : Kids(v, a)[j] = Kids(t, a)[j]
  BY DEF MovedNext, ChildMoved
<1>3. ASSUME NEW j \in 1 .. Len(Kids(t, a)) PROVE \E m \in 1 .. Len(Kids(v, a)) : Kids(v, a)[m] = Kids(t, a)[j]
  <2>1. j \in 1 .. Len(Kids(v, a))
    BY <1>1, <1>2
  <2>. QED
    BY <1>2, <2>1
<1>. QED
  BY <1>2, <1>3 DEF Shifted

LEMMA ShiftedPrev ==
  ASSUME NEW t, NEW v, NEW lv, NEW lo, NEW nx, NEW loose, NEW p, NEW i, NEW a, NEW b,
         Good(t, lv, lo, nx, loose, 0), Beside(t, p, i, a, b), MovedPrev(t, v, p, i, a, b)
  PROVE  Shifted(t, v, b, a)
<1>1. Len(Kids(t, b)) \in Nat
  BY NodeFields DEF Good, Beside
<1>2. /\ Nodes(v) = Nodes(t) /\ v.root = t.root /\ v.page = t.page
      /\ \A c \in Nodes(t) : Leaf(v, c) = Leaf(t, c) /\ (c # b /\ c # a => Kids(v, c) = Kids(t, c))
      /\ Len(Kids(v, b)) = Len(Kids(t, b)) + 1 /\ Len(Kids(v, a)) = Len(Kids(t, a)) - 1
      /\ \A j \in 1 .. Len(Kids(t, b)) : Kids(v, b)[j + 1] = Kids(t, b)[j]
  BY DEF MovedPrev, ChildMoved
<1>3. ASSUME NEW j \in 1 .. Len(Kids(t, b)) PROVE \E m \in 1 .. Len(Kids(v, b)) : Kids(v, b)[m] = Kids(t, b)[j]
  <2>1. j + 1 \in 1 .. Len(Kids(v, b))
    BY <1>1, <1>2
  <2>. QED
    BY <1>2, <2>1
<1>. QED
  BY <1>2, <1>3 DEF Shifted

LEMMA ShiftedRoom ==
  ASSUME NEW t, NEW v, NEW x, NEW y, Typed(t), Roomy(t, x), Lacking(t, x), x # t.root, y # t.root, x # y,
         y \in Nodes(t), Leaf(t, y) = Leaf(t, x), Len(Kids(t, y)) > HalfM, Shifted(t, v, x, y)
  PROVE  Roomy(v, 0) /\ LevelKept(t, v, x, x)
<1>1. /\ HalfM \in Nat /\ HalfM >= 2 /\ HalfM + 1 <= M /\ M \in Nat
  BY HalfIs
<1>2. x \in Nodes(t) /\ Len(Kids(t, x)) = IF Leaf(t, x) THEN HalfM ELSE HalfM - 1
  BY DEF Lacking
<1>3. /\ Nodes(v) = Nodes(t) /\ v.root = t.root /\ v.page = t.page
      /\ \A c \in Nodes(t) : Leaf(v, c) = Leaf(t, c) /\ (c # x /\ c # y => Kids(v, c) = Kids(t, c))
      /\ Len(Kids(v, x)) = Len(Kids(t, x)) + 1 /\ Len(Kids(v, y)) = Len(Kids(t, y)) - 1
      /\ \A i \in 1 .. Len(Kids(t, x)) : \E j \in 1 .. Len(Kids(v, x)) : Kids(v, x)[j] = Kids(t, x)[i]
  BY DEF Shifted
<1>4. \A c \in Nodes(t) : Len(Kids(t, c)) \in Nat /\ c # 0
  BY NodeFields
<1>5. ASSUME NEW c \in Nodes(v)
      PROVE  /\ Len(Kids(v, c)) <= M
             /\ c # v.root => Len(Kids(v, c)) >= IF c = 0 THEN HalfM - 1 ELSE HalfM
             /\ c = v.root /\ ~Leaf(v, c) => Len(Kids(v, c)) >= IF c = 0 THEN 1 ELSE 2
  <2>1. c \in Nodes(t) /\ c # 0 /\ Len(Kids(t, c)) \in Nat
    BY <1>3, <1>4
  <2>2. /\ Len(Kids(t, c)) <= M
        /\ c # t.root => Len(Kids(t, c)) >= IF c = x THEN HalfM - 1 ELSE HalfM
        /\ c = t.root /\ ~Leaf(t, c) => Len(Kids(t, c)) >= IF c = x THEN 1 ELSE 2
    BY <2>1 DEF Roomy
  <2>3. CASE c = x
    BY <1>1, <1>2, <1>3, <2>1, <2>2, <2>3
  <2>4. CASE c = y
    BY <1>1, <1>3, <2>1, <2>2, <2>4
  <2>5. CASE c # x /\ c # y
    BY <1>1, <1>3, <2>1, <2>2, <2>5
  <2>. QED
    BY <2>3, <2>4, <2>5
<1>6. Roomy(v, 0)
  BY <1>5 DEF Roomy
<1>7. CASE Leaf(t, x)
  <2>1. PagesHeld(t, v, x, x)
    BY <1>1, <1>2, <1>3, <1>7 DEF PagesHeld
  <2>. QED
    BY <1>3, <1>6, <1>7, <2>1 DEF LevelKept
<1>8. CASE ~Leaf(t, x)
  <2>1. LeavesKept(t, v)
    BY <1>3, <1>8 DEF LeavesKept
  <2>. QED
    BY <1>3, <1>6, <1>8, <2>1 DEF LevelKept
<1>. QED
  BY <1>7, <1>8

LEMMA MergedRoom ==
  ASSUME NEW r, NEW w, NEW t, NEW lv, NEW lo, NEW nx, NEW loose, NEW p, NEW i, NEW a, NEW b, NEW at, NEW o,
         Good(t, lv, lo, nx, loose, 0), Beside(t, p, i, a, b), UnlinkedTo(r, w, t, p, i, a, b),
         (at = a /\ o = b) \/ (at = b /\ o = a), Roomy(t, at), Lacking(t, at), ~(Len(Kids(t, o)) > HalfM)
  PROVE  /\ LevelKept(t, w, at, a) /\ w.root = t.root
         /\ IF r.more THEN Roomy(w, p) /\ Lacking(w, p) /\ ~Leaf(w, p) ELSE Roomy(w, 0)
<1>1. BesideIs(t, lv, nx, p, i, a, b)
  BY BesideFacts
<1>2. /\ a # b /\ a # p /\ b # p /\ Leaf(t, b) = Leaf(t, a) /\ b # t.root /\ a # t.root
      /\ lv[a] \in Nat /\ lv[p] = lv[a] + 1
  BY <1>1 DEF BesideIs
<1> DEFINE c == Len(Kids(t, a))
<1>3. /\ Apart(w, t, p, i, a, b, c) /\ KidsApart(w, t, p, i, a, b, c)
      /\ r.more = (IF p = t.root THEN Len(Kids(w, p)) = 1 ELSE Len(Kids(w, p)) < HalfM)
  BY DEF UnlinkedTo, Divided
<1>4. /\ t.root = w.root /\ t.page = w.page /\ Nodes(t) = Nodes(w) \union {b} /\ b \notin Nodes(w)
      /\ a \in Nodes(w) /\ p \in Nodes(w) /\ ~Leaf(w, p) /\ Typed(w) /\ Typed(t)
      /\ Len(Kids(w, a)) \in Nat /\ Len(Kids(t, a)) \in Nat /\ Len(Kids(t, b)) \in Nat
      /\ Len(Kids(w, p)) \in Nat /\ Len(Kids(t, p)) \in Nat
      /\ \A x \in Nodes(w) : Leaf(t, x) = Leaf(w, x)
  BY <1>3, ApartFacts
<1>5. \A x \in Nodes(w) : x # a /\ x # p => Kids(t, x) = Kids(w, x)
  BY <1>3 DEF Apart
<1>6. /\ Len(Kids(w, a)) = Len(Kids(t, a)) + Len(Kids(t, b)) /\ Len(Kids(t, p)) = Len(Kids(w, p)) + 1
      /\ (\A j \in 1 .. c : Kids(t, a)[j] = Kids(w, a)[j])
      /\ (\A j \in 1 .. (Len(Kids(w, a)) - c) : Kids(t, b)[j] = Kids(w, a)[c + j])
  BY <1>3, <1>4 DEF KidsApart
<1>7. HalfM \in Nat /\ HalfM >= 2 /\ HalfM + HalfM <= M /\ M \in Nat
  BY HalfIs
<1>8. Len(Kids(t, at)) = IF Leaf(t, a) THEN HalfM ELSE HalfM - 1
  BY <1>2 DEF Lacking
<1>9. Len(Kids(t, o)) = HalfM
  <2>1. o \in Nodes(t) /\ o # t.root /\ o # at
    BY <1>2, <1>4
  <2>2. Len(Kids(t, o)) >= HalfM /\ Len(Kids(t, o)) \in Nat
    BY <1>4, <2>1 DEF Roomy
  <2>. QED
    BY <1>7, <2>2
<1>10. \/ Len(Kids(w, a)) <= M /\ Len(Kids(w, a)) >= HalfM + 1
       \/ ~Leaf(t, a) /\ Len(Kids(w, a)) <= M /\ Len(Kids(w, a)) >= HalfM
  <2>1. Len(Kids(w, a)) = Len(Kids(t, at)) + HalfM
    <3>1. CASE at = a /\ o = b
      BY <1>6, <1>9, <3>1
    <3>2. CASE at = b /\ o = a
      <4>1. Len(Kids(t, a)) = HalfM /\ Len(Kids(t, at)) = Len(Kids(t, b))
        BY <1>9, <3>2
      <4>2. Len(Kids(w, a)) = Len(Kids(t, a)) + Len(Kids(t, b)) /\ Len(Kids(t, b)) \in Nat
        BY <1>4, <1>6
      <4>. QED
        BY <1>7, <4>1, <4>2
    <3>. QED
      BY <3>1, <3>2
  <2>. QED
    BY <1>7, <1>8, <2>1
<1>11. ASSUME NEW x \in Nodes(w), x # p
       PROVE  /\ Len(Kids(w, x)) <= M /\ (x # w.root => Len(Kids(w, x)) >= HalfM)
              /\ (x = w.root /\ ~Leaf(w, x) => Len(Kids(w, x)) >= 2)
  <2>1. CASE x = a
    BY <1>2, <1>4, <1>7, <1>10, <2>1
  <2>2. CASE x # a
    <3>1. x # b /\ x \in Nodes(t) /\ Kids(w, x) = Kids(t, x) /\ Leaf(w, x) = Leaf(t, x)
      BY <1>4, <1>5, <1>11, <2>2
    <3>2. x # at
      BY <2>2, <3>1
    <3>3. /\ Len(Kids(t, x)) <= M /\ (x # t.root => Len(Kids(t, x)) >= HalfM)
          /\ (x = t.root /\ ~Leaf(t, x) => Len(Kids(t, x)) >= 2)
      BY <3>1, <3>2 DEF Roomy
    <3>. QED
      BY <1>4, <3>1, <3>3
  <2>. QED
    BY <2>1, <2>2
<1>12. /\ Len(Kids(t, p)) <= M /\ (p # t.root => Len(Kids(t, p)) >= HalfM)
       /\ (p = t.root => Len(Kids(t, p)) >= 2)
  <2>1. p \in Nodes(t) /\ p # at /\ ~Leaf(t, p)
    BY <1>2, <1>4
  <2>. QED
    BY <2>1 DEF Roomy
<1>. HIDE DEF c
<1>13. p # 0 /\ \A x \in Nodes(w) : x # 0
  BY <1>4, NodeFields
<1>q. /\ Len(Kids(t, p)) \in Nat /\ Len(Kids(w, p)) \in Nat /\ Len(Kids(t, p)) = Len(Kids(w, p)) + 1 /\ w.root = t.root
      /\ r.more = (IF p = t.root THEN Len(Kids(w, p)) = 1 ELSE Len(Kids(w, p)) < HalfM)
  BY <1>3, <1>4, <1>6, Zenon
<1>n. Len(Kids(t, p)) \in Nat /\ Len(Kids(w, p)) \in Nat /\ Len(Kids(t, p)) = Len(Kids(w, p)) + 1
  BY <1>q
<1>14. ASSUME r.more PROVE Roomy(w, p) /\ Lacking(w, p)
  <2>1. /\ Len(Kids(w, p)) <= M
        /\ p # w.root => Len(Kids(w, p)) = HalfM - 1
        /\ p = w.root => Len(Kids(w, p)) = 1
    <3>1. CASE p = t.root
      <4>1. Len(Kids(w, p)) = 1
        BY <1>q, <1>14, <3>1, Zenon
      <4>. QED
        BY <1>q, <1>7, <3>1, <4>1
    <3>2. CASE p # t.root
      <4>1. Len(Kids(w, p)) < HalfM
        BY <1>q, <1>14, <3>2, Zenon
      <4>. QED
        BY <1>q, <1>7, <1>12, <3>2, <4>1
    <3>. QED
      BY <3>1, <3>2
  <2>2. Lacking(w, p)
    BY <1>4, <2>1 DEF Lacking
  <2>3. Roomy(w, p)
    <3>1. ASSUME NEW x \in Nodes(w)
          PROVE  /\ Len(Kids(w, x)) <= M
                 /\ x # w.root => Len(Kids(w, x)) >= IF x = p THEN HalfM - 1 ELSE HalfM
                 /\ x = w.root /\ ~Leaf(w, x) => Len(Kids(w, x)) >= IF x = p THEN 1 ELSE 2
      <4>1. CASE x = p
        <5>1. CASE p = w.root
          <6>1. x = w.root /\ Len(Kids(w, x)) = 1 /\ Len(Kids(w, x)) <= M
            BY <2>1, <4>1, <5>1, Zenon
          <6>2. 1 >= 1
            OBVIOUS
          <6>. QED
            BY <4>1, <6>1, <6>2, Zenon
        <5>2. CASE p # w.root
          BY <1>7, <2>1, <4>1, <5>2
        <5>. QED
          BY <5>1, <5>2
      <4>2. CASE x # p
        BY <1>11, <4>2
      <4>. QED
        BY <4>1, <4>2
    <3>. QED
      BY <3>1 DEF Roomy
  <2>. QED
    BY <2>2, <2>3
<1>15. ASSUME ~r.more PROVE Roomy(w, 0)
  <2>1. /\ Len(Kids(w, p)) <= M
        /\ p # w.root => Len(Kids(w, p)) >= HalfM
        /\ p = w.root => Len(Kids(w, p)) >= 2
    <3>1. CASE p = t.root
      <4>1. Len(Kids(w, p)) # 1
        BY <1>q, <1>15, <3>1, Zenon
      <4>. QED
        <5>1. Len(Kids(t, p)) >= 2 /\ Len(Kids(t, p)) <= M
          BY <1>12, <3>1, Zenon
        <5>2. Len(Kids(w, p)) >= 2 /\ Len(Kids(w, p)) <= M
          <6>1. \A x, y \in Nat : y = x + 1 /\ x # 1 /\ y >= 2 /\ y <= M => x >= 2 /\ x <= M
            BY <1>7
          <6>. QED
            BY <1>n, <4>1, <5>1, <6>1
        <5>. QED
          BY <1>q, <3>1, <5>2, Zenon
    <3>2. CASE p # t.root
      <4>1. ~(Len(Kids(w, p)) < HalfM)
        BY <1>q, <1>15, <3>2, Zenon
      <4>. QED
        BY <1>q, <1>7, <1>12, <3>2, <4>1
    <3>. QED
      BY <3>1, <3>2
  <2>2. Roomy(w, 0)
    <3>1. ASSUME NEW x \in Nodes(w)
          PROVE  /\ Len(Kids(w, x)) <= M
                 /\ x # w.root => Len(Kids(w, x)) >= IF x = 0 THEN HalfM - 1 ELSE HalfM
                 /\ x = w.root /\ ~Leaf(w, x) => Len(Kids(w, x)) >= IF x = 0 THEN 1 ELSE 2
      <4>0. x # 0
        BY <1>13
      <4>1. CASE x = p
        BY <2>1, <4>0, <4>1
      <4>2. CASE x # p
        BY <1>11, <4>0, <4>2
      <4>. QED
        BY <4>1, <4>2
    <3>. QED
      BY <3>1 DEF Roomy
  <2>. QED
    BY <2>2
<1>16. LevelKept(t, w, at, a)
  <2>1. CASE Leaf(t, a)
    <3>1. Leaf(w, a) /\ Len(Kids(w, a)) >= HalfM + 1
      BY <1>4, <1>10, <2>1
    <3>2. ASSUME NEW j \in 1 .. Len(Kids(t, at)) PROVE \E m \in 1 .. Len(Kids(w, a)) : Kids(w, a)[m] = Kids(t, at)[j]
      <4>1. CASE at = a
        <5>1. j \in 1 .. Len(Kids(w, a)) /\ j \in 1 .. c
          BY <1>4, <1>6, <4>1 DEF c
        <5>. QED
          BY <1>6, <4>1, <5>1
      <4>2. CASE at = b
        <5>1. c + j \in 1 .. Len(Kids(w, a)) /\ j \in 1 .. (Len(Kids(w, a)) - c)
          BY <1>4, <1>6, <4>2 DEF c
        <5>. QED
          BY <1>6, <4>2, <5>1
      <4>. QED
        BY <4>1, <4>2
    <3>3. PagesHeld(t, w, at, a)
      BY <1>4, <3>1, <3>2 DEF PagesHeld
    <3>. QED
      BY <1>2, <1>4, <2>1, <3>3 DEF LevelKept
  <2>2. CASE ~Leaf(t, a)
    <3>1. ASSUME NEW x \in Nodes(t), Leaf(t, x) PROVE x \in Nodes(w) /\ Leaf(w, x) /\ Kids(w, x) = Kids(t, x)
      <4>1. x # a /\ x # b /\ x # p
        BY <1>2, <1>4, <2>2, <3>1
      <4>. QED
        BY <1>4, <1>5, <3>1, <4>1
    <3>2. LeavesKept(t, w)
      BY <3>1 DEF LeavesKept
    <3>. QED
      BY <1>2, <1>4, <2>2, <3>2 DEF LevelKept
  <2>. QED
    BY <2>1, <2>2
<1>. QED
  BY <1>4, <1>14, <1>15, <1>16

LEMMA CollapsedRoom ==
  ASSUME NEW t, NEW v, NEW lv, NEW lo, NEW nx, NEW loose, NEW c,
         Good(t, lv, lo, nx, loose, 0), Roomy(t, t.root), ~Leaf(t, t.root), Len(Kids(t, t.root)) = 1,
         c = Kids(t, t.root)[1], RootedBelow(t, v, c)
  PROVE  Roomy(v, 0) /\ LevelKept(t, v, t.root, t.root)
<1>1. /\ Typed(v) /\ Nodes(v) = Nodes(t) \ {t.root} /\ v.root = c /\ v.page = t.page
      /\ \A x \in Nodes(v) : x \in Nodes(t) /\ x # t.root /\ Leaf(v, x) = Leaf(t, x) /\ Kids(v, x) = Kids(t, x)
  BY DEF RootedBelow
<1>2. HalfM \in Nat /\ HalfM >= 2
  BY HalfIs
<1>3. ASSUME NEW x \in Nodes(v)
      PROVE  /\ Len(Kids(v, x)) <= M
             /\ x # v.root => Len(Kids(v, x)) >= IF x = 0 THEN HalfM - 1 ELSE HalfM
             /\ x = v.root /\ ~Leaf(v, x) => Len(Kids(v, x)) >= IF x = 0 THEN 1 ELSE 2
  <2>1. Len(Kids(t, x)) <= M /\ Len(Kids(t, x)) >= HalfM /\ Kids(v, x) = Kids(t, x)
    BY <1>1 DEF Roomy
  <2>2. Len(Kids(v, x)) \in Nat /\ x # 0
    BY <1>1, NodeFields
  <2>. QED
    BY <1>2, <2>1, <2>2
<1>4. Roomy(v, 0)
  BY <1>3 DEF Roomy
<1>5. LeavesKept(t, v)
  BY <1>1 DEF LeavesKept
<1>. QED
  BY <1>1, <1>4, <1>5 DEF LevelKept

\* What a level of rebalancing the node at a of t leaves: the tree v, but for
\* the node it goes on to, if there is more to do.
LevelDone(r, t, v, lv, lo, nx, loose, a, to) ==
  /\ r = [tree |-> r.tree, node |-> r.node, at |-> r.at, more |-> r.more] /\ r.more \in BOOLEAN
  /\ Good(v, lv, lo, nx, loose, 0) /\ LevelKept(t, v, a, to)
  /\ r.more => /\ Pending(r.tree, v, r.at, r.node) /\ lv[r.at] = lv[a] + 1 /\ v.root = t.root
               /\ Roomy(v, r.at) /\ Lacking(v, r.at) /\ ~Leaf(v, r.at)
  /\ ~r.more => r.tree = v /\ Roomy(v, 0)

LEMMA LevelEnds ==
  ASSUME NEW t, NEW v, NEW lv, NEW lo, NEW nx, NEW loose, NEW a, NEW to, NEW n, NEW x,
         Good(v, lv, lo, nx, loose, 0), LevelKept(t, v, a, to), Roomy(v, 0)
  PROVE  LevelDone([tree |-> v, node |-> n, at |-> x, more |-> FALSE], t, v, lv, lo, nx, loose, a, to)
BY DEF LevelDone

LEMMA CollapseLevel ==
  ASSUME NEW z, NEW t, NEW n, NEW a, NEW lv, NEW lo, NEW nx, NEW loose, NEW s, NEW to,
         Good(t, lv, lo, nx, loose, 0), Roomy(t, a), Pending(z, t, a, n), Lacking(t, a), a = t.root,
         s = [tree |-> z, node |-> n, at |-> a, more |-> TRUE]
  PROVE  \E v, lo2, nx2 : LevelDone(RebalanceLevel(s), t, v, lv, lo2, nx2, loose, a, to)
<1>1. ~Leaf(t, a) /\ Len(Kids(t, a)) = 1 /\ a \in Nodes(t)
  BY DEF Lacking
<1>2. n = t.node[a] /\ z.root = t.root
  BY DEF Pending
<1>3. Typed(t) /\ Parents(t) /\ Children(t, lv)
  BY DEF Good
<1> DEFINE c == Kids(t, a)[1]
           v == CollapseRoot(z, n)
<1>4. 1 \in 1 .. Len(Kids(t, a))
  BY <1>1
<1>5. c \in Nodes(t) /\ c # t.root
  BY <1>1, <1>3, <1>4, RootIsNoChild, SMTT(30) DEF Children
<1>6. Len(n.kids) >= 1 /\ c = n.kids[1] /\ ~n.leaf /\ Len(n.kids) = 1
  <2>1. n.kids = Kids(t, a) /\ n.leaf = Leaf(t, a)
    BY <1>2 DEF Kids, Leaf
  <2>. QED
    BY <1>1, <2>1
<1>7. RebalanceLevel(s) = Done(v, s)
  BY <1>2, <1>6 DEF RebalanceLevel
<1>8. Done(v, s) = [tree |-> v, node |-> s.node, at |-> s.at, more |-> FALSE]
  BY DEF Done
<1>. HIDE DEF v, c
<1>9. RootedBelow(t, v, c)
  BY <1>3, <1>5, <1>6, CollapseFacts DEF v
<1>10. Good(v, lv, lo, nx, loose, 0)
  BY <1>1, <1>9, CollapseKeeps DEF c
<1>11. Roomy(v, 0) /\ LevelKept(t, v, a, t.root)
  BY <1>1, <1>9, CollapsedRoom DEF c
<1>12. LevelKept(t, v, a, to)
  BY <1>1, <1>11 DEF LevelKept
<1>13. LevelDone(RebalanceLevel(s), t, v, lv, lo, nx, loose, a, to)
  BY <1>7, <1>8, <1>10, <1>11, <1>12, LevelEnds
<1>. QED
  BY <1>13

\* The parent is not rebalanced when a child has borrowed.
LEMMA AfterBorrowIs ==
  ASSUME NEW t, NEW v, NEW lv, NEW p, NEW a, Typed(t), Parents(t), Roomy(t, a), p \in Nodes(t), p # a
  PROVE  AfterBorrow(v, t.node[p], p) = [tree |-> v, node |-> t.node[p], at |-> p, more |-> FALSE]
<1>1. HalfM \in Nat /\ Len(Kids(t, p)) \in Nat
  BY HalfIs, NodeFields
<1>2. p # t.root => Len(Kids(t, p)) >= HalfM
  BY DEF Roomy
<1>3. p = t.root => IsRoot(t.node[p])
  BY DEF Parents, IsRoot, Up
<1>4. (Len(t.node[p].kids) < HalfM /\ ~IsRoot(t.node[p])) = FALSE
  <2>1. CASE p = t.root
    BY <1>3, <2>1
  <2>2. CASE p # t.root
    <3>1. ~(Len(Kids(t, p)) < HalfM)
      BY <1>1, <1>2, <2>2
    <3>. QED
      BY <3>1 DEF Kids
  <2>. QED
    BY <2>1, <2>2
<1>. QED
  BY <1>4 DEF AfterBorrow

LEMMA BorrowNextLevel ==
  ASSUME NEW z, NEW t, NEW n, NEW a, NEW lv, NEW lo, NEW nx, NEW loose, NEW s, NEW p, NEW i, NEW b,
         Good(t, lv, lo, nx, loose, 0), Roomy(t, a), Pending(z, t, a, n), Lacking(t, a), a # t.root,
         s = [tree |-> z, node |-> n, at |-> a, more |-> TRUE],
         Beside(t, p, i, a, b), NextSibling(z, n, a) = b, CanBorrow(z, n, b)
  PROVE  \E v, lo2, nx2 : LevelDone(RebalanceLevel(s), t, v, lv, lo2, nx2, loose, a, a)
<1>1. BesideIs(t, lv, nx, p, i, a, b)
  BY BesideFacts
<1>2. a # b /\ a # p /\ b # p /\ Leaf(t, a) = Leaf(t, b) /\ Up(t, a) = p /\ b # t.root
  BY <1>1 DEF BesideIs
<1>3. Typed(t) /\ Parents(t) /\ a \in Nodes(t) /\ b \in Nodes(t) /\ p \in Nodes(t)
  BY DEF Good, Beside
<1>4. n = t.node[a] /\ z.root = t.root /\ z.node[b] = t.node[b] /\ z.node[p] = t.node[p] /\ n.parent = p /\ n.leaf = Leaf(t, a)
  BY <1>2, <1>3 DEF Pending, Up, Leaf
<1>5. Len(Kids(t, b)) > HalfM /\ Len(Kids(t, b)) >= 2
  <2>1. Len(Kids(t, b)) > HalfM
    BY <1>4 DEF CanBorrow, Kids
  <2>2. Len(Kids(t, b)) \in Nat /\ HalfM \in Nat /\ HalfM >= 2
    BY <1>3, NodeFields, HalfIs
  <2>. QED
    BY <2>1, <2>2
<1>6. ASSUME NEW v, MovedNext(t, v, p, i, a, b)
      PROVE  \E lo2 : Good(v, lv, lo2, nx, loose, 0) /\ Roomy(v, 0) /\ LevelKept(t, v, a, a)
  <2>1. PICK lo2 : Good(v, lv, lo2, nx, loose, 0)
    BY <1>5, <1>6, MovedNextKeeps
  <2>2. Shifted(t, v, a, b)
    BY <1>6, ShiftedNext
  <2>3. Roomy(v, 0) /\ LevelKept(t, v, a, a)
    BY <1>2, <1>3, <1>5, <2>2, ShiftedRoom
  <2>. QED
    BY <2>1, <2>3
<1>7. CASE Leaf(t, a)
  <2> DEFINE v == BorrowNext(z, n, a, b)
  <2>1. RebalanceLevel(s) = AfterBorrow(v, z.node[p], p)
    BY <1>4, <1>7 DEF RebalanceLevel
  <2>2. MovedNext(t, v, p, i, a, b)
    BY <1>7, BorrowNextIs
  <2>. HIDE DEF v
  <2>3. AfterBorrow(v, z.node[p], p) = [tree |-> v, node |-> t.node[p], at |-> p, more |-> FALSE]
    BY <1>2, <1>3, <1>4, AfterBorrowIs
  <2>4. PICK lo2 : Good(v, lv, lo2, nx, loose, 0) /\ Roomy(v, 0) /\ LevelKept(t, v, a, a)
    BY <1>6, <2>2
  <2>5. LevelDone([tree |-> v, node |-> t.node[p], at |-> p, more |-> FALSE], t, v, lv, lo2, nx, loose, a, a)
    BY <2>4, LevelEnds
  <2>. QED
    BY <2>1, <2>3, <2>5, Zenon
<1>8. CASE ~Leaf(t, a)
  <2> DEFINE v == BorrowNextThroughParent(z, n, a, b)
  <2>1. RebalanceLevel(s) = Done(v, s)
    BY <1>4, <1>8 DEF RebalanceLevel
  <2>2. MovedNext(t, v, p, i, a, b)
    BY <1>5, <1>8, BorrowNextThroughIs
  <2>. HIDE DEF v
  <2>3. Done(v, s) = [tree |-> v, node |-> s.node, at |-> s.at, more |-> FALSE]
    BY DEF Done
  <2>4. PICK lo2 : Good(v, lv, lo2, nx, loose, 0) /\ Roomy(v, 0) /\ LevelKept(t, v, a, a)
    BY <1>6, <2>2
  <2>5. LevelDone([tree |-> v, node |-> s.node, at |-> s.at, more |-> FALSE], t, v, lv, lo2, nx, loose, a, a)
    BY <2>4, LevelEnds
  <2>. QED
    BY <2>1, <2>3, <2>5, Zenon
<1>. QED
  BY <1>7, <1>8

LEMMA BorrowPrevLevel ==
  ASSUME NEW z, NEW t, NEW n, NEW b, NEW lv, NEW lo, NEW nx, NEW loose, NEW s, NEW p, NEW i, NEW a,
         Good(t, lv, lo, nx, loose, 0), Roomy(t, b), Pending(z, t, b, n), Lacking(t, b), b # t.root,
         s = [tree |-> z, node |-> n, at |-> b, more |-> TRUE],
         Beside(t, p, i, a, b), PrevSibling(z, n, b) = a, CanBorrow(z, n, a), ~CanBorrow(z, n, NextSibling(z, n, b))
  PROVE  \E v, lo2, nx2 : LevelDone(RebalanceLevel(s), t, v, lv, lo2, nx2, loose, b, b)
<1>1. BesideIs(t, lv, nx, p, i, a, b)
  BY BesideFacts
<1>2. a # b /\ a # p /\ b # p /\ Leaf(t, a) = Leaf(t, b) /\ Up(t, b) = p /\ a # t.root
  BY <1>1 DEF BesideIs
<1>3. Typed(t) /\ Parents(t) /\ a \in Nodes(t) /\ b \in Nodes(t) /\ p \in Nodes(t)
  BY DEF Good, Beside
<1>4. n = t.node[b] /\ z.root = t.root /\ z.node[a] = t.node[a] /\ z.node[p] = t.node[p] /\ n.parent = p /\ n.leaf = Leaf(t, a)
  BY <1>2, <1>3 DEF Pending, Up, Leaf
<1>5. Len(Kids(t, a)) > HalfM /\ Len(Kids(t, a)) >= 2
  <2>1. Len(Kids(t, a)) > HalfM
    BY <1>4 DEF CanBorrow, Kids
  <2>2. Len(Kids(t, a)) \in Nat /\ HalfM \in Nat /\ HalfM >= 2
    BY <1>3, NodeFields, HalfIs
  <2>. QED
    BY <2>1, <2>2
<1>6. ASSUME NEW v, MovedPrev(t, v, p, i, a, b)
      PROVE  \E lo2 : Good(v, lv, lo2, nx, loose, 0) /\ Roomy(v, 0) /\ LevelKept(t, v, b, b)
  <2>1. PICK lo2 : Good(v, lv, lo2, nx, loose, 0)
    BY <1>5, <1>6, MovedPrevKeeps
  <2>2. Shifted(t, v, b, a)
    BY <1>6, ShiftedPrev
  <2>3. Roomy(v, 0) /\ LevelKept(t, v, b, b)
    BY <1>2, <1>3, <1>5, <2>2, ShiftedRoom
  <2>. QED
    BY <2>1, <2>3
<1>7. CASE Leaf(t, a)
  <2> DEFINE v == BorrowPrev(z, n, b, a)
  <2>1. RebalanceLevel(s) = AfterBorrow(v, z.node[p], p)
    BY <1>4, <1>7 DEF RebalanceLevel
  <2>2. MovedPrev(t, v, p, i, a, b)
    BY <1>5, <1>7, BorrowPrevIs
  <2>. HIDE DEF v
  <2>3. AfterBorrow(v, z.node[p], p) = [tree |-> v, node |-> t.node[p], at |-> p, more |-> FALSE]
    BY <1>2, <1>3, <1>4, AfterBorrowIs
  <2>4. PICK lo2 : Good(v, lv, lo2, nx, loose, 0) /\ Roomy(v, 0) /\ LevelKept(t, v, b, b)
    BY <1>6, <2>2
  <2>5. LevelDone([tree |-> v, node |-> t.node[p], at |-> p, more |-> FALSE], t, v, lv, lo2, nx, loose, b, b)
    BY <2>4, LevelEnds
  <2>. QED
    BY <2>1, <2>3, <2>5, Zenon
<1>8. CASE ~Leaf(t, a)
  <2> DEFINE v == BorrowPrevThroughParent(z, n, b, a)
  <2>1. RebalanceLevel(s) = Done(v, s)
    BY <1>4, <1>8 DEF RebalanceLevel
  <2>2. MovedPrev(t, v, p, i, a, b)
    BY <1>5, <1>8, BorrowPrevThroughIs
  <2>. HIDE DEF v
  <2>3. Done(v, s) = [tree |-> v, node |-> s.node, at |-> s.at, more |-> FALSE]
    BY DEF Done
  <2>4. PICK lo2 : Good(v, lv, lo2, nx, loose, 0) /\ Roomy(v, 0) /\ LevelKept(t, v, b, b)
    BY <1>6, <2>2
  <2>5. LevelDone([tree |-> v, node |-> s.node, at |-> s.at, more |-> FALSE], t, v, lv, lo2, nx, loose, b, b)
    BY <2>4, LevelEnds
  <2>. QED
    BY <2>1, <2>3, <2>5, Zenon
<1>. QED
  BY <1>7, <1>8

LeafTo(t, n, a) ==
  IF CanBorrow(t, n, NextSibling(t, n, a)) \/ CanBorrow(t, n, PrevSibling(t, n, a)) THEN a ELSE MergePair(t, n, a).to

\* The node that would merge with the one at "at" has nothing to lend.
LEMMA MergePartner ==
  ASSUME NEW z, NEW t, NEW at, NEW n, NEW lv, NEW lo, NEW nx, NEW loose, NEW p, NEW j, NEW i, NEW a, NEW b,
         Good(t, lv, lo, nx, loose, 0), Pending(z, t, at, n), SiblingsAre(z, t, at, n, p, j),
         Beside(t, p, i, a, b), at \in {a, b}, IF j > 1 THEN b = at ELSE a = at,
         ~CanBorrow(z, n, NextSibling(z, n, at)), ~CanBorrow(z, n, PrevSibling(z, n, at))
  PROVE  \E o : ((at = a /\ o = b) \/ (at = b /\ o = a)) /\ ~(Len(Kids(t, o)) > HalfM)
<1>1. BesideIs(t, lv, nx, p, i, a, b)
  BY BesideFacts
<1>2. a # b /\ Up(t, a) = p /\ Up(t, b) = p /\ i \in 1 .. Len(Kids(t, p)) /\ i + 1 \in 1 .. Len(Kids(t, p)) /\ Len(Kids(t, p)) \in Nat
  BY <1>1 DEF BesideIs
<1>3. Typed(t) /\ Arrays(t) /\ a \in Nodes(t) /\ b \in Nodes(t) /\ p \in Nodes(t) /\ Kids(t, p)[i] = a /\ Kids(t, p)[i + 1] = b
  BY DEF Good, Beside
<1>4. /\ j \in 1 .. Len(Kids(t, p)) /\ Kids(t, p)[j] = at /\ n.parent = p
      /\ NextSibling(z, n, at) = (IF j < Len(Kids(t, p)) THEN Kids(t, p)[j + 1] ELSE 0)
      /\ PrevSibling(z, n, at) = (IF j > 1 THEN Kids(t, p)[j - 1] ELSE 0)
  BY DEF SiblingsAre
<1>5. \A x, y \in 1 .. Len(Kids(t, p)) : Kids(t, p)[x] = Kids(t, p)[y] => x = y
  BY <1>3 DEF Arrays
<1>6. ASSUME NEW o \in {a, b}, o # at, ~CanBorrow(z, n, o) PROVE ~(Len(Kids(t, o)) > HalfM)
  <2>1. z.node[o] = t.node[o] /\ o \in Nodes(t) /\ Up(t, o) = p
    BY <1>2, <1>3, <1>6 DEF Pending
  <2>2. o # 0
    BY <1>3, <2>1, NodeFields
  <2>. QED
    BY <1>4, <1>6, <2>1, <2>2 DEF CanBorrow, Up, Kids
<1>7. CASE j > 1
  <2>1. j = i + 1 /\ j - 1 = i
    BY <1>2, <1>3, <1>4, <1>5, <1>7
  <2>2. PrevSibling(z, n, at) = a
    BY <1>3, <1>4, <1>7, <2>1
  <2>3. ~(Len(Kids(t, a)) > HalfM)
    BY <1>2, <1>6, <1>7, <2>2
  <2>. QED
    BY <1>7, <2>3
<1>8. CASE ~(j > 1)
  <2>1. j = i /\ j < Len(Kids(t, p))
    BY <1>2, <1>3, <1>4, <1>5, <1>8
  <2>2. NextSibling(z, n, at) = b
    BY <1>3, <1>4, <2>1
  <2>3. ~(Len(Kids(t, b)) > HalfM)
    BY <1>2, <1>6, <1>8, <2>2
  <2>. QED
    BY <1>8, <2>3
<1>. QED
  BY <1>7, <1>8

LEMMA MergeLevel ==
  ASSUME NEW z, NEW t, NEW n, NEW at, NEW lv, NEW lo, NEW nx, NEW loose, NEW s, NEW p, NEW j,
         Good(t, lv, lo, nx, loose, 0), Roomy(t, at), Pending(z, t, at, n), Lacking(t, at), at # t.root,
         s = [tree |-> z, node |-> n, at |-> at, more |-> TRUE], SiblingsAre(z, t, at, n, p, j),
         ~CanBorrow(z, n, NextSibling(z, n, at)), ~CanBorrow(z, n, PrevSibling(z, n, at))
  PROVE  \E v, lo2, nx2 : LevelDone(RebalanceLevel(s), t, v, lv, lo2, nx2, loose, at, MergePair(z, n, at).to)
<1>1. /\ p \in Nodes(t) /\ ~Leaf(t, p) /\ n.parent = p /\ j \in 1 .. Len(Kids(t, p)) /\ Kids(t, p)[j] = at /\ Len(Kids(t, p)) \in Nat
  BY DEF SiblingsAre
<1>2. Typed(t) /\ Children(t, lv) /\ Levels(t, lv) /\ at \in Nodes(t)
  BY DEF Good, Lacking
<1>3. p # at
  <2>1. lv[p] = lv[at] + 1 /\ lv[at] \in Nat
    BY <1>1, <1>2 DEF Children, Levels
  <2>. QED
    BY <2>1
<1>4. Len(Kids(t, p)) >= 2
  <2>1. HalfM \in Nat /\ HalfM >= 2
    BY HalfIs
  <2>2. (p # t.root => Len(Kids(t, p)) >= HalfM) /\ (p = t.root => Len(Kids(t, p)) >= 2)
    BY <1>1, <1>3 DEF Roomy
  <2>3. CASE p = t.root
    BY <2>2, <2>3
  <2>4. CASE p # t.root
    <3>1. Len(Kids(t, p)) >= HalfM
      BY <2>2, <2>4
    <3>. QED
      BY <1>1, <2>1, <3>1
  <2>. QED
    BY <2>3, <2>4
<1>5. PICK i, a, b, k, m : /\ Beside(t, p, i, a, b) /\ at \in {a, b} /\ Merging(z, t, at, n, p, i, a, b, k, m)
                           /\ (IF j > 1 THEN b = at ELSE a = at)
  BY <1>4, MergingPair
<1>6. PICK o : ((at = a /\ o = b) \/ (at = b /\ o = a)) /\ ~(Len(Kids(t, o)) > HalfM)
  BY <1>5, MergePartner
<1> DEFINE r == Unlink(MergeInto(z, n, at), p)
<1>7. PICK w : UnlinkedTo(r, w, t, p, i, a, b)
  BY <1>5, Unlinks
<1>8. RebalanceLevel(s) = r
  <2>1. at # z.root
    BY DEF Pending
  <2>. QED
    BY <1>1, <2>1 DEF RebalanceLevel
<1>. HIDE DEF r
<1>9. MergePair(z, n, at).to = a
  BY <1>5 DEF Merging
<1>10. /\ LevelKept(t, w, at, a) /\ w.root = t.root
       /\ IF r.more THEN Roomy(w, p) /\ Lacking(w, p) /\ ~Leaf(w, p) ELSE Roomy(w, 0)
  BY <1>5, <1>6, <1>7, MergedRoom
<1>11. BesideIs(t, lv, nx, p, i, a, b)
  BY <1>5, BesideFacts
<1>12. lv[p] = lv[at] + 1
  BY <1>1, <1>2 DEF Children
<1> DEFINE nx1 == [x \in Nodes(w) |-> IF x = a THEN nx[b] ELSE nx[x]]
<1>13. Divided(w, t, p, i, a, b, Len(Kids(t, a)), Keys(t, p)[i]) /\ Rejoined(w, a, Len(Kids(t, a)))
  BY <1>7 DEF UnlinkedTo
<1>14. Good(w, lv, lo, nx1, loose, 0)
  <2>1. a \in Nodes(w)
    BY <1>13 DEF Divided, Apart
  <2>2. FollowingJoin(w, nx, nx1, a, b)
    BY <2>1 DEF FollowingJoin
  <2>3. \A x \in Nodes(w) : lv[x] = lv[x] /\ lo[x] = lo[x]
    OBVIOUS
  <2>. HIDE DEF nx1
  <2>. QED
    BY <1>13, <2>2, <2>3, JoinKeeps
<1>. HIDE DEF nx1
<1>15. /\ r = [tree |-> r.tree, node |-> r.node, at |-> p, more |-> r.more]
       /\ r.more = (IF p = t.root THEN Len(Kids(w, p)) = 1 ELSE Len(Kids(w, p)) < HalfM)
       /\ IF r.more THEN Pending(r.tree, w, p, r.node) ELSE r.tree = w
  BY <1>7 DEF UnlinkedTo
<1>16. r.more \in BOOLEAN /\ r.at = p
  <2>1. r = [tree |-> r.tree, node |-> r.node, at |-> p, more |-> r.more]
    BY <1>15
  <2>2. [tree |-> r.tree, node |-> r.node, at |-> p, more |-> r.more].at = p
    OBVIOUS
  <2>3. r.at = p
    BY <2>1, <2>2, Zenon
  <2>4. r.more = (IF p = t.root THEN Len(Kids(w, p)) = 1 ELSE Len(Kids(w, p)) < HalfM)
    BY <1>15
  <2>5. (Len(Kids(w, p)) = 1) \in BOOLEAN /\ (Len(Kids(w, p)) < HalfM) \in BOOLEAN
    OBVIOUS
  <2>6. (IF p = t.root THEN Len(Kids(w, p)) = 1 ELSE Len(Kids(w, p)) < HalfM) \in BOOLEAN
    BY <2>5, Zenon
  <2>7. r.more \in BOOLEAN
    BY <2>4, <2>6, Zenon
  <2>. QED
    BY <2>3, <2>7
<1>17. r = [tree |-> r.tree, node |-> r.node, at |-> r.at, more |-> r.more]
  BY <1>15, <1>16, Zenon
<1>18. LevelDone(r, t, w, lv, lo, nx1, loose, at, a)
  BY <1>10, <1>12, <1>14, <1>15, <1>16, <1>17, Zenon DEF LevelDone
<1>. QED
  BY <1>8, <1>9, <1>18

LEMMA LevelStep ==
  ASSUME NEW z, NEW t, NEW n, NEW a, NEW lv, NEW lo, NEW nx, NEW loose, NEW s,
         Good(t, lv, lo, nx, loose, 0), Roomy(t, a), Pending(z, t, a, n), Lacking(t, a),
         s = [tree |-> z, node |-> n, at |-> a, more |-> TRUE]
  PROVE  \E v, lo2, nx2 : LevelDone(RebalanceLevel(s), t, v, lv, lo2, nx2, loose, a, LeafTo(z, n, a))
<1>1. CASE a = t.root
  BY <1>1, CollapseLevel
<1>2. CASE a # t.root
  <2> DEFINE p == Up(t, a)
             i == Position(Kids(t, p), a)
  <2>1. SiblingsAre(z, t, a, n, p, i)
    BY <1>2, SiblingsFound
  <2>. HIDE DEF p, i
  <2>2. /\ NextSibling(z, n, a) = (IF i < Len(Kids(t, p)) THEN Kids(t, p)[i + 1] ELSE 0)
        /\ PrevSibling(z, n, a) = (IF i > 1 THEN Kids(t, p)[i - 1] ELSE 0)
        /\ (i < Len(Kids(t, p)) => Beside(t, p, i, a, Kids(t, p)[i + 1]))
        /\ (i > 1 => Beside(t, p, i - 1, Kids(t, p)[i - 1], a))
    BY <2>1 DEF SiblingsAre
  <2>3. CASE CanBorrow(z, n, NextSibling(z, n, a))
    <3>1. LeafTo(z, n, a) = a
      BY <2>3 DEF LeafTo
    <3>2. NextSibling(z, n, a) # 0
      BY <2>3 DEF CanBorrow
    <3>3. \E b : NextSibling(z, n, a) = b /\ Beside(t, p, i, a, b) /\ CanBorrow(z, n, b)
      BY <2>2, <2>3, <3>2
    <3>4. PICK b : NextSibling(z, n, a) = b /\ Beside(t, p, i, a, b) /\ CanBorrow(z, n, b)
      BY <3>3
    <3>. QED
      BY <1>2, <3>1, <3>4, BorrowNextLevel
  <2>4. CASE ~CanBorrow(z, n, NextSibling(z, n, a)) /\ CanBorrow(z, n, PrevSibling(z, n, a))
    <3>1. LeafTo(z, n, a) = a
      BY <2>4 DEF LeafTo
    <3>2. PrevSibling(z, n, a) # 0
      BY <2>4 DEF CanBorrow
    <3>3. \E b : PrevSibling(z, n, a) = b /\ Beside(t, p, i - 1, b, a) /\ CanBorrow(z, n, b)
      BY <2>2, <2>4, <3>2
    <3>4. PICK b : PrevSibling(z, n, a) = b /\ Beside(t, p, i - 1, b, a) /\ CanBorrow(z, n, b)
      BY <3>3
    <3>. QED
      BY <1>2, <2>4, <3>1, <3>4, BorrowPrevLevel
  <2>5. CASE ~CanBorrow(z, n, NextSibling(z, n, a)) /\ ~CanBorrow(z, n, PrevSibling(z, n, a))
    <3>1. LeafTo(z, n, a) = MergePair(z, n, a).to
      BY <2>5 DEF LeafTo
    <3>. QED
      BY <1>2, <2>1, <2>5, <3>1, MergeLevel
  <2>. QED
    BY <2>3, <2>4, <2>5
<1>. QED
  BY <1>1, <1>2

\* The rounds of balanceTreeDelete for the leaf at a of t: s is where the climb
\* stands, at height h.
Climbing(s, t, v, lv, lo, nx, loose, a, to, h) ==
  /\ s = [tree |-> s.tree, node |-> s.node, at |-> s.at, more |-> s.more] /\ s.more \in BOOLEAN
  /\ Good(v, lv, lo, nx, loose, 0) /\ v.page = t.page /\ PagesHeld(t, v, a, to)
  /\ s.more => /\ Pending(s.tree, v, s.at, s.node) /\ lv[s.at] = h /\ v.root = t.root
               /\ Roomy(v, s.at) /\ Lacking(v, s.at) /\ ~Leaf(v, s.at)
  /\ ~s.more => s.tree = v /\ Roomy(v, 0)

ClimbAt(s, t, lv, loose, a, to, h) == \E v, lo, nx : Climbing(s, t, v, lv, lo, nx, loose, a, to, h)

LEMMA KeptFurther ==
  ASSUME NEW t, NEW v, NEW w, NEW a, NEW to, PagesHeld(t, v, a, to), LeavesKept(v, w)
  PROVE  PagesHeld(t, w, a, to)
<1>1. to \in Nodes(w) /\ Leaf(w, to) /\ Kids(w, to) = Kids(v, to)
  BY DEF PagesHeld, LeavesKept
<1>. QED
  BY <1>1, Zenon DEF PagesHeld

LEMMA RoomyFor ==
  ASSUME NEW t, NEW a, Typed(t), Roomy(t, 0), a \in Nodes(t), a # t.root
  PROVE  Roomy(t, a)
<1>1. \A x \in Nodes(t) : x # 0 /\ Len(Kids(t, x)) \in Nat
  BY NodeFields
<1>2. HalfM \in Nat
  BY HalfIs
<1>3. \A x \in Nodes(t) : /\ Len(Kids(t, x)) <= M
                          /\ x # t.root => Len(Kids(t, x)) >= HalfM
                          /\ x = t.root /\ ~Leaf(t, x) => Len(Kids(t, x)) >= 2
  BY <1>1 DEF Roomy
<1>. QED
  BY <1>1, <1>2, <1>3 DEF Roomy

LEMMA ClimbStarts ==
  ASSUME NEW t, NEW a, NEW lv, NEW lo, NEW nx, NEW loose, NEW s, NEW to,
         Good(t, lv, lo, nx, loose, 0), Roomy(t, 0), a \in Nodes(t), Leaf(t, a), a # t.root, Len(Kids(t, a)) = HalfM,
         s = [tree |-> t, node |-> t.node[a], at |-> a, more |-> TRUE], to = LeafTo(t, t.node[a], a)
  PROVE  ClimbAt(RebalanceLevel(s), t, lv, loose, a, to, 1)
<1>1. Typed(t) /\ Levels(t, lv)
  BY DEF Good
<1>2. Pending(t, t, a, t.node[a])
  BY <1>1 DEF Pending, Typed
<1>3. Lacking(t, a)
  BY DEF Lacking
<1>4. Roomy(t, a)
  BY <1>1, RoomyFor
<1>5. PICK v, lo2, nx2 : LevelDone(RebalanceLevel(s), t, v, lv, lo2, nx2, loose, a, to)
  BY <1>2, <1>3, <1>4, LevelStep
<1>6. lv[a] + 1 = 1
  <2>1. lv[a] = 0
    BY <1>1 DEF Levels
  <2>. QED
    BY <2>1
<1> DEFINE r == RebalanceLevel(s)
<1>. HIDE DEF r
<1>7. LevelDone(r, t, v, lv, lo2, nx2, loose, a, to)
  BY <1>5 DEF r
<1>8. v.page = t.page /\ PagesHeld(t, v, a, to)
  BY <1>7 DEF LevelDone, LevelKept
<1>9. Climbing(r, t, v, lv, lo2, nx2, loose, a, to, 1)
  BY <1>6, <1>7, <1>8, Zenon DEF LevelDone, Climbing
<1>. QED
  BY <1>9 DEF ClimbAt, r

LEMMA ClimbGoesOn ==
  ASSUME NEW s, NEW t, NEW lv, NEW loose, NEW a, NEW to, NEW h \in Nat, ClimbAt(s, t, lv, loose, a, to, h)
  PROVE  ClimbAt(IF s.more THEN RebalanceLevel(s) ELSE s, t, lv, loose, a, to, h + 1)
<1>1. PICK v, lo, nx : Climbing(s, t, v, lv, lo, nx, loose, a, to, h)
  BY DEF ClimbAt
<1>2. CASE ~s.more
  <2>1. Climbing(s, t, v, lv, lo, nx, loose, a, to, h + 1)
    BY <1>1, <1>2, Zenon DEF Climbing
  <2>. QED
    BY <1>2, <2>1 DEF ClimbAt
<1>3. CASE s.more
  <2>1. s = [tree |-> s.tree, node |-> s.node, at |-> s.at, more |-> TRUE]
    <3>1. s.more = TRUE
      BY <1>1, <1>3, Zenon DEF Climbing
    <3>. QED
      BY <1>1, <3>1, Zenon DEF Climbing
  <2> DEFINE r == RebalanceLevel(s)
             z == s.tree
             n == s.node
             p == s.at
  <2>2. /\ Good(v, lv, lo, nx, loose, 0) /\ Roomy(v, p) /\ Pending(z, v, p, n) /\ Lacking(v, p)
        /\ v.page = t.page /\ PagesHeld(t, v, a, to) /\ ~Leaf(v, p) /\ lv[p] = h /\ v.root = t.root
    BY <1>1, <1>3, Zenon DEF Climbing
  <2>3. s = [tree |-> z, node |-> n, at |-> p, more |-> TRUE]
    BY <2>1
  <2>. HIDE DEF z, n, p
  <2>4. PICK w, lo2, nx2 : LevelDone(RebalanceLevel(s), v, w, lv, lo2, nx2, loose, p, LeafTo(z, n, p))
    BY <2>2, <2>3, LevelStep
  <2>. HIDE DEF r
  <2>5. LevelDone(r, v, w, lv, lo2, nx2, loose, p, LeafTo(z, n, p))
    BY <2>4 DEF r
  <2>6. w.page = t.page /\ LeavesKept(v, w)
    BY <2>2, <2>5 DEF LevelDone, LevelKept
  <2>7. PagesHeld(t, w, a, to)
    BY <2>2, <2>6, KeptFurther
  <2>8. lv[p] + 1 = h + 1
    BY <2>2
  <2>9. r.more => w.root = t.root
    BY <2>2, <2>5, Zenon DEF LevelDone
  <2>10. Climbing(r, t, w, lv, lo2, nx2, loose, a, to, h + 1)
    BY <2>5, <2>6, <2>7, <2>8, <2>9, Zenon DEF LevelDone, Climbing
  <2>. QED
    BY <1>3, <2>10 DEF ClimbAt, r
<1>. QED
  BY <1>2, <1>3

Rebalanced(t, v, loose, a, to) ==
  /\ v.page = t.page /\ PagesHeld(t, v, a, to) /\ Roomy(v, 0)
  /\ \E lv, lo, nx : Good(v, lv, lo, nx, loose, 0)

LEMMA RebalanceKeeps ==
  ASSUME NEW t, NEW a, NEW lv, NEW lo, NEW nx, NEW loose,
         Good(t, lv, lo, nx, loose, 0), Roomy(t, 0), a \in Nodes(t), Leaf(t, a), a # t.root, Len(Kids(t, a)) = HalfM
  PROVE  Rebalanced(t, BalanceTreeDelete(t, t.node[a], a).tree, loose, a, LeafTo(t, t.node[a], a))
<1> DEFINE n == Cardinality(Nodes(t))
           to == LeafTo(t, t.node[a], a)
<1>1. n \in Nat /\ lv[t.root] \in Nat /\ lv[t.root] < n
  BY Height DEF Good
<1>2. n = Cardinality(DOMAIN t.node)
  BY DEF Nodes
<1>. HIDE DEF n, to
<1>3. PICK f : /\ BalanceTreeDelete(t, t.node[a], a).tree = f[n].tree
               /\ f = [i \in 0 .. n |-> f[i]] /\ f[0] = [tree |-> t, node |-> t.node[a], at |-> a, more |-> TRUE]
               /\ \A i \in 1 .. n : f[i] = (IF f[i - 1].more THEN RebalanceLevel(f[i - 1]) ELSE f[i - 1])
  BY <1>1, <1>2, RebalanceRuns
<1>4. 1 \in 1 .. n
  BY <1>1
<1>5. f[0].more = TRUE
  BY <1>3
<1>6. f[1] = RebalanceLevel(f[0])
  <2>1. f[1] = (IF f[1 - 1].more THEN RebalanceLevel(f[1 - 1]) ELSE f[1 - 1])
    BY <1>3, <1>4
  <2>2. 1 - 1 = 0
    OBVIOUS
  <2>. QED
    BY <2>1, <2>2, <1>5
<1>7. ClimbAt(f[1], t, lv, loose, a, to, 1)
  BY <1>3, <1>6, ClimbStarts DEF to
<1> DEFINE T == {i \in Nat : i = 0 \/ ClimbAt(f[i], t, lv, loose, a, to, i)}
<1>8. \A i \in 1 .. n : i - 1 \in T => i \in T
  <2>1. SUFFICES ASSUME NEW i \in 1 .. n, i - 1 \in T PROVE i = 0 \/ ClimbAt(f[i], t, lv, loose, a, to, i)
    OBVIOUS
  <2>2. CASE i = 1
    BY <2>2, <1>7
  <2>3. CASE i # 1
    <3>1. i - 1 \in Nat /\ i - 1 # 0 /\ (i - 1) + 1 = i
      BY <2>3
    <3>2. ClimbAt(f[i - 1], t, lv, loose, a, to, i - 1)
      BY <2>1, <3>1
    <3>3. ClimbAt(IF f[i - 1].more THEN RebalanceLevel(f[i - 1]) ELSE f[i - 1], t, lv, loose, a, to, (i - 1) + 1)
      BY <3>1, <3>2, ClimbGoesOn
    <3>. QED
      BY <1>3, <3>1, <3>3
  <2>. QED
    BY <2>2, <2>3
<1>9. 0 \in T
  OBVIOUS
<1>. HIDE DEF T
<1>10. 0 .. n \subseteq T
  BY <1>1, <1>8, <1>9, CountingUpTo
<1>11. ClimbAt(f[n], t, lv, loose, a, to, n)
  <2>1. n \in T /\ n # 0
    BY <1>1, <1>10
  <2>. QED
    BY <2>1 DEF T
<1>12. PICK v, lo2, nx2 : Climbing(f[n], t, v, lv, lo2, nx2, loose, a, to, n)
  BY <1>11 DEF ClimbAt
<1>13. ~f[n].more
  <2>1. SUFFICES ASSUME f[n].more PROVE FALSE
    OBVIOUS
  <2>2. Good(v, lv, lo2, nx2, loose, 0) /\ lv[f[n].at] = n /\ v.root = t.root /\ Lacking(v, f[n].at)
    BY <1>12, <2>1, Zenon DEF Climbing
  <2>3. f[n].at \in Nodes(v)
    BY <2>2 DEF Lacking
  <2>4. lv[f[n].at] <= lv[v.root]
    BY <2>2, <2>3, Height DEF Good
  <2>. QED
    BY <2>2, <2>4, <1>1
<1>14. f[n].tree = v /\ Roomy(v, 0) /\ Good(v, lv, lo2, nx2, loose, 0) /\ v.page = t.page /\ PagesHeld(t, v, a, to)
  BY <1>12, <1>13, Zenon DEF Climbing
<1>15. BalanceTreeDelete(t, t.node[a], a).tree = v
  BY <1>3, <1>14
<1>16. Rebalanced(t, v, loose, a, to)
  BY <1>14, Zenon DEF Rebalanced
<1>. QED
  BY <1>15, <1>16 DEF to

LEMMA RebalancedAt ==
  ASSUME NEW t, NEW n, NEW a
  PROVE  BalanceTreeDelete(t, n, a).at = LeafTo(t, n, a)
BY Zenon DEF BalanceTreeDelete, LeafTo
=============================================================================
